------------------------ MODULE SingleAdapterProofs ------------------------
(***************************************************************************)
(* What Delivery guarantees when the IM channel has one adapter, as        *)
(* deployed: a result that gets through the inbox finds its record active  *)
(* and in the attempt the result speaks of.  Delivery then implements      *)
(* NotificationPromise.  With two adapters both fail (run                  *)
(* DeliveryContradiction).                                                 *)
(***************************************************************************)
EXTENDS DeliveryProofs, DeliveryPromise

\* imTargetAdapters names one adapter.
OneAdapter == \A a, b \in Adapter : a = b

----------------------------------------------------------------------------
(* The invariant. *)

\* A confirmation of the attempt, or of a later one, was consumed.
Answered(id, attempt) ==
    \E seen \in resultInbox :
       seen.record = id /\ ResultVersion(seen) >= 2 * attempt

\* A dispatch that is not under way any more has been answered: the retry
\* count and the final status move by confirmations only.
PastIsAnswered ==
    \A id \in DOMAIN records : \A row \in DispatchesOf(id) :
       id.channel = "IM" =>
          \/ row.version > records[id].retry_count /\ IsActive(records[id])
          \/ Answered(id, row.version)

AnsweredInv == AttemptsAreSent /\ PastIsAnswered

\* The inbox lets through only what answers the attempt under way.
LEMMA FreshIsCurrent ==
    ASSUME OneAdapter, TypeInv, AllNumbered, AnsweredInv, NEW res \in results, Fresh(res)
    PROVE  /\ IsActive(records[res.record])
           /\ res.attempt = records[res.record].retry_count + 1
           /\ \A row \in DispatchesOf(res.record) :
                 row.version \in Nat /\ row.version <= res.attempt
<1> DEFINE id == res.record
           count == records[id].retry_count
<1>1. /\ id \in DOMAIN records /\ id.channel = "IM"
      /\ count \in Nat /\ res.attempt \in Nat
  BY ResultTypes DEF Record
<1>2. PICK row \in DispatchesOf(id) : row.version = res.attempt
  BY DEF AnsweredInv, AttemptsAreSent, SentAs
<1>3. ~Answered(id, res.attempt)
  <2>1. SUFFICES ASSUME NEW seen \in resultInbox, seen.record = id,
                        ResultVersion(seen) >= 2 * res.attempt
                 PROVE  FALSE
    BY DEF Answered
  <2>2. seen \in results
    BY DEF TypeInv, TypeOK
  <2>3. seen.adapter = res.adapter
    BY <2>2 DEF OneAdapter, TypeInv, TypeOK, Result
  <2>4. ResultVersion(seen) < ResultVersion(res)
    BY <2>1, <2>3 DEF Fresh
  <2>5. QED
    BY <1>1, <2>1, <2>2, <2>4, ResultVersionBounds
<1>4. res.attempt > count /\ IsActive(records[id])
  BY <1>1, <1>2, <1>3 DEF AnsweredInv, PastIsAnswered
<1>5. PICK last \in {count, count + 1} :
         {r.version : r \in DispatchesOf(id)} = 1 .. last
  BY <1>1 DEF AllNumbered, Numbered
<1>6. \A r \in DispatchesOf(id) : r.version \in 1 .. last
  BY <1>5
<1>7. res.attempt <= count + 1
  BY <1>1, <1>2, <1>6
<1>8. QED
  BY <1>1, <1>4, <1>6, <1>7

----------------------------------------------------------------------------
(* Preservation. *)

\* What was sent stays sent, and what was answered stays answered.
LEMMA HistoryStays ==
    ASSUME outbox \subseteq outbox', resultInbox \subseteq resultInbox',
           NEW id, NEW attempt
    PROVE  /\ SentAs(id, attempt) => SentAs(id, attempt)'
           /\ Answered(id, attempt) => Answered(id, attempt)'
<1>1. DispatchesOf(id) \subseteq DispatchesOf(id)'
  BY DEF DispatchesOf
<1>2. QED
  BY <1>1 DEF SentAs, Answered

\* A consumed confirmation answers its attempt and those before it.
LEMMA ConfirmationAnswers ==
    ASSUME TypeInv, NEW res \in results, HandleResult(res), res.phase = "CONFIRMED",
           NEW attempt \in Nat, attempt <= res.attempt
    PROVE  Answered(res.record, attempt)'
<1>1. res \in resultInbox'
  BY ResultEffect
<1>2. ResultVersion(res) = 2 * res.attempt /\ res.attempt \in Nat
  BY ResultVersionBounds, ResultTypes
<1>3. ResultVersion(res) >= 2 * attempt
  BY <1>2
<1>4. QED
  BY <1>1, <1>3 DEF Answered

\* The record of the result itself: a confirmation answers all its dispatches
\* but the retry it sends; anything else leaves count and dispatches alone.
LEMMA ResultKeepsAnswers ==
    ASSUME OneAdapter, TypeInv, AllNumbered, AnsweredInv,
           NEW res \in results, HandleResult(res),
           NEW row \in DispatchesOf(res.record)'
    PROVE  LET id == res.record
           IN  \/ row.version > records'[id].retry_count /\ IsActive(records'[id])
               \/ Answered(id, row.version)'
<1> DEFINE id  == res.record
           old == records[id]
           new == MarkRetrying(old, "ADAPTER")
<1>1. /\ id \in DOMAIN records /\ id.channel = "IM"
      /\ old \in Record /\ res.attempt \in Nat /\ new \in Record
      /\ new.retry_count = old.retry_count + 1 /\ old.retry_count \in Nat
  BY ResultTypes DEF Record
<1>2. /\ res.attempt = old.retry_count + 1
      /\ \A r \in DispatchesOf(id) : r.version \in Nat /\ r.version <= res.attempt
  BY FreshIsCurrent DEF HandleResult, AcceptResult, ConfirmSuccess,
     ConfirmPermanentFailure, RetryTooLate, RetryExhausted, RetryWithoutPhone,
     RetryRedispatch, IgnoreResult, RetryableFailure, Consume
<1>3. CASE res.phase # "CONFIRMED"
  <2>1. \/ Writes(id, old, {})
        \/ Writes(id, MarkAccepted(old, res.attempt), {})
    BY <1>3, ResultForms
  <2>2. row \in DispatchesOf(id)
    BY <2>1 DEF DispatchesOf, Writes
  <2>3. /\ records'[id].retry_count = old.retry_count
        /\ IsActive(records'[id]) <=> IsActive(old)
    <3>1. "ADAPTER" \in Reason
      BY DEF Reason
    <3>2. QED
      BY <1>1, <2>1, <3>1, MarksFields DEF Writes
  <2>4. \/ row.version > old.retry_count /\ IsActive(old)
        \/ Answered(id, row.version)
    BY <1>1, <2>2 DEF AnsweredInv, PastIsAnswered
  <2>5. Answered(id, row.version) => Answered(id, row.version)'
    <3>1. resultInbox \subseteq resultInbox'
      BY ResultEffect
    <3>2. QED
      BY <3>1 DEF Answered
  <2>6. QED
    BY <2>3, <2>4, <2>5
<1>4. CASE res.phase = "CONFIRMED" /\ row \in DispatchesOf(id)
  BY <1>2, <1>4, ConfirmationAnswers
<1>5. CASE res.phase = "CONFIRMED" /\ row \notin DispatchesOf(id)
  <2>1. IsActive(new) /\ new.retry_count + 1 > new.retry_count
    BY <1>1 DEF MarkRetrying, IsActive, Terminal, Record
  <2> HIDE DEF new
  <2>2. row \in outbox' \ outbox /\ IsDispatch(row)
    BY <1>5 DEF DispatchesOf
  <2>3. ~IsDispatch(Sent(id)) /\ ~IsDispatch(Failed(id))
    BY DEF IsDispatch, Sent, Failed
  <2>4. \A rec : /\ ~Writes(id, rec, {}) /\ ~Writes(id, rec, {Sent(id)})
                 /\ ~Writes(id, rec, {Failed(id)})
    BY <2>2, <2>3 DEF Writes
  <2>5. \E phone : Writes(id, new,
           {[subject |-> "dispatch.im", aggregate_id |-> id,
             version |-> new.retry_count + 1, to |-> phone]})
    BY <1>5, <2>4, ResultForms DEF new
  <2>6. records'[id] = new /\ row.version = new.retry_count + 1
    BY <2>2, <2>5 DEF Writes
  <2>7. QED
    BY <2>1, <2>6
<1>6. QED
  BY <1>3, <1>4, <1>5

\* No step leaves a past dispatch unanswered.
LEMMA AnswersNext ==
    ASSUME OneAdapter, TypeInv, AllNumbered, AnsweredInv, [Next]_vars
    PROVE  PastIsAnswered'
<1>1. ASSUME NEW res \in results, HandleResult(res) PROVE PastIsAnswered'
  <2>1. DOMAIN records' = DOMAIN records
    BY <1>1, ResultEffect
  <2>2. ASSUME NEW id \in DOMAIN records, id # res.record, id.channel = "IM",
               NEW row \in DispatchesOf(id)'
        PROVE  \/ row.version > records'[id].retry_count /\ IsActive(records'[id])
               \/ Answered(id, row.version)'
    <3>1. records'[id] = records[id] /\ row \in DispatchesOf(id)
      BY <1>1, <2>2, OthersKeep
    <3>2. Answered(id, row.version) => Answered(id, row.version)'
      <4>1. resultInbox \subseteq resultInbox'
        BY <1>1, ResultEffect
      <4>2. QED
        BY <4>1 DEF Answered
    <3>3. QED
      BY <2>2, <3>1, <3>2 DEF AnsweredInv, PastIsAnswered
  <2>3. QED
    BY <1>1, <2>1, <2>2, ResultKeepsAnswers DEF PastIsAnswered
<1>2. ASSUME NEW job \in jobs, TaskCommit(job) PROVE PastIsAnswered'
  <2> DEFINE list == ChannelsFor(job)
             ids  == NewIds(job.task, list)
             sent == Dispatched(job.contact, list, ids)
  <2>1. /\ DOMAIN records' = DOMAIN records \cup ids
        /\ \A id \in DOMAIN records :
              records'[id] = records[id] /\ DispatchesOf(id)' = DispatchesOf(id)
        /\ \A id \in ids :
              /\ records'[id] = NewRecord(id, job.contact, list)
              /\ DispatchesOf(id)' =
                    IF id \in sent
                    THEN {Dispatch(id, 1, AddressFor(id.channel, job.contact))}
                    ELSE {}
    BY <1>2, CommitAddsRecords, CommitDispatches
  <2>2. resultInbox' = resultInbox
    BY <1>2 DEF TaskCommit
  <2>3. \A id \in sent : /\ records'[id].retry_count = 0
                         /\ IsActive(records'[id])
    <3>1. \A id \in sent : id \in ids /\ ~IsEmpty(list)
                           /\ ~Undeliverable(id, job.contact)
      BY DEF Dispatched
    <3> HIDE DEF ids, sent, list
    <3>2. \A id \in sent : records'[id] = CreateRecord("PENDING")
      BY <2>1, <3>1 DEF NewRecord
    <3>3. CreateRecord("PENDING").retry_count = 0 /\ IsActive(CreateRecord("PENDING"))
      BY DEF CreateRecord, IsActive, Terminal
    <3>4. QED
      BY <3>2, <3>3
  <2> HIDE DEF ids, sent, list
  <2>4. ASSUME NEW id \in ids, NEW row \in DispatchesOf(id)'
        PROVE  row.version > records'[id].retry_count /\ IsActive(records'[id])
    <3>1. id \in sent /\ row.version = 1
      BY <2>1, <2>4 DEF Dispatch
    <3>2. QED
      BY <2>3, <3>1
  <2>5. ASSUME NEW id \in DOMAIN records, id.channel = "IM", NEW row \in DispatchesOf(id)'
        PROVE  \/ row.version > records'[id].retry_count /\ IsActive(records'[id])
               \/ Answered(id, row.version)'
    BY <2>1, <2>2, <2>5 DEF AnsweredInv, PastIsAnswered, Answered
  <2>6. QED
    BY <2>1, <2>4, <2>5 DEF PastIsAnswered
<1>3. CASE UNCHANGED database
  BY <1>3 DEF database, AnsweredInv, PastIsAnswered, DispatchesOf, Answered
<1>4. QED
  BY <1>1, <1>2, <1>3, HandlersOnly

\* The invariant the theorems of this module share.
SingleInv == TypeInv /\ AllNumbered /\ AnsweredInv

\* With one adapter, every past dispatch has been answered.
LEMMA SingleInvariant == ASSUME OneAdapter PROVE Spec => []SingleInv
<1>1. Init => SingleInv
  <2> SUFFICES ASSUME Init PROVE SingleInv
    OBVIOUS
  <2>1. DOMAIN records = {} /\ received = {} /\ results = {}
    BY DEF Init
  <2>2. QED
    BY <2>1, InitTypeInv DEF SingleInv, AllNumbered, AnsweredInv, AttemptsAreSent,
       PastIsAnswered
<1>2. SingleInv /\ [Next]_vars => SingleInv'
  BY NextTypeInv, NumberedNext, AttemptsNext, AnswersNext DEF SingleInv, AnsweredInv
<1>3. QED
  BY <1>1, <1>2, PTL DEF Spec

----------------------------------------------------------------------------
(* What a handled result finds, and the outcome that is announced. *)

\* Whatever gets through the inbox is about the attempt under way.
LEMMA HandledIsCurrent ==
    ASSUME OneAdapter, SingleInv, NEW res \in results, HandleResult(res)
    PROVE  /\ IsActive(records[res.record])
           /\ res.attempt = records[res.record].retry_count + 1
BY FreshIsCurrent DEF SingleInv, HandleResult, AcceptResult, ConfirmSuccess,
   ConfirmPermanentFailure, RetryTooLate, RetryExhausted, RetryWithoutPhone,
   RetryRedispatch, IgnoreResult, RetryableFailure, Consume

\* What AnnouncedOutcomeIsStored says of one row.
Told(row, rec) ==
    /\ row.subject = "sent" => rec.status = "SENT"
    /\ row.subject = "failed" => rec.status = "FAILED_PERMANENT"

\* The statement beside the announcement has matched.
LEMMA ResultTellsTruth ==
    ASSUME OneAdapter, SingleInv, NEW res \in results, HandleResult(res),
           NEW row \in outbox' \ outbox
    PROVE  Told(row, records'[res.record])
<1> DEFINE id  == res.record
           old == records[id]
           new == MarkRetrying(old, "ADAPTER")
<1>1. TypeInv /\ IsActive(old)
  BY HandledIsCurrent DEF SingleInv
<1>2. /\ old \in Record /\ new \in Record
      /\ {"ADAPTER", "EXHAUSTED"} \subseteq Reason
  BY <1>1, ResultTypes DEF Reason
<1>3. /\ MarkSent(old).status = "SENT"
      /\ MarkFailedPermanent(old, "ADAPTER").status = "FAILED_PERMANENT"
      /\ MarkFailedPermanent(new, "EXHAUSTED").status = "FAILED_PERMANENT"
  <2>1. 0 \in Nat /\ "ADAPTER" \in Reason /\ "EXHAUSTED" \in Reason
    BY <1>2
  <2>2. IsActive(new)
    BY <1>2, <2>1, MarksFields
  <2> HIDE DEF new
  <2>3. QED
    BY <1>1, <1>2, <2>1, <2>2, MarksFields
<1> HIDE DEF new
<1>4. row \in outbox' /\ row \notin outbox
  OBVIOUS
<1>5. CASE Writes(id, MarkSent(old), {Sent(id)})
  <2>1. row = Sent(id) /\ records'[id] = MarkSent(old)
    BY <1>4, <1>5 DEF Writes
  <2>2. row.subject = "sent"
    BY <2>1 DEF Sent
  <2>3. QED
    BY <1>3, <2>1, <2>2 DEF Told
<1>6. CASE \/ Writes(id, MarkFailedPermanent(old, "ADAPTER"), {Failed(id)})
           \/ Writes(id, MarkFailedPermanent(new, "EXHAUSTED"), {Failed(id)})
  <2>1. row = Failed(id) /\ records'[id].status = "FAILED_PERMANENT"
    BY <1>3, <1>4, <1>6 DEF Writes
  <2>2. row.subject = "failed"
    BY <2>1 DEF Failed
  <2>3. QED
    BY <2>1, <2>2 DEF Told
<1>7. CASE \E phone : Writes(id, new,
              {[subject |-> "dispatch.im", aggregate_id |-> id,
                version |-> new.retry_count + 1, to |-> phone]})
  <2>1. row.subject = "dispatch.im"
    BY <1>4, <1>7 DEF Writes
  <2>2. QED
    BY <2>1 DEF Told
<1>8. CASE outbox' = outbox
  BY <1>4, <1>8
<1>9. QED
  BY <1>1, <1>5, <1>6, <1>7, <1>8, ResultForms DEF new, Writes

\* No step makes an announcement untrue.
LEMMA ToldNext ==
    ASSUME OneAdapter, SingleInv, AnnouncedOutcomeIsStored, [Next]_vars
    PROVE  AnnouncedOutcomeIsStored'
<1>1. \A row \in outbox : /\ row.aggregate_id \in DOMAIN records
                          /\ Told(row, records[row.aggregate_id])
  BY DEF SingleInv, TypeInv, References, Told, AnnouncedOutcomeIsStored,
         AnnouncedSentIsSent
<1>2. SUFFICES ASSUME NEW row \in outbox' PROVE Told(row, records'[row.aggregate_id])
  BY DEF Told, AnnouncedOutcomeIsStored, AnnouncedSentIsSent
<1>3. ASSUME NEW job \in jobs, TaskCommit(job)
      PROVE  Told(row, records'[row.aggregate_id])
  <2>1. CASE row \in outbox
    BY <1>1, <1>3, <2>1, CommitAddsRecords DEF SingleInv
  <2>2. CASE row \notin outbox
    BY <1>2, <1>3, <2>2 DEF TaskCommit, Dispatch, DispatchSubject, Told
  <2>3. QED
    BY <2>1, <2>2
<1>4. ASSUME NEW res \in results, HandleResult(res)
      PROVE  Told(row, records'[row.aggregate_id])
  <2>1. CASE row \in outbox
    <3>1. CASE row.aggregate_id = res.record
      <4>1. IsActive(records[res.record])
        BY <1>4, HandledIsCurrent
      <4>2. row.subject # "sent" /\ row.subject # "failed"
        BY <1>1, <2>1, <3>1, <4>1 DEF Told, IsActive, Terminal
      <4>3. QED
        BY <4>2 DEF Told
    <3>2. CASE row.aggregate_id # res.record
      BY <1>1, <1>4, <2>1, <3>2, ResultEffect DEF SingleInv
    <3>3. QED
      BY <3>1, <3>2
  <2>2. CASE row \notin outbox
    BY <1>2, <1>4, <2>2, ResultEffect, ResultTellsTruth DEF SingleInv
  <2>3. QED
    BY <2>1, <2>2
<1>5. CASE UNCHANGED database
  BY <1>1, <1>2, <1>5 DEF database
<1>6. QED
  BY <1>3, <1>4, <1>5, HandlersOnly

\* With one adapter, whatever it repeats or delays, sent.v1 and failed.v1 say
\* what the record says, although the handlers announce without looking.
THEOREM OutcomesAreStored == ASSUME OneAdapter PROVE Spec => []AnnouncedOutcomeIsStored
<1>1. Init => AnnouncedOutcomeIsStored
  BY DEF Init, AnnouncedOutcomeIsStored, AnnouncedSentIsSent
<1>2. SingleInv /\ AnnouncedOutcomeIsStored /\ [Next]_vars => AnnouncedOutcomeIsStored'
  BY ToldNext
<1>3. QED
  BY <1>1, <1>2, SingleInvariant, PTL DEF Spec

----------------------------------------------------------------------------
(* The attempt an acceptance belongs to. *)

\* What AcceptedIsCurrentAttempt says of one record.
AcceptedNow(rec) ==
    rec.status = "ACCEPTED" => rec.external_task_id = rec.retry_count + 1

\* Only an acceptance of the attempt under way is written down, and a retry
\* takes the record out of ACCEPTED.
LEMMA ResultKeepsAccepted ==
    ASSUME OneAdapter, SingleInv, NEW res \in results, HandleResult(res),
           AcceptedNow(records[res.record])
    PROVE  AcceptedNow(records'[res.record])
<1> DEFINE id  == res.record
           old == records[id]
           new == MarkRetrying(old, "ADAPTER")
<1>1. /\ TypeInv /\ res.attempt = old.retry_count + 1
  BY HandledIsCurrent DEF SingleInv
<1>2. /\ old \in Record /\ new \in Record /\ res.attempt \in Nat
      /\ "ADAPTER" \in Reason /\ "EXHAUSTED" \in Reason /\ "NO_CONTACT" \in Reason
  BY <1>1, ResultTypes DEF Reason
<1>3. AcceptedNow(MarkAccepted(old, res.attempt))
  BY <1>1, <1>2 DEF AcceptedNow, MarkAccepted, Record
<1>4. /\ MarkSent(old).status # "ACCEPTED" /\ new.status # "ACCEPTED"
      /\ MarkFailedPermanent(old, "ADAPTER").status # "ACCEPTED"
  BY <1>2, MarksFields
<1> HIDE DEF new
<1>5. /\ MarkFailedPermanent(new, "EXHAUSTED").status # "ACCEPTED"
      /\ MarkFailedPermanent(new, "NO_CONTACT").status # "ACCEPTED"
  BY <1>2, MarksFields
<1>6. records'[id] \in {old, MarkAccepted(old, res.attempt), MarkSent(old), new,
                        MarkFailedPermanent(old, "ADAPTER"),
                        MarkFailedPermanent(new, "EXHAUSTED"),
                        MarkFailedPermanent(new, "NO_CONTACT")}
  BY <1>1, ResultForms DEF Writes, new
<1>7. QED
  BY <1>3, <1>4, <1>5, <1>6 DEF AcceptedNow

\* No step leaves the task id of an older attempt on an accepted record.
LEMMA AcceptedNext ==
    ASSUME OneAdapter, SingleInv, AcceptedIsCurrentAttempt, [Next]_vars
    PROVE  AcceptedIsCurrentAttempt'
<1>1. TypeInv /\ \A id \in DOMAIN records : AcceptedNow(records[id])
  BY DEF SingleInv, AcceptedIsCurrentAttempt, AcceptedNow
<1>2. SUFFICES ASSUME NEW id \in DOMAIN records' PROVE AcceptedNow(records'[id])
  BY DEF AcceptedIsCurrentAttempt, AcceptedNow
<1>3. ASSUME NEW job \in jobs, TaskCommit(job) PROVE AcceptedNow(records'[id])
  <2>1. \/ id \in DOMAIN records /\ records'[id] = records[id]
        \/ records'[id] = NewRecord(id, job.contact, ChannelsFor(job))
    BY <1>1, <1>2, <1>3, CommitAddsRecords
  <2>2. NewRecord(id, job.contact, ChannelsFor(job)).status # "ACCEPTED"
    BY DEF NewRecord, CreateRecord, MarkFailedPermanent, IsActive, Terminal
  <2>3. QED
    BY <1>1, <2>1, <2>2 DEF AcceptedNow
<1>4. ASSUME NEW res \in results, HandleResult(res) PROVE AcceptedNow(records'[id])
  <2>1. id \in DOMAIN records /\ (id # res.record => records'[id] = records[id])
    BY <1>1, <1>2, <1>4, ResultEffect
  <2>2. QED
    BY <1>1, <1>4, <2>1, ResultKeepsAccepted
<1>5. CASE UNCHANGED database
  BY <1>1, <1>2, <1>5 DEF database
<1>6. QED
  BY <1>3, <1>4, <1>5, HandlersOnly

\* With one adapter, the external task id of an accepted record is that of the
\* attempt under way: a late acceptance of an earlier one never gets through.
THEOREM AcceptancesAreCurrent == ASSUME OneAdapter PROVE Spec => []AcceptedIsCurrentAttempt
<1>1. Init => AcceptedIsCurrentAttempt
  BY DEF Init, AcceptedIsCurrentAttempt
<1>2. SingleInv /\ AcceptedIsCurrentAttempt /\ [Next]_vars => AcceptedIsCurrentAttempt'
  BY AcceptedNext
<1>3. QED
  BY <1>1, <1>2, SingleInvariant, PTL DEF Spec

----------------------------------------------------------------------------
(* The implementation of NotificationPromise: the parts of a note. *)

\* The stage of a record is that of its status.
LEMMA Stages ==
    ASSUME NEW rec \in Record
    PROVE  /\ StageFor(rec) = "open" <=> IsActive(rec)
           /\ rec.status = "SENT" => StageFor(rec) = "sent"
           /\ rec.status = "FAILED_PERMANENT" => StageFor(rec) = "failed"
           /\ rec.status = "SUPPRESSED" => StageFor(rec) = "suppressed"
           /\ StageFor(rec) \in {"open", "sent", "failed", "suppressed"}
BY DEF StageFor, IsActive, Terminal, Record, Status

\* Where nothing was written there is no note.
LEMMA AbsentNote ==
    ASSUME TypeInv, NEW id \in RecordId, id \notin DOMAIN records
    PROVE  NoteOf(id) = P!Absent
<1>1. \A row \in outbox : row.aggregate_id # id
  BY DEF TypeInv, References
<1>2. AttemptsOf(id) = {} /\ ToldOf(id) = {} /\ StageOf(id) = "absent"
  BY <1>1 DEF AttemptsOf, ToldOf, StageOf, DispatchesOf
<1>3. QED
  BY <1>2 DEF NoteOf, P!Absent

\* Of an active record nobody has been told anything yet.
LEMMA OpenNote ==
    ASSUME SingleInv, AnnouncedOutcomeIsStored, NEW id \in DOMAIN records,
           IsActive(records[id]), id.channel = "IM"
    PROVE  /\ ToldOf(id) = {}
           /\ AttemptsOf(id) = 1 .. records[id].retry_count + 1
           /\ StageOf(id) = "open"
<1>1. \A row \in outbox : row.aggregate_id = id => row.subject \notin {"sent", "failed"}
  BY DEF AnnouncedOutcomeIsStored, AnnouncedSentIsSent, IsActive, Terminal
<1>2. AttemptsOf(id) = 1 .. records[id].retry_count + 1
  BY DEF SingleInv, AllNumbered, Numbered, AttemptsOf
<1>3. StageOf(id) = "open"
  BY Stages DEF SingleInv, TypeInv, TypeOK, StageOf
<1>4. QED
  BY <1>1, <1>2, <1>3 DEF ToldOf

\* The first announcement of a record is then the one told.
LEMMA ToldOnce ==
    ASSUME NEW id, NEW subject \in {"sent", "failed"}, NEW row,
           row.subject = subject, row.aggregate_id = id,
           outbox' = outbox \cup {row},
           \A r \in outbox : r.aggregate_id = id => r.subject \notin {"sent", "failed"}
    PROVE  ToldOf(id)' = {subject}
<1>1. subject \in ToldOf(id)'
  BY DEF ToldOf
<1>2. ASSUME NEW s \in ToldOf(id)' PROVE s = subject
  <2>1. PICK r \in outbox' : r.aggregate_id = id /\ r.subject = s
    BY <1>2 DEF ToldOf
  <2>2. s \in {"sent", "failed"}
    BY <1>2 DEF ToldOf
  <2>3. QED
    BY <2>1, <2>2
<1>3. QED
  BY <1>1, <1>2

----------------------------------------------------------------------------
(* The steps. *)

\* The note of a record that a step leaves alone stays.
LEMMA SameNote ==
    ASSUME NEW id \in RecordId,
           id \in DOMAIN records' <=> id \in DOMAIN records,
           id \in DOMAIN records => records'[id] = records[id],
           outbox \subseteq outbox',
           \A row \in outbox' \ outbox : row.aggregate_id # id
    PROVE  NoteOf(id)' = NoteOf(id)
<1>1. StageOf(id)' = StageOf(id)
  BY DEF StageOf, StageFor
<1>2. DispatchesOf(id)' = DispatchesOf(id)
  BY DEF DispatchesOf
<1>3. AttemptsOf(id)' = AttemptsOf(id)
  BY <1>2 DEF AttemptsOf
<1>4. ToldOf(id)' = ToldOf(id)
  BY DEF ToldOf
<1>5. QED
  BY <1>1, <1>3, <1>4 DEF NoteOf

\* A task opens the notes of the records it creates, and touches no other.
LEMMA CommitNote ==
    ASSUME TypeInv, NEW job \in jobs, TaskCommit(job), NEW id \in RecordId
    PROVE  P!Evolves(NoteOf(id), NoteOf(id)')
<1> DEFINE list == ChannelsFor(job)
           ids  == NewIds(job.task, list)
           sent == Dispatched(job.contact, list, ids)
           rows == {Dispatch(i, 1, AddressFor(i.channel, job.contact)) : i \in sent}
<1>1. /\ ids \cap DOMAIN records = {}
      /\ DOMAIN records' = DOMAIN records \cup ids
      /\ \A i \in DOMAIN records : records'[i] = records[i]
      /\ \A i \in ids : records'[i] = NewRecord(i, job.contact, list)
  BY CommitAddsRecords
<1>2. outbox' = outbox \cup rows /\ sent \subseteq ids
  BY DEF TaskCommit, Dispatched
<1>3. \A row \in rows : /\ row.subject \notin {"sent", "failed"}
                        /\ row.aggregate_id \in ids
  BY <1>2 DEF Dispatch, DispatchSubject
<1>4. \A i \in ids : DispatchesOf(i)' =
         IF i \in sent THEN {Dispatch(i, 1, AddressFor(i.channel, job.contact))} ELSE {}
  BY CommitDispatches
<1> HIDE DEF ids, rows, sent, list
<1>5. CASE id \notin ids
  <2>1. NoteOf(id)' = NoteOf(id)
    BY <1>1, <1>2, <1>3, <1>5, SameNote
  <2>2. QED
    BY <2>1 DEF P!Evolves
<1>6. CASE id \in ids
  <2> DEFINE rec == NewRecord(id, job.contact, list)
  <2>1. NoteOf(id) = P!Absent
    BY <1>1, <1>6, AbsentNote
  <2>2. \A row \in outbox' : row.aggregate_id = id => row.subject \notin {"sent", "failed"}
    <3>1. \A row \in outbox : row.aggregate_id # id
      BY <1>1, <1>6 DEF TypeInv, References
    <3>2. QED
      BY <1>2, <1>3, <3>1
  <2>3. ToldOf(id)' = {}
    BY <2>2 DEF ToldOf
  <2>4. AttemptsOf(id)' = IF id \in sent THEN {1} ELSE {}
    <3>1. CASE id \in sent
      <4>1. DispatchesOf(id)' = {Dispatch(id, 1, AddressFor(id.channel, job.contact))}
        BY <1>4, <1>6, <3>1
      <4>2. QED
        BY <3>1, <4>1 DEF AttemptsOf, Dispatch
    <3>2. CASE id \notin sent
      BY <1>4, <1>6, <3>2 DEF AttemptsOf
    <3>3. QED
      BY <3>1, <3>2
  <2>5. StageOf(id)' = StageFor(rec) /\ rec \in Record
    BY <1>1, <1>6, NewRecordType DEF StageOf
  <2>6. id \in sent => ~IsEmpty(list) /\ ~Undeliverable(id, job.contact)
    BY DEF sent, Dispatched
  <2>7. \/ id \notin sent /\ StageFor(rec) \in {"failed", "suppressed"}
        \/ StageFor(rec) = "open"
    <3>1. rec.status \in {"SUPPRESSED", "FAILED_PERMANENT", "PENDING"}
      BY DEF NewRecord, CreateRecord, MarkFailedPermanent, IsActive, Terminal
    <3>2. id \in sent => rec.status = "PENDING"
      BY <2>6 DEF NewRecord, CreateRecord
    <3>3. rec.status = "PENDING" => IsActive(rec)
      BY DEF IsActive, Terminal
    <3> HIDE DEF rec
    <3>4. QED
      BY <2>5, <3>1, <3>2, <3>3, Stages
  <2> HIDE DEF rec
  <2>8. P!Opens(NoteOf(id), NoteOf(id)')
    BY <2>1, <2>3, <2>4, <2>5, <2>7 DEF P!Opens, NoteOf
  <2>9. QED
    BY <2>8 DEF P!Evolves
<1>7. QED
  BY <1>5, <1>6

\* A result moves the note of its record as the promise allows.
LEMMA ResultNote ==
    ASSUME OneAdapter, SingleInv, SingleInv', AnnouncedOutcomeIsStored,
           NEW res \in results, HandleResult(res), NEW id \in RecordId, id = res.record
    PROVE  P!Evolves(NoteOf(id), NoteOf(id)')
<1> DEFINE old  == records[id]
           new  == MarkRetrying(old, "ADAPTER")
           last == old.retry_count + 1
           note == NoteOf(id)
<1>1. TypeInv /\ IsActive(old)
  BY HandledIsCurrent DEF SingleInv
<1>2. /\ id \in DOMAIN records /\ id.channel = "IM"
      /\ old \in Record /\ new \in Record
      /\ old.retry_count \in Nat /\ new.retry_count = last
      /\ "ADAPTER" \in Reason /\ "EXHAUSTED" \in Reason /\ "NO_CONTACT" \in Reason
      /\ res.attempt \in Nat
  BY <1>1, ResultTypes DEF Record, Reason
<1>3. note = [stage |-> "open", attempts |-> 1 .. last, told |-> {}]
  BY <1>1, <1>2, OpenNote DEF NoteOf
<1>4. 1 .. last # {} /\ last \in Nat
  <2>1. last \in Nat /\ 1 \in 1 .. last
    BY <1>2
  <2>2. QED
    BY <2>1
<1>5. id \in DOMAIN records' /\ records'[id] \in Record
  BY <1>1, <1>2, ResultEffect DEF SingleInv, TypeInv, TypeOK
<1>6. StageOf(id)' = StageFor(records'[id])
  BY <1>5 DEF StageOf
<1>7. \A row \in outbox : row.aggregate_id = id => row.subject \notin {"sent", "failed"}
  BY <1>1, <1>2, <1>3 DEF NoteOf, ToldOf
<1> HIDE DEF new, note
<1>8. ASSUME NEW rows, rows = {} \/ rows = {Sent(id)} \/ rows = {Failed(id)},
             outbox' = outbox \cup rows
      PROVE  AttemptsOf(id)' = AttemptsOf(id)
  BY <1>8, OutcomesAreNoDispatches DEF AttemptsOf
<1>9. AttemptsOf(id) = 1 .. last
  BY <1>3 DEF note, NoteOf
<1>10. ASSUME outbox' = outbox, IsActive(records'[id]) PROVE NoteOf(id)' = note
  <2>1. ToldOf(id)' = {} /\ StageOf(id)' = "open"
    BY <1>5, <1>6, <1>7, <1>10, Stages DEF ToldOf
  <2>2. AttemptsOf(id)' = 1 .. last
    <3>1. outbox' = outbox \cup {}
      BY <1>10
    <3>2. QED
      BY <1>8, <1>9, <3>1
  <2>3. QED
    BY <1>3, <2>1, <2>2 DEF NoteOf
<1>11. CASE \/ Writes(id, old, {})
            \/ Writes(id, MarkAccepted(old, res.attempt), {})
  <2>1. IsActive(MarkAccepted(old, res.attempt))
    BY <1>1, <1>2, MarksFields
  <2>2. outbox' = outbox /\ IsActive(records'[id])
    BY <1>1, <1>11, <2>1 DEF Writes
  <2>3. QED
    BY <1>10, <2>2 DEF P!Evolves, note
<1>12. CASE Writes(id, MarkSent(old), {Sent(id)})
  <2>1. records'[id].status = "SENT" /\ outbox' = outbox \cup {Sent(id)}
    BY <1>1, <1>2, <1>12, MarksFields DEF Writes
  <2>2. StageOf(id)' = "sent"
    BY <1>5, <1>6, <2>1, Stages
  <2>3. ToldOf(id)' = {"sent"}
    <3>1. Sent(id).subject = "sent" /\ Sent(id).aggregate_id = id
      BY DEF Sent
    <3>2. QED
      BY <1>7, <2>1, <3>1, ToldOnce
  <2>4. AttemptsOf(id)' = 1 .. last
    BY <1>8, <1>9, <2>1
  <2>5. P!Succeeds(note, NoteOf(id)')
    <3>1. NoteOf(id)' = [stage |-> "sent", attempts |-> 1 .. last, told |-> {"sent"}]
      BY <2>2, <2>3, <2>4 DEF NoteOf
    <3>2. note.stage = "open" /\ note.attempts = 1 .. last /\ note.attempts # {}
      BY <1>3, <1>4
    <3>3. QED
      BY <3>1, <3>2 DEF P!Succeeds
  <2>6. QED
    BY <2>5 DEF P!Evolves, note
<1>13. CASE \/ Writes(id, MarkFailedPermanent(old, "ADAPTER"), {Failed(id)})
            \/ Writes(id, MarkFailedPermanent(new, "EXHAUSTED"), {Failed(id)})
  <2>1. IsActive(new)
    BY <1>2, MarksFields DEF new
  <2>2. records'[id].status = "FAILED_PERMANENT" /\ outbox' = outbox \cup {Failed(id)}
    BY <1>1, <1>2, <1>13, <2>1, MarksFields DEF Writes
  <2>3. StageOf(id)' = "failed"
    BY <1>5, <1>6, <2>2, Stages
  <2>4. ToldOf(id)' = {"failed"}
    <3>1. Failed(id).subject = "failed" /\ Failed(id).aggregate_id = id
      BY DEF Failed
    <3>2. QED
      BY <1>7, <2>2, <3>1, ToldOnce
  <2>5. AttemptsOf(id)' = 1 .. last
    BY <1>8, <1>9, <2>2
  <2>6. P!GivesUp(note, NoteOf(id)')
    <3>1. NoteOf(id)' = [stage |-> "failed", attempts |-> 1 .. last, told |-> {"failed"}]
      BY <2>3, <2>4, <2>5 DEF NoteOf
    <3>2. note.stage = "open" /\ note.attempts = 1 .. last /\ note.attempts # {}
      BY <1>3, <1>4
    <3>3. QED
      BY <3>1, <3>2 DEF P!GivesUp
  <2>7. QED
    BY <2>6 DEF P!Evolves, note
<1>14. CASE ~Exhausted(last) /\ Writes(id, MarkFailedPermanent(new, "NO_CONTACT"), {})
  <2>1. IsActive(new)
    BY <1>2, MarksFields DEF new
  <2>2. records'[id].status = "FAILED_PERMANENT" /\ outbox' = outbox
    BY <1>2, <1>14, <2>1, MarksFields DEF Writes
  <2>3. StageOf(id)' = "failed" /\ ToldOf(id)' = {}
    BY <1>5, <1>6, <1>7, <2>2, Stages DEF ToldOf
  <2>4. AttemptsOf(id)' = 1 .. last
    <3>1. outbox' = outbox \cup {}
      BY <2>2
    <3>2. QED
      BY <1>8, <1>9, <3>1
  <2>5. MaxRetries + 1 \notin 1 .. last
    BY <1>4, <1>14, MaxRetriesAssumption DEF Exhausted
  <2>6. P!GivesUp(note, NoteOf(id)')
    <3>1. NoteOf(id)' = [stage |-> "failed", attempts |-> 1 .. last, told |-> {}]
      BY <2>3, <2>4 DEF NoteOf
    <3>2. /\ note.stage = "open" /\ note.attempts = 1 .. last /\ note.attempts # {}
          /\ MaxRetries + 1 \notin note.attempts
      BY <1>3, <1>4, <2>5
    <3>3. QED
      BY <3>1, <3>2 DEF P!GivesUp
  <2>7. QED
    BY <2>6 DEF P!Evolves, note
<1>15. ASSUME NEW phone,
              Writes(id, new, {[subject |-> "dispatch.im", aggregate_id |-> id,
                                version |-> last + 1, to |-> phone]})
       PROVE  P!Evolves(NoteOf(id), NoteOf(id)')
  <2> DEFINE row == [subject |-> "dispatch.im", aggregate_id |-> id,
                     version |-> last + 1, to |-> phone]
  <2>1. outbox' = outbox \cup {row} /\ records'[id] = new /\ IsActive(new)
    BY <1>2, <1>15, MarksFields DEF Writes, new
  <2>2. DispatchesOf(id)' = DispatchesOf(id) \cup {row}
    BY <2>1, RetryIsDispatch
  <2>3. AttemptsOf(id)' = AttemptsOf(id) \cup {last + 1}
    <3>1. row.version = last + 1
      OBVIOUS
    <3> HIDE DEF row
    <3>2. QED
      BY <2>2, <3>1 DEF AttemptsOf
  <2>4. AttemptsOf(id)' = 1 .. last + 1
    BY <1>4, <1>9, <2>3
  <2>5. StageOf(id)' = "open" /\ ToldOf(id)' = {}
    BY <1>5, <1>6, <1>7, <2>1, Stages DEF ToldOf
  <2>6. last \in 1 .. MaxRetries
    <3>1. last + 1 \in Attempt
      BY <2>1 DEF SingleInv, TypeInv, TypeOK, Row
    <3>2. QED
      BY <1>2, <3>1, MaxRetriesAssumption DEF Attempt
  <2>7. P!Retries(note, NoteOf(id)')
    <3>1. NoteOf(id)' = [stage |-> "open", attempts |-> 1 .. last + 1, told |-> {}]
      BY <2>4, <2>5 DEF NoteOf
    <3>2. note.stage = "open" /\ note.attempts = 1 .. last
      BY <1>3
    <3>3. last \in 1 .. (MaxRetries + 1) - 1
      BY <2>6, MaxRetriesAssumption
    <3>4. QED
      BY <3>1, <3>2, <3>3 DEF P!Retries
  <2>8. QED
    BY <2>7 DEF P!Evolves, note
<1>16. QED
  BY <1>1, <1>2, <1>11, <1>12, <1>13, <1>14, <1>15, ResultForms DEF new

\* Every step of Delivery is a step of the promise.
LEMMA PromiseNext ==
    ASSUME OneAdapter, SingleInv, SingleInv', AnnouncedOutcomeIsStored, [Next]_vars
    PROVE  \A id \in RecordId : P!Evolves(NoteOf(id), NoteOf(id)')
<1> SUFFICES ASSUME NEW id \in RecordId PROVE P!Evolves(NoteOf(id), NoteOf(id)')
  OBVIOUS
<1>1. ASSUME NEW job \in jobs, TaskCommit(job)
      PROVE  P!Evolves(NoteOf(id), NoteOf(id)')
  BY <1>1, CommitNote DEF SingleInv
<1>2. ASSUME NEW res \in results, HandleResult(res)
      PROVE  P!Evolves(NoteOf(id), NoteOf(id)')
  <2>1. CASE id = res.record
    BY <1>2, <2>1, ResultNote
  <2>2. CASE id # res.record
    <3>1. /\ DOMAIN records' = DOMAIN records
          /\ id \in DOMAIN records => records'[id] = records[id]
          /\ outbox \subseteq outbox'
          /\ \A row \in outbox' \ outbox : row.aggregate_id # id
      BY <1>2, <2>2, ResultEffect DEF SingleInv
    <3>2. NoteOf(id)' = NoteOf(id)
      BY <3>1, SameNote
    <3>3. QED
      BY <3>2 DEF P!Evolves
  <2>3. QED
    BY <2>1, <2>2
<1>3. CASE UNCHANGED database
  <2>1. NoteOf(id)' = NoteOf(id)
    BY <1>3, SameNote DEF database
  <2>2. QED
    BY <2>1 DEF P!Evolves
<1>4. QED
  BY <1>1, <1>2, <1>3, HandlersOnly

\* The tables, read as notes, are notes.
NotesTyped == \A id \in RecordId : NoteOf(id) \in P!Note

\* The notes of the strengthening are typed.
LEMMA NoteType == TypeInv => NotesTyped
<1> SUFFICES ASSUME TypeInv, NEW id \in RecordId PROVE NoteOf(id) \in P!Note
  BY DEF NotesTyped
<1>1. AttemptsOf(id) \subseteq 1 .. MaxRetries + 1
  BY DEF AttemptsOf, DispatchesOf, TypeInv, TypeOK, Row, Attempt
<1>2. ToldOf(id) \subseteq P!Told
  BY DEF ToldOf, P!Told
<1>3. StageOf(id) \in {"absent", "open", "sent", "failed", "suppressed"}
  BY Stages DEF StageOf, TypeInv, TypeOK
<1>4. QED
  BY <1>1, <1>2, <1>3 DEF NoteOf, P!Note

\* With one adapter the tables of the component keep its promise: every
\* record is opened once, its attempts follow each other up to the limit, it
\* ends once, and the events announce exactly what was stored.
THEOREM DeliveryKeepsPromise == ASSUME OneAdapter PROVE Spec => KeepsPromise
<1> DEFINE notes == [id \in RecordId |-> NoteOf(id)]
<1>1. Init => P!Init
  <2> SUFFICES ASSUME Init PROVE P!Init
    OBVIOUS
  <2>1. TypeInv /\ DOMAIN records = {}
    BY InitTypeInv DEF Init
  <2>2. \A id \in RecordId : NoteOf(id) = P!Absent
    BY <2>1, AbsentNote
  <2>3. QED
    BY <2>2 DEF P!Init
<1>2. /\ SingleInv /\ SingleInv' /\ NotesTyped' /\ AnnouncedOutcomeIsStored
      /\ [Next]_vars
      => [P!Next]_notes
  <2> SUFFICES ASSUME SingleInv, SingleInv', NotesTyped', AnnouncedOutcomeIsStored,
                      [Next]_vars
               PROVE  P!Next
    OBVIOUS
  <2>1. \A id \in RecordId : P!Evolves(NoteOf(id), NoteOf(id)')
    BY PromiseNext
  <2>2. \A id \in RecordId : NoteOf(id)' \in P!Note
    BY DEF NotesTyped
  <2>3. QED
    BY <2>1, <2>2 DEF P!Next
<1>3. SingleInv => NotesTyped
  BY NoteType DEF SingleInv
<1>4. QED
  BY <1>1, <1>2, <1>3, SingleInvariant, OutcomesAreStored, PTL
     DEF Spec, KeepsPromise, P!Spec
=============================================================================
