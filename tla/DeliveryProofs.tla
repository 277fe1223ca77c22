--------------------------- MODULE DeliveryProofs ---------------------------
(***************************************************************************)
(* What Delivery guarantees for every set of tasks, users, adapters and    *)
(* preference documents, and for every limit of retries.                   *)
(***************************************************************************)
EXTENDS Delivery, TLAPS

\* Rows, dispatches and results speak of records that exist, those of the IM
\* subjects of IM records; a record belongs to a consumed task and the task
\* in flight is not consumed yet.
References ==
    /\ \A row \in outbox : row.aggregate_id \in DOMAIN records
    /\ \A row \in outbox :
          row.subject = "dispatch.im" => row.aggregate_id.channel = "IM"
    /\ \A d \in received : d.record \in DOMAIN records /\ d.record.channel = "IM"
    /\ \A res \in results : res.record \in DOMAIN records /\ res.record.channel = "IM"
    /\ \A id \in DOMAIN records : id.task \in taskInbox
    /\ \A job \in jobs : job.task \notin taskInbox

TypeInv == TypeOK /\ References

----------------------------------------------------------------------------
(* The operators on records and preferences. *)

\* Every statement of the repository turns a record into a record.
LEMMA MarksAreRecords ==
    ASSUME NEW rec \in Record, NEW n \in Nat, NEW reason \in Reason
    PROVE  /\ MarkAccepted(rec, n) \in Record
           /\ MarkSent(rec) \in Record
           /\ MarkFailedPermanent(rec, reason) \in Record
           /\ MarkRetrying(rec, reason) \in Record
           /\ MarkRetrying(rec, reason).retry_count = rec.retry_count + 1
<1>1. MarkAccepted(rec, n) \in Record
  BY DEF Record, Status, MarkAccepted
<1>2. MarkSent(rec) \in Record
  BY DEF Record, Status, MarkSent
<1>3. MarkFailedPermanent(rec, reason) \in Record
  BY DEF Record, Status, MarkFailedPermanent
<1>4. rec.retry_count + 1 \in Nat
  BY DEF Record
<1>5. /\ MarkRetrying(rec, reason) \in Record
      /\ MarkRetrying(rec, reason).retry_count = rec.retry_count + 1
  BY <1>4 DEF Record, Status, MarkRetrying
<1>6. QED
  BY <1>1, <1>2, <1>3, <1>5

\* A retry that is not refused stays within the budget of attempts.
LEMMA RetryIsAttempt ==
    ASSUME NEW count \in Nat, ~Exhausted(count)
    PROVE  AttemptAfter(count) \in Attempt
BY MaxRetriesAssumption DEF Exhausted, AttemptAfter, Attempt

\* A user who stored nothing has a well-typed empty layer.
LEMMA UnsetType == Unset \in Layer
BY MaxCopiesAssumption DEF Unset, Layer, ChannelList, NoChannels

\* How one handled result may rewrite a record: not at all once it is final,
\* and never to SUPPRESSED.
Progress(old, new) ==
    /\ ~IsActive(old) => new = old
    /\ new.status = "SUPPRESSED" => old.status = "SUPPRESSED"

\* Each statement of the repository, and each pair of them a handler runs, is
\* such a rewriting of an active or final record.
LEMMA MarksProgress ==
    ASSUME NEW rec \in Record, NEW n \in Nat, NEW r1 \in Reason, NEW r2 \in Reason
    PROVE  /\ Progress(rec, rec)
           /\ Progress(rec, MarkAccepted(rec, n))
           /\ Progress(rec, MarkSent(rec))
           /\ Progress(rec, MarkFailedPermanent(rec, r1))
           /\ IsActive(rec) => Progress(rec, MarkRetrying(rec, r1))
           /\ IsActive(rec) =>
                 Progress(rec, MarkFailedPermanent(MarkRetrying(rec, r1), r2))
<1>1. Progress(rec, rec)
  BY DEF Progress
<1>2. Progress(rec, MarkAccepted(rec, n))
  BY DEF Progress, MarkAccepted, IsActive, Terminal, Record
<1>3. Progress(rec, MarkSent(rec))
  BY DEF Progress, MarkSent, IsActive, Terminal, Record
<1>4. ASSUME NEW any \in Record
      PROVE  MarkFailedPermanent(any, r2).status = "SUPPRESSED"
                => any.status = "SUPPRESSED"
  BY DEF MarkFailedPermanent, Record
<1>5. Progress(rec, MarkFailedPermanent(rec, r1))
  BY DEF Progress, MarkFailedPermanent, Record
<1>6. MarkRetrying(rec, r1) \in Record /\ MarkRetrying(rec, r1).status = "RETRYING"
  BY MarksAreRecords DEF MarkRetrying, Record
<1>7. QED
  BY <1>1, <1>2, <1>3, <1>4, <1>5, <1>6 DEF Progress

\* A record is created well typed, and suppressed for an empty list only.
LEMMA NewRecordType ==
    ASSUME NEW id, NEW contact, NEW list
    PROVE  /\ NewRecord(id, contact, list) \in Record
           /\ NewRecord(id, contact, list).status = "SUPPRESSED" => IsEmpty(list)
<1>1. NewRecord(id, contact, list) \in Record
  BY DEF NewRecord, CreateRecord, MarkFailedPermanent, Record, Status, Reason
<1>2. /\ CreateRecord("PENDING").status = "PENDING"
      /\ CreateRecord("PENDING") \in Record
  BY DEF CreateRecord, Record, Status, Reason
<1>3. MarkFailedPermanent(CreateRecord("PENDING"), "NO_CONTACT").status
        \in {"PENDING", "FAILED_PERMANENT"}
  BY <1>2 DEF MarkFailedPermanent, Record
<1>4. ASSUME ~IsEmpty(list)
      PROVE  NewRecord(id, contact, list).status \in {"PENDING", "FAILED_PERMANENT"}
  BY <1>2, <1>3, <1>4 DEF NewRecord
<1>5. QED
  BY <1>1, <1>4

\* A task creates records of its own, all named in RecordId.
LEMMA NewIdsType ==
    ASSUME NEW t \in Task, NEW list
    PROVE  /\ NewIds(t, list) \subseteq RecordId
           /\ \A id \in NewIds(t, list) : id.task = t
<1>1. CASE IsEmpty(list)
  <2>1. NewIds(t, list) = {[task |-> t, channel |-> "IM", copy |-> 1]}
    BY <1>1 DEF NewIds
  <2>2. "IM" \in Channel /\ 1 \in 1 .. MaxCopies
    BY MaxCopiesAssumption DEF Channel
  <2>3. QED
    BY <2>1, <2>2 DEF RecordId
<1>2. CASE ~IsEmpty(list)
  BY <1>2 DEF NewIds
<1>3. QED
  BY <1>1, <1>2

----------------------------------------------------------------------------
(* Type correctness. *)

\* The empty tables are well typed and refer to nothing.
LEMMA InitTypeInv == Init => TypeInv
<1> SUFFICES ASSUME Init PROVE TypeInv
    OBVIOUS
<1>1. contacts \in [User -> Contact]
  BY DEF Init, Contact
<1>2. prefs \in [User -> Preferences]
  BY UnsetType DEF Init, Preferences
<1>3. DOMAIN records = {}
  BY DEF Init
<1>4. QED
  BY <1>1, <1>2, <1>3 DEF Init, TypeInv, TypeOK, References

\* What the handler of a result does to the tables, whichever branch it takes:
\* one record is rewritten, rows about that record are added.
LEMMA ResultEffect ==
    ASSUME TypeInv, NEW res \in results, HandleResult(res)
    PROVE  /\ UNCHANGED <<taskInbox, jobs, adapters, snapshots>>
           /\ resultInbox' = resultInbox \cup {res}
           /\ records' \in [DOMAIN records -> Record]
           /\ \A id \in DOMAIN records :
                 id # res.record => records'[id] = records[id]
           /\ Progress(records[res.record], records'[res.record])
           /\ outbox \subseteq outbox' /\ outbox' \subseteq Row
           /\ \A row \in outbox' \ outbox :
                 row.aggregate_id = res.record /\ (IsDispatch(row) => row.to # "")
<1> DEFINE id  == res.record
           old == records[id]
           new == MarkRetrying(old, "ADAPTER")
           Rewritten(rec) == records' = [records EXCEPT ![id] = rec]
           Allowed(rec) == rec \in Record /\ Progress(old, rec)
           Added(row) == outbox' = outbox \cup {row}
           Harmless(row) == /\ row \in Row /\ row.aggregate_id = id
                            /\ IsDispatch(row) => row.to # ""
<1>1. /\ res \in Result /\ id \in DOMAIN records /\ id \in RecordId
      /\ old \in Record /\ res.attempt \in Nat
      /\ records \in [DOMAIN records -> Record] /\ outbox \subseteq Row
  BY MaxRetriesAssumption DEF TypeInv, TypeOK, References, Result, Attempt
<1>2. /\ UNCHANGED <<taskInbox, jobs, adapters, snapshots>>
      /\ resultInbox' = resultInbox \cup {res}
  BY DEF HandleResult, AcceptResult, ConfirmSuccess, ConfirmPermanentFailure,
         RetryTooLate, RetryExhausted, RetryWithoutPhone, RetryRedispatch,
         RetryableFailure, IgnoreResult, Consume
<1>3. 1 \in Attempt
  BY MaxRetriesAssumption DEF Attempt
<1>4. Harmless(Sent(id)) /\ Harmless(Failed(id))
  BY <1>1, <1>3 DEF Sent, Failed, Row, IsDispatch
<1>5. "ADAPTER" \in Reason /\ "EXHAUSTED" \in Reason /\ "NO_CONTACT" \in Reason
  BY DEF Reason
<1>6. new \in Record /\ new.retry_count = old.retry_count + 1
  BY <1>1, <1>5, MarksAreRecords
<1>7. /\ Allowed(old)
      /\ Allowed(MarkAccepted(old, res.attempt))
      /\ Allowed(MarkSent(old))
      /\ Allowed(MarkFailedPermanent(old, "ADAPTER"))
      /\ IsActive(old) => /\ Allowed(new)
                          /\ Allowed(MarkFailedPermanent(new, "EXHAUSTED"))
                          /\ Allowed(MarkFailedPermanent(new, "NO_CONTACT"))
  BY <1>1, <1>5, <1>6, MarksAreRecords, MarksProgress
<1> HIDE DEF new, Allowed
<1>8. /\ records' = records \/ \E rec : Allowed(rec) /\ Rewritten(rec)
      /\ outbox' = outbox \/ \E row : Harmless(row) /\ Added(row)
  <2>1. CASE AcceptResult(res)
    BY <2>1, <1>7 DEF AcceptResult
  <2>2. CASE ConfirmSuccess(res)
    BY <2>2, <1>4, <1>7 DEF ConfirmSuccess
  <2>3. CASE ConfirmPermanentFailure(res)
    BY <2>3, <1>4, <1>7 DEF ConfirmPermanentFailure
  <2>4. CASE RetryTooLate(res)
    BY <2>4 DEF RetryTooLate
  <2>5. CASE RetryExhausted(res)
    BY <2>5, <1>4, <1>7 DEF RetryExhausted, new
  <2>6. CASE RetryWithoutPhone(res)
    BY <2>6, <1>7 DEF RetryWithoutPhone, new
  <2>7. CASE RetryRedispatch(res)
    <3> DEFINE phone == contacts[Recipient(id)].phone
               row   == [subject |-> "dispatch.im", aggregate_id |-> id,
                         version |-> AttemptAfter(new.retry_count), to |-> phone]
    <3>1. /\ phone # "" /\ Rewritten(new) /\ Added(row) /\ IsActive(old)
          /\ ~Exhausted(new.retry_count)
      BY <2>7 DEF RetryRedispatch, new
    <3>2. new.retry_count \in Nat
      BY <1>6 DEF Record
    <3>3. AttemptAfter(new.retry_count) \in Attempt
      BY <3>1, <3>2, RetryIsAttempt
    <3>4. Recipient(id) \in User
      BY <1>1, AssigneeAssumption DEF Recipient, RecordId
    <3>5. phone \in Phone \cup {""}
      <4>1. contacts[Recipient(id)] \in Contact
        BY <3>4 DEF TypeInv, TypeOK
      <4>2. QED
        BY <4>1 DEF Contact
    <3>6. Harmless(row)
      BY <3>1, <3>3, <3>5, <1>1 DEF Row
    <3>7. QED
      BY <3>1, <3>6, <1>7
  <2>8. CASE IgnoreResult(res)
    BY <2>8 DEF IgnoreResult
  <2>9. QED
    BY <2>1, <2>2, <2>3, <2>4, <2>5, <2>6, <2>7, <2>8 DEF HandleResult
<1>9. /\ records' \in [DOMAIN records -> Record]
      /\ \A other \in DOMAIN records : other # id => records'[other] = records[other]
      /\ Progress(old, records'[id])
  BY <1>1, <1>7, <1>8 DEF Allowed
<1>10. /\ outbox \subseteq outbox' /\ outbox' \subseteq Row
       /\ \A row \in outbox' \ outbox :
             row.aggregate_id = id /\ (IsDispatch(row) => row.to # "")
  BY <1>1, <1>8
<1>11. QED
  BY <1>2, <1>9, <1>10

\* Every handler, adapter and writer keeps the types and the references.
LEMMA NextTypeInv == TypeInv /\ [Next]_vars => TypeInv'
<1> SUFFICES ASSUME TypeInv, [Next]_vars PROVE TypeInv'
    OBVIOUS
<1> USE DEF TypeInv
<1>1. ASSUME NEW t \in Task, TaskStart(t) PROVE TypeInv'
  BY <1>1, UnsetType, AssigneeAssumption
     DEF TaskStart, TypeOK, References, Job, database, adapters, snapshots
<1>2. ASSUME NEW job \in jobs, TaskReadGlobal(job) PROVE TypeInv'
  <2>1. job \in Job /\ prefs[Assignee[job.task]].global \in Layer
    BY AssigneeAssumption DEF TypeOK, Job, Preferences
  <2>2. [job EXCEPT !.step = "global", !.global = prefs[Assignee[job.task]].global]
        \in Job
    BY <2>1 DEF Job
  <2>3. QED
    BY <1>2, <2>1, <2>2
       DEF TaskReadGlobal, TypeOK, References, Job, database, adapters, snapshots
<1>3. ASSUME NEW job \in jobs, TaskCommit(job) PROVE TypeInv'
  <2> DEFINE list == ChannelsFor(job)
             ids  == NewIds(job.task, list)
             sent == Dispatched(job.contact, list, ids)
             rows == {Dispatch(id, 1, AddressFor(id.channel, job.contact)) : id \in sent}
  <2>1. /\ job \in Job /\ job.task \in Task /\ job.task \notin taskInbox
        /\ job.contact \in Contact
    BY DEF TypeOK, References, Job
  <2>2. ids \subseteq RecordId /\ \A id \in ids : id.task = job.task
    BY <2>1, NewIdsType
  <2>3. sent \subseteq ids /\ \A id \in sent : id.channel \in {"IM", "EMAIL"}
    BY DEF Dispatched, Dispatchable
  <2>4. ASSUME NEW row \in rows
        PROVE  /\ row \in Row /\ row.aggregate_id \in ids
               /\ row.subject = "dispatch.im" => row.aggregate_id.channel = "IM"
    <3>1. PICK id \in sent :
             row = Dispatch(id, 1, AddressFor(id.channel, job.contact))
      OBVIOUS
    <3>2. AddressFor(id.channel, job.contact) \in Phone \cup Email \cup {""}
      BY <2>1 DEF Contact, AddressFor
    <3>3. 1 \in Attempt
      BY MaxRetriesAssumption DEF Attempt
    <3>4. QED
      BY <3>1, <3>2, <3>3, <2>2, <2>3 DEF Dispatch, DispatchSubject, Row
  <2>5. /\ records' = [id \in DOMAIN records \cup ids |->
                         IF id \in ids THEN NewRecord(id, job.contact, list)
                                       ELSE records[id]]
        /\ outbox' = outbox \cup rows
        /\ taskInbox' = taskInbox \cup {job.task}
        /\ jobs' = {}
        /\ UNCHANGED <<resultInbox, received, results, contacts, prefs>>
    BY <1>3 DEF TaskCommit, adapters, snapshots
  <2> HIDE DEF list, ids, sent, rows
  <2>6. DOMAIN records' = DOMAIN records \cup ids
    BY <2>5
  <2>7. records' \in [DOMAIN records' -> Record]
    BY <2>5, <2>6, NewRecordType DEF TypeOK
  <2>8. TypeOK'
    BY <2>1, <2>2, <2>4, <2>5, <2>6, <2>7 DEF TypeOK
  <2>9. References'
    BY <2>1, <2>2, <2>4, <2>5, <2>6 DEF References
  <2>10. QED
    BY <2>8, <2>9
<1>4. ASSUME NEW job \in jobs, TaskRollback(job) PROVE TypeInv'
  BY <1>4 DEF TaskRollback, TypeOK, References, database, adapters, snapshots
<1>5. ASSUME NEW res \in results, HandleResult(res) PROVE TypeInv'
  <2>1. /\ UNCHANGED <<taskInbox, jobs, received, results, contacts, prefs>>
        /\ resultInbox' = resultInbox \cup {res}
    BY <1>5, ResultEffect DEF adapters, snapshots
  <2>2. /\ records' \in [DOMAIN records -> Record]
        /\ outbox' \subseteq Row
        /\ \A row \in outbox' \ outbox : row.aggregate_id = res.record
    BY <1>5, ResultEffect
  <2>3. DOMAIN records' = DOMAIN records
    BY <2>2
  <2>4. TypeOK'
    BY <2>1, <2>2, <2>3 DEF TypeOK
  <2>5. \A row \in outbox' : row \in outbox \/ row.aggregate_id = res.record
    BY <2>2
  <2>6. References'
    BY <2>1, <2>3, <2>5 DEF References
  <2>7. QED
    BY <2>4, <2>6
<1>6. ASSUME NEW a \in Adapter, NEW row \in outbox, AdapterReceive(a, row)
      PROVE TypeInv'
  <2>1. /\ row \in Row /\ row.aggregate_id \in DOMAIN records
        /\ row.aggregate_id.channel = "IM"
    BY <1>6 DEF AdapterReceive, TypeOK, References
  <2>2. [adapter |-> a, record |-> row.aggregate_id, attempt |-> row.version]
        \in Delivered
    BY <2>1 DEF Delivered, Row
  <2>3. QED
    BY <1>6, <2>1, <2>2
       DEF AdapterReceive, TypeOK, References, database, snapshots
<1>7. ASSUME NEW d \in received, NEW phase \in Phase, NEW outcome \in Outcome,
             Publish(d, phase, outcome)
      PROVE TypeInv'
  <2>1. d \in Delivered /\ d.record \in DOMAIN records /\ d.record.channel = "IM"
    BY DEF TypeOK, References
  <2>2. [adapter |-> d.adapter, record |-> d.record, attempt |-> d.attempt,
         phase |-> phase, outcome |-> outcome] \in Result
    BY <2>1 DEF Delivered, Result
  <2>3. QED
    BY <1>7, <2>1, <2>2 DEF Publish, TypeOK, References, database, snapshots
<1>8. ASSUME NEW d \in received,
             \/ \E phase \in EarlyPhase : AdapterReport(d, phase)
             \/ \E outcome \in Outcome \ {"NONE"} : AdapterConfirm(d, outcome)
      PROVE TypeInv'
  <2>1. EarlyPhase \subseteq Phase /\ "CONFIRMED" \in Phase /\ "NONE" \in Outcome
    BY EarlyPhaseAssumption DEF Phase, Outcome
  <2>2. QED
    BY <1>7, <1>8, <2>1 DEF AdapterReport, AdapterConfirm
<1>9. ASSUME NEW u \in User, NEW phone \in Phone \cup {""},
             NEW email \in Email \cup {""}, ProfileChanges(u, phone, email)
      PROVE TypeInv'
  BY <1>9 DEF ProfileChanges, TypeOK, References, Contact, database, adapters
<1>10. ASSUME NEW u \in User, UserDisabled(u) PROVE TypeInv'
  BY <1>10 DEF UserDisabled, TypeOK, References, Contact, database, adapters
<1>11. ASSUME NEW u \in User, NEW document \in Preference,
              PreferencesReplaced(u, document)
       PROVE TypeInv'
  <2>1. document \in Preferences
    BY PreferenceAssumption
  <2>2. QED
    BY <1>11, <2>1 DEF PreferencesReplaced, TypeOK, References, database, adapters
<1>12. CASE UNCHANGED vars
  BY <1>12 DEF vars, TypeOK, References
<1>13. QED
  BY <1>1, <1>2, <1>3, <1>4, <1>5, <1>6, <1>8, <1>9, <1>10, <1>11, <1>12
     DEF Next, Consumer, Adapters, Environment

\* The tables, the inboxes and the messages stay well typed, and they only
\* ever speak of records that exist.
THEOREM TypeCorrect == Spec => []TypeOK
<1>1. Init => TypeInv
  BY InitTypeInv
<1>2. TypeInv /\ [Next]_vars => TypeInv'
  BY NextTypeInv
<1>3. TypeInv => TypeOK
  BY DEF TypeInv
<1>4. QED
  BY <1>1, <1>2, <1>3, PTL DEF Spec

----------------------------------------------------------------------------
(* The tables change in two places only. *)

\* Records, outbox and inboxes are written by the task transaction when it
\* commits and by the result handler, and by nobody else.
LEMMA HandlersOnly ==
    ASSUME [Next]_vars
    PROVE  \/ \E job \in jobs : TaskCommit(job)
           \/ \E res \in results : HandleResult(res)
           \/ UNCHANGED database
BY DEF Next, Consumer, Adapters, Environment, TaskStart, TaskReadGlobal,
       TaskRollback, AdapterReceive, AdapterReport, AdapterConfirm, Publish,
       ProfileChanges, UserDisabled, PreferencesReplaced, vars, database

\* The records a task creates are new, and no other record is touched.
LEMMA CommitAddsRecords ==
    ASSUME TypeInv, NEW job \in jobs, TaskCommit(job)
    PROVE  LET list == ChannelsFor(job)
               ids  == NewIds(job.task, list)
           IN  /\ ids \cap DOMAIN records = {}
               /\ DOMAIN records' = DOMAIN records \cup ids
               /\ \A id \in DOMAIN records : records'[id] = records[id]
               /\ \A id \in ids : records'[id] = NewRecord(id, job.contact, list)
<1> DEFINE list == ChannelsFor(job)
           ids  == NewIds(job.task, list)
<1>1. job.task \in Task /\ job.task \notin taskInbox
  BY DEF TypeInv, TypeOK, References, Job
<1>2. \A id \in ids : id.task = job.task
  BY <1>1, NewIdsType
<1>3. ids \cap DOMAIN records = {}
  BY <1>1, <1>2 DEF TypeInv, References
<1>4. records' = [id \in DOMAIN records \cup ids |->
                    IF id \in ids THEN NewRecord(id, job.contact, list)
                                  ELSE records[id]]
  BY DEF TaskCommit
<1>5. QED
  BY <1>3, <1>4

\* Whatever a user has stored, a list of channels comes out, and for the
\* critical category never an empty one.
LEMMA ResolveIsCritical ==
    ASSUME NEW global \in Layer, NEW category \in Layer
    PROVE  /\ Resolve(global, category, TRUE) \in ChannelList
           /\ ~IsEmpty(Resolve(global, category, TRUE))
<1>1. DefaultGlobalChannels \in ChannelList /\ ~IsEmpty(DefaultGlobalChannels)
  <2>1. 0 \in 0 .. MaxCopies /\ 1 \in 0 .. MaxCopies
    BY MaxCopiesAssumption
  <2>2. DefaultGlobalChannels \in ChannelList
    BY <2>1 DEF DefaultGlobalChannels, ChannelList
  <2>3. "IM" \in Channel /\ DefaultGlobalChannels["IM"] = 1
    BY DEF DefaultGlobalChannels, Channel
  <2>4. "IM" \in Names(DefaultGlobalChannels)
    BY <2>3 DEF Names
  <2>5. QED
    BY <2>2, <2>4 DEF IsEmpty
<1>2. Ceiling(global) \in ChannelList
  BY <1>1 DEF Ceiling, Layer
<1>3. Intersect(category.channels, Ceiling(global)) \in ChannelList
  BY <1>2, MaxCopiesAssumption DEF Intersect, Layer, ChannelList
<1>4. QED
  BY <1>1, <1>2, <1>3 DEF Resolve

\* The channels of a task form a list, empty only for a disabled contact.
LEMMA ChannelsForType ==
    ASSUME TypeInv, NEW job \in jobs
    PROVE  /\ ChannelsFor(job) \in ChannelList
           /\ IsEmpty(ChannelsFor(job)) => job.contact.disabled
<1>1. job \in Job /\ prefs[Assignee[job.task]] \in Preferences
  BY AssigneeAssumption DEF TypeInv, TypeOK, Job
<1>2. job.global \in Layer /\ prefs[Assignee[job.task]].category \in Layer
  BY <1>1 DEF Job, Preferences
<1>3. NoChannels \in ChannelList
  BY MaxCopiesAssumption DEF NoChannels, ChannelList
<1>4. QED
  BY <1>2, <1>3, ResolveIsCritical DEF ChannelsFor

----------------------------------------------------------------------------
(* No task is lost without a trace. *)

\* The loop over the channels, or the SUPPRESSED branch, inserts a record.
LEMMA TaskLeavesRecord ==
    ASSUME NEW t \in Task, NEW list \in ChannelList
    PROVE  \E id \in NewIds(t, list) : id.task = t
<1>1. CASE IsEmpty(list)
  BY <1>1 DEF NewIds
<1>2. CASE ~IsEmpty(list)
  <2>1. PICK c \in Channel : list[c] > 0
    BY <1>2 DEF IsEmpty, Names
  <2>2. list[c] \in 0 .. MaxCopies
    BY DEF ChannelList
  <2> DEFINE id == [task |-> t, channel |-> c, copy |-> 1]
  <2>3. 1 \in 1 .. MaxCopies /\ 1 <= list[c]
    BY <2>1, <2>2, MaxCopiesAssumption
  <2>4. id \in RecordId
    BY <2>3 DEF RecordId
  <2>5. id \in NewIds(t, list)
    BY <1>2, <2>3, <2>4 DEF NewIds
  <2>6. QED
    BY <2>5
<1>3. QED
  BY <1>1, <1>2

\* Every consumed task event has left a record, so a silenced notification
\* can be told from one that was never triggered.
THEOREM EveryTaskLeavesRecord == Spec => []NoSilentTask
<1>1. Init => NoSilentTask
  BY DEF Init, NoSilentTask
<1>2. TypeInv /\ NoSilentTask /\ [Next]_vars => NoSilentTask'
  <2> SUFFICES ASSUME TypeInv, NoSilentTask, [Next]_vars PROVE NoSilentTask'
      OBVIOUS
  <2>1. ASSUME NEW job \in jobs, TaskCommit(job) PROVE NoSilentTask'
    <3>1. job.task \in Task /\ ChannelsFor(job) \in ChannelList
      BY ChannelsForType DEF TypeInv, TypeOK, Job
    <3>2. PICK id \in NewIds(job.task, ChannelsFor(job)) : id.task = job.task
      BY <3>1, TaskLeavesRecord
    <3>3. DOMAIN records \cup NewIds(job.task, ChannelsFor(job)) = DOMAIN records'
      BY <2>1, CommitAddsRecords
    <3>4. taskInbox' = taskInbox \cup {job.task}
      BY <2>1 DEF TaskCommit
    <3>5. QED
      BY <3>2, <3>3, <3>4 DEF NoSilentTask
  <2>2. ASSUME NEW res \in results, HandleResult(res) PROVE NoSilentTask'
    <3>1. taskInbox' = taskInbox /\ DOMAIN records' = DOMAIN records
      BY <2>2, ResultEffect
    <3>2. QED
      BY <3>1 DEF NoSilentTask
  <2>3. CASE UNCHANGED database
    BY <2>3 DEF database, NoSilentTask
  <2>4. QED
    BY <2>1, <2>2, <2>3, HandlersOnly
<1>3. QED
  BY <1>1, <1>2, InitTypeInv, NextTypeInv, PTL DEF Spec

----------------------------------------------------------------------------
(* No dispatch without a recipient. *)

\* A first dispatch goes to an address the task handler checked, a retry to
\* the phone number the result handler checked.
THEOREM EveryDispatchHasRecipient == Spec => []DispatchHasRecipient
<1>1. Init => DispatchHasRecipient
  BY DEF Init, DispatchHasRecipient
<1>2. TypeInv /\ DispatchHasRecipient /\ [Next]_vars => DispatchHasRecipient'
  <2> SUFFICES ASSUME TypeInv, DispatchHasRecipient, [Next]_vars
               PROVE  DispatchHasRecipient'
      OBVIOUS
  <2>1. ASSUME NEW job \in jobs, TaskCommit(job) PROVE DispatchHasRecipient'
    <3> DEFINE list == ChannelsFor(job)
               sent == Dispatched(job.contact, list, NewIds(job.task, list))
               rows == {Dispatch(id, 1, AddressFor(id.channel, job.contact)) :
                           id \in sent}
    <3>1. outbox' = outbox \cup rows
      BY <2>1 DEF TaskCommit
    <3>2. ASSUME NEW row \in rows PROVE row.to # ""
      <4>1. PICK id \in sent :
               row = Dispatch(id, 1, AddressFor(id.channel, job.contact))
        OBVIOUS
      <4>2. QED
        BY <4>1 DEF Dispatched, Undeliverable, Dispatch
    <3> HIDE DEF rows
    <3>3. QED
      BY <3>1, <3>2 DEF DispatchHasRecipient
  <2>2. ASSUME NEW res \in results, HandleResult(res) PROVE DispatchHasRecipient'
    <3>1. \A row \in outbox' \ outbox : IsDispatch(row) => row.to # ""
      BY <2>2, ResultEffect
    <3>2. QED
      BY <3>1 DEF DispatchHasRecipient, IsDispatch
  <2>3. CASE UNCHANGED database
    BY <2>3 DEF database, DispatchHasRecipient, IsDispatch
  <2>4. QED
    BY <2>1, <2>2, <2>3, HandlersOnly
<1>3. QED
  BY <1>1, <1>2, InitTypeInv, NextTypeInv, PTL DEF Spec

----------------------------------------------------------------------------
(* Final records are final. *)

\* One step keeps every record, and keeps a final one as it is.
LEMMA FinalStep ==
    ASSUME TypeInv, [Next]_vars, NEW id \in DOMAIN records
    PROVE  /\ id \in DOMAIN records'
           /\ ~IsActive(records[id]) => records'[id] = records[id]
<1>1. ASSUME NEW job \in jobs, TaskCommit(job)
      PROVE  id \in DOMAIN records' /\ records'[id] = records[id]
  BY <1>1, CommitAddsRecords
<1>2. ASSUME NEW res \in results, HandleResult(res)
      PROVE  /\ id \in DOMAIN records'
             /\ ~IsActive(records[id]) => records'[id] = records[id]
  BY <1>2, ResultEffect DEF Progress
<1>3. CASE UNCHANGED database
  BY <1>3 DEF database
<1>4. QED
  BY <1>1, <1>2, <1>3, HandlersOnly

\* A record in a final status never changes again and never disappears,
\* with any number of adapters and any loss, delay or repetition of results.
THEOREM FinalStatusIsFinal == Spec => TerminalIsFinal
<1> DEFINE Step == \A id \in DOMAIN records :
                      /\ id \in DOMAIN records'
                      /\ ~IsActive(records[id]) => records'[id] = records[id]
<1>1. TypeInv /\ [Next]_vars => [Step]_vars
  BY FinalStep
<1>2. QED
  BY <1>1, InitTypeInv, NextTypeInv, PTL DEF Spec, TerminalIsFinal

----------------------------------------------------------------------------
(* A critical category is silenced for a disabled recipient only. *)

\* The strengthening: the task in flight has read a contact at most as
\* disabled as the stored one.
SuppressedInv ==
    /\ SuppressedMeansDisabled
    /\ \A job \in jobs : job.contact.disabled => contacts[Assignee[job.task]].disabled

\* No writer of contacts takes back a disable.
LEMMA DisabledStays ==
    ASSUME TypeInv, [Next]_vars, NEW u \in User, contacts[u].disabled
    PROVE  contacts'[u].disabled
<1>1. contacts \in [User -> Contact]
  BY DEF TypeInv, TypeOK
<1>2. CASE contacts' = contacts
  BY <1>2
<1>3. ASSUME NEW v \in User, NEW phone, NEW email, ProfileChanges(v, phone, email)
      PROVE  contacts'[u].disabled
  BY <1>1, <1>3 DEF ProfileChanges, Contact
<1>4. ASSUME NEW v \in User, UserDisabled(v) PROVE contacts'[u].disabled
  BY <1>1, <1>4 DEF UserDisabled, Contact
<1>5. ASSUME NEW res \in results, HandleResult(res) PROVE contacts' = contacts
  BY <1>5, ResultEffect DEF snapshots
<1>6. QED
  BY <1>2, <1>3, <1>4, <1>5
     DEF Next, Consumer, Adapters, Environment, TaskStart, TaskReadGlobal,
         TaskCommit, TaskRollback, AdapterReceive, AdapterReport,
         AdapterConfirm, Publish, PreferencesReplaced, vars, snapshots

\* A result never suppresses, a task only when its contact is disabled.
LEMMA SuppressedStep ==
    ASSUME TypeInv, SuppressedMeansDisabled, [Next]_vars,
           \A job \in jobs :
              job.contact.disabled => contacts[Assignee[job.task]].disabled
    PROVE  SuppressedMeansDisabled'
<1>1. \A id \in RecordId : Recipient(id) \in User
  BY AssigneeAssumption DEF Recipient, RecordId
<1>2. DOMAIN records \subseteq RecordId
  BY DEF TypeInv, TypeOK
<1>3. SUFFICES ASSUME NEW id \in DOMAIN records', records'[id].status = "SUPPRESSED"
               PROVE  contacts[Recipient(id)].disabled /\ Recipient(id) \in User
  BY DisabledStays DEF SuppressedMeansDisabled
<1>4. ASSUME NEW job \in jobs, TaskCommit(job)
      PROVE  contacts[Recipient(id)].disabled /\ Recipient(id) \in User
  <2> DEFINE list == ChannelsFor(job)
             ids  == NewIds(job.task, list)
  <2>1. CASE id \in DOMAIN records
    <3>1. records'[id] = records[id]
      BY <1>4, <2>1, CommitAddsRecords
    <3>2. QED
      BY <1>1, <1>2, <1>3, <2>1, <3>1 DEF SuppressedMeansDisabled
  <2>2. CASE id \notin DOMAIN records
    <3>1. id \in ids /\ records'[id] = NewRecord(id, job.contact, list)
      BY <1>4, <2>2, CommitAddsRecords
    <3>2. IsEmpty(list)
      BY <1>3, <3>1, NewRecordType
    <3>3. job.contact.disabled
      BY <3>2, ChannelsForType
    <3>4. job.task \in Task
      BY DEF TypeInv, TypeOK, Job
    <3>5. id.task = job.task
      BY <3>1, <3>4, NewIdsType
    <3>6. QED
      BY <3>3, <3>4, <3>5, AssigneeAssumption DEF Recipient
  <2>3. QED
    BY <2>1, <2>2
<1>5. ASSUME NEW res \in results, HandleResult(res)
      PROVE  contacts[Recipient(id)].disabled /\ Recipient(id) \in User
  <2>1. id \in DOMAIN records /\ records[id].status = "SUPPRESSED"
    BY <1>3, <1>5, ResultEffect DEF Progress
  <2>2. QED
    BY <1>1, <1>2, <2>1 DEF SuppressedMeansDisabled
<1>6. CASE UNCHANGED database
  BY <1>1, <1>2, <1>3, <1>6 DEF database, SuppressedMeansDisabled
<1>7. QED
  BY <1>4, <1>5, <1>6, HandlersOnly

\* The contact a task transaction holds is never more disabled than the row.
LEMMA JobsStep ==
    ASSUME TypeInv, [Next]_vars, NEW job \in jobs',
           \A old \in jobs :
              old.contact.disabled => contacts[Assignee[old.task]].disabled
    PROVE  job.contact.disabled => contacts'[Assignee[job.task]].disabled
<1>1. Assignee \in [Task -> User] /\ jobs \subseteq Job
  BY AssigneeAssumption DEF TypeInv, TypeOK
<1>2. CASE job \in jobs
  BY <1>1, <1>2, DisabledStays DEF Job
<1>3. ASSUME NEW t \in Task, TaskStart(t)
      PROVE  job.contact.disabled => contacts'[Assignee[job.task]].disabled
  BY <1>3 DEF TaskStart, snapshots
<1>4. ASSUME NEW old \in jobs, TaskReadGlobal(old)
      PROVE  job.contact.disabled => contacts'[Assignee[job.task]].disabled
  <2>1. job.contact = old.contact /\ job.task = old.task /\ contacts' = contacts
    BY <1>1, <1>4 DEF TaskReadGlobal, snapshots, Job
  <2>2. QED
    BY <2>1
<1>5. ASSUME NEW res \in results, HandleResult(res) PROVE job \in jobs
  BY <1>5, ResultEffect
<1>6. QED
  BY <1>2, <1>3, <1>4, <1>5
     DEF Next, Consumer, Adapters, Environment, TaskCommit, TaskRollback,
         AdapterReceive, AdapterReport, AdapterConfirm, Publish,
         ProfileChanges, UserDisabled, PreferencesReplaced, vars

\* No preference a user can store, and none changed while the task is being
\* handled, silences a critical task: SUPPRESSED means the recipient was
\* disabled.
THEOREM CriticalIsNeverSilenced == Spec => []SuppressedMeansDisabled
<1>1. Init => SuppressedInv
  BY DEF Init, SuppressedInv, SuppressedMeansDisabled
<1>2. TypeInv /\ SuppressedInv /\ [Next]_vars => SuppressedInv'
  BY SuppressedStep, JobsStep DEF SuppressedInv
<1>3. SuppressedInv => SuppressedMeansDisabled
  BY DEF SuppressedInv
<1>4. QED
  BY <1>1, <1>2, <1>3, InitTypeInv, NextTypeInv, PTL DEF Spec

----------------------------------------------------------------------------
(* What the handlers take from the tables they read. *)

\* A task transaction takes contact and global layer from the tables.
LEMMA JobsRead ==
    ASSUME TypeInv, [Next]_vars, NEW job \in jobs', job \notin jobs
    PROVE  \E u \in User :
              \/ job.contact = contacts[u] /\ job.global = Unset
              \/ \E old \in jobs : /\ job.contact = old.contact
                                   /\ job.global = prefs[u].global
<1>1. Assignee \in [Task -> User] /\ jobs \subseteq Job
  BY AssigneeAssumption DEF TypeInv, TypeOK
<1>2. ASSUME NEW t \in Task, TaskStart(t)
      PROVE  \E u \in User : job.contact = contacts[u] /\ job.global = Unset
  BY <1>1, <1>2 DEF TaskStart
<1>3. ASSUME NEW old \in jobs, TaskReadGlobal(old)
      PROVE  \E u \in User : /\ job.contact = old.contact
                             /\ job.global = prefs[u].global
  <2>1. job.contact = old.contact /\ job.global = prefs[Assignee[old.task]].global
    BY <1>1, <1>3 DEF TaskReadGlobal, Job
  <2>2. Assignee[old.task] \in User
    BY <1>1 DEF Job
  <2>3. QED
    BY <2>1, <2>2
<1>4. ASSUME NEW res \in results, HandleResult(res) PROVE jobs' = jobs
  BY <1>4, ResultEffect
<1>5. QED
  BY <1>2, <1>3, <1>4
  DEF Next, Consumer, Adapters, Environment, TaskCommit, TaskRollback,
      AdapterReceive, AdapterReport, AdapterConfirm, Publish,
      ProfileChanges, UserDisabled, PreferencesReplaced, vars

\* No category gets past the global layer that the transaction has read.
LEMMA ResolveUnderCeiling ==
    ASSUME NEW global, NEW category, NEW c \in Names(Resolve(global, category, TRUE))
    PROVE  \/ c \in Names(DefaultGlobalChannels)
           \/ global.set /\ c \in Names(global.channels)
<1> DEFINE resolved == IF category.set
                       THEN Intersect(category.channels, Ceiling(global))
                       ELSE Ceiling(global)
<1>1. Resolve(global, category, TRUE) = resolved
        \/ Resolve(global, category, TRUE) = DefaultGlobalChannels
  BY DEF Resolve
<1>2. ASSUME c \in Names(resolved) PROVE c \in Names(Ceiling(global))
  <2>1. CASE category.set
    <3>1. Intersect(category.channels, Ceiling(global))[c] > 0 /\ c \in Channel
      BY <1>2, <2>1 DEF Names
    <3>2. Ceiling(global)[c] > 0
      BY <3>1 DEF Intersect
    <3>3. QED
      BY <3>1, <3>2 DEF Names
  <2>2. QED
    BY <1>2, <2>1
<1> HIDE DEF resolved
<1>3. QED
  BY <1>1, <1>2 DEF Ceiling

\* A new record's channel is in the global list a job has read, or in the default.
LEMMA RecordsChosen ==
    ASSUME TypeInv, [Next]_vars, NEW id \in DOMAIN records', id \notin DOMAIN records
    PROVE  \/ id.channel \in Names(DefaultGlobalChannels)
           \/ \E job \in jobs : job.global.set /\ id.channel \in Names(job.global.channels)
<1>1. ASSUME NEW res \in results, HandleResult(res) PROVE FALSE
  BY <1>1, ResultEffect
<1>2. ASSUME UNCHANGED database PROVE FALSE
  BY <1>2 DEF database
<1>3. PICK job \in jobs : TaskCommit(job)
  BY <1>1, <1>2, HandlersOnly
<1>4. id \in NewIds(job.task, ChannelsFor(job))
  BY <1>3 DEF TaskCommit
<1>5. "IM" \in Names(DefaultGlobalChannels)
  BY DEF Names, Channel, DefaultGlobalChannels
<1>6. CASE IsEmpty(ChannelsFor(job))
  BY <1>4, <1>5, <1>6 DEF NewIds
<1>7. CASE ~IsEmpty(ChannelsFor(job))
  <2>1. id \in RecordId /\ id.copy <= ChannelsFor(job)[id.channel]
    BY <1>4, <1>7 DEF NewIds
  <2>2. ChannelsFor(job) \in ChannelList
    BY ChannelsForType
  <2>3. id.channel \in Names(ChannelsFor(job))
    BY <2>1, <2>2, MaxCopiesAssumption DEF Names, RecordId, ChannelList
  <2>4. IsEmpty(NoChannels)
    BY DEF IsEmpty, Names, NoChannels
  <2>5. ~job.contact.disabled
    BY <1>7, <2>4 DEF ChannelsFor
  <2>6. QED
    BY <2>3, <2>5, ResolveUnderCeiling DEF ChannelsFor
<1>8. QED
  BY <1>6, <1>7

\* The address of a dispatch is that of a contact row, read by the task
\* transaction or, for a retry, by the handler of the result.
LEMMA DispatchesAddressed ==
    ASSUME TypeInv, [Next]_vars, NEW row \in outbox', row \notin outbox,
           IsDispatch(row)
    PROVE  /\ row.to # ""
           /\ \E contact \in {job.contact : job \in jobs} \cup {contacts[u] : u \in User} :
                 row.to = IF row.subject = "dispatch.im" THEN contact.phone
                                                         ELSE contact.email
<1>1. ASSUME NEW job \in jobs, TaskCommit(job)
      PROVE  /\ row.to # ""
             /\ row.to = IF row.subject = "dispatch.im" THEN job.contact.phone
                                                        ELSE job.contact.email
  <2> DEFINE sent == Dispatched(job.contact, ChannelsFor(job),
                                NewIds(job.task, ChannelsFor(job)))
  <2>1. PICK id \in sent : row = Dispatch(id, 1, AddressFor(id.channel, job.contact))
    BY <1>1 DEF TaskCommit
  <2>2. Dispatchable(id) /\ AddressFor(id.channel, job.contact) # ""
    BY DEF Dispatched, Undeliverable
  <2>3. QED
    BY <2>1, <2>2 DEF Dispatch, DispatchSubject, AddressFor
<1>2. ASSUME NEW res \in results, HandleResult(res)
      PROVE  /\ row.to # ""
             /\ row.subject = "dispatch.im"
             /\ \E u \in User : row.to = contacts[u].phone
  <2>1. ~IsDispatch(Sent(res.record)) /\ ~IsDispatch(Failed(res.record))
    BY DEF IsDispatch, Sent, Failed
  <2>2. RetryRedispatch(res)
    BY <1>2, <2>1
    DEF HandleResult, AcceptResult, ConfirmSuccess, ConfirmPermanentFailure,
        RetryTooLate, RetryExhausted, RetryWithoutPhone, IgnoreResult
  <2>3. Recipient(res.record) \in User
    BY AssigneeAssumption
    DEF TypeInv, TypeOK, Result, Recipient, RecordId
  <2>4. \E version :
           outbox' = outbox \cup
              {[subject |-> "dispatch.im", aggregate_id |-> res.record,
                version |-> version, to |-> contacts[Recipient(res.record)].phone]}
    BY <2>2 DEF RetryRedispatch
  <2>5. contacts[Recipient(res.record)].phone # ""
    BY <2>2 DEF RetryRedispatch
  <2>6. row.subject = "dispatch.im" /\ row.to = contacts[Recipient(res.record)].phone
    BY <2>4
  <2>7. QED
    BY <2>3, <2>5, <2>6
<1>3. ASSUME UNCHANGED database PROVE FALSE
  BY <1>3 DEF database
<1>4. QED
  BY <1>1, <1>2, <1>3, HandlersOnly

----------------------------------------------------------------------------
(* A user who has been disabled. *)

\* What holds of a task from the moment its user is disabled before it was
\* taken up: whatever transaction handles it has seen the disable, it leaves
\* suppressed records and nothing goes out for it.
Silenced(t) ==
    /\ contacts[Assignee[t]].disabled
    /\ \A job \in jobs : job.task = t => job.contact.disabled
    /\ \A id \in DOMAIN records : id.task = t => records[id].status = "SUPPRESSED"
    /\ \A row \in outbox : IsDispatch(row) => row.aggregate_id.task # t

\* A task that nobody has taken up yet has no records.
LEMMA UntouchedIsSilenced ==
    ASSUME TypeInv, NEW t \in Task, contacts[Assignee[t]].disabled,
           t \notin taskInbox, \A job \in jobs : job.task # t
    PROVE  Silenced(t)
BY DEF Silenced, TypeInv, References

\* A transaction that has seen the disable writes suppressed records only.
LEMMA DisabledCommit ==
    ASSUME NEW job \in jobs, job.contact.disabled, TaskCommit(job)
    PROVE  /\ outbox' = outbox
           /\ \A id : NewRecord(id, job.contact, ChannelsFor(job)).status = "SUPPRESSED"
<1>1. IsEmpty(ChannelsFor(job))
  BY DEF ChannelsFor, IsEmpty, Names, NoChannels
<1>2. \A ids : Dispatched(job.contact, ChannelsFor(job), ids) = {}
  BY <1>1 DEF Dispatched
<1>3. \A id : NewRecord(id, job.contact, ChannelsFor(job)) = CreateRecord("SUPPRESSED")
  BY <1>1 DEF NewRecord
<1>4. outbox' = outbox \cup
                {Dispatch(id, 1, AddressFor(id.channel, job.contact)) :
                   id \in Dispatched(job.contact, ChannelsFor(job),
                                     NewIds(job.task, ChannelsFor(job)))}
  BY DEF TaskCommit
<1>5. outbox' = outbox
  BY <1>2, <1>4
<1>6. CreateRecord("SUPPRESSED").status = "SUPPRESSED"
  BY DEF CreateRecord
<1>7. QED
  BY <1>3, <1>5, <1>6

\* A task that a disable silenced stays silenced.
LEMMA SilencedStep ==
    ASSUME TypeInv, NEW t \in Task, Silenced(t), [Next]_vars
    PROVE  Silenced(t)'
<1>1. /\ Assignee \in [Task -> User] /\ Assignee[t] \in User /\ jobs \subseteq Job
      /\ contacts[Assignee[t]].disabled
  BY AssigneeAssumption DEF TypeInv, TypeOK, Silenced
<1>2. contacts'[Assignee[t]].disabled
  BY <1>1, DisabledStays
<1>3. ASSUME NEW job \in jobs', job.task = t PROVE job.contact.disabled
  <2>1. CASE job \in jobs
    BY <1>3, <2>1 DEF Silenced
  <2>2. ASSUME NEW s \in Task, TaskStart(s) PROVE job.contact.disabled
    BY <1>1, <1>3, <2>2 DEF TaskStart
  <2>3. ASSUME NEW old \in jobs, TaskReadGlobal(old) PROVE job.contact.disabled
    <3>1. job.contact = old.contact /\ job.task = old.task
      BY <1>1, <2>3 DEF TaskReadGlobal, Job
    <3>2. QED
      BY <1>3, <3>1 DEF Silenced
  <2>4. ASSUME NEW res \in results, HandleResult(res) PROVE jobs' = jobs
    BY <2>4, ResultEffect
  <2>5. QED
    BY <2>1, <2>2, <2>3, <2>4
    DEF Next, Consumer, Adapters, Environment, TaskCommit, TaskRollback,
        AdapterReceive, AdapterReport, AdapterConfirm, Publish,
        ProfileChanges, UserDisabled, PreferencesReplaced, vars
<1>4. ASSUME NEW id \in DOMAIN records', id.task = t
      PROVE  records'[id].status = "SUPPRESSED"
  <2>1. CASE id \in DOMAIN records
    <3>1. records[id].status = "SUPPRESSED"
      BY <1>4, <2>1 DEF Silenced
    <3>2. QED
      BY <2>1, <3>1, FinalStep DEF IsActive, Terminal
  <2>2. CASE id \notin DOMAIN records
    <3>1. ASSUME NEW res \in results, HandleResult(res) PROVE FALSE
      BY <2>2, <3>1, ResultEffect
    <3>2. ASSUME UNCHANGED database PROVE FALSE
      BY <2>2, <3>2 DEF database
    <3>3. PICK job \in jobs : TaskCommit(job)
      BY <3>1, <3>2, HandlersOnly
    <3>4. /\ id \in NewIds(job.task, ChannelsFor(job))
          /\ records'[id] = NewRecord(id, job.contact, ChannelsFor(job))
      BY <2>2, <3>3, CommitAddsRecords
    <3>5. job.task \in Task
      BY <1>1 DEF Job
    <3>6. job.task = t
      BY <1>4, <3>4, <3>5, NewIdsType
    <3>7. QED
      BY <3>3, <3>4, <3>6, DisabledCommit DEF Silenced
  <2>3. QED
    BY <2>1, <2>2
<1>5. ASSUME NEW row \in outbox', IsDispatch(row), row.aggregate_id.task = t
      PROVE  FALSE
  <2>1. row \notin outbox
    BY <1>5 DEF Silenced
  <2>2. ASSUME NEW job \in jobs, TaskCommit(job) PROVE FALSE
    <3> DEFINE sent == Dispatched(job.contact, ChannelsFor(job),
                                  NewIds(job.task, ChannelsFor(job)))
    <3>1. PICK id \in sent : row = Dispatch(id, 1, AddressFor(id.channel, job.contact))
      BY <2>1, <2>2 DEF TaskCommit
    <3>2. id \in NewIds(job.task, ChannelsFor(job)) /\ job.task \in Task
      BY <1>1 DEF Dispatched, Job
    <3>3. job.task = t
      BY <1>5, <3>1, <3>2, NewIdsType DEF Dispatch
    <3>4. QED
      BY <2>1, <2>2, <3>3, DisabledCommit DEF Silenced
  <2>3. ASSUME NEW res \in results, HandleResult(res) PROVE FALSE
    <3>1. row.aggregate_id = res.record /\ res.record \in DOMAIN records
      BY <2>1, <2>3, ResultEffect DEF TypeInv, References
    <3>2. ~IsActive(records[res.record])
      BY <1>5, <3>1 DEF Silenced, IsActive, Terminal
    <3>3. ~IsDispatch(Sent(res.record)) /\ ~IsDispatch(Failed(res.record))
      BY DEF IsDispatch, Sent, Failed
    <3>4. QED
      BY <1>5, <2>1, <2>3, <3>2, <3>3
      DEF HandleResult, AcceptResult, ConfirmSuccess, ConfirmPermanentFailure,
          RetryTooLate, RetryExhausted, RetryWithoutPhone, RetryRedispatch,
          IgnoreResult
  <2>4. QED
    BY <2>1, <2>2, <2>3, HandlersOnly DEF database
<1>6. QED
  BY <1>2, <1>3, <1>4, <1>5 DEF Silenced, IsDispatch

\* No handler has taken the task up since its user was disabled.
Untouched(t) ==
    /\ contacts[Assignee[t]].disabled
    /\ t \notin taskInbox
    /\ \A job \in jobs : job.task # t

Quiet(t) == \A row \in outbox : IsDispatch(row) => row.aggregate_id.task # t

\* A task not taken up when its assignee is disabled is never dispatched.
LEMMA UntouchedStaysQuiet ==
    ASSUME NEW t \in Task
    PROVE  Spec => [](Untouched(t) => []Quiet(t))
<1>1. TypeInv /\ Untouched(t) => Silenced(t)
  BY UntouchedIsSilenced DEF Untouched
<1>2. TypeInv /\ Silenced(t) /\ [Next]_vars => Silenced(t)'
  BY SilencedStep
<1>3. Silenced(t) => Quiet(t)
  BY DEF Silenced, Quiet
<1>4. QED
  BY <1>1, <1>2, <1>3, InitTypeInv, NextTypeInv, PTL DEF Spec

\* Once a user is stored as disabled, a task of theirs that is taken up afterwards sends
\* nothing, ever: not when it is handled, and not by a retry.
THEOREM DisabledUserIsLeftAlone == Spec => DisabledStopsLaterTasks
BY UntouchedStaysQuiet DEF DisabledStopsLaterTasks, Untouched, Quiet

----------------------------------------------------------------------------
(* Retries, with any number of adapters: how dispatches are numbered, and  *)
(* that every retry is used.                                               *)

\* What each statement does to the fields the arguments below look at.
LEMMA MarksFields ==
    ASSUME NEW rec \in Record, NEW n \in Nat, NEW reason \in Reason
    PROVE  /\ MarkAccepted(rec, n).retry_count = rec.retry_count
           /\ MarkAccepted(rec, n).last_error = rec.last_error
           /\ IsActive(MarkAccepted(rec, n)) <=> IsActive(rec)
           /\ MarkSent(rec).retry_count = rec.retry_count
           /\ MarkSent(rec).last_error = rec.last_error
           /\ MarkSent(rec).status # "ACCEPTED" /\ ~IsActive(MarkSent(rec))
           /\ IsActive(rec) => MarkSent(rec).status = "SENT"
           /\ MarkFailedPermanent(rec, reason).retry_count = rec.retry_count
           /\ MarkFailedPermanent(rec, reason).status # "ACCEPTED"
           /\ ~IsActive(MarkFailedPermanent(rec, reason))
           /\ IsActive(rec) =>
                 /\ MarkFailedPermanent(rec, reason).status = "FAILED_PERMANENT"
                 /\ MarkFailedPermanent(rec, reason).last_error = reason
           /\ MarkRetrying(rec, reason).status = "RETRYING"
           /\ MarkRetrying(rec, reason).last_error = reason
           /\ IsActive(MarkRetrying(rec, reason))
<1>1. /\ MarkAccepted(rec, n).retry_count = rec.retry_count
      /\ MarkAccepted(rec, n).last_error = rec.last_error
      /\ IsActive(MarkAccepted(rec, n)) <=> IsActive(rec)
  BY DEF MarkAccepted, IsActive, Terminal, Record
<1>2. /\ MarkSent(rec).retry_count = rec.retry_count
      /\ MarkSent(rec).last_error = rec.last_error
      /\ MarkSent(rec).status # "ACCEPTED" /\ ~IsActive(MarkSent(rec))
      /\ IsActive(rec) => MarkSent(rec).status = "SENT"
  BY DEF MarkSent, IsActive, Terminal, Record, Status
<1>3. /\ MarkFailedPermanent(rec, reason).retry_count = rec.retry_count
      /\ MarkFailedPermanent(rec, reason).status # "ACCEPTED"
      /\ ~IsActive(MarkFailedPermanent(rec, reason))
      /\ IsActive(rec) =>
            /\ MarkFailedPermanent(rec, reason).status = "FAILED_PERMANENT"
            /\ MarkFailedPermanent(rec, reason).last_error = reason
  BY DEF MarkFailedPermanent, IsActive, Terminal, Record, Status
<1>4. /\ MarkRetrying(rec, reason).status = "RETRYING"
      /\ MarkRetrying(rec, reason).last_error = reason
      /\ IsActive(MarkRetrying(rec, reason))
  BY DEF MarkRetrying, IsActive, Terminal, Record
<1>5. QED
  BY <1>1, <1>2, <1>3, <1>4

\* The handler leaves the record rec and adds the given rows to the outbox.
Writes(id, rec, rows) == records'[id] = rec /\ outbox' = outbox \cup rows

\* The seven ways a result is handled.
LEMMA ResultForms ==
    ASSUME TypeInv, NEW res \in results, HandleResult(res)
    PROVE  LET id  == res.record
               old == records[id]
               new == MarkRetrying(old, "ADAPTER")
           IN  \/ /\ res.phase # "CONFIRMED"
                  /\ \/ Writes(id, old, {})
                     \/ Writes(id, MarkAccepted(old, res.attempt), {})
               \/ /\ res.phase = "CONFIRMED"
                  /\ \/ Writes(id, MarkSent(old), {Sent(id)})
                     \/ Writes(id, MarkFailedPermanent(old, "ADAPTER"), {Failed(id)})
                     \/ ~IsActive(old) /\ Writes(id, old, {})
               \/ /\ res.phase = "CONFIRMED" /\ IsActive(old)
                  /\ \/ /\ Exhausted(new.retry_count)
                        /\ Writes(id, MarkFailedPermanent(new, "EXHAUSTED"), {Failed(id)})
                     \/ /\ ~Exhausted(new.retry_count)
                        /\ Writes(id, MarkFailedPermanent(new, "NO_CONTACT"), {})
                     \/ \E phone : Writes(id, new,
                           {[subject |-> "dispatch.im", aggregate_id |-> id,
                             version |-> new.retry_count + 1, to |-> phone]})
<1> DEFINE id  == res.record
           old == records[id]
           new == MarkRetrying(old, "ADAPTER")
<1>1. id \in DOMAIN records /\ records \in [DOMAIN records -> Record]
  BY DEF TypeInv, TypeOK, References
<1>2. \A rec : records' = [records EXCEPT ![id] = rec] => records'[id] = rec
  BY <1>1
<1> HIDE DEF new
<1>3. CASE AcceptResult(res)
  BY <1>2, <1>3 DEF AcceptResult, Writes
<1>4. CASE ConfirmSuccess(res)
  BY <1>2, <1>4 DEF ConfirmSuccess, Writes
<1>5. CASE ConfirmPermanentFailure(res)
  BY <1>2, <1>5 DEF ConfirmPermanentFailure, Writes
<1>6. CASE RetryTooLate(res)
  BY <1>6 DEF RetryTooLate, RetryableFailure, Writes
<1>7. CASE RetryExhausted(res)
  BY <1>2, <1>7 DEF RetryExhausted, RetryableFailure, Writes, new
<1>8. CASE RetryWithoutPhone(res)
  BY <1>2, <1>8 DEF RetryWithoutPhone, RetryableFailure, Writes, new
<1>9. CASE RetryRedispatch(res)
  BY <1>2, <1>9 DEF RetryRedispatch, RetryableFailure, AttemptAfter, Writes, new
<1>10. CASE IgnoreResult(res)
  BY <1>10 DEF IgnoreResult, Writes
<1>11. QED
  BY <1>3, <1>4, <1>5, <1>6, <1>7, <1>8, <1>9, <1>10 DEF HandleResult, new

\* Records and dispatches other than those of the result are left alone.
LEMMA OthersKeep ==
    ASSUME TypeInv, NEW res \in results, HandleResult(res),
           NEW id \in DOMAIN records, id # res.record
    PROVE  records'[id] = records[id] /\ DispatchesOf(id)' = DispatchesOf(id)
<1>1. records'[id] = records[id]
  BY ResultEffect
<1>2. /\ outbox \subseteq outbox'
      /\ \A row \in outbox' \ outbox : row.aggregate_id = res.record
  BY ResultEffect
<1>3. QED
  BY <1>1, <1>2 DEF DispatchesOf

\* The rows about the outcome are no dispatches.
LEMMA OutcomesAreNoDispatches ==
    ASSUME NEW id, NEW rows, rows = {} \/ rows = {Sent(id)} \/ rows = {Failed(id)},
           outbox' = outbox \cup rows
    PROVE  DispatchesOf(id)' = DispatchesOf(id)
<1>1. ~IsDispatch(Sent(id)) /\ ~IsDispatch(Failed(id))
  BY DEF IsDispatch, Sent, Failed
<1>2. \A row \in rows : ~IsDispatch(row)
  BY <1>1
<1>3. QED
  BY <1>2 DEF DispatchesOf

\* A row of the retry is added to the dispatches of its record.
LEMMA RetryIsDispatch ==
    ASSUME NEW row, row.subject = "dispatch.im", outbox' = outbox \cup {row}
    PROVE  DispatchesOf(row.aggregate_id)' = DispatchesOf(row.aggregate_id) \cup {row}
BY DEF DispatchesOf, IsDispatch

\* What a task leaves behind for the records it creates, and for the others.
LEMMA CommitDispatches ==
    ASSUME TypeInv, NEW job \in jobs, TaskCommit(job)
    PROVE  LET list == ChannelsFor(job)
               ids  == NewIds(job.task, list)
               sent == Dispatched(job.contact, list, ids)
           IN  /\ \A id \in DOMAIN records : DispatchesOf(id)' = DispatchesOf(id)
               /\ \A id \in ids : DispatchesOf(id)' =
                     IF id \in sent
                     THEN {Dispatch(id, 1, AddressFor(id.channel, job.contact))}
                     ELSE {}
<1> DEFINE list == ChannelsFor(job)
           ids  == NewIds(job.task, list)
           sent == Dispatched(job.contact, list, ids)
           Addr(id) == AddressFor(id.channel, job.contact)
<1>1. outbox' = outbox \cup {Dispatch(id, 1, Addr(id)) : id \in sent}
  BY DEF TaskCommit
<1>2. sent \subseteq ids /\ ids \cap DOMAIN records = {}
  BY CommitAddsRecords DEF Dispatched
<1>3. \A id \in sent : /\ IsDispatch(Dispatch(id, 1, Addr(id)))
                       /\ Dispatch(id, 1, Addr(id)).aggregate_id = id
  BY DEF Dispatch, IsDispatch, DispatchSubject
<1>4. \A row \in outbox : row.aggregate_id \in DOMAIN records
  BY DEF TypeInv, References
<1> HIDE DEF ids, sent, Addr
<1>5. \A id \in DOMAIN records : DispatchesOf(id)' = DispatchesOf(id)
  BY <1>1, <1>2, <1>3 DEF DispatchesOf
<1>6. ASSUME NEW id \in ids
      PROVE  DispatchesOf(id)' = IF id \in sent THEN {Dispatch(id, 1, Addr(id))} ELSE {}
  BY <1>1, <1>2, <1>3, <1>4 DEF DispatchesOf
<1>7. QED
  BY <1>5, <1>6 DEF ids, sent, Addr

----------------------------------------------------------------------------
(* The numbers of the dispatches. *)

\* What DispatchesAreTheAttempts says of one record and its dispatches.
Numbered(rec, rows) ==
    \E last \in {rec.retry_count, rec.retry_count + 1} :
       /\ {row.version : row \in rows} = 1 .. last
       /\ \A r1, r2 \in rows : r1.version = r2.version => r1 = r2
       /\ IsActive(rec) => last = rec.retry_count + 1

\* A rewriting that counts nothing and revives nothing keeps the numbers.
LEMMA NumberedSame ==
    ASSUME NEW rec, NEW new, NEW rows, Numbered(rec, rows),
           new.retry_count = rec.retry_count, IsActive(new) => IsActive(rec)
    PROVE  Numbered(new, rows)
BY DEF Numbered

\* A retry that is given up counts the dispatch it does not send.
LEMMA NumberedGivenUp ==
    ASSUME NEW rec, NEW new, NEW rows, Numbered(rec, rows), IsActive(rec),
           new.retry_count = rec.retry_count + 1, ~IsActive(new)
    PROVE  Numbered(new, rows)
BY DEF Numbered

\* A retry that is sent gets the number after the last one.
LEMMA NumberedRetry ==
    ASSUME NEW rec \in Record, NEW new, NEW rows, Numbered(rec, rows), IsActive(rec),
           new.retry_count = rec.retry_count + 1,
           NEW row, row.version = new.retry_count + 1
    PROVE  Numbered(new, rows \cup {row})
<1> DEFINE n == rec.retry_count
<1>1. n \in Nat
  BY DEF Record
<1>2. /\ {r.version : r \in rows} = 1 .. n + 1
      /\ \A r1, r2 \in rows : r1.version = r2.version => r1 = r2
  BY DEF Numbered
<1>3. row.version = n + 2 /\ new.retry_count = n + 1
  BY <1>1
<1> HIDE DEF n
<1>4. \A r \in rows : r.version # n + 2
  BY <1>1, <1>2
<1>5. {r.version : r \in rows \cup {row}} = 1 .. n + 2
  BY <1>1, <1>2, <1>3
<1>6. \A r1, r2 \in rows \cup {row} : r1.version = r2.version => r1 = r2
  BY <1>2, <1>3, <1>4
<1>7. new.retry_count + 1 = n + 2
  BY <1>1, <1>3
<1>8. QED
  BY <1>5, <1>6, <1>7 DEF Numbered

\* A new IM record has its first dispatch, or is final and has none.
LEMMA NumberedFirst ==
    ASSUME NEW id \in RecordId, NEW contact \in Contact, NEW list, NEW ids, id \in ids,
           id.channel = "IM"
    PROVE  Numbered(NewRecord(id, contact, list),
                    IF id \in Dispatched(contact, list, ids)
                    THEN {Dispatch(id, 1, AddressFor(id.channel, contact))}
                    ELSE {})
<1> DEFINE rec == NewRecord(id, contact, list)
<1>1. rec.retry_count = 0
  BY DEF NewRecord, CreateRecord, MarkFailedPermanent
<1>2. CASE id \in Dispatched(contact, list, ids)
  <2>1. {row.version : row \in {Dispatch(id, 1, AddressFor(id.channel, contact))}} = 1 .. 1
    BY DEF Dispatch
  <2>2. QED
    BY <1>1, <1>2, <2>1 DEF Numbered
<1>3. CASE id \notin Dispatched(contact, list, ids)
  <2>1. Dispatchable(id)
    BY DEF Dispatchable
  <2>2. ~IsActive(rec)
    BY <1>3, <2>1 DEF Dispatched, NewRecord, CreateRecord, MarkFailedPermanent,
                      IsActive, Terminal
  <2>3. {row.version : row \in {}} = 1 .. 0
    OBVIOUS
  <2>4. QED
    BY <1>1, <1>3, <2>2, <2>3 DEF Numbered
<1>4. QED
  BY <1>2, <1>3

\* Every IM record is numbered so.
AllNumbered ==
    \A id \in DOMAIN records :
       id.channel = "IM" => Numbered(records[id], DispatchesOf(id))

\* The types a handled result deals with.
LEMMA ResultTypes ==
    ASSUME TypeInv, NEW res \in results
    PROVE  /\ res.record \in DOMAIN records /\ res.record.channel = "IM"
           /\ records[res.record] \in Record /\ res.attempt \in Nat
           /\ MarkRetrying(records[res.record], "ADAPTER") \in Record
           /\ MarkRetrying(records[res.record], "ADAPTER").retry_count
                 = records[res.record].retry_count + 1
<1>1. /\ res \in Result /\ res.record \in DOMAIN records
      /\ res.record.channel = "IM" /\ records[res.record] \in Record
  BY DEF TypeInv, TypeOK, References
<1>2. res.attempt \in Nat
  BY <1>1, MaxRetriesAssumption DEF Result, Attempt
<1>3. "ADAPTER" \in Reason
  BY DEF Reason
<1>4. QED
  BY <1>1, <1>2, <1>3, MarksAreRecords

\* A result keeps the numbers of its record, whichever way it is handled.
LEMMA ResultKeepsNumbers ==
    ASSUME TypeInv, NEW res \in results, HandleResult(res),
           Numbered(records[res.record], DispatchesOf(res.record))
    PROVE  Numbered(records'[res.record], DispatchesOf(res.record)')
<1> DEFINE id  == res.record
           old == records[id]
           new == MarkRetrying(old, "ADAPTER")
<1>1. /\ old \in Record /\ res.attempt \in Nat /\ new \in Record
      /\ new.retry_count = old.retry_count + 1
      /\ {"ADAPTER", "EXHAUSTED", "NO_CONTACT"} \subseteq Reason
  BY ResultTypes DEF Reason
<1>2. /\ MarkAccepted(old, res.attempt).retry_count = old.retry_count
      /\ IsActive(MarkAccepted(old, res.attempt)) => IsActive(old)
      /\ MarkSent(old).retry_count = old.retry_count /\ ~IsActive(MarkSent(old))
      /\ MarkFailedPermanent(old, "ADAPTER").retry_count = old.retry_count
      /\ ~IsActive(MarkFailedPermanent(old, "ADAPTER"))
  BY <1>1, MarksFields
<1>3. \A reason \in Reason :
         /\ MarkFailedPermanent(new, reason).retry_count = old.retry_count + 1
         /\ ~IsActive(MarkFailedPermanent(new, reason))
  BY <1>1, MarksFields
<1> HIDE DEF new
<1>4. ASSUME NEW rec, NEW rows, Writes(id, rec, rows),
             rows = {} \/ rows = {Sent(id)} \/ rows = {Failed(id)},
             \/ rec.retry_count = old.retry_count /\ (IsActive(rec) => IsActive(old))
             \/ rec.retry_count = old.retry_count + 1 /\ ~IsActive(rec) /\ IsActive(old)
      PROVE  Numbered(records'[id], DispatchesOf(id)')
  <2>1. DispatchesOf(id)' = DispatchesOf(id) /\ records'[id] = rec
    BY <1>4, OutcomesAreNoDispatches DEF Writes
  <2>2. QED
    BY <1>4, <2>1, NumberedSame, NumberedGivenUp
<1>5. ASSUME NEW phone, IsActive(old),
             Writes(id, new, {[subject |-> "dispatch.im", aggregate_id |-> id,
                               version |-> new.retry_count + 1, to |-> phone]})
      PROVE  Numbered(records'[id], DispatchesOf(id)')
  <2> DEFINE row == [subject |-> "dispatch.im", aggregate_id |-> id,
                     version |-> new.retry_count + 1, to |-> phone]
  <2>1. DispatchesOf(row.aggregate_id)' = DispatchesOf(row.aggregate_id) \cup {row}
    BY <1>5, RetryIsDispatch DEF Writes
  <2>2. DispatchesOf(id)' = DispatchesOf(id) \cup {row} /\ records'[id] = new
    BY <1>5, <2>1 DEF Writes
  <2>3. row.version = new.retry_count + 1
    OBVIOUS
  <2> HIDE DEF row
  <2>4. QED
    BY <1>1, <1>5, <2>2, <2>3, NumberedRetry
<1>6. CASE /\ res.phase # "CONFIRMED"
           /\ Writes(id, old, {}) \/ Writes(id, MarkAccepted(old, res.attempt), {})
  BY <1>2, <1>4, <1>6
<1>7. CASE \/ Writes(id, MarkSent(old), {Sent(id)})
           \/ Writes(id, MarkFailedPermanent(old, "ADAPTER"), {Failed(id)})
           \/ Writes(id, old, {})
  BY <1>2, <1>4, <1>7
<1>8. CASE /\ IsActive(old)
           /\ \/ Writes(id, MarkFailedPermanent(new, "EXHAUSTED"), {Failed(id)})
              \/ Writes(id, MarkFailedPermanent(new, "NO_CONTACT"), {})
  BY <1>1, <1>3, <1>4, <1>8
<1>9. QED
  BY <1>5, <1>6, <1>7, <1>8, ResultForms DEF new

\* A task numbers the records it creates and leaves the others.
LEMMA CommitKeepsNumbers ==
    ASSUME TypeInv, AllNumbered, NEW job \in jobs, TaskCommit(job)
    PROVE  AllNumbered'
<1> DEFINE list == ChannelsFor(job)
           ids  == NewIds(job.task, list)
<1>1. /\ DOMAIN records' = DOMAIN records \cup ids
      /\ \A id \in DOMAIN records : records'[id] = records[id]
      /\ \A id \in ids : records'[id] = NewRecord(id, job.contact, list)
  BY CommitAddsRecords
<1>2. job \in Job /\ job.contact \in Contact /\ job.task \in Task
  BY DEF TypeInv, TypeOK, Job
<1>3. ids \subseteq RecordId
  BY <1>2, NewIdsType
<1>4. \A id \in DOMAIN records : DispatchesOf(id)' = DispatchesOf(id)
  BY CommitDispatches
<1>5. \A id \in ids : DispatchesOf(id)' =
         IF id \in Dispatched(job.contact, list, ids)
         THEN {Dispatch(id, 1, AddressFor(id.channel, job.contact))}
         ELSE {}
  BY CommitDispatches
<1> HIDE DEF list, ids
<1>6. ASSUME NEW id \in ids, id.channel = "IM"
      PROVE  Numbered(records'[id], DispatchesOf(id)')
  BY <1>1, <1>2, <1>3, <1>5, <1>6, NumberedFirst
<1>7. ASSUME NEW id \in DOMAIN records, id.channel = "IM"
      PROVE  Numbered(records'[id], DispatchesOf(id)')
  BY <1>1, <1>4, <1>7 DEF AllNumbered
<1>8. QED
  BY <1>1, <1>6, <1>7 DEF AllNumbered

\* A result numbers on in its own record and leaves the others.
LEMMA HandleKeepsNumbers ==
    ASSUME TypeInv, AllNumbered, NEW res \in results, HandleResult(res)
    PROVE  AllNumbered'
<1>1. DOMAIN records' = DOMAIN records
  BY ResultEffect
<1>2. ASSUME NEW id \in DOMAIN records, id.channel = "IM"
      PROVE  Numbered(records'[id], DispatchesOf(id)')
  <2>1. CASE id = res.record
    BY <1>2, <2>1, ResultKeepsNumbers DEF AllNumbered
  <2>2. CASE id # res.record
    BY <1>2, <2>2, OthersKeep DEF AllNumbered
  <2>3. QED
    BY <2>1, <2>2
<1>3. QED
  BY <1>1, <1>2 DEF AllNumbered

\* No step breaks the numbering.
LEMMA NumberedNext == TypeInv /\ AllNumbered /\ [Next]_vars => AllNumbered'
<1>1. UNCHANGED database /\ AllNumbered => AllNumbered'
  BY DEF AllNumbered, DispatchesOf, database
<1>2. QED
  BY <1>1, HandlersOnly, CommitKeepsNumbers, HandleKeepsNumbers

\* The invariant on types, references and numbers.
LEMMA NumberedInvariant == Spec => [](TypeInv /\ AllNumbered)
<1>1. Init => TypeInv /\ AllNumbered
  <2>1. Init => DOMAIN records = {}
    BY DEF Init
  <2>2. QED
    BY <2>1, InitTypeInv DEF AllNumbered
<1>2. TypeInv /\ AllNumbered /\ [Next]_vars => (TypeInv /\ AllNumbered)'
  BY NextTypeInv, NumberedNext
<1>3. QED
  BY <1>1, <1>2, PTL DEF Spec

\* With any number of adapters and any order of their results, the dispatches
\* of an IM record are its attempts 1, 2, ..., each sent once, and an active
\* record has the one its retry count says.
THEOREM RetriesAreNumbered == Spec => []DispatchesAreTheAttempts
<1>1. AllNumbered => DispatchesAreTheAttempts
  BY DEF AllNumbered, Numbered, DispatchesAreTheAttempts
<1>2. QED
  BY <1>1, NumberedInvariant, PTL

----------------------------------------------------------------------------
(* Nothing is left behind. *)

\* The attempt was dispatched.
SentAs(id, attempt) == \E row \in DispatchesOf(id) : row.version = attempt

\* Adapters speak of attempts that were dispatched.
AttemptsAreSent ==
    /\ \A d \in received : SentAs(d.record, d.attempt)
    /\ \A res \in results : SentAs(res.record, res.attempt)

\* The number of a result against the attempt it answers.
LEMMA ResultVersionBounds ==
    ASSUME TypeInv, NEW res \in results
    PROVE  /\ ResultVersion(res) \in Nat
           /\ ResultVersion(res) <= 2 * res.attempt
           /\ res.phase = "CONFIRMED" => ResultVersion(res) = 2 * res.attempt
<1>1. res.attempt \in Nat \ {0}
  BY MaxRetriesAssumption DEF TypeInv, TypeOK, Result, Attempt
<1>2. QED
  BY <1>1 DEF ResultVersion

\* What was sent stays sent.
LEMMA SentStays ==
    ASSUME outbox \subseteq outbox', NEW id, NEW attempt
    PROVE  SentAs(id, attempt) => SentAs(id, attempt)'
BY DEF SentAs, DispatchesOf

\* Rows stay in the outbox and results in the inbox.
LEMMA TablesGrow ==
    ASSUME TypeInv, [Next]_vars
    PROVE  outbox \subseteq outbox' /\ resultInbox \subseteq resultInbox'
<1>1. ASSUME NEW job \in jobs, TaskCommit(job)
      PROVE  outbox \subseteq outbox' /\ resultInbox \subseteq resultInbox'
  BY <1>1 DEF TaskCommit
<1>2. ASSUME NEW res \in results, HandleResult(res)
      PROVE  outbox \subseteq outbox' /\ resultInbox \subseteq resultInbox'
  BY <1>2, ResultEffect
<1>3. QED
  BY <1>1, <1>2, HandlersOnly DEF database

\* An adapter takes up what is in the outbox and answers what it took up.
LEMMA AttemptsNext ==
    ASSUME TypeInv, AttemptsAreSent, [Next]_vars
    PROVE  AttemptsAreSent'
<1>1. \A id, attempt : SentAs(id, attempt) => SentAs(id, attempt)'
  BY TablesGrow, SentStays
<1>2. \A d \in received' \ received : SentAs(d.record, d.attempt)
  <2>1. ASSUME NEW a \in Adapter, NEW row \in outbox, AdapterReceive(a, row),
               NEW d \in received' \ received
        PROVE  SentAs(d.record, d.attempt)
    <3>1. /\ d.record = row.aggregate_id /\ d.attempt = row.version
          /\ row \in DispatchesOf(row.aggregate_id)
      BY <2>1 DEF AdapterReceive, DispatchesOf, IsDispatch
    <3>2. QED
      BY <3>1 DEF SentAs
  <2>2. \/ received' = received
        \/ \E a \in Adapter, row \in outbox : AdapterReceive(a, row)
    <3>1. ASSUME NEW res \in results, HandleResult(res) PROVE received' = received
      BY <3>1, ResultEffect DEF adapters
    <3>2. QED
      BY <3>1 DEF Next, Consumer, Adapters, Environment, TaskStart, TaskReadGlobal,
                  TaskCommit, TaskRollback, AdapterReport, AdapterConfirm, Publish,
                  ProfileChanges, UserDisabled, PreferencesReplaced, vars, adapters
  <2>3. QED
    BY <2>1, <2>2
<1>3. \A res \in results' \ results :
         \E d \in received : res.record = d.record /\ res.attempt = d.attempt
  <2>1. ASSUME NEW res \in results, HandleResult(res) PROVE results' = results
    BY <2>1, ResultEffect DEF adapters
  <2>2. ASSUME NEW d \in received, NEW phase, NEW outcome, Publish(d, phase, outcome)
        PROVE  \A res \in results' \ results :
                  res.record = d.record /\ res.attempt = d.attempt
    BY <2>2 DEF Publish
  <2>3. \/ results' = results
        \/ \E d \in received : \E phase, outcome : Publish(d, phase, outcome)
    BY <2>1 DEF Next, Consumer, Adapters, Environment, TaskStart, TaskReadGlobal,
                TaskCommit, TaskRollback, AdapterReceive, AdapterReport, AdapterConfirm,
                ProfileChanges, UserDisabled, PreferencesReplaced, vars, adapters
  <2>4. QED
    BY <2>2, <2>3
<1>4. \A d \in received' : SentAs(d.record, d.attempt)'
  BY <1>1, <1>2 DEF AttemptsAreSent
<1>5. \A res \in results' : SentAs(res.record, res.attempt)'
  BY <1>1, <1>3 DEF AttemptsAreSent
<1>6. QED
  BY <1>4, <1>5 DEF AttemptsAreSent

\* No confirmation was consumed of the attempt an active record is in: a
\* confirmation either ends the record or the attempt.
IsOpen(id, rec, inbox) ==
    IsActive(rec) =>
       \A seen \in inbox :
          seen.record = id =>
             ResultVersion(seen) \in Nat /\ ResultVersion(seen) < 2 * (rec.retry_count + 1)

AttemptIsOpen ==
    \A id \in DOMAIN records :
       id.channel = "IM" => IsOpen(id, records[id], resultInbox)

OpenInv == AttemptsAreSent /\ AttemptIsOpen

\* Nobody speaks of an attempt beyond the one the record may be in.
LEMMA AttemptsAreCounted ==
    ASSUME TypeInv, AllNumbered, NEW id \in DOMAIN records, id.channel = "IM",
           NEW attempt \in Nat, SentAs(id, attempt)
    PROVE  attempt <= records[id].retry_count + 1
<1>1. records[id].retry_count \in Nat
  BY DEF TypeInv, TypeOK, Record
<1>2. PICK last \in {records[id].retry_count, records[id].retry_count + 1} :
         {r.version : r \in DispatchesOf(id)} = 1 .. last
  BY DEF AllNumbered, Numbered
<1>3. attempt \in 1 .. last
  BY <1>2 DEF SentAs
<1>4. QED
  BY <1>1, <1>2, <1>3

\* A result that leaves its record active was no confirmation of the attempt
\* under way, or it has started the next one.
LEMMA ResultLeavesOpen ==
    ASSUME TypeInv, AllNumbered, OpenInv, NEW res \in results, HandleResult(res)
    PROVE  IsOpen(res.record, records'[res.record], resultInbox')
<1> DEFINE id  == res.record
           old == records[id]
           new == MarkRetrying(old, "ADAPTER")
           n   == old.retry_count
<1>1. /\ id \in DOMAIN records /\ id.channel = "IM"
      /\ old \in Record /\ n \in Nat /\ res.attempt \in Nat
      /\ new \in Record /\ new.retry_count = n + 1
      /\ {"ADAPTER", "EXHAUSTED", "NO_CONTACT"} \subseteq Reason
  BY ResultTypes DEF Record, Reason
<1>2. SUFFICES ASSUME IsActive(records'[id])
               PROVE  IsOpen(id, records'[id], resultInbox')
  BY DEF IsOpen
<1>3. IsActive(old) /\ resultInbox' = resultInbox \cup {res}
  BY <1>2, ResultEffect DEF Progress
<1>4. \A seen \in resultInbox :
         seen.record = id => ResultVersion(seen) \in Nat /\ ResultVersion(seen) < 2 * (n + 1)
  BY <1>1, <1>3 DEF OpenInv, AttemptIsOpen, IsOpen
<1>5. res.attempt <= n + 1
  BY <1>1, AttemptsAreCounted DEF OpenInv, AttemptsAreSent
<1>6. /\ ~IsActive(MarkSent(old)) /\ ~IsActive(MarkFailedPermanent(old, "ADAPTER"))
      /\ MarkAccepted(old, res.attempt).retry_count = n
      /\ \A reason \in Reason : ~IsActive(MarkFailedPermanent(new, reason))
  BY <1>1, MarksFields
<1>7. \/ res.phase # "CONFIRMED" /\ records'[id] \in {old, MarkAccepted(old, res.attempt)}
      \/ res.phase = "CONFIRMED" /\ records'[id] = new
  <2> HIDE DEF new
  <2>1. QED
    BY <1>1, <1>2, <1>3, <1>6, ResultForms DEF Writes, new
<1>8. CASE res.phase # "CONFIRMED" /\ records'[id].retry_count = n
  <2>1. ResultVersion(res) \in Nat /\ ResultVersion(res) < 2 * (n + 1)
    <3>1. ResultVersion(res) = 2 * res.attempt - 1
      BY <1>8 DEF ResultVersion
    <3>2. QED
      BY <1>1, <1>5, <3>1, ResultVersionBounds
  <2>2. QED
    BY <1>3, <1>4, <1>8, <2>1 DEF IsOpen
<1>9. CASE res.phase = "CONFIRMED" /\ records'[id].retry_count = n + 1
  <2>1. ResultVersion(res) \in Nat /\ ResultVersion(res) < 2 * (n + 1 + 1)
    BY <1>1, <1>5, ResultVersionBounds
  <2>2. \A seen \in resultInbox :
           seen.record = id =>
           ResultVersion(seen) \in Nat /\ ResultVersion(seen) < 2 * (n + 1 + 1)
    BY <1>1, <1>4
  <2>3. QED
    BY <1>3, <1>9, <2>1, <2>2 DEF IsOpen
<1>10. QED
  BY <1>1, <1>6, <1>7, <1>8, <1>9

\* No step answers an attempt and leaves the record in it.
LEMMA OpenNext ==
    ASSUME TypeInv, AllNumbered, OpenInv, [Next]_vars
    PROVE  OpenInv'
<1>1. AttemptsAreSent'
  BY AttemptsNext DEF OpenInv
<1>2. \A id \in DOMAIN records :
         id.channel = "IM" => IsOpen(id, records[id], resultInbox)
  BY DEF OpenInv, AttemptIsOpen
<1>3. ASSUME NEW res \in results, HandleResult(res), NEW id \in DOMAIN records',
             id.channel = "IM"
      PROVE  IsOpen(id, records'[id], resultInbox')
  <2>1. id \in DOMAIN records
    BY <1>3, ResultEffect
  <2>2. CASE id = res.record
    BY <1>3, <2>2, ResultLeavesOpen
  <2>3. CASE id # res.record
    <3>1. records'[id] = records[id] /\ resultInbox' = resultInbox \cup {res}
      BY <1>3, <2>1, <2>3, ResultEffect
    <3>2. QED
      BY <1>2, <1>3, <2>1, <2>3, <3>1 DEF IsOpen
  <2>4. QED
    BY <2>2, <2>3
<1>4. ASSUME NEW job \in jobs, TaskCommit(job), NEW id \in DOMAIN records',
             id.channel = "IM"
      PROVE  IsOpen(id, records'[id], resultInbox')
  <2>1. resultInbox' = resultInbox
    BY <1>4 DEF TaskCommit
  <2>2. CASE id \in DOMAIN records
    <3>1. records'[id] = records[id]
      BY <1>4, <2>2, CommitAddsRecords
    <3>2. QED
      BY <1>2, <1>4, <2>1, <2>2, <3>1
  <2>3. CASE id \notin DOMAIN records
    <3>1. \A seen \in resultInbox : seen.record \in DOMAIN records
      BY DEF TypeInv, TypeOK, References
    <3>2. QED
      BY <2>1, <2>3, <3>1 DEF IsOpen
  <2>4. QED
    BY <2>2, <2>3
<1>5. ASSUME UNCHANGED database, NEW id \in DOMAIN records', id.channel = "IM"
      PROVE  IsOpen(id, records'[id], resultInbox')
  <2>1. records' = records /\ resultInbox' = resultInbox
    BY <1>5 DEF database
  <2>2. QED
    BY <1>2, <1>5, <2>1 DEF IsOpen
<1>6. \A id \in DOMAIN records' :
         id.channel = "IM" => IsOpen(id, records'[id], resultInbox')
  BY <1>3, <1>4, <1>5, HandlersOnly
<1>7. QED
  BY <1>1, <1>6 DEF OpenInv, AttemptIsOpen, IsOpen

\* With any number of adapters and any order of their results, an IM record
\* that is still active is in an attempt that was dispatched, that every
\* adapter can take up and that each of them can still confirm: whatever was
\* consumed has been acted upon, and no inbox is closed to what is awaited.
THEOREM ActiveRecordsCanSettle == Spec => []ActiveRecordCanSettle
<1>1. Init => OpenInv
  BY DEF Init, OpenInv, AttemptsAreSent, AttemptIsOpen
<1>2. TypeInv /\ AllNumbered /\ OpenInv /\ [Next]_vars => OpenInv'
  BY OpenNext
<1>3. TypeInv /\ AllNumbered /\ OpenInv => ActiveRecordCanSettle
  <2> SUFFICES ASSUME TypeInv, AllNumbered, OpenInv,
                      NEW id \in DOMAIN records, id.channel = "IM", IsActive(records[id])
               PROVE  \E row \in DispatchesOf(id) :
                         /\ row.version = records[id].retry_count + 1
                         /\ \A d \in received : d.record = id => d.attempt <= row.version
                         /\ \A seen \in resultInbox :
                               seen.record = id =>
                               ResultVersion(seen)
                                  < ResultVersion(Confirmation(row.version))
    BY DEF ActiveRecordCanSettle
  <2> DEFINE n == records[id].retry_count
  <2>1. n \in Nat
    BY DEF TypeInv, TypeOK, Record
  <2>2. {r.version : r \in DispatchesOf(id)} = 1 .. n + 1
    BY DEF AllNumbered, Numbered
  <2>3. PICK row \in DispatchesOf(id) : row.version = n + 1
    <3>1. n + 1 \in 1 .. n + 1
      BY <2>1
    <3>2. QED
      BY <2>2, <3>1
  <2>4. \A d \in received : d.record = id => d.attempt <= n + 1
    <3>1. \A d \in received : d.attempt \in Nat
      BY MaxRetriesAssumption DEF TypeInv, TypeOK, Delivered, Attempt
    <3>2. QED
      BY <3>1, AttemptsAreCounted DEF OpenInv, AttemptsAreSent
  <2>5. ResultVersion(Confirmation(n + 1)) = 2 * (n + 1)
    BY DEF ResultVersion, Confirmation
  <2>6. \A seen \in resultInbox : seen.record = id => ResultVersion(seen) < 2 * (n + 1)
    BY DEF OpenInv, AttemptIsOpen, IsOpen
  <2>7. QED
    BY <2>3, <2>4, <2>5, <2>6
<1>4. QED
  BY <1>1, <1>2, <1>3, NumberedInvariant, PTL DEF Spec

----------------------------------------------------------------------------
(* Every retry is used. *)

\* A record that gave up for want of retries counted past the limit, and no
\* statement touches it again.
GaveUp(id, rec) ==
    rec.last_error = "EXHAUSTED" =>
       id.channel = "IM" /\ ~IsActive(rec) /\ rec.retry_count > MaxRetries

\* Only the branch of the exhausted retry makes a record give up.
LEMMA ResultGivesUp ==
    ASSUME TypeInv, NEW res \in results, HandleResult(res),
           GaveUp(res.record, records[res.record])
    PROVE  GaveUp(res.record, records'[res.record])
<1> DEFINE id  == res.record
           old == records[id]
           new == MarkRetrying(old, "ADAPTER")
<1>1. /\ id.channel = "IM" /\ old \in Record /\ res.attempt \in Nat /\ new \in Record
      /\ {"ADAPTER", "EXHAUSTED", "NO_CONTACT"} \subseteq Reason
  BY ResultTypes DEF Reason
<1>2. CASE ~IsActive(old)
  BY <1>2, ResultEffect DEF Progress
<1>3. CASE IsActive(old)
  <2>1. old.last_error # "EXHAUSTED"
    BY <1>3 DEF GaveUp
  <2>2. /\ MarkAccepted(old, res.attempt).last_error = old.last_error
        /\ MarkSent(old).last_error = old.last_error
        /\ MarkFailedPermanent(old, "ADAPTER").last_error = "ADAPTER"
        /\ new.last_error = "ADAPTER" /\ IsActive(new)
    BY <1>1, <1>3, MarksFields
  <2>3. /\ MarkFailedPermanent(new, "NO_CONTACT").last_error = "NO_CONTACT"
        /\ MarkFailedPermanent(new, "EXHAUSTED").retry_count = new.retry_count
        /\ ~IsActive(MarkFailedPermanent(new, "EXHAUSTED"))
    BY <1>1, <2>2, MarksFields
  <2> HIDE DEF new
  <2>4. \/ records'[id] = MarkFailedPermanent(new, "EXHAUSTED") /\ Exhausted(new.retry_count)
        \/ records'[id] \in {old, MarkAccepted(old, res.attempt), MarkSent(old), new,
                             MarkFailedPermanent(old, "ADAPTER"),
                             MarkFailedPermanent(new, "NO_CONTACT")}
    BY ResultForms DEF Writes, new
  <2>5. QED
    BY <1>1, <2>1, <2>2, <2>3, <2>4 DEF GaveUp, Exhausted
<1>4. QED
  BY <1>2, <1>3

\* No step lets a record give up early.
LEMMA GaveUpNext ==
    ASSUME TypeInv, [Next]_vars, \A id \in DOMAIN records : GaveUp(id, records[id])
    PROVE  \A id \in DOMAIN records' : GaveUp(id, records'[id])
<1>1. ASSUME NEW job \in jobs, TaskCommit(job), NEW id \in DOMAIN records'
      PROVE  GaveUp(id, records'[id])
  <2>1. \/ id \in DOMAIN records /\ records'[id] = records[id]
        \/ records'[id] = NewRecord(id, job.contact, ChannelsFor(job))
    BY <1>1, CommitAddsRecords
  <2>2. NewRecord(id, job.contact, ChannelsFor(job)).last_error # "EXHAUSTED"
    BY DEF NewRecord, CreateRecord, MarkFailedPermanent, IsActive, Terminal
  <2>3. QED
    BY <2>1, <2>2 DEF GaveUp
<1>2. ASSUME NEW res \in results, HandleResult(res), NEW id \in DOMAIN records'
      PROVE  GaveUp(id, records'[id])
  <2>1. id \in DOMAIN records /\ (id # res.record => records'[id] = records[id])
    BY <1>2, ResultEffect
  <2>2. CASE id = res.record
    BY <1>2, <2>1, <2>2, ResultGivesUp
  <2>3. CASE id # res.record
    BY <2>1, <2>3
  <2>4. QED
    BY <2>2, <2>3
<1>3. CASE UNCHANGED database
  BY <1>3 DEF database
<1>4. QED
  BY <1>1, <1>2, <1>3, HandlersOnly

\* Whoever is told that the retries are exhausted had the first dispatch and
\* maxRetries more, whatever maxRetries is.
THEOREM RetriesAreUsed == Spec => []ExhaustedAfterEveryRetry
<1> DEFINE AllGaveUp == \A id \in DOMAIN records : GaveUp(id, records[id])
<1>1. Init => AllGaveUp
  BY DEF Init
<1>2. TypeInv /\ AllGaveUp /\ [Next]_vars => AllGaveUp'
  BY GaveUpNext
<1>3. TypeInv /\ AllNumbered /\ AllGaveUp => ExhaustedAfterEveryRetry
  <2> SUFFICES ASSUME TypeInv, AllNumbered, AllGaveUp,
                      NEW id \in DOMAIN records, records[id].last_error = "EXHAUSTED"
               PROVE  Attempt \subseteq {row.version : row \in DispatchesOf(id)}
    BY DEF ExhaustedAfterEveryRetry
  <2>1. /\ id.channel = "IM" /\ records[id].retry_count > MaxRetries
        /\ records[id].retry_count \in Nat
    BY DEF GaveUp, TypeInv, TypeOK, Record
  <2>2. PICK last \in {records[id].retry_count, records[id].retry_count + 1} :
           {row.version : row \in DispatchesOf(id)} = 1 .. last
    BY <2>1 DEF AllNumbered, Numbered
  <2>3. Attempt \subseteq 1 .. last
    BY <2>1, MaxRetriesAssumption DEF Attempt
  <2>4. QED
    BY <2>2, <2>3
<1>4. QED
  BY <1>1, <1>2, <1>3, NumberedInvariant, PTL DEF Spec

----------------------------------------------------------------------------
(* What readers of the table may rely on. *)

\* The status a statement leaves depends on the status it finds alone.
LEMMA StatementsMoveStatus ==
    ASSUME NEW rec \in Record, NEW n \in Nat, NEW r1 \in Reason
    PROVE  /\ MarkAccepted(rec, n).status \in StatusesAfter(rec.status)
           /\ MarkSent(rec).status \in StatusesAfter(rec.status)
           /\ MarkFailedPermanent(rec, r1).status \in StatusesAfter(rec.status)
           /\ IsActive(rec) => "RETRYING" \in StatusesAfter(rec.status)
<1> DEFINE s     == rec.status
           plain == [CreateRecord("PENDING") EXCEPT !.status = s]
<1>1. plain \in Record /\ plain.status = s /\ s \in Status
  BY DEF CreateRecord, Record, Status, Reason
<1>2. "ADAPTER" \in Reason
  BY DEF Reason
<1>3. ASSUME NEW any \in Record, any.status = s, NEW m \in Nat, NEW reason \in Reason
      PROVE  /\ MarkAccepted(any, m).status =
                   IF s \in {"PENDING", "RETRYING"} THEN "ACCEPTED" ELSE s
             /\ MarkSent(any).status =
                   IF s \in {"PENDING", "ACCEPTED", "RETRYING"} THEN "SENT" ELSE s
             /\ MarkFailedPermanent(any, reason).status =
                   IF s \notin Terminal THEN "FAILED_PERMANENT" ELSE s
             /\ MarkRetrying(any, reason).status = "RETRYING"
             /\ IsActive(any) <=> s \notin Terminal
  BY <1>3 DEF MarkAccepted, MarkSent, MarkFailedPermanent, MarkRetrying, IsActive, Record
<1> HIDE DEF plain
<1>4. StatusesAfter(s) =
         {MarkAccepted(plain, 1).status, MarkSent(plain).status,
          MarkFailedPermanent(plain, "ADAPTER").status}
         \cup (IF IsActive(plain) THEN {MarkRetrying(plain, "ADAPTER").status} ELSE {})
  BY DEF StatusesAfter, plain
<1>5. StatusesAfter(s) =
         {IF s \in {"PENDING", "RETRYING"} THEN "ACCEPTED" ELSE s,
          IF s \in {"PENDING", "ACCEPTED", "RETRYING"} THEN "SENT" ELSE s,
          IF s \notin Terminal THEN "FAILED_PERMANENT" ELSE s}
         \cup (IF s \notin Terminal THEN {"RETRYING"} ELSE {})
  BY <1>1, <1>2, <1>3, <1>4
<1>6. QED
  BY <1>3, <1>5

\* The writers Listing puts in the place of the consumer are those there are:
\* a record appears in one of the statuses of CreatedStatus and from then on
\* its status changes as one statement of records.go would change it, even by
\* the handlers that run two of them.
RecordsMoveAsListed ==
    [][\A id \in DOMAIN records' :
          IF id \in DOMAIN records
          THEN records'[id].status \in
                  {records[id].status} \cup StatusesAfter(records[id].status)
          ELSE records'[id].status \in CreatedStatus]_vars

\* The handler of a result moves a status only to one its rules list.
LEMMA ResultMovesAsListed ==
    ASSUME TypeInv, NEW res \in results, HandleResult(res)
    PROVE  records'[res.record].status \in
              {records[res.record].status}
              \cup StatusesAfter(records[res.record].status)
<1> DEFINE old == records[res.record]
           new == MarkRetrying(old, "ADAPTER")
<1>1. old \in Record /\ res.attempt \in Nat
  BY ResultTypes DEF Attempt
<1>2. /\ "ADAPTER" \in Reason /\ "EXHAUSTED" \in Reason /\ "NO_CONTACT" \in Reason
  BY DEF Reason
<1>3. /\ new \in Record /\ new.status = "RETRYING" /\ IsActive(new)
      /\ MarkFailedPermanent(new, "EXHAUSTED").status = "FAILED_PERMANENT"
      /\ MarkFailedPermanent(new, "NO_CONTACT").status = "FAILED_PERMANENT"
  <2>1. new \in Record
    BY ResultTypes
  <2>2. new.status = "RETRYING" /\ IsActive(new)
    BY <1>1 DEF MarkRetrying, Record, IsActive, Terminal
  <2> HIDE DEF new
  <2>3. QED
    BY <1>1, <1>2, <2>1, <2>2, MarksFields
<1>4. /\ MarkAccepted(old, res.attempt).status \in StatusesAfter(old.status)
      /\ MarkSent(old).status \in StatusesAfter(old.status)
      /\ MarkFailedPermanent(old, "ADAPTER").status \in StatusesAfter(old.status)
      /\ IsActive(old) => "RETRYING" \in StatusesAfter(old.status)
      /\ IsActive(old) => "FAILED_PERMANENT" \in StatusesAfter(old.status)
  <2>1. IsActive(old) => MarkFailedPermanent(old, "ADAPTER").status = "FAILED_PERMANENT"
    BY <1>1, <1>2, MarksFields
  <2>2. QED
    BY <1>1, <1>2, <2>1, StatementsMoveStatus
<1> HIDE DEF old, new
<1>5. QED
  <2>1. \/ records'[res.record] \in {old, MarkAccepted(old, res.attempt), MarkSent(old),
                                     MarkFailedPermanent(old, "ADAPTER")}
        \/ /\ IsActive(old)
           /\ records'[res.record] \in {new, MarkFailedPermanent(new, "EXHAUSTED"),
                                        MarkFailedPermanent(new, "NO_CONTACT")}
    BY ResultForms DEF Writes, old, new
  <2>2. records'[res.record].status \in {old.status} \cup StatusesAfter(old.status)
    BY <1>3, <1>4, <2>1
  <2>3. QED
    BY <2>2 DEF old

\* Readers see no other moves than those Listing is checked and proved with.
THEOREM WritersAreAsListed == Spec => RecordsMoveAsListed
<1> DEFINE Moves ==
             \A id \in DOMAIN records' :
                IF id \in DOMAIN records
                THEN records'[id].status \in
                        {records[id].status} \cup StatusesAfter(records[id].status)
                ELSE records'[id].status \in CreatedStatus
<1>1. TypeInv /\ [Next]_vars => [Moves]_vars
  <2> SUFFICES ASSUME TypeInv, [Next]_vars
               PROVE  Moves
    OBVIOUS
  <2>1. ASSUME NEW job \in jobs, TaskCommit(job)
        PROVE  Moves
    <3> DEFINE list == ChannelsFor(job)
               ids  == NewIds(job.task, list)
    <3>1. /\ DOMAIN records' = DOMAIN records \cup ids
          /\ \A id \in DOMAIN records : records'[id] = records[id]
          /\ \A id \in ids : records'[id] = NewRecord(id, job.contact, list)
      BY <2>1, CommitAddsRecords
    <3>2. ASSUME NEW id
          PROVE  NewRecord(id, job.contact, list).status \in CreatedStatus
      <4>1. MarkFailedPermanent(CreateRecord("PENDING"), "NO_CONTACT").status
              = "FAILED_PERMANENT"
        BY DEF MarkFailedPermanent, CreateRecord, IsActive, Terminal
      <4>2. /\ CreateRecord("PENDING").status = "PENDING"
            /\ CreateRecord("SUPPRESSED").status = "SUPPRESSED"
        BY DEF CreateRecord
      <4>3. QED
        BY <4>1, <4>2 DEF NewRecord, CreatedStatus
    <3> HIDE DEF list, ids
    <3>3. QED
      BY <3>1, <3>2
  <2>2. ASSUME NEW res \in results, HandleResult(res)
        PROVE  Moves
    <3>1. DOMAIN records' = DOMAIN records /\ res.record \in DOMAIN records
      BY <2>2, ResultEffect, ResultTypes
    <3>2. \A id \in DOMAIN records : id # res.record => records'[id] = records[id]
      BY <2>2, OthersKeep
    <3>3. records'[res.record].status \in
             {records[res.record].status} \cup StatusesAfter(records[res.record].status)
      BY <2>2, ResultMovesAsListed
    <3>4. QED
      BY <3>1, <3>2, <3>3
  <2>3. CASE UNCHANGED database
    BY <2>3 DEF database
  <2>4. QED
    BY <2>1, <2>2, <2>3, HandlersOnly
<1>2. Spec => []TypeInv
  BY InitTypeInv, NextTypeInv, PTL DEF Spec
<1>3. QED
  BY <1>1, <1>2, PTL DEF Spec, RecordsMoveAsListed

----------------------------------------------------------------------------
(* Ends and announcements, with any number of adapters. *)

Announced(id, rec, rows) ==
    /\ rec.status = "SENT" => Sent(id) \in rows
    /\ rec.status = "FAILED_PERMANENT" /\ rec.last_error # "NO_CONTACT"
          => Failed(id) \in rows
    /\ Sent(id) \in rows \/ Failed(id) \in rows => ~IsActive(rec)

\* What is left of AnnouncedOutcomeIsStored when adapters contradict each
\* other: the end of a record is announced, unless it ended for want of an
\* address, and nothing is announced of a record that is still under way
\* (imResultHandler, handleRetryableFailureTx).  The announcement may then
\* name another end beside the one stored, which is what DeliveryContradiction
\* shows.
EndsAreAnnounced ==
    \A id \in DOMAIN records : Announced(id, records[id], outbox)

\* Handling a result keeps this of its record, whichever branch is taken.
LEMMA ResultAnnounces ==
    ASSUME TypeInv, NEW res \in results, HandleResult(res),
           Announced(res.record, records[res.record], outbox)
    PROVE  Announced(res.record, records'[res.record], outbox')
<1> DEFINE id  == res.record
           old == records[id]
           new == MarkRetrying(old, "ADAPTER")
<1>1. /\ old \in Record /\ res.attempt \in Nat /\ new \in Record
      /\ {"ADAPTER", "EXHAUSTED", "NO_CONTACT"} \subseteq Reason
  BY ResultTypes DEF Reason
<1>2. CASE ~IsActive(old)
  BY <1>2, ResultEffect DEF Progress, Announced
<1>3. CASE IsActive(old)
  <2>1. Sent(id) \notin outbox /\ Failed(id) \notin outbox
    BY <1>3 DEF Announced
  <2>2. /\ IsActive(MarkAccepted(old, res.attempt))
        /\ MarkSent(old).status = "SENT" /\ ~IsActive(MarkSent(old))
        /\ MarkFailedPermanent(old, "ADAPTER").status = "FAILED_PERMANENT"
        /\ ~IsActive(MarkFailedPermanent(old, "ADAPTER"))
        /\ IsActive(new)
    BY <1>1, <1>3, MarksFields
  <2>3. ASSUME NEW reason \in {"EXHAUSTED", "NO_CONTACT"}
        PROVE  /\ ~IsActive(MarkFailedPermanent(new, reason))
               /\ MarkFailedPermanent(new, reason).status = "FAILED_PERMANENT"
               /\ MarkFailedPermanent(new, reason).last_error = reason
    <3> HIDE DEF new
    <3>1. QED
      BY <1>1, <2>2, MarksFields
  <2>4. \A rec : IsActive(rec) => rec.status \notin {"SENT", "FAILED_PERMANENT"}
    BY DEF IsActive, Terminal
  <2>5. \A to : LET row == [subject |-> "dispatch.im", aggregate_id |-> id,
                            version |-> new.retry_count + 1, to |-> to]
                IN  row # Sent(id) /\ row # Failed(id)
    BY DEF Sent, Failed
  <2>6. Sent(id) # Failed(id)
    BY DEF Sent, Failed
  <2> HIDE DEF new, old
  <2>7. \/ records'[id] \in {old, MarkAccepted(old, res.attempt)} /\ outbox' = outbox
        \/ records'[id] = MarkSent(old) /\ outbox' = outbox \cup {Sent(id)}
        \/ /\ records'[id] \in {MarkFailedPermanent(old, "ADAPTER"),
                                MarkFailedPermanent(new, "EXHAUSTED")}
           /\ outbox' = outbox \cup {Failed(id)}
        \/ records'[id] = MarkFailedPermanent(new, "NO_CONTACT") /\ outbox' = outbox
        \/ \E to : /\ records'[id] = new
                   /\ outbox' = outbox \cup
                        {[subject |-> "dispatch.im", aggregate_id |-> id,
                          version |-> new.retry_count + 1, to |-> to]}
    BY <1>3, ResultForms DEF Writes, old, new
  <2>8. CASE records'[id] \in {old, MarkAccepted(old, res.attempt)} /\ outbox' = outbox
    BY <1>3, <2>1, <2>2, <2>4, <2>8 DEF Announced
  <2>9. CASE records'[id] = MarkSent(old) /\ outbox' = outbox \cup {Sent(id)}
    BY <2>2, <2>9 DEF Announced
  <2>10. CASE /\ records'[id] \in {MarkFailedPermanent(old, "ADAPTER"),
                                   MarkFailedPermanent(new, "EXHAUSTED")}
              /\ outbox' = outbox \cup {Failed(id)}
    BY <2>2, <2>3, <2>10 DEF Announced
  <2>11. CASE records'[id] = MarkFailedPermanent(new, "NO_CONTACT") /\ outbox' = outbox
    BY <2>1, <2>3, <2>11 DEF Announced
  <2>12. CASE \E to : /\ records'[id] = new
                      /\ outbox' = outbox \cup
                           {[subject |-> "dispatch.im", aggregate_id |-> id,
                             version |-> new.retry_count + 1, to |-> to]}
    BY <2>1, <2>2, <2>4, <2>5, <2>12 DEF Announced
  <2>13. QED
    BY <2>7, <2>8, <2>9, <2>10, <2>11, <2>12
<1>4. QED
  BY <1>2, <1>3

\* A task's records are new, and nothing but dispatches is written with them.
LEMMA CommitAnnounces ==
    ASSUME TypeInv, EndsAreAnnounced, NEW job \in jobs, TaskCommit(job)
    PROVE  EndsAreAnnounced'
<1> DEFINE list == ChannelsFor(job)
           ids  == NewIds(job.task, list)
           sent == Dispatched(job.contact, list, ids)
           Added == {Dispatch(id, 1, AddressFor(id.channel, job.contact)) : id \in sent}
<1>1. /\ ids \cap DOMAIN records = {}
      /\ DOMAIN records' = DOMAIN records \cup ids
      /\ \A id \in DOMAIN records : records'[id] = records[id]
      /\ \A id \in ids : records'[id] = NewRecord(id, job.contact, list)
  BY CommitAddsRecords
<1>2. outbox' = outbox \cup Added
  BY DEF TaskCommit
<1>3. \A id : Sent(id) \notin Added /\ Failed(id) \notin Added
  BY DEF Sent, Failed, Dispatch, DispatchSubject
<1>4. \A id : (Sent(id) \in outbox \/ Failed(id) \in outbox) => id \in DOMAIN records
  BY DEF TypeInv, References, Sent, Failed
<1>5. \A id : /\ NewRecord(id, job.contact, list).status # "SENT"
              /\ NewRecord(id, job.contact, list).status = "FAILED_PERMANENT"
                    => NewRecord(id, job.contact, list).last_error = "NO_CONTACT"
  BY DEF NewRecord, CreateRecord, MarkFailedPermanent, IsActive, Terminal
<1> HIDE DEF list, ids, Added
<1>6. ASSUME NEW id \in DOMAIN records
      PROVE  Announced(id, records[id], outbox')
  BY <1>2, <1>3 DEF EndsAreAnnounced, Announced
<1>7. ASSUME NEW id \in ids
      PROVE  Announced(id, records'[id], outbox')
  BY <1>1, <1>2, <1>3, <1>4, <1>5 DEF Announced
<1>8. QED
  BY <1>1, <1>6, <1>7 DEF EndsAreAnnounced

\* A notification that ends as sent, refused or exhausted is announced as that,
\* and none is announced as ended before it is, with any number of adapters and
\* whatever they answer.  One that ends for want of an address is not announced.
THEOREM NoSilentEnd == Spec => []EndsAreAnnounced
<1>1. Init => EndsAreAnnounced
  BY DEF Init, EndsAreAnnounced
<1>2. TypeInv /\ EndsAreAnnounced /\ [Next]_vars => EndsAreAnnounced'
  <2> SUFFICES ASSUME TypeInv, EndsAreAnnounced, [Next]_vars
               PROVE  EndsAreAnnounced'
    OBVIOUS
  <2>1. ASSUME NEW job \in jobs, TaskCommit(job)
        PROVE  EndsAreAnnounced'
    BY <2>1, CommitAnnounces
  <2>2. ASSUME NEW res \in results, HandleResult(res)
        PROVE  EndsAreAnnounced'
    <3>1. /\ DOMAIN records' = DOMAIN records /\ res.record \in DOMAIN records
          /\ outbox \subseteq outbox'
          /\ \A row \in outbox' \ outbox : row.aggregate_id = res.record
      BY <2>2, ResultEffect, ResultTypes
    <3>2. Announced(res.record, records'[res.record], outbox')
      BY <2>2, <3>1, ResultAnnounces DEF EndsAreAnnounced
    <3>3. ASSUME NEW id \in DOMAIN records, id # res.record
          PROVE  Announced(id, records'[id], outbox')
      <4>1. records'[id] = records[id]
        BY <2>2, <3>3, OthersKeep
      <4>2. Sent(id).aggregate_id = id /\ Failed(id).aggregate_id = id
        BY DEF Sent, Failed
      <4>3. \A row : row.aggregate_id = id => (row \in outbox' <=> row \in outbox)
        BY <3>1, <3>3
      <4>4. QED
        BY <4>1, <4>2, <4>3 DEF EndsAreAnnounced, Announced
    <3>4. QED
      BY <3>1, <3>2, <3>3 DEF EndsAreAnnounced
  <2>3. CASE UNCHANGED database
    BY <2>3 DEF database, EndsAreAnnounced
  <2>4. QED
    BY <2>1, <2>2, <2>3, HandlersOnly
<1>3. Spec => []TypeInv
  BY InitTypeInv, NextTypeInv, PTL DEF Spec
<1>4. QED
  BY <1>1, <1>2, <1>3, PTL DEF Spec
=============================================================================
