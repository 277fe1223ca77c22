------------------------------ MODULE Delivery ------------------------------
(***************************************************************************)
(* The way of one notification through backend/internal/consumer: the      *)
(* event infra.workflow.task.created.v1 becomes rows of                    *)
(* notification_records and rows of event_outbox, the adapters of the IM   *)
(* channel answer with integration.im.result.v1, and the answers move the  *)
(* records to a final status, with retries in between.                     *)
(*                                                                         *)
(* Every handler runs in one transaction with its event_inbox row.  The    *)
(* handler of a task is split at its reads (contact, global preference,    *)
(* category preference): PostgreSQL runs it READ COMMITTED, so the other   *)
(* goroutines commit between two reads.  The handler of a result is one    *)
(* step: its UPDATE locks the record, no other goroutine writes records    *)
(* that exist, and it reads one more row, the contact.                     *)
(*                                                                         *)
(* The network is the set of rows and results ever written: one that is    *)
(* never read is lost or late, one that is read twice is a duplicate.      *)
(***************************************************************************)
EXTENDS PreferenceRules, FiniteSets

CONSTANTS Task,        \* infra.workflow.task.created.v1, one event per task
          User,        \* recipient subs
          Assignee,    \* assignee_sub of each task
          Adapter,     \* targetAdapters
          Phone, Email, \* addresses; "" is no address
          EarlyPhase,  \* what an adapter may report before it confirms
          Preference,  \* the preference documents users may store
          MaxRetries   \* maxRetries, 3 in the code

ASSUME AssigneeAssumption == Assignee \in [Task -> User]

ASSUME AddressAssumption == "" \notin Phone \cup Email

ASSUME EarlyPhaseAssumption == EarlyPhase \subseteq {"ACCEPTED", "UNKNOWN"}

ASSUME PreferenceAssumption == Preference \subseteq Preferences

ASSUME MaxRetriesAssumption == MaxRetries \in Nat

VARIABLES
          contacts,    \* user_contacts
          prefs,       \* notification_preferences
          records,     \* notification_records
          outbox,      \* event_outbox
          taskInbox,   \* event_inbox, rows of the task subject
          resultInbox, \* event_inbox, rows of the result subject
          jobs,        \* the task transaction in flight, if any
          received,    \* the adapters' event_inbox: dispatches they took up
          results      \* the results the adapters have published

vars == <<contacts, prefs, records, outbox, taskInbox, resultInbox, jobs,
          received, results>>

database == <<records, outbox, taskInbox, resultInbox>>
adapters == <<received, results>>
snapshots == <<contacts, prefs>>

----------------------------------------------------------------------------
(* Types.  A record is named by what it was created for; the BIGSERIAL id  *)
(* carries no more than its identity here.                                 *)

RecordId == [task : Task, channel : Channel, copy : 1 .. MaxCopies]

Recipient(id) == Assignee[id.task]

Contact == [phone : Phone \cup {""}, email : Email \cup {""},
            disabled : BOOLEAN]

Attempt == 1 .. MaxRetries + 1

Row == [subject : {"dispatch.im", "dispatch.email", "sent", "failed"},
        aggregate_id : RecordId, version : Attempt,
        to : Phone \cup Email \cup {""}]

\* A dispatch an adapter has taken up.
Delivered == [adapter : Adapter, record : RecordId, attempt : Attempt]

Phase == {"ACCEPTED", "CONFIRMED", "UNKNOWN"}

Outcome == {"NONE", "SUCCESS", "PERMANENT", "RETRYABLE"}

Result == [adapter : Adapter, record : RecordId, attempt : Attempt,
           phase : Phase, outcome : Outcome]

Job == [task : Task, contact : Contact, step : {"contact", "global"},
        global : Layer]

TypeOK ==
    /\ contacts \in [User -> Contact]
    /\ prefs \in [User -> Preferences]
    /\ DOMAIN records \subseteq RecordId
    /\ records \in [DOMAIN records -> Record]
    /\ outbox \subseteq Row
    /\ taskInbox \subseteq Task
    /\ resultInbox \subseteq results
    /\ jobs \subseteq Job
    /\ received \subseteq Delivered
    /\ results \subseteq Result

----------------------------------------------------------------------------
(* Helpers of the handlers. *)

DispatchSubject(channel) ==
    IF channel = "IM" THEN "dispatch.im" ELSE "dispatch.email"

\* publishIMDispatchTx and publishEmailDispatchTx.
Dispatch(id, attempt, to) ==
    [subject |-> DispatchSubject(id.channel), aggregate_id |-> id,
     version |-> attempt, to |-> to]

\* publishSentTx and publishFailedTx.
Sent(id) == [subject |-> "sent", aggregate_id |-> id, version |-> 1, to |-> ""]

Failed(id) ==
    [subject |-> "failed", aggregate_id |-> id, version |-> 1, to |-> ""]

AddressFor(channel, contact) ==
    IF channel = "IM" THEN contact.phone ELSE contact.email

\* SMS is the default branch: a warning, no dispatch.
Dispatchable(id) == id.channel \in {"IM", "EMAIL"}

\* Seeded faults: the disable check lost; the retry sent under the version of
\* the first dispatch; the limit compared off by one, in either direction.
ChannelsForAnyone(job) ==
    Resolve(job.global, prefs[Assignee[job.task]].category, TRUE)

RepeatedAttempt(count) == 1

ExhaustedEarly(count) == count >= MaxRetries

ExhaustedLate(count) == count > MaxRetries + 1

\* The channels of a task: the preferences, overridden by a disabled contact.
ChannelsFor(job) ==
    IF job.contact.disabled
    THEN NoChannels
    ELSE Resolve(job.global, prefs[Assignee[job.task]].category, TRUE)

\* The attempt a retry is dispatched as, from the retry count just returned.
AttemptAfter(count) == count + 1

Exhausted(count) == count > MaxRetries

----------------------------------------------------------------------------
(* The handler of infra.workflow.task.created.v1. *)

TaskStart(t) ==
    /\ jobs = {}
    /\ t \notin taskInbox
    /\ jobs' = {[task |-> t, contact |-> contacts[Assignee[t]],
                 step |-> "contact", global |-> Unset]}
    /\ UNCHANGED <<database, adapters, snapshots>>

TaskReadGlobal(job) ==
    /\ job.step = "contact"
    /\ jobs' = {[job EXCEPT !.step = "global",
                            !.global = prefs[Assignee[job.task]].global]}
    /\ UNCHANGED <<database, adapters, snapshots>>

\* Seeded fault: nothing is written down for a task without channels.
NewIdsOfChannels(t, list) ==
    {id \in RecordId : id.task = t /\ id.copy <= list[id.channel]}

\* An empty list still gets one record, shown under IM.
NewIds(t, list) ==
    IF IsEmpty(list)
    THEN {[task |-> t, channel |-> "IM", copy |-> 1]}
    ELSE {id \in RecordId : id.task = t /\ id.copy <= list[id.channel]}

Undeliverable(id, contact) ==
    Dispatchable(id) /\ AddressFor(id.channel, contact) = ""

NewRecord(id, contact, list) ==
    IF IsEmpty(list) THEN CreateRecord("SUPPRESSED")
    ELSE IF Undeliverable(id, contact)
         THEN MarkFailedPermanent(CreateRecord("PENDING"), "NO_CONTACT")
         ELSE CreateRecord("PENDING")

\* Seeded fault: an e-mail record without an address is dispatched all the same.
DispatchedUnchecked(contact, list, ids) ==
    {id \in ids : Dispatchable(id) /\ ~IsEmpty(list)}

Dispatched(contact, list, ids) ==
    {id \in ids : /\ Dispatchable(id)
                  /\ ~IsEmpty(list)
                  /\ ~Undeliverable(id, contact)}

TaskCommit(job) ==
    LET list == ChannelsFor(job)
        ids  == NewIds(job.task, list)
        sent == Dispatched(job.contact, list, ids)
    IN  /\ job.step = "global"
        /\ records' = [id \in DOMAIN records \cup ids |->
                         IF id \in ids
                         THEN NewRecord(id, job.contact, list)
                         ELSE records[id]]
        /\ outbox' = outbox \cup
               {Dispatch(id, 1, AddressFor(id.channel, job.contact)) : id \in sent}
        /\ taskInbox' = taskInbox \cup {job.task}
        /\ jobs' = {}
        /\ UNCHANGED <<resultInbox, adapters, snapshots>>

\* A statement fails or the process stops: the transaction rolls back and the
\* event is as good as never delivered.
TaskRollback(job) ==
    /\ jobs' = {}
    /\ UNCHANGED <<database, adapters, snapshots>>

----------------------------------------------------------------------------
(* The handler of integration.im.result.v1.                                *)
(*                                                                         *)
(* event_inbox lets an event through if its version is above every version *)
(* it has seen for the aggregate.  An adapter numbers its results of one   *)
(* record from the attempt it was given, the acceptance below the          *)
(* confirmation.                                                           *)

ResultVersion(res) ==
    IF res.phase = "CONFIRMED" THEN 2 * res.attempt ELSE 2 * res.attempt - 1

\* Seeded fault: every delivery is let through.
AnyResult(res) == res \in results

Fresh(res) ==
    /\ res \in results
    /\ \A seen \in resultInbox :
          seen.adapter = res.adapter /\ seen.record = res.record
          => ResultVersion(seen) < ResultVersion(res)

Consume(res) ==
    /\ Fresh(res)
    /\ resultInbox' = resultInbox \cup {res}
    /\ UNCHANGED <<taskInbox, jobs, adapters, snapshots>>

AcceptResult(res) ==
    /\ Consume(res)
    /\ res.phase = "ACCEPTED"
    /\ records' = [records EXCEPT ![res.record] = MarkAccepted(@, res.attempt)]
    /\ UNCHANGED outbox

ConfirmSuccess(res) ==
    /\ Consume(res)
    /\ res.phase = "CONFIRMED" /\ res.outcome = "SUCCESS"
    /\ records' = [records EXCEPT ![res.record] = MarkSent(@)]
    /\ outbox' = outbox \cup {Sent(res.record)}

ConfirmPermanentFailure(res) ==
    /\ Consume(res)
    /\ res.phase = "CONFIRMED" /\ res.outcome = "PERMANENT"
    /\ records' = [records EXCEPT ![res.record] = MarkFailedPermanent(@, "ADAPTER")]
    /\ outbox' = outbox \cup {Failed(res.record)}

RetryableFailure(res) ==
    /\ Consume(res)
    /\ res.phase = "CONFIRMED" /\ res.outcome = "RETRYABLE"

\* ErrRecordNotActive: a late failure of a settled record.
RetryTooLate(res) ==
    /\ RetryableFailure(res)
    /\ ~IsActive(records[res.record])
    /\ UNCHANGED <<records, outbox>>

RetryExhausted(res) ==
    LET rec == MarkRetrying(records[res.record], "ADAPTER")
    IN  /\ RetryableFailure(res)
        /\ IsActive(records[res.record])
        /\ Exhausted(rec.retry_count)
        /\ records' = [records EXCEPT ![res.record] =
                         MarkFailedPermanent(rec, "EXHAUSTED")]
        /\ outbox' = outbox \cup {Failed(res.record)}

RetryWithoutPhone(res) ==
    LET rec == MarkRetrying(records[res.record], "ADAPTER")
    IN  /\ RetryableFailure(res)
        /\ IsActive(records[res.record])
        /\ ~Exhausted(rec.retry_count)
        /\ contacts[Recipient(res.record)].phone = ""
        /\ records' = [records EXCEPT ![res.record] =
                         MarkFailedPermanent(rec, "NO_CONTACT")]
        /\ UNCHANGED outbox

RetryRedispatch(res) ==
    LET rec   == MarkRetrying(records[res.record], "ADAPTER")
        phone == contacts[Recipient(res.record)].phone
    IN  /\ RetryableFailure(res)
        /\ IsActive(records[res.record])
        /\ ~Exhausted(rec.retry_count)
        /\ phone # ""
        /\ records' = [records EXCEPT ![res.record] = rec]
        /\ outbox' = outbox \cup
               {[subject |-> "dispatch.im", aggregate_id |-> res.record,
                 version |-> AttemptAfter(rec.retry_count), to |-> phone]}

\* An unknown phase or a record_id that does not parse: consumed, no effect.
IgnoreResult(res) ==
    /\ Consume(res)
    /\ res.phase = "UNKNOWN"
    /\ UNCHANGED <<records, outbox>>

HandleResult(res) ==
    \/ AcceptResult(res)
    \/ ConfirmSuccess(res)
    \/ ConfirmPermanentFailure(res)
    \/ RetryTooLate(res)
    \/ RetryExhausted(res)
    \/ RetryWithoutPhone(res)
    \/ RetryRedispatch(res)
    \/ IgnoreResult(res)

----------------------------------------------------------------------------
(* The adapters (other repositories), as far as this one relies on them:   *)
(* the same inbox rule on their side, at most one early report and one     *)
(* confirmation per attempt, and success only for what was accepted.       *)

AdapterReceive(a, row) ==
    /\ row.subject = "dispatch.im"
    /\ \A seen \in received :
          seen.adapter = a /\ seen.record = row.aggregate_id
          => seen.attempt < row.version
    /\ received' = received \cup
           {[adapter |-> a, record |-> row.aggregate_id, attempt |-> row.version]}
    /\ UNCHANGED <<database, jobs, results, snapshots>>

ResultsOf(d) ==
    {res \in results : /\ res.adapter = d.adapter
                       /\ res.record = d.record
                       /\ res.attempt = d.attempt}

Publish(d, phase, outcome) ==
    /\ results' = results \cup
           {[adapter |-> d.adapter, record |-> d.record, attempt |-> d.attempt,
             phase |-> phase, outcome |-> outcome]}
    /\ UNCHANGED <<database, jobs, received, snapshots>>

AdapterReport(d, phase) ==
    /\ ResultsOf(d) = {}
    /\ Publish(d, phase, "NONE")

AdapterConfirm(d, outcome) ==
    /\ \A res \in ResultsOf(d) : res.phase # "CONFIRMED"
    /\ outcome = "SUCCESS" => \E res \in ResultsOf(d) : res.phase = "ACCEPTED"
    /\ Publish(d, "CONFIRMED", outcome)

----------------------------------------------------------------------------
(* The other writers of the tables the handlers read: the user events and  *)
(* the preference page.  A disabled contact stays disabled.                *)

ProfileChanges(u, phone, email) ==
    /\ contacts' = [contacts EXCEPT ![u].phone = phone, ![u].email = email]
    /\ UNCHANGED <<database, adapters, jobs, prefs>>

UserDisabled(u) ==
    /\ contacts' = [contacts EXCEPT ![u].disabled = TRUE]
    /\ UNCHANGED <<database, adapters, jobs, prefs>>

PreferencesReplaced(u, document) ==
    /\ prefs' = [prefs EXCEPT ![u] = document]
    /\ UNCHANGED <<database, adapters, jobs, contacts>>

----------------------------------------------------------------------------
Init ==
    /\ contacts = [u \in User |-> [phone |-> "", email |-> "", disabled |-> FALSE]]
    /\ prefs = [u \in User |-> [global |-> Unset, category |-> Unset]]
    /\ records = [id \in {} |-> CreateRecord("PENDING")]
    /\ outbox = {}
    /\ taskInbox = {}
    /\ resultInbox = {}
    /\ jobs = {}
    /\ received = {}
    /\ results = {}

Consumer ==
    \/ \E t \in Task : TaskStart(t)
    \/ \E job \in jobs : TaskReadGlobal(job) \/ TaskCommit(job) \/ TaskRollback(job)
    \/ \E res \in results : HandleResult(res)

Adapters ==
    \/ \E a \in Adapter, row \in outbox : AdapterReceive(a, row)
    \/ \E d \in received, phase \in EarlyPhase : AdapterReport(d, phase)
    \/ \E d \in received, outcome \in Outcome \ {"NONE"} : AdapterConfirm(d, outcome)

Environment ==
    \E u \in User :
       \/ \E phone \in Phone \cup {""}, email \in Email \cup {""} : ProfileChanges(u, phone, email)
       \/ UserDisabled(u)
       \/ \E document \in Preference : PreferencesReplaced(u, document)

Next == Consumer \/ Adapters \/ Environment

Spec == Init /\ [][Next]_vars

----------------------------------------------------------------------------
(* Invariants. *)

IsDispatch(row) == row.subject \in {"dispatch.im", "dispatch.email"}

DispatchesOf(id) == {row \in outbox : IsDispatch(row) /\ row.aggregate_id = id}

\* A task event that was consumed has left a record behind, even when nobody
\* is to be notified: "not sent" and "never triggered" can be told apart
\* (workflowTaskCreatedHandler, the SUPPRESSED branch).
NoSilentTask ==
    \A t \in taskInbox : \E id \in DOMAIN records : id.task = t

\* The dispatches of an IM record are numbered 1, 2, ... without a gap, one
\* row for each number, and the last one is the attempt its retry_count
\* says is under way; a record that is still active has that dispatch in the
\* outbox, so the retry is neither forgotten nor swallowed as a repetition
\* (handleRetryableFailureTx, publishIMDispatchTx).
DispatchesAreTheAttempts ==
    \A id \in DOMAIN records :
       id.channel = "IM" =>
       \E last \in {records[id].retry_count, records[id].retry_count + 1} :
          /\ {row.version : row \in DispatchesOf(id)} = 1 .. last
          /\ \A r1, r2 \in DispatchesOf(id) : r1.version = r2.version => r1 = r2
          /\ IsActive(records[id]) => last = records[id].retry_count + 1

\* Nothing on this side leaves an IM record behind: while it is active, its
\* attempt under way has a dispatch in the outbox, no adapter has taken up a
\* later one that would close its inbox to it, and event_inbox has seen
\* nothing that would keep the confirmation of that attempt out, so no
\* confirmation of it was consumed without effect.  What a record that stays
\* ACCEPTED waits for is a message that was lost or not sent (imResultHandler,
\* handleRetryableFailureTx).
Confirmation(attempt) == [phase |-> "CONFIRMED", attempt |-> attempt]

ActiveRecordCanSettle ==
    \A id \in DOMAIN records :
       id.channel = "IM" /\ IsActive(records[id]) =>
       \E row \in DispatchesOf(id) :
          /\ row.version = records[id].retry_count + 1
          /\ \A d \in received : d.record = id => d.attempt <= row.version
          /\ \A seen \in resultInbox :
                seen.record = id =>
                ResultVersion(seen) < ResultVersion(Confirmation(row.version))

\* No dispatch leaves without a recipient address.
DispatchHasRecipient == \A row \in outbox : IsDispatch(row) => row.to # ""

\* A record that gave up for want of retries had all of them: the first
\* dispatch and maxRetries more.
ExhaustedAfterEveryRetry ==
    \A id \in DOMAIN records :
       records[id].last_error = "EXHAUSTED" =>
          Attempt \subseteq {row.version : row \in DispatchesOf(id)}

\* workflow_task is critical: a task is suppressed for a disabled recipient
\* and for no preference anybody can store (ResolvePreferredChannelsTx and
\* the override in workflowTaskCreatedHandler).
SuppressedMeansDisabled ==
    \A id \in DOMAIN records :
       records[id].status = "SUPPRESSED" => contacts[Recipient(id)].disabled

\* sent.v1 is announced of a record that ended as SENT
\* (notification.events.json: "finally delivered").
AnnouncedSentIsSent ==
    \A row \in outbox :
       row.subject = "sent" => records[row.aggregate_id].status = "SENT"

\* What is announced is what is stored, for sent.v1 and for failed.v1
\* (imResultHandler publishes without looking at whether its UPDATE matched;
\* with one adapter it always has).
AnnouncedOutcomeIsStored ==
    /\ AnnouncedSentIsSent
    /\ \A row \in outbox :
          row.subject = "failed" =>
             records[row.aggregate_id].status = "FAILED_PERMANENT"

\* The external task id of an accepted record is that of the attempt under
\* way, never one of an attempt that was already given up (MarkAcceptedTx
\* takes RETRYING to ACCEPTED and does not know the attempt).
AcceptedIsCurrentAttempt ==
    \A id \in DOMAIN records :
       records[id].status = "ACCEPTED" =>
          records[id].external_task_id = records[id].retry_count + 1

----------------------------------------------------------------------------
(* Action and temporal properties. *)

\* A final record never changes again, whatever is delivered late or twice,
\* and no record disappears.
TerminalIsFinal ==
    [][\A id \in DOMAIN records :
          /\ id \in DOMAIN records'
          /\ ~IsActive(records[id]) => records'[id] = records[id]]_vars

\* While user_contacts says that a user is disabled, a task whose handling
\* starts dispatches nothing, then or later (workflowTaskCreatedHandler).  A
\* user.disabled event that was consumed does not always get that far: see
\* ConsumedDisableSticks in UserContacts.
DisabledStopsLaterTasks ==
    \A t \in Task :
       [](/\ contacts[Assignee[t]].disabled
          /\ t \notin taskInbox
          /\ \A job \in jobs : job.task # t
          => [](\A row \in outbox : IsDispatch(row) => row.aggregate_id.task # t))

\* README: after user.disabled was consumed nobody is notified any more, so
\* neither by a retry (handleRetryableFailureTx reads the contact).
RetryRespectsDisabled ==
    [][\A row \in outbox' \ outbox :
          IsDispatch(row) /\ row.version > 1
          => ~contacts[Recipient(row.aggregate_id)].disabled]_vars
============================================================================
