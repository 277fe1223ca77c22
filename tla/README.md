# infra-notification in TLA+

A formal model of `infra-notification`: the component that turns approval tasks
into notifications, hands them to channel adapters and follows them until they
are delivered or given up. The modules here are translated from the Go source
and the SQL migrations; TLC checks them on small instances, and TLAPS proves the
main safety properties, the implementation of an abstract specification and the
composition of the components for every instance. Paths below are
relative to the repository root; `consumer.go` is
`backend/internal/consumer/consumer.go`, and `records.go`, `contacts.go` and
`preferences.go` are in `backend/internal/repo/`.

## 1. Inventory of the system

### Components

| Part | State | Operations | Correct when |
|---|---|---|---|
| Event consumer (`consumer.go`) | none of its own; five goroutines, each handling one event at a time in one transaction | handlers of `infra.workflow.task.created.v1`, `infra.iam.user.{created,updated,disabled}.v1`, `integration.im.result.v1` | every task leaves a trace; retries are numbered so that adapters do not swallow them; late and repeated results change nothing that is settled |
| Notification records (`records.go`, `migrations/001`) | `notification_records`: status, external task id, retry count, last error | `CreateRecordTx`, `MarkAcceptedTx`, `MarkSentTx`, `MarkFailedPermanentTx`, `MarkRetryingTx`, the reads | a final status stays; the status announced is the status stored |
| Contact snapshot (`contacts.go`) | `user_contacts`: profile, `disabled`, version | `UpsertContactTx`, `SetContactDisabledTx`, `GetContactTx` | the row is that of the newest event; a user who left stays disabled |
| Channel preferences (`preferences.go`) | `notification_preferences`: a global row and a row per category for each user | `SetPreferences`, `GetPreferences`, `ResolvePreferredChannelsTx` | a document is replaced whole; a critical category always has a channel; a category does not exceed the global ceiling |
| Outbox, inbox, consume loop (be-sdk-go, tables of `migrations/002`) | `event_outbox`, `event_inbox` | publish in the caller's transaction; mark an event consumed in the transaction of its handler; skip versions already seen | external: relied upon |
| IM adapters, user directory | their own | take up a dispatch, report `ACCEPTED`, confirm; publish user events | external: relied upon |
| Service, HTTP, gRPC (`backend/internal/{service,http,grpc}`) | none | lists, batch reads, get and set preferences: caller's sub, validation of channel names, conversion | a request means the same over either face; a page holds what was asked for; nobody sees another's list |
| Partition maintenance (`backend/internal/partition`) | the partitions of `notification_records`, `event_outbox`, `event_inbox` | ticker loops that create the partitions of the coming weeks and months | there is a partition for every day ahead; no check collides with what is there |
| Module lifecycle (`backend/module`, `Start` of `consumer.go`) | goroutines and two error channels | start, fail, cancel | an error of one loop is not lost; nothing outlives the context |
| Migrations runner, generated protobuf code | none | | |

### How they interact

A task event is handled in one PostgreSQL transaction: read the contact, read the
two preference layers, insert the records, insert the dispatch rows of the outbox,
mark the event consumed. The outbox is published asynchronously; every adapter of
the channel reads every dispatch. An adapter answers with an acceptance and, later,
a confirmation: success, permanent failure or retryable failure. Each answer is one
transaction again, which may write a further dispatch. User events and preference
requests write the tables that the task handler reads, from other goroutines.
Transactions are READ COMMITTED: each statement has a snapshot of its own.

### What is hard

* Five consumers and any number of requests interleave between the statements of
  one handler.
* The bus is a broadcast of NATS core (`notification.events.json:4`): answers are lost,
  late, repeated, reordered. All three user subjects write one row.
* Two adapters may answer the same dispatch and contradict each other.
* A retry reuses subject and aggregate of the first dispatch and is dropped by the
  other side unless its version rises.
* Two replacements of the same preference document compete for a unique index, and
  the answer to one is read after its transaction has ended.
* Ids come from a sequence before their transaction commits, and lists are cut by id.
* A partition is looked up by name, while PostgreSQL compares ranges; a check that
  collides fails every day from then on, and only the log says so.
* Errors of the consume loops pass through two channels that are each read once.

The list of hazards, each at its line and with the properties that watch it, is in
`PROJECT.json`.

## 2. Modules

```
NotificationRecords             one row, the statements that move it
   Listing                      lists and batch reads               <- MCListing (TLC)
      ListingProofs             theorems (TLAPS)
   PreferenceRules              channel lists, the resolution of the two layers
      PreferenceFaces           a document over REST and over gRPC
         Preferences            SetPreferences beside a send        <- MCPreferences (TLC)
            PreferencesProofs      theorems (TLAPS)
      Delivery                  tasks, results, adapters
         DeliveryPromise        its tables read as NotificationPromise  <- MCDelivery (TLC)
         DeliveryProofs         theorems for any number of adapters (TLAPS)
            SingleAdapterProofs theorems for one adapter, with the implementation
                                of NotificationPromise (TLAPS)
NotificationPromise             the abstract life of a notification
UserContacts                    the snapshot of the user directory  (TLC)
   UserContactsProofs           theorems, with the implementation of
                                ContactReplica (TLAPS)
ContactReplica                  what the snapshot promises its readers
Notification                    UserContacts, Preferences and Delivery
                                over the same tables                <- MCNotification (TLC)
   NotificationProofs           the refinement, and what follows from it (TLAPS)
Partitions                      the loops of backend/internal/partition  <- MCPartitions (TLC)
   PartitionProofs              theorems (TLAPS)
Lifecycle                       goroutines and channels             (TLC)
   LifecycleProofs              theorems (TLAPS)
```

### NotificationRecords

A record is `[status, external_task_id, retry_count, last_error]`. The UPDATE
statements of `records.go` have a WHERE clause on `status` and succeed when it matches
nothing, so each is a function from row to row. `MarkRetryingTx` alone reports that it
matched nothing (`ErrRecordNotActive`); its callers test `IsActive` first. The task id
an adapter issues is represented by the attempt it was issued for, `0` being the empty
string; titles, bodies, timestamps and source columns guard nothing and are left out.

### PreferenceRules

A channel list is a function from channel to the number of times it is named. Order is
irrelevant in the code; repetition is not: `validateChannels` admits `["IM","IM"]` and
the task handler then writes two records. `Resolve` is `ResolvePreferredChannelsTx` on
the two rows it has read.

### Delivery

| Variable | Code |
|---|---|
| `records` | `notification_records`; an id is `[task, channel, copy]` |
| `outbox` | `event_outbox`, as the set of rows ever written |
| `taskInbox`, `resultInbox` | `event_inbox`, per subject |
| `jobs` | the task transaction in flight, with what it has read |
| `contacts`, `prefs` | `user_contacts`, `notification_preferences`, as the handlers see them |
| `received`, `results` | what the adapters took up and published |

| Action | Code |
|---|---|
| `TaskStart`, `TaskReadGlobal`, `TaskCommit` | `workflowTaskCreatedHandler`, cut at its SELECTs; the commit holds the third SELECT and every write |
| `TaskRollback` | an error or a crash before the commit |
| `AcceptResult` … `IgnoreResult` | the branches of `imResultHandler` and `handleRetryableFailureTx` |
| `AdapterReceive`, `AdapterReport`, `AdapterConfirm` | the other side, from `notification.events.json` |
| `ProfileChanges`, `UserDisabled`, `PreferencesReplaced` | the other writers of the tables read |

Why the cut is where it is: the writes of the task transaction become visible at once,
at the commit, and nothing the handler writes is read by others before, so only its
reads need to be separate steps. The result handler starts with the UPDATE that locks
the record; no other goroutine writes existing records, and its only other read is the
contact, whose change can be ordered before or after the whole handler. It is one step.
That all writes of a handler and its inbox row commit together is therefore built into
the model and shown by none of its properties: it rests on `besdk.Consume` handing every
handler one transaction, and on PostgreSQL. `NoSilentTask`, `KeepsPromise` and
`DispatchesAreTheAttempts` are about which writes belong together on which branch.

Messages are never removed. A loss is a row nobody reads, a repetition a row read
again, a delay a row read later; the inbox decides what has an effect.

An adapter takes up a dispatch whose attempt is above those it has seen for the record,
reports at most once per attempt before it confirms, confirms once, and confirms success
only after it reported the acceptance, which is what `ACCEPTED` means. Result versions
rise with the attempt and with the phase, as the contract asks.

### UserContacts

`directory[u]` is the history of a user's events, the index being the version; `inbox[u]`
the versions consumed, in the order they were consumed; `contacts` the table. `UserUpsert`
and `UserDisabled` are the handlers with their one statement each. The inbox compares
versions per subject, so the three subjects may interleave in any order and versions may
be missing; `SnapshotOfDirectory` says what holds in addition while they have come in
order and without a gap. The users do not share state, so a run needs one.

`ContactReplica` is the abstract specification: the directory says something of a user,
the replica follows it to a later event than the one it is at, by what that event says.
It may skip events, and that is all the freedom it has. `FollowsDirectory` says that the
table, read through `GetContact`, is such a replica; inbox, subjects and the columns each
of the two statements writes are invisible to it.

### Preferences

The statements of `SetPreferences` one by one. `DeleteStart` takes the statement's
snapshot, `DeleteFinish` waits until no other transaction holds one of the rows seen
and passes over those that are gone. `Insert` waits for a transaction in flight that
writes or deletes the same key (`Blocked`), and fails if the key is taken then
(`Taken`). A `Null` list stands for a JSON request without the field: a nil slice, NULL
to the NOT NULL column. A failure, a lost connection and a rejection leave nothing
behind. `ResolveReadGlobal` and `ResolveReadCategory` are the two SELECTs of a send.
After the commit the handler reads its answer in a second transaction: `ReadBack` is
`GetPreferences` at whatever moment it comes, `ReadBackFails` the error that tells the
client of a failure although the document is stored. `log` is a history variable.

### PreferenceFaces

What a document is on the wire: strings over REST, numbers of an enumeration over
gRPC, and a nil list, which the gRPC handler turns into an empty one for the global
layer only (`make([]string, 0, …)` in `grpc.go`) and REST leaves nil. `Valid` is
`validateChannels`, `Received` and `Answered` the conversions in and out. Two runs
depend on the faces being distinct: the answer of a gRPC request may be a document that
came in over REST.

### Listing

`rows` is what is committed of `notification_records`, `tx[w]` what an open transaction
has inserted; `next_id` is the sequence, drawn at the INSERT and not given back by a
rollback. `ListPage` is one call of a list handler down to the SELECT of `ListRecords`,
whose extra row decides on the next cursor. `Input` holds what the three faces do to a
request before that: the personal list replaces the recipient by the caller, gRPC has no
recipient, REST converts the page size to an `int32` (`Int32`, where `IntRange` is the
number of its values). `walk` also keeps what the properties compare with: how far the
client has come, which rows were in its list all the time, and which were open when it
passed them. `known` is what the client was last shown of each record, by a list or by
`BatchGetRecords`. The writers are those of `Delivery` as far as a reader can tell: rows
appear in a `CreatedStatus` and move by `StatusesAfter`, both of `NotificationRecords`,
and `WritersAreAsListed` proves that `Delivery` does nothing else to them. `GetRecord` is
called by tests alone.

### Partitions

Days are numbered, day 0 being a Monday; a calendar of months is a constant. A check
reads the clock once and creates what is missing in one transaction, and CREATE TABLE
holds the parent table until it ends, so it is one step: `CheckSucceeds`, or `CheckFails`
for whatever reason. `Missing` looks for names, `Refused` compares ranges. A process may
stop and start at any time; while one is up, each day has one check of each loop. The
partitions of the migrations are `Migrated`.

### Lifecycle

Both `Start` functions have the same shape: goroutines that send what their loop returned
on a buffered channel, and a select on that channel and the context. `consumer.Start` is
itself a loop of the module. `MayReturn` says what a loop may return when: those of
`partition` swallow their errors and end with the context; those of be-sdk-go (external)
end with the context or because they failed.

### NotificationPromise and DeliveryPromise

The abstract specification knows notifications that are absent, open, sent, failed or
suppressed, with the set of attempts made and what the world was told. A notification is
opened once, attempted 1, 2, … up to the limit, and ends once; the event about its end is
part of the step that ends it, and giving up without an event is allowed only before the
last attempt (`RetryWithoutPhone` ends a record and publishes nothing). `DeliveryPromise`
maps the tables to it: the stage from the record, attempts and events from the outbox.
Loss, repetition and disorder of messages, the inbox and the retry counter are invisible
to it, which is the point of the refinement.

### Notification

The composition for one recipient: `C` (`UserContacts`), `Pr` (`Preferences`) and `D`
(`Delivery`) over the same tables. `D` is instantiated with expressions over the tables
of the other two in place of its variables `contacts` and `prefs`, so a step of a user
consumer or of a client changes what the task handler will read. `ImplementsDelivery`
says that these are environment steps `Delivery` knows: the contact changes as
`ProfileChanges` or `UserDisabled` allow, and the two layers always become those of one
accepted request (`PreferencesReplaced`), although `Preferences` writes them row by row.
The send of `Preferences` is replaced by that of `Delivery`. All tables are keyed by the
sub of the user and no statement reads the rows of two of them, so one recipient is
enough.

Operators under "Seeded faults" are forms of the operator that follows them as a slip
would produce them. No specification uses them; they are substituted one at a time to
see that the properties notice.

## 3. What TLC checks

| Run | Bounds | Shows |
|---|---|---|
| `DeliveryTasks` | 2 tasks, 1 user, 5 documents, lists naming a channel up to twice, no adapter | `NoSilentTask`, `SuppressedMeansDisabled`, `DispatchHasRecipient`, `DisabledStopsLaterTasks` with the contact and the preferences changing between any two reads |
| `DeliveryRetries` | 1 task, 1 adapter, `MaxRetries` 3 as in the code | `TypeOK`, `ExhaustedAfterEveryRetry`, `AnnouncedOutcomeIsStored`, `AcceptedIsCurrentAttempt`, `KeepsPromise` |
| `DeliveryTwoAdapters` | 1 task, 2 adapters, 1 retry | `DispatchesAreTheAttempts`, `TerminalIsFinal`, `ActiveRecordCanSettle` |
| `ContactEvents` | 1 user, 5 events, any order | `TypeOK`, `NewestEventIsStored`, `SnapshotOfDirectory`, `ContactNeverRegresses`, `FollowsDirectory` |
| `PreferencesPuts` | 3 requests out of 5 over both faces, of which 3 are ill-formed, fairness | `TypeOK`, `StoredIsOneDocument`, `LoserHasWinner`, `SendHasChannel`, `AnswerIsOwnOrLater`, `EveryPutFinishes` |
| `ListingWalks` | 1 client, 7 requests over the 3 faces, 2 writers, 3 ids, pages of 1 and 2, 64 integers | `TypeOK`, `WalkIsComplete`, `OnlyOpenRowsAreMissed`, `PagesAreAsAsked`, `ClientViewIsFinal` |
| `PartitionChecks` | 93 days from 2026-09-07 on, the look-ahead and the migrations of the code, the calendar to May 2027 | `TypeOK`, `CreateIsNeverRefused`, `WindowIsCovered` |
| `LifecycleEnds` | the 4 loops of the module, 3 subjects, fairness | `TypeOK`, `StartTellsTruth`, `SendNeverBlocks`, `FailureEndsStart`, `CancelEndsEverything` |
| `NotificationWhole` | 1 recipient, 1 task, 1 adapter, 2 clients, 2 user events, 1 retry | `DispatchGoesWhereDirectorySaid`, `ChannelWasChosen`, `SuppressedWasDisabled`, `ImplementsDelivery` |

Why the bounds are enough. Tasks meet only in the tables they read, and one task
transaction is in flight at a time, so two tasks show everything one can do to
another. Records do not meet at all, so the retry runs have one; `MaxRetries` 3 is the
code's own limit, and the runs with 1 have a first attempt, a retry and an exhaustion.
Three requests are needed in `PreferencesPuts` for one to be overtaken while it
waits for another. Five events of one user allow created, disabled and updated in each
order with one more on either side. `MaxVersion` ends the directory; the deadlock this
causes is the end of the run, as is that of the requests, one per client.

In `ListingWalks` three ids let a row appear below, between and above two that were shown;
two writers make one commit behind the other, and readers do not influence each other.
Sixty-four integers let a page size wrap to a legal one, as 2^32 + 1 does. Clients stop
when their walk is done, so the run may end. Ninety-three days take the clock over
fourteen Sundays and three turns of a month, and the window over the turn of the year;
only the day arithmetic depends on the date, and the theorems of `PartitionProofs` cover
the rest. `LifecycleEnds` has three of the five subjects: they are alike, and three leave
one that sent first, one that is never received and one still running; the goroutines end,
so the run ends. `NotificationWhole` is small in each component because it asks only how
they meet: longer event histories are in `ContactEvents`, more clients in
`PreferencesPuts`, acceptances and more attempts in the `Delivery` runs. The clients are
interchangeable there, as the writers are in `ListingWalks`, and neither run has a
liveness property, so their symmetry is sound.

### Fairness

`Delivery` has none. That a result is consumed would need a bus that keeps it: the
repository shows a broadcast without redelivery (`notification.events.json:4`,
`consumer_test.go:67`), a `Start` that returns when the first of its loops fails
(`consumer.go:59-63`), and no timeout on a record, so that one lost confirmation leaves a
record `ACCEPTED` (`docs/手册.md:98`). What can be said without fairness is
`ActiveRecordCanSettle`: while an IM record is active, the dispatch of its attempt is in
the outbox, no adapter has taken up a later one that would make it skip this one, and no
confirmation of the attempt was consumed, so that the next one is neither skipped nor
without effect. A record that stays active waits for a message that was lost or never
sent, not for something this code has swallowed.

`FairSpec` of `Preferences` lets a request continue when PostgreSQL lets it; it does not
assume that locks are granted in any order. `Fairness` of `Lifecycle` lets a goroutine
that can go on do so, which is what the Go scheduler does, and has every loop return once
its context has ended, as those of this repository do by their select and those of
be-sdk-go by contract. It never makes a loop fail or the caller cancel.

### Disagreements between the code and its documents

| Run | Property | What happens |
|---|---|---|
| `DeliveryRetryAfterDisable` | `RetryRespectsDisabled` | a retry goes to a user disabled meanwhile (`README.md:73`) |
| `DeliveryContradiction` | `AnnouncedSentIsSent` | two adapters: `sent.v1` for a record that stays `FAILED_PERMANENT` (`notification.events.json:56`) |
| `ContactDisableOvertaken` | `ConsumedDisableSticks` | a disable that a younger profile update overtakes is lost (`contacts.go:54-56`) |

Smaller ones that follow from a definition and need no run:

* A confirmation consumed before, or without, its acceptance moves `PENDING` to `SENT`
  (`MarkSent`; `migrations/001:10` calls that wrong). The record settles because of it.
* The same document submitted twice at once by a user without rows: both delete nothing,
  and the second INSERT of the global row fails (`Taken`; `preferences.go:145-147` calls
  the replacement idempotent). `LoserHasWinner` says what does hold.
* A replacement between the two SELECTs of a send pairs an old ceiling with a new category
  layer, so that a send may exceed the ceiling stored now (`preferences.go:73-74`).
  `ChannelWasChosen` says what does hold.
* With everything switched off the page shows no channel, while a critical send uses IM
  (`Shown` and `Resolve`; `preferences.go:111-112` says that they agree).
* A replacement whose answer could not be read back is reported as failed and is in place
  (`ReadBackFails`).
* Rows of an open transaction are missed by a walk that passes their ids
  (`OnlyOpenRowsAreMissed` says that no others are), and `BatchGetRecords` answers in the
  order of the table, where `notification.proto:72` promises that of the request.

## 4. What TLAPS proves

Each theorem below is a statement about the specification of its module, `Spec => []P`,
`Spec => [][A]_vars` or, for the refinements, `Spec` implying the abstract specification.
It holds for every value of the constants that satisfies the assumptions; the theorems of
`SingleAdapterProofs` and `WholeKeepsPromise` assume `OneAdapter` besides. The properties
without a run at the end of the table are stated in the proof modules, since only the
proofs need them.

| Theorem | Property | Module |
|---|---|---|
| `TypeCorrect` | `TypeOK` | `DeliveryProofs` |
| `EveryTaskLeavesRecord` | `NoSilentTask` | `DeliveryProofs` |
| `EveryDispatchHasRecipient` | `DispatchHasRecipient` | `DeliveryProofs` |
| `FinalStatusIsFinal` | `TerminalIsFinal` | `DeliveryProofs` |
| `CriticalIsNeverSilenced` | `SuppressedMeansDisabled` | `DeliveryProofs` |
| `DisabledUserIsLeftAlone` | `DisabledStopsLaterTasks` | `DeliveryProofs` |
| `RetriesAreNumbered` | `DispatchesAreTheAttempts` | `DeliveryProofs` |
| `RetriesAreUsed` | `ExhaustedAfterEveryRetry` | `DeliveryProofs` |
| `ActiveRecordsCanSettle` | `ActiveRecordCanSettle` | `DeliveryProofs` |
| `OutcomesAreStored` | `AnnouncedOutcomeIsStored` | `SingleAdapterProofs` |
| `AcceptancesAreCurrent` | `AcceptedIsCurrentAttempt` | `SingleAdapterProofs` |
| `DeliveryKeepsPromise` | `KeepsPromise` | `SingleAdapterProofs` |
| `ContactsTypeCorrect` | `TypeOK` | `UserContactsProofs` |
| `NewestWins` | `NewestEventIsStored` | `UserContactsProofs` |
| `ContactsNeverRegress` | `ContactNeverRegresses` | `UserContactsProofs` |
| `SnapshotIsDirectory` | `SnapshotOfDirectory` | `UserContactsProofs` |
| `ContactsFollowDirectory` | `FollowsDirectory` | `UserContactsProofs` |
| `PreferencesTypeOK` | `TypeOK` | `PreferencesProofs` |
| `DocumentIsStored` | `StoredIsOneDocument` | `PreferencesProofs` |
| `LoserLostToWinner` | `LoserHasWinner` | `PreferencesProofs` |
| `SendNeverEmpty` | `SendHasChannel` | `PreferencesProofs` |
| `AnswersAreDocuments` | `AnswerIsOwnOrLater` | `PreferencesProofs` |
| `WholeImplementsDelivery` | `ImplementsDelivery` | `NotificationProofs` |
| `AddressesArePublished` | `DispatchGoesWhereDirectorySaid` | `NotificationProofs` |
| `ChannelsAreChosen` | `ChannelWasChosen` | `NotificationProofs` |
| `SuppressedByDirectory` | `SuppressedWasDisabled` | `NotificationProofs` |
| `PartitionsTypeOK` | `TypeOK` | `PartitionProofs` |
| `ChecksAreNeverRefused` | `CreateIsNeverRefused` | `PartitionProofs` |
| `EveryDayIsCovered` | `WindowIsCovered` | `PartitionProofs` |
| `LifecycleTypeOK` | `TypeOK` | `LifecycleProofs` |
| `StartsTellTruth` | `StartTellsTruth` | `LifecycleProofs` |
| `SendsNeverBlock` | `SendNeverBlocks` | `LifecycleProofs` |
| `ListingTypeOK` | `TypeOK` | `ListingProofs` |
| `WalksAreComplete` | `WalkIsComplete` | `ListingProofs` |
| `MissedRowsWereOpen` | `OnlyOpenRowsAreMissed` | `ListingProofs` |
| `PagesShowWhatWasAsked` | `PagesAreAsAsked` | `ListingProofs` |
| `ClientsSeeFinalOnce` | `ClientViewIsFinal` | `ListingProofs` |
| `WritersAreAsListed` | statuses move as `Listing` assumes | `DeliveryProofs` |
| `NoSilentEnd` | an end, unless it is for want of an address, is announced: what `AnnouncedOutcomeIsStored` leaves with many adapters | `DeliveryProofs` |
| `DisableIsLostOnlyIfOvertaken` | what `ConsumedDisableSticks` leaves | `UserContactsProofs` |
| `ReplacementsDoNotDeadlock` | no circle of waiting requests | `PreferencesProofs` |
| `DeliveryHoldsOfWhole`, `AttemptsOfWhole`, `WholeKeepsPromise` | those of `Delivery`, of the composition | `NotificationProofs` |
| `PartsHoldOfWhole` | those of the other two components, of the composition | `NotificationProofs` |
| `LeaverIsLeftAlone` | a disable consumed in time ends all later tasks | `NotificationProofs` |

The assumptions are the named ones of the modules: a task has an assignee
(`AssigneeAssumption`), the empty string is no address (`AddressAssumption`), what is
stored as preferences and reported before a confirmation has the right type
(`PreferenceAssumption`, `EarlyPhaseAssumption`), a channel can be named at least once
(`MaxCopiesAssumption`), the retry limit is a natural number (`MaxRetriesAssumption`),
no profile stands for "no profile" (`NoProfileAssumption`, `ProfileAssumption`), a missing
list is not a list (`NullAssumption`), requests are ones a client can send
(`RequestAssumption`), and, for the partitions, natural numbers for the look-ahead, a
calendar of months that follow each other without a gap and reach beyond every window,
and migrations that begin on a Monday of that calendar (`LookAheadAssumption`,
`CalendarAssumption`, `MigrationAssumption`). For the lists: page sizes as in the code
(a default that is positive and not above the limit, `PageSizeAssumption`), a sequence
that ends somewhere (`LastIdAssumption`), rows created in a `CreatedStatus`
(`NewStatusAssumption`), and no user called `""`, which turns the filter by recipient off
(`UserAssumption`; that the owner of a personal list is never empty is left to be-sdk-go).
For the lifecycle, finitely many subjects (`SubjectAssumption`).
`NotificationProofs` instantiates the proof modules of the components and proves their
assumptions from those of `Notification` (`ContactAssumptions`, `PreferenceAssumptions`,
`DeliveryAssumptions`).

**Types and references.** `TypeOK` alone is not inductive: a result could name a record
that does not exist, and a task in flight one that was already handled. `TypeInv` adds
`References`: outbox rows, dispatches taken up and results name records that exist, those
of the IM path IM records; a record's task has been consumed; a task in flight has not.
The last two keep a commit from overwriting a record. `ResultEffect` then describes in one
lemma what any branch of the result handler does: one record moves by `Progress` (a final
record stays as it is, nothing becomes suppressed), rows about that record are added.
`FinalStatusIsFinal` and `EveryDispatchHasRecipient` follow from it and from
`CommitAddsRecords`.

**Critical notifications.** `ResolveIsCritical` shows that the resolution of a critical
category never returns an empty list, whatever the two layers say, even when they were
read from two different documents. An empty list in `TaskCommit` therefore comes from
the override for a disabled contact, and the contact read by the job is still disabled
in the table (`SuppressedInv`), since no writer takes a disable back.

`DisabledUserIsLeftAlone` relates a state in which the user is stored as disabled to all
later ones (that a disable was consumed is not enough, as `ConsumedDisableSticks` shows).
`Silenced` is what holds of a task from then on: a transaction that handles it has seen
the disable, its records are suppressed, and no dispatch of it is in the outbox. A
suppressed record is final, so no retry can follow.

**Retries.** `Numbered` relates one record and its dispatches: the versions are
`1 .. last` without repetition, where `last` is the retry count or one more, and one
more if the record is active. It is kept by every statement that counts nothing
(`NumberedSame`), by a retry that is counted and given up (`NumberedGivenUp`) and by a
retry that is sent (`NumberedRetry`). The number of adapters does not matter, because
`MarkRetryingTx` and the outbox row are in one transaction. For `RetriesAreUsed`, `GaveUp`
carries the count at which a record gave up; the dispatches are then read off `Numbered`.

**Nothing left behind.** That the dispatch of the attempt is there is `Numbered` again.
`AttemptsAreSent` says that dispatches taken up and results speak of attempts that were
dispatched, so nobody is beyond the attempt of an active record. `AttemptIsOpen` says of an
active record that every result in the inbox has a version below that of a confirmation of
its attempt: consuming that confirmation ends the record or counts a retry, which raises
the bound by two, and consuming an acceptance stays below it.

**One adapter.** Both properties need that a result that passes the inbox speaks of the
attempt under way. `AttemptsAreSent`, as above, says that it was dispatched,
`PastIsAnswered` that an attempt that is over, by a retry or by a final status, was ended
by a confirmation in the inbox whose version is at least that of the attempt. An older or
repeated result has a lower or equal version and is skipped (`FreshIsCurrent`). The step
of `FreshIsCurrent` that uses `OneAdapter` is the one that takes the consumed confirmation
to be of the same adapter, since the inbox compares versions per adapter: this is what two
adapters break, and `DeliveryContradiction` shows how. A consequence: with one adapter the
branch for a failure that comes too late (`RetryTooLate`) is never taken.

**Contacts.** `Newest` says for one user that the row's version is the highest version
consumed, that the row says what that event said, and that a row was caused by an event;
without the last part an event not newer than the row would have nothing to compare
with. While events come in order, the version of the row is the number of events
consumed (`VersionIsLength`), the next one is the directory's next (`NextInOrder`), and
`Snapshot` follows by applying it to the state before.

**The promise.** A step of `Delivery` changes the record and the outbox rows of one
notification together, so it is one step of that notification's abstract life or
invisible to it: a commit is `Opens`, a counted retry with its row `Retries`, a
confirmation `Succeeds` or `GivesUp`, and everything else, the acceptances among it,
stutters. The attempts are read off `Numbered` above. That an end is announced once and
truthfully needs the invariant of `SingleAdapterProofs`: with two adapters an `ACCEPTED`
or a success may arrive at a record that has ended, and the rows say so.

**Preferences.** The difficulty is that a document is written row by row, while each
statement sees what is committed when it begins. `ShapeInv` types the state, `Progress`
says what one transaction has seen, deleted and written at each of its statements, and
`Exclusion` that at most one transaction in flight holds the stored rows or has written
rows of its own. Together with `StoredIsOneDocument` they are inductive: a transaction
that gets past the INSERT of its global row has deleted every stored row, since a row
left standing would have that key, so its commit replaces one document by another.
`LoserLostToWinner` follows because the key that stops an INSERT belongs to a stored
row, which another client has committed; `AnswersAreDocuments` because the second
transaction of a client reads the document of the last entry of the log, which is its
own entry or a later one, and `AnswerIsUnderstood` says that a list comes out of the
conversions as it went in. `SendNeverEmpty` needs nothing of this: a
critical send has a channel for any two layers (`ResolveCritical`).

**The composition.** `WholeInv` is the invariants of the parts, `CP!TypeOK`, `PP!Inv` and
`PP!Accepted`, about the shared tables. An upsert that
is newer than the row is `ProfileChanges`, a disable that is newer `UserDisabled`, and an
event that is not newer stutters. The commit of a client turns the two layers into those of its
document, which was accepted and is therefore one of the preferences `Delivery` knows:
that is `DocumentIsStored` at work. All other steps of a client leave the committed rows
alone. Since `ImplementsDelivery` is `Delivery`'s specification, its theorems hold of the
composition (`DeliveryHoldsOfWhole`) and `SuppressedWasDisabled` follows from
`SuppressedMeansDisabled` and the contact invariant.

The two theorems on dispatches and channels relate what a task transaction has read to
the histories of the other components, which only grow. `AddressInv` says of the contact
row and of every contact held by a transaction that its addresses are those of consumed
events (`Known`), so `DispatchesAddressed` gives every new row such an address.
`ChosenInv` says of every global layer held by a transaction that some client committed
it; `ResolveUnderCeiling` shows that the category layer cannot get past it, whenever that
one was read.

**Partitions.** Both families are treated alike: their periods are numbered, `Boundary`
gives the first day of each, and `Aligned` says that every partition, those of the
migrations included, is one whole period under its own name. A name therefore stands for
one range, so that looking for names finds every collision (`CreateIsNeverRefused`), and
two periods overlap only if they are the same. Coverage is kept day by day: `promised`
moves only with a good check, which leaves every period of its window in place, from
that of the day of the check to that before the new `promised` (`WindowIsCovered`).

**Statuses and announcements.** `WritersAreAsListed` closes the gap between two modules
that see the same table: `StatementsMoveStatus` says that the status a statement leaves
depends on the one it finds alone, and a handler that runs two of them (a counted retry that
is given up at once) moves it as one of them would. With any number of adapters,
`EndsAreAnnounced` is inductive by itself: the branches that end a record write its row
in the same transaction, except `RetryWithoutPhone`, and a record under way has no such row,
so that the first one is written when it ends.

**A disable that is lost.** `ConsumedDisableSticks` is refuted by `ContactDisableOvertaken`;
`LostOnlyIfOvertaken` says that this is the only way: a disabled event consumed ahead of
all younger ones is newer than the row, since the row is at the highest version consumed,
and is therefore stored, and no statement takes `disabled` back. Through the refinement,
`LeaverIsLeftAlone` carries this into the composition: `Untouched` and `Quiet` name the
two sides of `DisabledStopsLaterTasks`, so that it can be used across the instances.

**The replica.** `ContactsFollowDirectory` maps a handler that writes to `Follows` and
one that does not, as everything about the inbox, to a stutter. `RowFollows` compares the
two statements with `Applied`, column by column: an upsert leaves `disabled` as it was, a
disable leaves the profile, and where there is no row the column defaults are those of
`Init`.

**Waiting requests.** `WaitsFor` is wider than the waits of the model
(`WaitsAreForClients`). Only a transaction that holds the stored rows or has written its
global row is waited for, `Exclusion` allows one such at a time, and it would wait for
another such one. Hence no circle of any length; that every request also gets its turn is
the liveness property `EveryPutFinishes`.

**Lists.** Two invariants. `ListInv` types the state and says that the ids of committed
and open rows are distinct and below the sequence (`IdsAreUnique`), that the cursor of a
walk under way is the last record it passed (`WalkState`), and that what a client knows are
records that exist, of their recipient, and as stored once they are final
(`KnownIsTrue`). `ReadInv` adds of each walk that the rows of `steady` not shown yet lie
ahead (`SteadyInv`), that an open row it went past is in `overtaken` (`OpenBehindWalk`),
and `OnlyOpenRowsAreMissed` itself (`MissedAreOpen`). The cut of a page is where this is
decided: the page is the lowest rows of the selection, its highest id is the next
cursor, and a page without an extra row holds the whole selection, so every selected row
is on the page or beyond the cursor. A row that commits behind the walk was open when the
walk went past it, because its id was drawn before. A finite set of ids has a least and a
greatest member (`GreatestMember`), which is proved here without induction: otherwise the
successor would map a finite interval one to one into a proper part of itself.

**Goroutines.** `ValuesAreTrue` says of every value, at a loop, in a channel or returned,
that it has happened: nil only with an ended context, an error only with a loop that
failed; `ConsumerIsStart` ties the loop "consumer" of the module to what `consumer.Start`
returned, which is how an error gets from one channel to the other. `RoomForTheRest`
counts: a channel holds at most one value for each goroutine that has ended, and one that
is about to send has not.

Only model-checked are the liveness properties (`EveryPutFinishes`, `FailureEndsStart`,
`CancelEndsEverything`): they rest on fairness and are outside what the prover handles.
Every safety property of a passing run is proved.

## 5. Not modelled, and what remains

Left out for good, since nothing above depends on it:

* the wording of messages, logging, and JSON and protobuf beyond the enumerations of
  channels and statuses, the width of the page size and lists that are nil;
* routing, permission keys and the extraction of the caller's sub, which belong to
  be-sdk-go, and with them the empty sub: the preference calls over gRPC refuse it before
  anything is read, the personal list relies on never getting it (`UserAssumption`);
* the configuration (`splitAdapters`, `New`), `cmd/server`, the migrations runner and the
  generated code, which keep no state;
* `GetRecord`, which only tests call, and the order of the rows in an answer, which SQL
  leaves open;
* the time zone in which PostgreSQL reads the date literals of a partition, which the
  session decides; `Partitions` counts days of one time zone.

What could be added: the delivery of the outbox by be-sdk-go as a module of its own with
the crash between publication and mark, once that library is at hand; and the e-mail
adapter, once there is one.
