-------------------------- MODULE DeliveryPromise --------------------------
(***************************************************************************)
(* How the tables of Delivery are read as the notes of                     *)
(* NotificationPromise: the stage from notification_records, the attempts  *)
(* and what was told from event_outbox.                                    *)
(***************************************************************************)
EXTENDS Delivery

StageFor(rec) ==
    IF IsActive(rec) THEN "open"
    ELSE [SENT |-> "sent", FAILED_PERMANENT |-> "failed",
          SUPPRESSED |-> "suppressed"][rec.status]

StageOf(id) == IF id \in DOMAIN records THEN StageFor(records[id]) ELSE "absent"

AttemptsOf(id) == {row.version : row \in DispatchesOf(id)}

ToldOf(id) ==
    {subject \in {"sent", "failed"} :
        \E row \in outbox : row.aggregate_id = id /\ row.subject = subject}

NoteOf(id) ==
    [stage |-> StageOf(id), attempts |-> AttemptsOf(id), told |-> ToldOf(id)]

P == INSTANCE NotificationPromise WITH
        Notification <- RecordId,
        MaxAttempts  <- MaxRetries + 1,
        notes        <- [id \in RecordId |-> NoteOf(id)]

\* With one adapter, whatever is lost, repeated or late, every record of
\* notification_records together with its rows in event_outbox lives the life
\* the abstract specification describes: in particular no step writes the
\* status without the event or the event without the status, and a retry
\* never goes out for a record that has ended.
KeepsPromise == P!Spec
=============================================================================
