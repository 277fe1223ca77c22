------------------------ MODULE NotificationRecords ------------------------
(***************************************************************************)
(* One row of notification_records and the statements of                   *)
(* backend/internal/repo/records.go that move it.  Every UPDATE of the     *)
(* repository is guarded by a WHERE clause on status; a row the clause     *)
(* does not match is left alone and the statement still succeeds.  Each    *)
(* Mark operator is therefore a total function from a row to a row.        *)
(*                                                                         *)
(* Titles, bodies, the source columns and the timestamps are left out: no  *)
(* guard reads them.  external_task_id is represented by the attempt the   *)
(* adapter issued it for (0 is the empty string), last_error by the class  *)
(* of the error.                                                           *)
(***************************************************************************)
EXTENDS Naturals

Channel == {"IM", "EMAIL", "SMS"}

Status == {"PENDING", "ACCEPTED", "SENT", "FAILED_PERMANENT", "SUPPRESSED",
           "RETRYING"}

\* What ErrRecordNotActive calls "not active": no statement leaves these.
Terminal == {"SENT", "FAILED_PERMANENT", "SUPPRESSED"}

Reason == {"", "NO_CONTACT", "ADAPTER", "EXHAUSTED"}

Record == [status : Status, external_task_id : Nat, retry_count : Nat,
           last_error : Reason]

CreateRecord(status) ==
    [status |-> status, external_task_id |-> 0, retry_count |-> 0,
     last_error |-> ""]

\* What the transaction of a task leaves its rows in: CreateRecordTx with the
\* first or the second, and MarkFailedPermanentTx at once for want of an address.
CreatedStatus == {"PENDING", "SUPPRESSED", "FAILED_PERMANENT"}

\* The WHERE clause shared by MarkRetryingTx and MarkFailedPermanentTx.
IsActive(rec) == rec.status \notin Terminal

----------------------------------------------------------------------------
(* Seeded faults: forms of the statements below that a slip would produce. *)

MarkAcceptedAnyStatus(rec, task_id) ==
    [rec EXCEPT !.status = "ACCEPTED", !.external_task_id = task_id]

MarkSentIfAccepted(rec) ==
    IF rec.status = "ACCEPTED" THEN [rec EXCEPT !.status = "SENT"] ELSE rec

----------------------------------------------------------------------------
MarkAccepted(rec, task_id) ==
    IF rec.status \in {"PENDING", "RETRYING"}
    THEN [rec EXCEPT !.status = "ACCEPTED", !.external_task_id = task_id]
    ELSE rec

MarkSent(rec) ==
    IF rec.status \in {"PENDING", "ACCEPTED", "RETRYING"}
    THEN [rec EXCEPT !.status = "SENT"]
    ELSE rec

MarkFailedPermanent(rec, reason) ==
    IF IsActive(rec)
    THEN [rec EXCEPT !.status = "FAILED_PERMANENT", !.last_error = reason]
    ELSE rec

\* The row after a match; the caller sees ErrRecordNotActive when the row is
\* not active and must test IsActive first.
MarkRetrying(rec, reason) ==
    [rec EXCEPT !.status = "RETRYING", !.last_error = reason,
                !.retry_count = @ + 1]

\* The statuses the statements take a row of that status to.
StatusesAfter(status) ==
    LET rec == [CreateRecord("PENDING") EXCEPT !.status = status]
    IN  {MarkAccepted(rec, 1).status, MarkSent(rec).status,
         MarkFailedPermanent(rec, "ADAPTER").status}
        \cup (IF IsActive(rec) THEN {MarkRetrying(rec, "ADAPTER").status} ELSE {})
============================================================================
