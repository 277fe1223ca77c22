------------------------------ MODULE Listing ------------------------------
(***************************************************************************)
(* The reads of notification_records: GET /notifications, GET              *)
(* /admin/records and the gRPC ListRecords and BatchGetRecords, from the   *)
(* face that takes the request down to ListRecords and BatchGetRecords of  *)
(* backend/internal/repo/records.go, beside the transactions that add and  *)
(* move the rows.                                                          *)
(*                                                                         *)
(* A list is read page by page.  A page is one SELECT, so it sees what is  *)
(* committed at that moment; ids are drawn from the BIGSERIAL sequence at  *)
(* the INSERT, so rows need not become visible in the order of their ids.  *)
(* A page whose answer is lost is asked for again with the same cursor and *)
(* is not a step here.                                                     *)
(***************************************************************************)
EXTENDS NotificationRecords, FiniteSets, Integers

CONSTANTS Writer,          \* transactions that insert rows, one at a time each
          Reader,          \* clients that walk through a list
          User,
          Request,         \* what the readers may ask for
          DefaultPageSize, \* 50 in the code
          MaxPageSize,     \* 200 in the code
          IntRange,        \* 2^32: the values of ListInput.PageSize
          NewStatus,       \* what a task transaction leaves its rows in
          LastId           \* bound: ids drawn from the sequence

ASSUME PageSizeAssumption ==
    /\ DefaultPageSize \in 1 .. MaxPageSize
    /\ MaxPageSize \in Nat
    /\ IntRange \in Nat \ {0}

\* Nobody is called "", the value that turns the filter off: ListMyRecords
\* takes the owner of be-sdk-go's scope as it comes.
ASSUME UserAssumption == "" \notin User

ASSUME LastIdAssumption == LastId \in Nat

\* CreateRecordTx, for an e-mail or IM record without address MarkFailed-
\* PermanentTx after it (Delivery!NewRecord).
ASSUME NewStatusAssumption == NewStatus \subseteq CreatedStatus

VARIABLES rows,    \* notification_records, committed
          next_id, \* the sequence
          tx,      \* rows inserted and not committed, per writer
          walk,    \* where each reader is in its list
          known    \* the records as the reader was last shown them

vars == <<rows, next_id, tx, walk, known>>

Row == [recipient : User, category : {"workflow_task"}, status : Status]

Faces == {"mine", "admin", "grpc"}

\* The enum RecordStatus, by the status it stands for.
RecordStatus ==
    [PENDING |-> "RECORD_STATUS_PENDING", ACCEPTED |-> "RECORD_STATUS_ACCEPTED",
     SENT |-> "RECORD_STATUS_SENT",
     FAILED_PERMANENT |-> "RECORD_STATUS_FAILED_PERMANENT",
     SUPPRESSED |-> "RECORD_STATUS_SUPPRESSED",
     RETRYING |-> "RECORD_STATUS_RETRYING"]

ProtoStatus == {RecordStatus[s] : s \in Status}

Unspecified == "RECORD_STATUS_UNSPECIFIED"

IsRequest(req) ==
    /\ req.face \in Faces
    /\ req.caller \in User
    /\ req.recipient \in User \cup {""}
    /\ req.category \in {"", "workflow_task", "other"}
    /\ req.status \in IF req.face = "grpc" THEN ProtoStatus \cup {Unspecified}
                                           ELSE Status \cup {"", "OTHER"}
    /\ req.page_size \in Int
    /\ req.cursor \in {"", "malformed"}

ASSUME RequestAssumption == \A req \in Request : IsRequest(req)

NoRequest == [face |-> ""]

\* The empty cursor; record ids start at 1.
NoCursor == 0

Shown == [recipient : User, category : {"workflow_task"},
          status : Status \cup ProtoStatus]

\* What a reader's walk has come to; steady, overtaken and passed are there
\* for the properties.
Walk == [state : {"idle", "walking", "done", "rejected"},
         request : Request \cup {NoRequest},
         cursor : 0 .. LastId, passed : 0 .. LastId,
         steady : SUBSET (1 .. LastId), overtaken : SUBSET (1 .. LastId)]

TypeOK ==
    /\ DOMAIN rows \subseteq 1 .. LastId
    /\ rows \in [DOMAIN rows -> Row]
    /\ next_id \in 1 .. LastId + 1
    /\ DOMAIN tx = Writer
    /\ \A w \in Writer : /\ DOMAIN tx[w] \subseteq 1 .. next_id - 1
                         /\ tx[w] \in [DOMAIN tx[w] -> Row]
    /\ walk \in [Reader -> Walk]
    /\ DOMAIN known = Reader
    /\ \A r \in Reader : /\ DOMAIN known[r] \subseteq 1 .. LastId
                         /\ known[r] \in [DOMAIN known[r] -> Shown]

----------------------------------------------------------------------------
(* Conversions at the faces. *)

\* Seeded faults: a status that was added later is missing in one switch.
ToProtoStatusOld(status) ==
    IF status \in Status \ {"RETRYING"} THEN RecordStatus[status] ELSE Unspecified

FromProtoStatusOld(p) ==
    CASE p = "RECORD_STATUS_PENDING" -> "PENDING"
      [] p = "RECORD_STATUS_ACCEPTED" -> "ACCEPTED"
      [] p = "RECORD_STATUS_SENT" -> "SENT"
      [] p = "RECORD_STATUS_FAILED_PERMANENT" -> "FAILED_PERMANENT"
      [] p = "RECORD_STATUS_SUPPRESSED" -> "SUPPRESSED"
      [] OTHER -> ""

\* Two switch statements; a value neither knows is "unspecified", which a
\* filter takes for "any" and an answer for "not found".
ToProtoStatus(status) ==
    IF status \in Status THEN RecordStatus[status] ELSE Unspecified

FromProtoStatus(p) ==
    CASE p = "RECORD_STATUS_PENDING" -> "PENDING"
      [] p = "RECORD_STATUS_ACCEPTED" -> "ACCEPTED"
      [] p = "RECORD_STATUS_SENT" -> "SENT"
      [] p = "RECORD_STATUS_FAILED_PERMANENT" -> "FAILED_PERMANENT"
      [] p = "RECORD_STATUS_SUPPRESSED" -> "SUPPRESSED"
      [] p = "RECORD_STATUS_RETRYING" -> "RETRYING"
      [] OTHER -> ""

\* The conversion int32(n) of a query parameter; 0 where it is no number.
Int32(n) == ((n + IntRange \div 2) % IntRange) - IntRange \div 2

\* What reaches repo.ListRecords: the owner is the caller's own sub on the
\* personal list, whatever the request says, and no filter over gRPC.
Input(req) ==
    [recipient |-> CASE req.face = "mine" -> req.caller
                     [] req.face = "admin" -> req.recipient
                     [] req.face = "grpc" -> "",
     category |-> req.category,
     status |-> IF req.face = "grpc" THEN FromProtoStatus(req.status) ELSE req.status,
     page_size |-> IF req.face = "grpc" THEN req.page_size ELSE Int32(req.page_size)]

Show(face, row) ==
    [recipient |-> row.recipient, category |-> row.category,
     status |-> IF face = "grpc" THEN ToProtoStatus(row.status) ELSE row.status]

----------------------------------------------------------------------------
(* ListRecords.  It fetches one row more than the page to know whether     *)
(* there is a next one.                                                    *)

PageSize(n) == IF n <= 0 \/ n > MaxPageSize THEN DefaultPageSize ELSE n

Matches(row, in) ==
    /\ in.recipient \in {"", row.recipient}
    /\ in.category \in {"", row.category}
    /\ in.status \in {"", row.status}

\* Seeded faults: the first row after the cursor is skipped; the rows come
\* in descending order.
SelectedBeyond(in, cursor) ==
    {id \in DOMAIN rows : id > cursor + 1 /\ Matches(rows[id], in)}

Latest(ids, n) == {id \in ids : Cardinality({k \in ids : k > id}) < n}

Selected(in, cursor) ==
    {id \in DOMAIN rows : id > cursor /\ Matches(rows[id], in)}

Lowest(ids, n) == {id \in ids : Cardinality({k \in ids : k < id}) < n}

Highest(ids) == CHOOSE id \in ids : \A k \in ids : k <= id

Page(in, cursor) == Lowest(Selected(in, cursor), PageSize(in.page_size))

HasMore(in, cursor) == Page(in, cursor) # Selected(in, cursor)

Uncommitted == UNION {DOMAIN tx[w] : w \in Writer}

----------------------------------------------------------------------------
(* The readers. *)

Idle == [state |-> "idle", request |-> NoRequest, cursor |-> NoCursor,
         passed |-> 0, steady |-> {}, overtaken |-> {}]

\* A first cursor that is no number is INVALID_ARGUMENT.
ListStart(r, req) ==
    /\ walk[r].state = "idle"
    /\ walk' = [walk EXCEPT ![r].request = req,
                            ![r].state = IF req.cursor = "malformed" THEN "rejected"
                                                                    ELSE "walking"]
    /\ UNCHANGED <<rows, next_id, tx, known>>

\* What the walk has behind it, for the properties: the highest id passed,
\* the rows that matched at every page so far, and those that were not
\* committed when a page passed over their id.
Passed(w, page) == Highest(page \cup {w.passed})

Steady(w, in) ==
    IF w.cursor = NoCursor
    THEN Selected(in, NoCursor)
    ELSE w.steady \cap {id \in DOMAIN rows : Matches(rows[id], in)}

Overtaken(w, page) ==
    w.overtaken \cup {id \in Uncommitted : id < Passed(w, page)}

ListPage(r) ==
    LET w    == walk[r]
        in   == Input(w.request)
        page == Page(in, w.cursor)
        more == HasMore(in, w.cursor)
    IN  /\ w.state = "walking"
        /\ walk' = [walk EXCEPT
              ![r] = [state |-> IF more THEN "walking" ELSE "done",
                      request |-> w.request,
                      cursor |-> IF more THEN Highest(page) ELSE NoCursor,
                      passed |-> Passed(w, page),
                      steady |-> Steady(w, in),
                      overtaken |-> Overtaken(w, page)]]
        /\ known' = [known EXCEPT ![r] =
              [id \in DOMAIN @ \cup page |->
                 IF id \in page THEN Show(w.request.face, rows[id]) ELSE @[id]]]
        /\ UNCHANGED <<rows, next_id, tx>>

\* The gRPC client asks again for some of the records it knows.  An id that
\* is not found is left out of the answer, so the client forgets it.
BatchGetRecords(r, ids) ==
    /\ walk[r].state = "done" /\ walk[r].request.face = "grpc"
    /\ ids \subseteq DOMAIN known[r]
    /\ known' = [known EXCEPT ![r] =
          [id \in (DOMAIN @ \ ids) \cup (ids \cap DOMAIN rows) |->
             IF id \in ids THEN Show("grpc", rows[id]) ELSE @[id]]]
    /\ UNCHANGED <<rows, next_id, tx, walk>>

----------------------------------------------------------------------------
(* The writers, as far as a reader can tell: the transaction of a task     *)
(* inserts some rows and commits or not, results move committed rows.      *)

Insert(w, user, status) ==
    /\ next_id <= LastId
    /\ tx' = [tx EXCEPT ![w] =
          [id \in DOMAIN @ \cup {next_id} |->
             IF id = next_id
             THEN [recipient |-> user, category |-> "workflow_task",
                   status |-> status]
             ELSE @[id]]]
    /\ next_id' = next_id + 1
    /\ UNCHANGED <<rows, walk, known>>

NoRows == [id \in {} |-> NoRequest]

Commit(w) ==
    /\ DOMAIN tx[w] # {}
    /\ rows' = [id \in DOMAIN rows \cup DOMAIN tx[w] |->
                  IF id \in DOMAIN tx[w] THEN tx[w][id] ELSE rows[id]]
    /\ tx' = [tx EXCEPT ![w] = NoRows]
    /\ UNCHANGED <<next_id, walk, known>>

\* The ids drawn are lost.
Rollback(w) ==
    /\ DOMAIN tx[w] # {}
    /\ tx' = [tx EXCEPT ![w] = NoRows]
    /\ UNCHANGED <<rows, next_id, walk, known>>

ResultHandled(id, status) ==
    /\ status \in StatusesAfter(rows[id].status)
    /\ rows' = [rows EXCEPT ![id].status = status]
    /\ UNCHANGED <<next_id, tx, walk, known>>

----------------------------------------------------------------------------
Init ==
    /\ rows = NoRows
    /\ next_id = 1
    /\ tx = [w \in Writer |-> NoRows]
    /\ walk = [r \in Reader |-> Idle]
    /\ known = [r \in Reader |-> NoRows]

Next ==
    \/ \E r \in Reader :
          \/ \E req \in Request : ListStart(r, req)
          \/ ListPage(r)
          \/ \E ids \in SUBSET DOMAIN known[r] : BatchGetRecords(r, ids)
    \/ \E w \in Writer :
          \/ \E user \in User, status \in NewStatus :
                Insert(w, user, status)
          \/ Commit(w)
          \/ Rollback(w)
    \/ \E id \in DOMAIN rows, status \in Status : ResultHandled(id, status)

Spec == Init /\ [][Next]_vars

----------------------------------------------------------------------------
(* Properties. *)

\* A walk that has ended has shown every row that matched at each of its
\* pages, however the rows around it came, went out of the filter or were
\* rolled back meanwhile (ListRecords: the cursor, the extra row).
WalkIsComplete ==
    \A r \in Reader :
       walk[r].state = "done" => walk[r].steady \subseteq DOMAIN known[r]

\* A list that does not filter by status misses a row behind its cursor only
\* if the transaction that wrote the row was still open when a page went past
\* its id (records.go: ids are drawn at the INSERT, pages are cut by id).
OnlyOpenRowsAreMissed ==
    \A r \in Reader :
       LET in == Input(walk[r].request)
       IN  walk[r].state \in {"walking", "done"} /\ in.status = "" =>
           \A id \in DOMAIN rows :
              id <= walk[r].passed /\ Matches(rows[id], in) =>
              id \in DOMAIN known[r] \cup walk[r].overtaken

\* Every record on a page is one the caller asked for by recipient, category
\* and status, in the terms of the face it asked at, and no stored record is shown as RECORD_STATUS_
\* UNSPECIFIED, the sign of a record that does not exist (grpc.go).
PagesAreAsAsked ==
    [][\A r \in Reader :
          LET req == walk[r].request
          IN  walk'[r] # walk[r] =>
              \A id \in DOMAIN known'[r] \ DOMAIN known[r] :
                 /\ req.face = "mine" => known'[r][id].recipient = req.caller
                 /\ req.face = "admin" => req.recipient \in {"", known'[r][id].recipient}
                 /\ req.category \in {"", known'[r][id].category}
                 /\ req.status \in {"", Unspecified, known'[r][id].status}
                 /\ known'[r][id].status # Unspecified]_vars

\* A record a client has been shown is found by every later read, and one
\* it was shown in a final status is shown in that status ever after,
\* whichever call it comes from.
FinalToClient == Terminal \cup {RecordStatus[s] : s \in Terminal}

ClientViewIsFinal ==
    [][\A r \in Reader : \A id \in DOMAIN known[r] :
          /\ id \in DOMAIN known'[r]
          /\ known[r][id].status \in FinalToClient => known'[r][id] = known[r][id]]_vars
=============================================================================
