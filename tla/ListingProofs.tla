--------------------------- MODULE ListingProofs ---------------------------
(***************************************************************************)
(* What a client that walks through a list may rely on, for any writers,   *)
(* readers and requests, any page sizes and any number of records.         *)
(***************************************************************************)
EXTENDS Listing, FiniteSetTheorems, TLAPS

----------------------------------------------------------------------------
(* The invariant. *)

\* An id is drawn once: the ids of open transactions are neither committed
\* nor in two transactions.
IdsAreUnique ==
    /\ DOMAIN rows \subseteq 1 .. next_id - 1
    /\ \A w \in Writer : DOMAIN tx[w] \cap DOMAIN rows = {}
    /\ \A v, w \in Writer : v # w => DOMAIN tx[v] \cap DOMAIN tx[w] = {}

\* A client knows records that exist, of the recipient they have, and in the
\* status they have once that is final.
KnownIsTrue(r) ==
    \A id \in DOMAIN known[r] :
       /\ id \in DOMAIN rows
       /\ known[r][id].recipient = rows[id].recipient
       /\ known[r][id].status \in FinalToClient =>
             known[r][id] = Show(walk[r].request.face, rows[id])

\* Where a walk is: its cursor is the last record it passed.
WalkState(w) ==
    /\ w.state = "idle" => w = Idle
    /\ w.state # "idle" => w.request \in Request
    /\ w.state = "walking" => w.cursor = w.passed
    /\ w.passed \in DOMAIN rows \cup {0}

WalkInv(r) ==
    /\ WalkState(walk[r])
    /\ walk[r].state = "idle" => DOMAIN known[r] = {}
    /\ KnownIsTrue(r)

\* Rows that matched all the time and were not shown yet lie ahead.
SteadyInv(r) ==
    /\ walk[r].state = "walking" /\ walk[r].cursor # NoCursor =>
          \A id \in walk[r].steady : id \in DOMAIN known[r] \/ id > walk[r].cursor
    /\ walk[r].state = "done" => walk[r].steady \subseteq DOMAIN known[r]

\* An open row that the walk went past is written down as overtaken.
OpenBehindWalk(r) ==
    \A id \in Uncommitted : id < walk[r].passed => id \in walk[r].overtaken

\* OnlyOpenRowsAreMissed, for one reader.
MissedAreOpen(r) ==
    LET in == Input(walk[r].request)
    IN  walk[r].state \in {"walking", "done"} /\ in.status = "" =>
        \A id \in DOMAIN rows :
           id <= walk[r].passed /\ Matches(rows[id], in) =>
           id \in DOMAIN known[r] \cup walk[r].overtaken

ReaderInv(r) == SteadyInv(r) /\ OpenBehindWalk(r) /\ MissedAreOpen(r)

ListInv ==
    /\ TypeOK
    /\ IdsAreUnique
    /\ \A r \in Reader : WalkInv(r)

ReadInv == ListInv /\ \A r \in Reader : ReaderInv(r)

----------------------------------------------------------------------------
(* Finite sets of numbers have a greatest and a least member.  Otherwise   *)
(* the successor would map the numbers up to them into themselves, one to  *)
(* one, without reaching 0.                                                *)

\* A non-empty set of bounded naturals has a greatest member.
LEMMA GreatestMember ==
    ASSUME NEW n \in Nat, NEW S \in SUBSET (0 .. n), S # {}
    PROVE  \E x \in S : \A k \in S : k <= x
<1> SUFFICES ASSUME \A x \in S : \E k \in S : ~ k <= x
             PROVE  FALSE
  OBVIOUS
<1> DEFINE D == {y \in 0 .. n : \E x \in S : y <= x}
           next == [y \in D |-> y + 1]
<1>1. IsFiniteSet(D)
  <2>1. IsFiniteSet(0 .. n) /\ D \subseteq 0 .. n
    BY FS_Interval
  <2>2. QED
    BY <2>1, FS_Subset
<1>2. \A y \in D : y + 1 \in D
  <2> SUFFICES ASSUME NEW y \in D PROVE y + 1 \in D
    OBVIOUS
  <2>1. PICK x \in S : y <= x
    OBVIOUS
  <2>2. PICK k \in S : ~ k <= x
    OBVIOUS
  <2>3. y + 1 <= k
    BY <2>1, <2>2
  <2>4. QED
    BY <2>3
<1>3. next \in Injection(D, D)
  <2>1. next \in [D -> D]
    BY <1>2
  <2>2. \A a, b \in D : next[a] = next[b] => a = b
    OBVIOUS
  <2>3. QED
    BY <2>1, <2>2 DEF Injection, IsInjective
<1>4. next \in Surjection(D, D)
  BY <1>1, <1>3, FS_Injection
<1>5. 0 \in D
  <2>1. PICK x \in S : x \in 0 .. n
    OBVIOUS
  <2>2. QED
    BY <2>1
<1>6. PICK y \in D : next[y] = 0
  BY <1>4, <1>5 DEF Surjection
<1>7. QED
  BY <1>6

\* A non-empty set of bounded naturals has a least member.
LEMMA LeastMember ==
    ASSUME NEW n \in Nat, NEW S \in SUBSET (0 .. n), S # {}
    PROVE  \E x \in S : \A k \in S : x <= k
<1> DEFINE T == {y \in 0 .. n : n - y \in S}
<1>1. \A x \in S : n - x \in T
  OBVIOUS
<1>2. T \in SUBSET (0 .. n) /\ T # {}
  BY <1>1
<1>3. PICK y \in T : \A k \in T : k <= y
  BY <1>2, GreatestMember
<1>4. \A k \in S : n - y <= k
  <2> SUFFICES ASSUME NEW k \in S PROVE n - y <= k
    OBVIOUS
  <2>1. n - k <= y
    BY <1>1, <1>3
  <2>2. QED
    BY <2>1
<1>5. QED
  BY <1>3, <1>4

\* Highest chooses the greatest member.
LEMMA HighestIsGreatest ==
    ASSUME NEW n \in Nat, NEW S \in SUBSET (0 .. n), S # {}
    PROVE  Highest(S) \in S /\ \A k \in S : k <= Highest(S)
BY GreatestMember DEF Highest

\* A page is not empty where there is something to show, and it leaves out
\* no id below one that it holds.
LEMMA LowestIsInitial ==
    ASSUME NEW n \in Nat, NEW ids \in SUBSET (1 .. n), NEW size \in Nat \ {0}
    PROVE  /\ Lowest(ids, size) \subseteq ids
           /\ ids # {} => Lowest(ids, size) # {}
           /\ \A id \in Lowest(ids, size), k \in ids : k <= id => k \in Lowest(ids, size)
<1> DEFINE below(id) == {k \in ids : k < id}
<1>0. \A k \in ids : k \in 1 .. n /\ k \in Nat
  OBVIOUS
<1>1. \A id : IsFiniteSet(below(id))
  <2>1. IsFiniteSet(1 .. n)
    BY FS_Interval
  <2>3. \A id : below(id) \subseteq 1 .. n
    BY <1>0
  <2>4. QED
    BY <2>1, <2>3, FS_Subset
<1>2. ASSUME ids # {} PROVE Lowest(ids, size) # {}
  <2>1. PICK x \in ids : \A k \in ids : x <= k
    <3>1. ids \in SUBSET (0 .. n)
      BY <1>0
    <3>2. QED
      BY <1>2, <3>1, LeastMember
  <2>2. below(x) = {}
    <3>1. \A k \in ids : ~ k < x
      BY <1>0, <2>1
    <3>2. QED
      BY <3>1
  <2>3. Cardinality(below(x)) < size
    BY <2>2, FS_EmptySet
  <2>4. QED
    BY <2>1, <2>3 DEF Lowest
<1>3. ASSUME NEW id \in Lowest(ids, size), NEW k \in ids, k <= id
      PROVE  k \in Lowest(ids, size)
  <2>1. below(k) \subseteq below(id)
    <3>1. id \in ids
      BY DEF Lowest
    <3>2. \A j \in ids : j < k => j < id
      BY <1>0, <1>3, <3>1
    <3>3. QED
      BY <3>2
  <2>2. /\ Cardinality(below(k)) \in Nat /\ Cardinality(below(id)) \in Nat
        /\ Cardinality(below(k)) <= Cardinality(below(id))
    BY <1>1, <2>1, FS_Subset, FS_CardinalityType
  <2>3. Cardinality(below(id)) < size
    BY DEF Lowest
  <2>4. QED
    BY <2>2, <2>3 DEF Lowest
<1>4. QED
  BY <1>2, <1>3 DEF Lowest

----------------------------------------------------------------------------
(* Pages. *)

\* The page size in force is never zero, whatever was asked for.
LEMMA PageSizeIsPositive ==
    ASSUME NEW req \in Request
    PROVE  PageSize(Input(req).page_size) \in Nat \ {0}
<1>1. req.page_size \in Int
  BY RequestAssumption DEF IsRequest
<1>2. Int32(req.page_size) \in Int
  <2>1. IntRange \div 2 \in Int /\ IntRange \in Nat \ {0}
    BY PageSizeAssumption DEF PageSizeAssumption
  <2>2. (req.page_size + IntRange \div 2) % IntRange \in Int
    BY <1>1, <2>1
  <2>3. QED
    BY <2>1, <2>2 DEF Int32
<1>3. Input(req).page_size \in Int
  BY <1>1, <1>2 DEF Input
<1>4. QED
  BY <1>3, PageSizeAssumption DEF PageSizeAssumption, PageSize

\* A page selects committed rows that lie after the cursor and match the filters.
LEMMA SelectedRows ==
    ASSUME TypeOK, NEW in, NEW cursor
    PROVE  /\ Selected(in, cursor) \in SUBSET (1 .. LastId)
           /\ \A id \in Selected(in, cursor) :
                 id \in DOMAIN rows /\ id > cursor /\ Matches(rows[id], in)
BY DEF TypeOK, Selected

\* A page is the rows selected up to its last one; there is one if there is
\* more to come.
LEMMA PageIsInitial ==
    ASSUME TypeOK, NEW req \in Request, NEW cursor \in Nat
    PROVE  LET selected == Selected(Input(req), cursor)
               page     == Page(Input(req), cursor)
           IN  /\ page \subseteq selected
               /\ HasMore(Input(req), cursor) => page # {}
               /\ ~HasMore(Input(req), cursor) => page = selected
               /\ page # {} =>
                     /\ Highest(page) \in page
                     /\ \A id \in selected : id \in page <=> id <= Highest(page)
<1> DEFINE selected == Selected(Input(req), cursor)
           size == PageSize(Input(req).page_size)
           page == Lowest(selected, size)
<1>1. Page(Input(req), cursor) = page
  BY DEF Page
<1>2. /\ selected \in SUBSET (1 .. LastId) /\ LastId \in Nat /\ size \in Nat \ {0}
      /\ \A id \in selected : id \in Nat
  BY SelectedRows, PageSizeIsPositive, LastIdAssumption DEF LastIdAssumption
<1>3. HasMore(Input(req), cursor) <=> page # selected
  BY <1>1 DEF HasMore
<1> HIDE DEF selected, size, page
<1>4. /\ page \subseteq selected
      /\ selected # {} => page # {}
      /\ \A id \in page, k \in selected : k <= id => k \in page
  BY <1>2, LowestIsInitial DEF page
<1>5. ASSUME page # {}
      PROVE  Highest(page) \in page /\ \A k \in page : k <= Highest(page)
  <2>1. page \in SUBSET (0 .. LastId)
    BY <1>2, <1>4
  <2>2. QED
    BY <1>2, <1>5, <2>1, HighestIsGreatest
<1>6. QED
  BY <1>1, <1>3, <1>4, <1>5 DEF selected

\* What a page does to a walk: the rows selected are shown up to the point
\* the walk has then passed, and all of them when it ends.
LEMMA PassedIsEnd ==
    ASSUME TypeOK, NEW r \in Reader, WalkState(walk[r]), walk[r].state = "walking"
    PROVE  LET w        == walk[r]
               in       == Input(w.request)
               selected == Selected(in, w.cursor)
               page     == Page(in, w.cursor)
               passed   == Passed(w, page)
           IN  /\ page \subseteq selected
               /\ \A id \in selected : id \in page <=> id <= passed
               /\ HasMore(in, w.cursor) => passed = Highest(page)
               /\ ~HasMore(in, w.cursor) => page = selected
               /\ passed \in page \cup {w.passed}
               /\ passed \in 0 .. LastId /\ passed >= w.passed
<1> DEFINE w        == walk[r]
           in       == Input(w.request)
           selected == Selected(in, w.cursor)
           page     == Page(in, w.cursor)
           passed   == Passed(w, page)
<1>1. /\ w \in Walk /\ w.request \in Request /\ w.cursor = w.passed
      /\ w.cursor \in 0 .. LastId /\ w.cursor \in Nat
      /\ LastId \in Nat
  BY LastIdAssumption DEF TypeOK, WalkState, Walk, LastIdAssumption
<1>2. /\ page \subseteq selected
      /\ HasMore(in, w.cursor) => page # {}
      /\ ~HasMore(in, w.cursor) => page = selected
      /\ page # {} =>
            /\ Highest(page) \in page
            /\ \A id \in selected : id \in page <=> id <= Highest(page)
  BY <1>1, PageIsInitial
<1>3. /\ selected \in SUBSET (1 .. LastId) /\ \A id \in selected : id > w.cursor
  BY SelectedRows
<1>4. passed = Highest(page \cup {w.passed})
  BY DEF Passed
<1> HIDE DEF w, in, selected, page, passed
<1>5. /\ page \cup {w.passed} \in SUBSET (0 .. LastId)
      /\ passed \in page \cup {w.passed}
      /\ \A k \in page \cup {w.passed} : k <= passed
  <2>1. page \cup {w.passed} \in SUBSET (0 .. LastId)
    <3>1. \A k \in page : k \in 1 .. LastId
      BY <1>2, <1>3
    <3>2. \A k \in page : k \in 0 .. LastId
      BY <1>1, <3>1
    <3>3. w.passed \in 0 .. LastId
      BY <1>1
    <3>4. QED
      BY <3>2, <3>3
  <2>2. QED
    BY <1>1, <1>4, <2>1, HighestIsGreatest
<1>6. CASE page = {}
  <2>1. passed = w.passed /\ selected = {}
    BY <1>2, <1>5, <1>6
  <2>2. QED
    BY <1>1, <1>2, <1>5, <1>6, <2>1 DEF w, in, selected, page, passed
<1>7. CASE page # {}
  <2>1. Highest(page) \in page /\ Highest(page) \in selected
    BY <1>2, <1>7
  <2>2. Highest(page) > w.passed /\ Highest(page) \in 1 .. LastId
    BY <1>1, <1>3, <2>1
  <2>3. passed \in 0 .. LastId /\ passed >= w.passed /\ passed >= Highest(page)
    BY <1>5, <2>1
  <2>4. passed \in page
    BY <1>1, <1>5, <2>2, <2>3
  <2>5. passed <= Highest(page)
    BY <1>2, <1>7, <2>4
  <2>6. passed = Highest(page)
    BY <1>5, <2>2, <2>3, <2>5
  <2>7. QED
    BY <1>2, <1>5, <1>7, <2>3, <2>6 DEF w, in, selected, page, passed
<1>8. QED
  BY <1>6, <1>7

----------------------------------------------------------------------------
(* Statuses. *)

\* Either form of a status tells it from the others.
LEMMA ShownStatus ==
    ASSUME NEW row \in Row, NEW face
    PROVE  /\ Show(face, row) \in Shown
           /\ Show(face, row).recipient = row.recipient
           /\ Show(face, row).category = row.category
           /\ Show(face, row).status =
                 IF face = "grpc" THEN RecordStatus[row.status] ELSE row.status
           /\ Show(face, row).status # Unspecified
           /\ Show(face, row).status \in FinalToClient <=> row.status \in Terminal
<1>1. /\ row.recipient \in User /\ row.status \in Status
      /\ row.category \in {"workflow_task"}
  BY DEF Row
<1>2. ToProtoStatus(row.status) = RecordStatus[row.status]
  BY <1>1 DEF ToProtoStatus
<1>3. /\ Show(face, row).recipient = row.recipient
      /\ Show(face, row).category = row.category
      /\ Show(face, row).status =
            IF face = "grpc" THEN RecordStatus[row.status] ELSE row.status
  BY <1>2 DEF Show
<1>4. \A s \in Status :
         /\ RecordStatus[s] \in ProtoStatus
         /\ RecordStatus[s] # Unspecified /\ s # Unspecified
         /\ RecordStatus[s] \in FinalToClient <=> s \in Terminal
         /\ s \in FinalToClient <=> s \in Terminal
  BY DEF Status, Terminal, RecordStatus, ProtoStatus, Unspecified, FinalToClient
<1>5. Show(face, row) \in Shown
  BY <1>1, <1>2, <1>4 DEF Show, Shown
<1>6. QED
  BY <1>1, <1>3, <1>4, <1>5

\* Statements keep a status a status, and a final one as it is.
LEMMA MovedStatuses ==
    ASSUME NEW s \in Status
    PROVE  /\ StatusesAfter(s) \subseteq Status
           /\ s \in Terminal => StatusesAfter(s) = {s}
<1> DEFINE rec == [CreateRecord("PENDING") EXCEPT !.status = s]
<1>1. rec \in Record /\ rec.status = s
  <2>1. CreateRecord("PENDING") \in Record
    BY DEF CreateRecord, Record, Status, Reason
  <2>2. QED
    BY <2>1 DEF Record
<1>2. MarkAccepted(rec, 1).status = IF s \in {"PENDING", "RETRYING"} THEN "ACCEPTED" ELSE s
  BY <1>1 DEF MarkAccepted, Record
<1>3. MarkSent(rec).status = IF s \in {"PENDING", "ACCEPTED", "RETRYING"} THEN "SENT" ELSE s
  BY <1>1 DEF MarkSent, Record
<1>4. MarkFailedPermanent(rec, "ADAPTER").status =
         IF s \notin Terminal THEN "FAILED_PERMANENT" ELSE s
  BY <1>1 DEF MarkFailedPermanent, IsActive, Record
<1>5. MarkRetrying(rec, "ADAPTER").status = "RETRYING"
  BY <1>1 DEF MarkRetrying, Record
<1>6. IsActive(rec) <=> s \notin Terminal
  BY <1>1 DEF IsActive
<1> HIDE DEF rec
<1>7. StatusesAfter(s) = {MarkAccepted(rec, 1).status, MarkSent(rec).status,
                  MarkFailedPermanent(rec, "ADAPTER").status}
                 \cup (IF IsActive(rec) THEN {MarkRetrying(rec, "ADAPTER").status} ELSE {})
  BY DEF StatusesAfter, rec
<1>8. QED
  BY <1>2, <1>3, <1>4, <1>5, <1>6, <1>7 DEF Status, Terminal

----------------------------------------------------------------------------
(* The rows. *)

\* The steps of the transactions.
Writes ==
    \/ \E w \in Writer :
          \/ \E user \in User, status \in NewStatus : Insert(w, user, status)
          \/ Commit(w)
          \/ Rollback(w)
    \/ \E id \in DOMAIN rows, status \in Status : ResultHandled(id, status)

\* An insert takes the next id and adds it to the open transactions, nothing else.
LEMMA InsertStep ==
    ASSUME TypeOK, IdsAreUnique, NEW w \in Writer, NEW user \in User,
           NEW status \in NewStatus, Insert(w, user, status)
    PROVE  /\ TypeOK' /\ IdsAreUnique'
           /\ Uncommitted' = Uncommitted \cup {next_id}
<1> DEFINE row == [recipient |-> user, category |-> "workflow_task", status |-> status]
           mine == [id \in DOMAIN tx[w] \cup {next_id} |->
                      IF id = next_id THEN row ELSE tx[w][id]]
<1>1. row \in Row
  BY NewStatusAssumption DEF NewStatusAssumption, CreatedStatus, Row, Status
<1>2. /\ next_id \in 1 .. LastId /\ next_id' = next_id + 1
      /\ LastId \in Nat
      /\ tx' = [tx EXCEPT ![w] = mine] /\ DOMAIN tx = Writer
      /\ UNCHANGED <<rows, walk, known>>
  BY LastIdAssumption DEF Insert, TypeOK, LastIdAssumption
<1>3. \A v \in Writer : /\ DOMAIN tx[v] \subseteq 1 .. next_id - 1
                        /\ tx[v] \in [DOMAIN tx[v] -> Row]
  BY DEF TypeOK
<1> HIDE DEF row
<1>4. /\ DOMAIN mine = DOMAIN tx[w] \cup {next_id}
      /\ mine \in [DOMAIN mine -> Row]
  BY <1>1, <1>3
<1> HIDE DEF mine
<1>5. /\ DOMAIN tx' = Writer /\ tx'[w] = mine
      /\ \A v \in Writer : v # w => tx'[v] = tx[v]
  BY <1>2
<1>6. \A v \in Writer : /\ DOMAIN tx'[v] \subseteq 1 .. next_id' - 1
                        /\ tx'[v] \in [DOMAIN tx'[v] -> Row]
  <2>1. 1 .. next_id' - 1 = (1 .. next_id - 1) \cup {next_id}
    BY <1>2
  <2>2. QED
    BY <1>3, <1>4, <1>5, <2>1
<1>7. TypeOK'
  BY <1>2, <1>5, <1>6 DEF TypeOK
<1>8. next_id \notin 1 .. next_id - 1
  BY <1>2
<1>9. IdsAreUnique'
  <2>1. DOMAIN rows \subseteq 1 .. next_id' - 1
    BY <1>2 DEF IdsAreUnique
  <2>2. \A v \in Writer : DOMAIN tx'[v] \cap DOMAIN rows = {}
    BY <1>4, <1>5, <1>8 DEF IdsAreUnique
  <2>3. \A u, v \in Writer : u # v => DOMAIN tx'[u] \cap DOMAIN tx'[v] = {}
    BY <1>3, <1>4, <1>5, <1>8 DEF IdsAreUnique
  <2>4. QED
    BY <1>2, <2>1, <2>2, <2>3 DEF IdsAreUnique
<1>10. Uncommitted' = Uncommitted \cup {next_id}
  BY <1>4, <1>5 DEF Uncommitted
<1>11. QED
  BY <1>7, <1>9, <1>10

\* A commit moves a transaction's rows to the table and alters no row that was there.
LEMMA CommitStep ==
    ASSUME TypeOK, IdsAreUnique, NEW w \in Writer, Commit(w)
    PROVE  /\ TypeOK' /\ IdsAreUnique'
           /\ DOMAIN rows' = DOMAIN rows \cup DOMAIN tx[w]
           /\ DOMAIN tx[w] \subseteq Uncommitted
           /\ Uncommitted' \subseteq Uncommitted
           /\ \A id \in DOMAIN rows : rows'[id] = rows[id]
<1>1. /\ rows' = [id \in DOMAIN rows \cup DOMAIN tx[w] |->
                    IF id \in DOMAIN tx[w] THEN tx[w][id] ELSE rows[id]]
      /\ tx' = [tx EXCEPT ![w] = NoRows] /\ DOMAIN tx = Writer
      /\ UNCHANGED <<next_id, walk, known>>
  BY DEF Commit, TypeOK
<1>2. /\ DOMAIN tx' = Writer /\ DOMAIN tx'[w] = {} /\ tx'[w] \in [{} -> Row]
      /\ \A v \in Writer : v # w => tx'[v] = tx[v]
  BY <1>1 DEF NoRows
<1>3. /\ next_id \in 1 .. LastId + 1 /\ LastId \in Nat
      /\ \A v \in Writer : /\ DOMAIN tx[v] \subseteq 1 .. next_id - 1
                           /\ tx[v] \in [DOMAIN tx[v] -> Row]
      /\ rows \in [DOMAIN rows -> Row]
      /\ DOMAIN rows \subseteq 1 .. next_id - 1
      /\ \A v \in Writer : DOMAIN tx[v] \cap DOMAIN rows = {}
      /\ \A u, v \in Writer : u # v => DOMAIN tx[u] \cap DOMAIN tx[v] = {}
  BY LastIdAssumption DEF TypeOK, IdsAreUnique, LastIdAssumption
<1>4. /\ DOMAIN rows' = DOMAIN rows \cup DOMAIN tx[w]
      /\ rows' \in [DOMAIN rows' -> Row]
      /\ DOMAIN rows' \subseteq 1 .. next_id - 1
  BY <1>1, <1>3
<1>5. 1 .. next_id - 1 \subseteq 1 .. LastId
  BY <1>3
<1>6. \A id \in DOMAIN rows : rows'[id] = rows[id]
  BY <1>1, <1>3
<1>7. \A v \in Writer : /\ DOMAIN tx'[v] \subseteq 1 .. next_id - 1
                        /\ tx'[v] \in [DOMAIN tx'[v] -> Row]
  BY <1>2, <1>3
<1>8. TypeOK'
  BY <1>1, <1>2, <1>4, <1>5, <1>7 DEF TypeOK
<1>9. \A v \in Writer : DOMAIN tx'[v] \cap DOMAIN rows' = {}
  BY <1>2, <1>3, <1>4
<1>10. \A u, v \in Writer : u # v => DOMAIN tx'[u] \cap DOMAIN tx'[v] = {}
  BY <1>2, <1>3
<1>11. IdsAreUnique'
  BY <1>1, <1>4, <1>9, <1>10 DEF IdsAreUnique
<1>12. DOMAIN tx[w] \subseteq Uncommitted /\ Uncommitted' \subseteq Uncommitted
  BY <1>2 DEF Uncommitted
<1>13. QED
  BY <1>4, <1>6, <1>8, <1>11, <1>12

\* A rollback drops a transaction's rows; their ids are never reused.
LEMMA RollbackStep ==
    ASSUME TypeOK, IdsAreUnique, NEW w \in Writer, Rollback(w)
    PROVE  TypeOK' /\ IdsAreUnique' /\ Uncommitted' \subseteq Uncommitted
<1>1. /\ tx' = [tx EXCEPT ![w] = NoRows] /\ DOMAIN tx = Writer
      /\ UNCHANGED <<rows, next_id, walk, known>>
  BY DEF Rollback, TypeOK
<1>2. /\ DOMAIN tx' = Writer /\ DOMAIN tx'[w] = {} /\ tx'[w] \in [{} -> Row]
      /\ \A v \in Writer : v # w => tx'[v] = tx[v]
  BY <1>1 DEF NoRows
<1>3. \A v \in Writer : /\ DOMAIN tx'[v] \subseteq 1 .. next_id - 1
                        /\ tx'[v] \in [DOMAIN tx'[v] -> Row]
  BY <1>2 DEF TypeOK
<1>4. TypeOK'
  BY <1>1, <1>2, <1>3 DEF TypeOK
<1>5. IdsAreUnique'
  BY <1>1, <1>2 DEF IdsAreUnique
<1>6. QED
  BY <1>2, <1>4, <1>5 DEF Uncommitted

\* A handled result changes the status of one row, never of a final one, and no filterable column.
LEMMA ResultStep ==
    ASSUME TypeOK, IdsAreUnique, NEW id \in DOMAIN rows, NEW status \in Status,
           ResultHandled(id, status)
    PROVE  /\ TypeOK' /\ IdsAreUnique' /\ tx' = tx
           /\ DOMAIN rows' = DOMAIN rows
           /\ \A k \in DOMAIN rows :
                 /\ rows'[k].recipient = rows[k].recipient
                 /\ rows'[k].category = rows[k].category
                 /\ rows[k].status \in Terminal => rows'[k] = rows[k]
<1>1. /\ status \in StatusesAfter(rows[id].status)
      /\ rows' = [rows EXCEPT ![id].status = status]
      /\ UNCHANGED <<next_id, tx, walk, known>>
  BY DEF ResultHandled
<1>2. rows \in [DOMAIN rows -> Row] /\ rows[id] \in Row
  BY DEF TypeOK
<1>3. [rows[id] EXCEPT !.status = status] \in Row
  BY <1>2 DEF Row
<1>4. rows' \in [DOMAIN rows -> Row] /\ DOMAIN rows' = DOMAIN rows
  BY <1>1, <1>2, <1>3
<1>5. rows[id].status \in Terminal => status = rows[id].status
  BY <1>1, <1>2, MovedStatuses DEF Row
<1>6. rows[id].status \in Terminal => [rows[id] EXCEPT !.status = status] = rows[id]
  BY <1>2, <1>5 DEF Row
<1>7. \A k \in DOMAIN rows :
         /\ rows'[k].recipient = rows[k].recipient
         /\ rows'[k].category = rows[k].category
         /\ rows[k].status \in Terminal => rows'[k] = rows[k]
  BY <1>1, <1>2, <1>6 DEF Row
<1>8. TypeOK' /\ IdsAreUnique'
  BY <1>1, <1>4 DEF TypeOK, IdsAreUnique
<1>9. QED
  BY <1>1, <1>4, <1>7, <1>8

\* Rows stay, with their recipient and category, and in a final status.
LEMMA RowsStay ==
    ASSUME TypeOK, IdsAreUnique, [Next]_vars
    PROVE  \A id \in DOMAIN rows :
              /\ id \in DOMAIN rows'
              /\ rows'[id].recipient = rows[id].recipient
              /\ rows'[id].category = rows[id].category
              /\ rows[id].status \in Terminal => rows'[id] = rows[id]
<1>1. CASE UNCHANGED rows
  BY <1>1
<1>2. CASE \E w \in Writer : Commit(w)
  BY <1>2, CommitStep
<1>3. CASE \E id \in DOMAIN rows, status \in Status : ResultHandled(id, status)
  BY <1>3, ResultStep
<1>4. QED
  BY <1>1, <1>2, <1>3
  DEF Next, vars, ListStart, ListPage, BatchGetRecords, Insert, Rollback

----------------------------------------------------------------------------
(* The clients. *)

\* Ids in open transactions have been drawn from the sequence.
LEMMA UncommittedIds ==
    ASSUME TypeOK
    PROVE  Uncommitted \subseteq 1 .. LastId /\ Uncommitted \subseteq 1 .. next_id - 1
<1>1. next_id \in 1 .. LastId + 1 /\ LastId \in Nat
  BY LastIdAssumption DEF TypeOK, LastIdAssumption
<1>2. Uncommitted \subseteq 1 .. next_id - 1
  BY DEF TypeOK, Uncommitted
<1>3. 1 .. next_id - 1 \subseteq 1 .. LastId
  BY <1>1
<1>4. QED
  BY <1>2, <1>3

\* A list call starts an idle reader's walk before the first row, and touches nothing else.
LEMMA StartStep ==
    ASSUME ListInv, NEW r \in Reader, NEW req \in Request, ListStart(r, req)
    PROVE  /\ TypeOK' /\ IdsAreUnique' /\ WalkInv(r)'
           /\ UNCHANGED <<rows, tx, known>>
           /\ \A q \in Reader : q # r => walk'[q] = walk[q]
           /\ walk[r].state = "idle" /\ walk'[r].state # "idle" /\ walk'[r].passed = 0
           /\ walk'[r].state = "walking" => walk'[r].cursor = NoCursor
           /\ walk'[r].state # "done"
<1>1. /\ walk' = [walk EXCEPT ![r].request = req,
                              ![r].state = IF req.cursor = "malformed" THEN "rejected"
                                                                      ELSE "walking"]
      /\ UNCHANGED <<rows, next_id, tx, known>>
      /\ walk[r].state = "idle" /\ walk[r] = Idle /\ DOMAIN known[r] = {}
      /\ walk \in [Reader -> Walk]
  BY DEF ListStart, ListInv, TypeOK, WalkInv, WalkState
<1>2. /\ walk'[r] = [Idle EXCEPT !.request = req,
                                 !.state = IF req.cursor = "malformed" THEN "rejected"
                                                                       ELSE "walking"]
      /\ \A q \in Reader : q # r => walk'[q] = walk[q]
  BY <1>1
<1>3. /\ walk'[r].state \in {"walking", "rejected"} /\ walk'[r].request = req
      /\ walk'[r].cursor = 0 /\ walk'[r].passed = 0
  BY <1>2 DEF Idle, NoCursor
<1>4. walk' \in [Reader -> Walk]
  BY <1>1 DEF Walk
<1>5. TypeOK' /\ IdsAreUnique'
  BY <1>1, <1>4 DEF ListInv, TypeOK, IdsAreUnique
<1>6. WalkInv(r)'
  BY <1>1, <1>3 DEF WalkInv, WalkState, KnownIsTrue
<1>7. QED
  BY <1>1, <1>2, <1>3, <1>5, <1>6 DEF NoCursor

\* The state after a page, in terms of the page.
LEMMA PageStep ==
    ASSUME ListInv, NEW r \in Reader, ListPage(r)
    PROVE  LET w    == walk[r]
               in   == Input(w.request)
               page == Page(in, w.cursor)
               more == HasMore(in, w.cursor)
           IN  /\ w.state = "walking" /\ w.request \in Request
               /\ walk'[r] = [state |-> IF more THEN "walking" ELSE "done",
                              request |-> w.request,
                              cursor |-> IF more THEN Passed(w, page) ELSE NoCursor,
                              passed |-> Passed(w, page),
                              steady |-> Steady(w, in),
                              overtaken |-> Overtaken(w, page)]
               /\ walk'[r] \in Walk
               /\ DOMAIN known'[r] = DOMAIN known[r] \cup page
               /\ \A id \in page : known'[r][id] = Show(w.request.face, rows[id])
               /\ \A id \in DOMAIN known[r] \ page : known'[r][id] = known[r][id]
               /\ \A q \in Reader : q # r => walk'[q] = walk[q] /\ known'[q] = known[q]
               /\ UNCHANGED <<rows, next_id, tx>>
               /\ DOMAIN known' = Reader
               /\ walk' \in [Reader -> Walk]
<1> DEFINE w      == walk[r]
           in     == Input(w.request)
           page   == Page(in, w.cursor)
           more   == HasMore(in, w.cursor)
           passed == Passed(w, page)
           after  == [state |-> IF more THEN "walking" ELSE "done",
                      request |-> w.request,
                      cursor |-> IF more THEN Highest(page) ELSE NoCursor,
                      passed |-> passed,
                      steady |-> Steady(w, in),
                      overtaken |-> Overtaken(w, page)]
           view   == [id \in DOMAIN known[r] \cup page |->
                        IF id \in page THEN Show(w.request.face, rows[id])
                                       ELSE known[r][id]]
<1>1. /\ w.state = "walking" /\ walk' = [walk EXCEPT ![r] = after]
      /\ known' = [known EXCEPT ![r] = view]
      /\ UNCHANGED <<rows, next_id, tx>>
  BY DEF ListPage
<1>2. /\ walk \in [Reader -> Walk] /\ w \in Walk /\ DOMAIN known = Reader
      /\ w.request \in Request /\ TypeOK /\ WalkState(w)
  BY <1>1 DEF ListInv, TypeOK, WalkInv, WalkState
<1>3. passed \in 0 .. LastId /\ (more => passed = Highest(page))
  BY <1>1, <1>2, PassedIsEnd
<1>4. Steady(w, in) \subseteq 1 .. LastId
  BY <1>2 DEF TypeOK, Steady, Selected, Walk
<1>5. Overtaken(w, page) \subseteq 1 .. LastId
  BY <1>2, UncommittedIds DEF Overtaken, Walk
<1> HIDE DEF w, in, page, more, passed
<1>6. /\ after.cursor = IF more THEN passed ELSE NoCursor
      /\ after = [state |-> IF more THEN "walking" ELSE "done",
                  request |-> w.request,
                  cursor |-> IF more THEN passed ELSE NoCursor,
                  passed |-> passed,
                  steady |-> Steady(w, in),
                  overtaken |-> Overtaken(w, page)]
  BY <1>3
<1>7. 0 \in 0 .. LastId
  BY LastIdAssumption DEF LastIdAssumption
<1>8. after \in Walk
  BY <1>2, <1>3, <1>4, <1>5, <1>6, <1>7 DEF Walk, NoCursor
<1> HIDE DEF after
<1>9. /\ walk' \in [Reader -> Walk] /\ walk'[r] = after
      /\ \A q \in Reader : q # r => walk'[q] = walk[q]
  BY <1>1, <1>2, <1>8
<1>10. /\ DOMAIN view = DOMAIN known[r] \cup page
       /\ \A id \in page : view[id] = Show(w.request.face, rows[id])
       /\ \A id \in DOMAIN known[r] \ page : view[id] = known[r][id]
  OBVIOUS
<1> HIDE DEF view
<1>11. /\ known'[r] = view /\ DOMAIN known' = Reader
       /\ \A q \in Reader : q # r => known'[q] = known[q]
  BY <1>1, <1>2
<1>12. QED
  BY <1>1, <1>2, <1>6, <1>8, <1>9, <1>10, <1>11 DEF w, in, page, more, passed

\* Fetching a page keeps the walk's own invariant.
LEMMA PageKeepsInv ==
    ASSUME ListInv, NEW r \in Reader, ListPage(r)
    PROVE  TypeOK' /\ IdsAreUnique' /\ WalkInv(r)'
<1> DEFINE w    == walk[r]
           in   == Input(w.request)
           page == Page(in, w.cursor)
           more == HasMore(in, w.cursor)
<1>0. /\ w.state = "walking" /\ w.request \in Request
      /\ walk'[r] = [state |-> IF more THEN "walking" ELSE "done",
                     request |-> w.request,
                     cursor |-> IF more THEN Passed(w, page) ELSE NoCursor,
                     passed |-> Passed(w, page),
                     steady |-> Steady(w, in),
                     overtaken |-> Overtaken(w, page)]
  BY PageStep
<1>1. /\ w.state = "walking" /\ w.request \in Request
      /\ walk'[r].state = (IF more THEN "walking" ELSE "done")
      /\ walk'[r].request = w.request
      /\ walk'[r].cursor = IF more THEN Passed(w, page) ELSE NoCursor
      /\ walk'[r].passed = Passed(w, page)
  <2> HIDE DEF w, in, page, more
  <2>1. QED
    BY <1>0
<1>2. /\ DOMAIN known'[r] = DOMAIN known[r] \cup page
      /\ \A id \in page : known'[r][id] = Show(w.request.face, rows[id])
      /\ \A id \in DOMAIN known[r] \ page : known'[r][id] = known[r][id]
      /\ \A q \in Reader : q # r => walk'[q] = walk[q] /\ known'[q] = known[q]
      /\ UNCHANGED <<rows, next_id, tx>>
      /\ DOMAIN known' = Reader
      /\ walk' \in [Reader -> Walk]
  BY PageStep
<1>3. /\ TypeOK /\ IdsAreUnique /\ WalkState(w) /\ KnownIsTrue(r)
  BY DEF ListInv, WalkInv
<1>4. /\ page \subseteq Selected(in, w.cursor)
      /\ Passed(w, page) \in page \cup {w.passed}
  BY <1>1, <1>3, PassedIsEnd
<1>5. page \subseteq DOMAIN rows /\ page \subseteq 1 .. LastId
  BY <1>3, <1>4, SelectedRows
<1> HIDE DEF page, w
<1>6. \A id \in page : rows[id] \in Row
  BY <1>3, <1>5 DEF TypeOK
<1>7. known'[r] \in [DOMAIN known'[r] -> Shown]
  <2>1. known'[r] = [id \in DOMAIN known'[r] |-> known'[r][id]]
    <3>1. known' = [known EXCEPT ![r] =
              [id \in DOMAIN known[r] \cup page |->
                 IF id \in page THEN Show(w.request.face, rows[id])
                                ELSE known[r][id]]]
      BY DEF ListPage, page, w
    <3>2. QED
      BY <1>3, <3>1 DEF TypeOK
  <2>2. \A id \in DOMAIN known[r] : known[r][id] \in Shown
    BY <1>3 DEF TypeOK
  <2>3. \A id \in DOMAIN known'[r] : known'[r][id] \in Shown
    BY <1>2, <1>6, <2>2, ShownStatus
  <2>4. QED
    BY <2>1, <2>3
<1>8. TypeOK'
  BY <1>2, <1>3, <1>5, <1>7 DEF TypeOK
<1>9. IdsAreUnique'
  BY <1>2, <1>3 DEF IdsAreUnique
<1>10. KnownIsTrue(r)'
  <2> SUFFICES ASSUME NEW id \in DOMAIN known'[r]
               PROVE  /\ id \in DOMAIN rows
                      /\ known'[r][id].recipient = rows[id].recipient
                      /\ known'[r][id].status \in FinalToClient =>
                            known'[r][id] = Show(w.request.face, rows[id])
    BY <1>1, <1>2 DEF KnownIsTrue
  <2>1. CASE id \in page
    BY <1>2, <1>5, <1>6, <2>1, ShownStatus
  <2>2. CASE id \notin page
    BY <1>2, <1>3, <2>2 DEF KnownIsTrue, w
  <2>3. QED
    BY <2>1, <2>2
<1>11. WalkState(walk[r])'
  BY <1>1, <1>2, <1>3, <1>4, <1>5 DEF WalkState, w
<1>12. QED
  BY <1>1, <1>8, <1>9, <1>10, <1>11 DEF WalkInv

\* A batch read refreshes what the reader knows of the rows it names and changes no row.
LEMMA BatchStep ==
    ASSUME ListInv, NEW r \in Reader, NEW ids \in SUBSET DOMAIN known[r],
           BatchGetRecords(r, ids)
    PROVE  /\ UNCHANGED <<rows, next_id, tx, walk>>
           /\ walk[r].state = "done" /\ walk[r].request.face = "grpc"
           /\ DOMAIN known' = Reader
           /\ \A q \in Reader : q # r => known'[q] = known[q]
           /\ DOMAIN known'[r] = DOMAIN known[r]
           /\ \A id \in DOMAIN known[r] :
                 known'[r][id] = IF id \in ids THEN Show("grpc", rows[id])
                                               ELSE known[r][id]
           /\ TypeOK' /\ IdsAreUnique' /\ WalkInv(r)'
<1>1. /\ known' = [known EXCEPT ![r] =
            [id \in (DOMAIN known[r] \ ids) \cup (ids \cap DOMAIN rows) |->
               IF id \in ids THEN Show("grpc", rows[id]) ELSE known[r][id]]]
      /\ UNCHANGED <<rows, next_id, tx, walk>>
      /\ walk[r].state = "done" /\ walk[r].request.face = "grpc"
  BY DEF BatchGetRecords
<1>2. /\ DOMAIN known = Reader /\ TypeOK /\ IdsAreUnique /\ WalkState(walk[r])
      /\ KnownIsTrue(r) /\ DOMAIN known[r] \subseteq DOMAIN rows
  BY DEF ListInv, TypeOK, WalkInv, KnownIsTrue
<1>3. (DOMAIN known[r] \ ids) \cup (ids \cap DOMAIN rows) = DOMAIN known[r]
  BY <1>2
<1>4. /\ known'[r] = [id \in DOMAIN known[r] |->
                        IF id \in ids THEN Show("grpc", rows[id]) ELSE known[r][id]]
      /\ DOMAIN known' = Reader
      /\ \A q \in Reader : q # r => known'[q] = known[q]
  BY <1>1, <1>2, <1>3
<1>5. /\ DOMAIN known'[r] = DOMAIN known[r]
      /\ \A id \in DOMAIN known[r] :
            known'[r][id] = IF id \in ids THEN Show("grpc", rows[id]) ELSE known[r][id]
  BY <1>4
<1>6. \A id \in DOMAIN known[r] : known[r][id] \in Shown /\ rows[id] \in Row
  BY <1>2 DEF TypeOK
<1>7. known'[r] \in [DOMAIN known'[r] -> Shown]
  BY <1>4, <1>6, ShownStatus
<1>8. TypeOK' /\ IdsAreUnique'
  BY <1>1, <1>2, <1>4, <1>5, <1>7 DEF TypeOK, IdsAreUnique
<1>9. KnownIsTrue(r)'
  BY <1>1, <1>2, <1>5, <1>6, ShownStatus DEF KnownIsTrue
<1>10. WalkInv(r)'
  BY <1>1, <1>2, <1>9 DEF WalkInv, WalkState
<1>11. QED
  BY <1>1, <1>4, <1>5, <1>8, <1>10

\* What other steps leave of a client.
LEMMA OthersKeepInv ==
    ASSUME ListInv, [Next]_vars, NEW r \in Reader,
           walk'[r] = walk[r], known'[r] = known[r]
    PROVE  WalkInv(r)'
<1>1. WalkState(walk[r]) /\ KnownIsTrue(r) /\ TypeOK /\ IdsAreUnique
  BY DEF ListInv, WalkInv
<1>2. \A id \in DOMAIN rows :
         /\ id \in DOMAIN rows'
         /\ rows'[id].recipient = rows[id].recipient
         /\ rows[id].status \in Terminal => rows'[id] = rows[id]
  BY <1>1, RowsStay
<1>3. KnownIsTrue(r)'
  <2> SUFFICES ASSUME NEW id \in DOMAIN known[r]
               PROVE  /\ id \in DOMAIN rows'
                      /\ known[r][id].recipient = rows'[id].recipient
                      /\ known[r][id].status \in FinalToClient =>
                            known[r][id] = Show(walk[r].request.face, rows'[id])
    BY DEF KnownIsTrue
  <2>1. id \in DOMAIN rows /\ rows[id] \in Row
    BY <1>1 DEF KnownIsTrue, TypeOK
  <2>2. known[r][id].status \in FinalToClient => rows[id].status \in Terminal
    BY <1>1, <2>1, ShownStatus DEF KnownIsTrue
  <2>3. QED
    BY <1>1, <1>2, <2>1, <2>2 DEF KnownIsTrue
<1>4. QED
  BY <1>1, <1>2, <1>3 DEF ListInv, WalkInv, WalkState

\* The empty table with idle readers satisfies the invariant.
LEMMA InitListInv == Init => ListInv
<1> SUFFICES ASSUME Init PROVE ListInv
  OBVIOUS
<1>1. LastId \in Nat
  BY LastIdAssumption DEF LastIdAssumption
<1>2. TypeOK
  BY <1>1 DEF Init, TypeOK, NoRows, Idle, NoCursor, Walk
<1>3. IdsAreUnique
  BY DEF Init, IdsAreUnique, NoRows
<1>4. \A r \in Reader : WalkInv(r)
  BY DEF Init, WalkInv, WalkState, KnownIsTrue, NoRows, Idle
<1>5. QED
  BY <1>2, <1>3, <1>4 DEF ListInv

\* Every action keeps the invariant of the walks.
LEMMA NextListInv == ListInv /\ [Next]_vars => ListInv'
<1> SUFFICES ASSUME ListInv, [Next]_vars PROVE ListInv'
  OBVIOUS
<1>1. TypeOK /\ IdsAreUnique
  BY DEF ListInv
<1>2. ASSUME NEW r \in Reader, NEW req \in Request, ListStart(r, req) PROVE ListInv'
  BY <1>2, StartStep, OthersKeepInv DEF ListInv
<1>3. ASSUME NEW r \in Reader, ListPage(r) PROVE ListInv'
  <2>1. \A q \in Reader : q # r => walk'[q] = walk[q] /\ known'[q] = known[q]
    BY <1>3, PageStep
  <2>2. QED
    BY <1>3, <2>1, PageKeepsInv, OthersKeepInv DEF ListInv
<1>4. ASSUME NEW r \in Reader, NEW ids \in SUBSET DOMAIN known[r], BatchGetRecords(r, ids)
      PROVE  ListInv'
  BY <1>4, BatchStep, OthersKeepInv DEF ListInv
<1>5. ASSUME Writes PROVE ListInv'
  <2>1. UNCHANGED <<walk, known>>
    BY <1>5 DEF Writes, Insert, Commit, Rollback, ResultHandled
  <2>2. TypeOK' /\ IdsAreUnique'
    BY <1>1, <1>5, InsertStep, CommitStep, RollbackStep, ResultStep DEF Writes
  <2>3. QED
    BY <2>1, <2>2, OthersKeepInv DEF ListInv
<1>6. CASE UNCHANGED vars
  <2>1. TypeOK' /\ IdsAreUnique'
    BY <1>1, <1>6 DEF vars, TypeOK, IdsAreUnique, Walk
  <2>2. QED
    BY <1>6, <2>1, OthersKeepInv DEF vars, ListInv
<1>7. QED
  BY <1>2, <1>3, <1>4, <1>5, <1>6 DEF Next, Writes

\* The invariant of the walks holds always.
LEMMA ListInvariant == Spec => []ListInv
BY InitListInv, NextListInv, PTL DEF Spec

\* Ids and transactions keep within the sequence, walks within the ids, and
\* what a client knows is of the form its face shows.
THEOREM ListingTypeOK == Spec => []TypeOK
BY ListInvariant, PTL DEF ListInv

----------------------------------------------------------------------------
(* Complete walks. *)

\* The order of the naturals, for leaves that Zenon closes.
LEMMA Ordered ==
    /\ \A a, b \in Nat : a <= b /\ a # b => a < b
    /\ \A a, b \in Nat : ~ a <= b => a > b
OBVIOUS

\* What is committed was open, and what is opened gets the next id.
LEMMA NewIds ==
    ASSUME TypeOK, IdsAreUnique, [Next]_vars
    PROVE  /\ Uncommitted' \subseteq Uncommitted \cup {next_id}
           /\ \A id \in DOMAIN rows' : id \in DOMAIN rows \/ id \in Uncommitted
<1>1. CASE UNCHANGED <<rows, tx>>
  BY <1>1 DEF Uncommitted
<1>2. ASSUME NEW w \in Writer, NEW user \in User, NEW status \in NewStatus,
             Insert(w, user, status)
      PROVE  /\ Uncommitted' = Uncommitted \cup {next_id}
             /\ rows' = rows
  BY <1>2, InsertStep DEF Insert
<1>3. ASSUME NEW w \in Writer, Commit(w)
      PROVE  /\ Uncommitted' \subseteq Uncommitted
             /\ \A id \in DOMAIN rows' : id \in DOMAIN rows \/ id \in Uncommitted
  BY <1>3, CommitStep
<1>4. ASSUME NEW w \in Writer, Rollback(w)
      PROVE  Uncommitted' \subseteq Uncommitted /\ rows' = rows
  BY <1>4, RollbackStep DEF Rollback
<1>5. ASSUME NEW id \in DOMAIN rows, NEW status \in Status, ResultHandled(id, status)
      PROVE  Uncommitted' = Uncommitted /\ DOMAIN rows' = DOMAIN rows
  BY <1>5, ResultStep DEF Uncommitted
<1>6. QED
  BY <1>1, <1>2, <1>3, <1>4, <1>5
  DEF Next, vars, ListStart, ListPage, BatchGetRecords

\* A walk that does not move keeps what it can say of the rows behind it.
LEMMA OthersKeepReaderInv ==
    ASSUME ReadInv, [Next]_vars, NEW r \in Reader,
           walk'[r] = walk[r], DOMAIN known'[r] = DOMAIN known[r]
    PROVE  ReaderInv(r)'
<1>1. /\ TypeOK /\ IdsAreUnique /\ WalkState(walk[r])
      /\ SteadyInv(r) /\ OpenBehindWalk(r) /\ MissedAreOpen(r)
  BY DEF ReadInv, ListInv, WalkInv, ReaderInv
<1>2. /\ walk[r].passed \in Nat /\ walk[r].passed < next_id
      /\ walk[r].passed \in DOMAIN rows \cup {0}
  <2>1. /\ walk[r].passed \in DOMAIN rows \cup {0}
        /\ DOMAIN rows \subseteq 1 .. next_id - 1 /\ next_id \in 1 .. LastId + 1
        /\ LastId \in Nat
    BY <1>1, LastIdAssumption DEF TypeOK, IdsAreUnique, WalkState, LastIdAssumption
  <2>2. \A id \in DOMAIN rows : id \in Nat /\ id < next_id
    BY <2>1
  <2>3. 0 \in Nat /\ 0 < next_id
    BY <2>1
  <2>4. QED
    BY <2>1, <2>2, <2>3
<1>3. /\ Uncommitted' \subseteq Uncommitted \cup {next_id}
      /\ \A id \in DOMAIN rows' : id \in DOMAIN rows \/ id \in Uncommitted
  BY <1>1, NewIds
<1>4. \A id \in Uncommitted : id \in Nat /\ id # 0 /\ id \notin DOMAIN rows
  <2>1. Uncommitted \subseteq 1 .. LastId /\ LastId \in Nat
    BY <1>1, UncommittedIds, LastIdAssumption DEF LastIdAssumption
  <2>2. \A id \in Uncommitted : id \notin DOMAIN rows
    BY <1>1 DEF Uncommitted, IdsAreUnique
  <2>3. QED
    BY <2>1, <2>2
<1>5. SteadyInv(r)'
  BY <1>1 DEF SteadyInv
<1>6. OpenBehindWalk(r)'
  <2>1. \A id \in Uncommitted' : id < walk[r].passed => id \in Uncommitted
    BY <1>2, <1>3, <1>1, LastIdAssumption DEF TypeOK, LastIdAssumption
  <2>2. QED
    BY <1>1, <2>1 DEF OpenBehindWalk
<1>7. MissedAreOpen(r)'
  <2> DEFINE in == Input(walk[r].request)
  <2> SUFFICES ASSUME walk[r].state \in {"walking", "done"}, in.status = "",
                      NEW id \in DOMAIN rows', id <= walk[r].passed,
                      Matches(rows'[id], in)
               PROVE  id \in DOMAIN known[r] \cup walk[r].overtaken
    BY DEF MissedAreOpen, Matches
  <2>1. CASE id \in DOMAIN rows
    <3>1. Matches(rows[id], in)
      <4>1. /\ rows'[id].recipient = rows[id].recipient
            /\ rows'[id].category = rows[id].category
        BY <1>1, <2>1, RowsStay
      <4>2. QED
        BY <4>1 DEF Matches
    <3>2. QED
      BY <1>1, <2>1, <3>1 DEF MissedAreOpen
  <2>2. CASE id \notin DOMAIN rows
    <3>1. id \in Uncommitted
      BY <1>3, <2>2
    <3>2. id # walk[r].passed
      BY <1>2, <1>4, <3>1
    <3>3. id \in Nat /\ id <= walk[r].passed /\ walk[r].passed \in Nat
      BY <1>2, <1>4, <3>1
    <3>4. id < walk[r].passed
      BY <3>2, <3>3, Ordered, Zenon
    <3>5. QED
      BY <1>1, <3>1, <3>4 DEF OpenBehindWalk
  <2>3. QED
    BY <2>1, <2>2
<1>8. QED
  BY <1>5, <1>6, <1>7 DEF ReaderInv

\* Starting a walk keeps what the reader's knowledge must satisfy.
LEMMA StartKeepsReaderInv ==
    ASSUME ReadInv, NEW r \in Reader, NEW req \in Request, ListStart(r, req)
    PROVE  ReaderInv(r)'
<1>1. /\ walk'[r].state \notin {"idle", "done"} /\ walk'[r].passed = 0
      /\ walk'[r].state = "walking" => walk'[r].cursor = NoCursor
      /\ UNCHANGED <<rows, tx>>
  BY StartStep DEF ReadInv
<1>2. \A id \in 1 .. LastId : id > 0 /\ ~ id <= 0 /\ ~ id < 0
  BY LastIdAssumption DEF LastIdAssumption
<1>3. /\ DOMAIN rows \subseteq 1 .. LastId
      /\ Uncommitted \subseteq 1 .. LastId
  BY UncommittedIds DEF ReadInv, ListInv, TypeOK
<1>4. Uncommitted' = Uncommitted
  BY <1>1 DEF Uncommitted
<1>5. SteadyInv(r)' /\ OpenBehindWalk(r)' /\ MissedAreOpen(r)'
  BY <1>1, <1>2, <1>3, <1>4 DEF SteadyInv, OpenBehindWalk, MissedAreOpen
<1>6. QED
  BY <1>5 DEF ReaderInv

\* A page adds to the reader's knowledge only what the rows say.
LEMMA PageKeepsReaderInv ==
    ASSUME ReadInv, NEW r \in Reader, ListPage(r)
    PROVE  ReaderInv(r)'
<1> DEFINE w        == walk[r]
           in       == Input(w.request)
           selected == Selected(in, w.cursor)
           page     == Page(in, w.cursor)
           more     == HasMore(in, w.cursor)
           passed   == Passed(w, page)
<1>1. /\ ListInv /\ TypeOK /\ WalkState(w) /\ w.state = "walking"
      /\ w.cursor = w.passed /\ w.cursor \in Nat
      /\ SteadyInv(r) /\ OpenBehindWalk(r) /\ MissedAreOpen(r)
  BY LastIdAssumption
  DEF ReadInv, ListInv, WalkInv, ReaderInv, WalkState, ListPage, TypeOK, Walk, LastIdAssumption
<1>2. walk'[r] = [state |-> IF more THEN "walking" ELSE "done",
                  request |-> w.request,
                  cursor |-> IF more THEN Passed(w, page) ELSE NoCursor,
                  passed |-> Passed(w, page),
                  steady |-> Steady(w, in),
                  overtaken |-> Overtaken(w, page)]
  BY <1>1, PageStep
<1>3. DOMAIN known'[r] = DOMAIN known[r] \cup page /\ UNCHANGED <<rows, tx>>
  BY <1>1, PageStep
<1>4. /\ \A id \in selected : id \in page <=> id <= passed
      /\ ~more => page = selected
      /\ passed \in 0 .. LastId
  BY <1>1, PassedIsEnd
<1>5. \A id \in DOMAIN rows : id > w.cursor /\ Matches(rows[id], in) => id \in selected
  BY DEF Selected
<1>6. \A id \in DOMAIN rows : id \in Nat
  BY <1>1, LastIdAssumption DEF TypeOK, LastIdAssumption
<1>7. passed \in Nat
  BY <1>4, LastIdAssumption DEF LastIdAssumption
<1>8. \A id \in Steady(w, in) :
         id \in DOMAIN rows /\ (id \in DOMAIN known[r] \/ id \in selected)
  BY <1>1, <1>5 DEF Steady, Selected, SteadyInv
<1>9. Uncommitted' = Uncommitted /\ Overtaken(w, page) = w.overtaken \cup {id \in Uncommitted : id < passed}
  BY <1>3 DEF Uncommitted, Overtaken
<1>10. in.status = "" =>
          \A id \in DOMAIN rows : id <= w.passed /\ Matches(rows[id], in) =>
             id \in DOMAIN known[r] \cup w.overtaken
  BY <1>1 DEF MissedAreOpen
<1> HIDE DEF w, in, selected, page, more, passed
<1>11. /\ walk'[r].state = (IF more THEN "walking" ELSE "done")
       /\ walk'[r].request = w.request
       /\ walk'[r].cursor = IF more THEN passed ELSE NoCursor
       /\ walk'[r].passed = passed
       /\ walk'[r].steady = Steady(w, in)
       /\ walk'[r].overtaken = w.overtaken \cup {id \in Uncommitted : id < passed}
  BY <1>2, <1>9 DEF passed
<1>12. SteadyInv(r)'
  <2>1. \A id \in Steady(w, in) : id \in DOMAIN known'[r] \/ id > passed
    BY <1>3, <1>4, <1>6, <1>7, <1>8
  <2>2. ~more => \A id \in Steady(w, in) : id \in DOMAIN known'[r]
    BY <1>3, <1>4, <1>8
  <2>3. QED
    BY <1>11, <2>1, <2>2 DEF SteadyInv
<1>13. OpenBehindWalk(r)'
  BY <1>9, <1>11 DEF OpenBehindWalk
<1>14. MissedAreOpen(r)'
  <2>1. in.status = "" =>
           \A id \in DOMAIN rows : id <= passed /\ Matches(rows[id], in) =>
              id \in DOMAIN known'[r] \cup w.overtaken
    <3> SUFFICES ASSUME in.status = "", NEW id \in DOMAIN rows, id <= passed,
                        Matches(rows[id], in)
                 PROVE  id \in DOMAIN known[r] \cup page \cup w.overtaken
      BY <1>3
    <3>1. CASE id <= w.passed
      BY <1>10, <3>1
    <3>2. CASE ~ id <= w.passed
      <4>1. id > w.cursor
        BY <1>1, <1>6, <3>2, Ordered, Zenon
      <4>2. QED
        BY <1>4, <1>5, <4>1
    <3>3. QED
      BY <3>1, <3>2
  <2>2. Input(walk'[r].request) = in
    BY <1>11 DEF in
  <2>3. QED
    BY <1>3, <1>11, <2>1, <2>2 DEF MissedAreOpen
<1>15. QED
  BY <1>12, <1>13, <1>14 DEF ReaderInv

\* Readers know nothing at first.
LEMMA InitReadInv == Init => ReadInv
<1> SUFFICES ASSUME Init PROVE ReadInv
  OBVIOUS
<1>1. ListInv
  BY InitListInv
<1>2. \A r \in Reader : ReaderInv(r)
  BY DEF Init, ReaderInv, SteadyInv, OpenBehindWalk, MissedAreOpen, Idle, NoRows,
         Uncommitted
<1>3. QED
  BY <1>1, <1>2 DEF ReadInv

\* Every action keeps the invariant of what the readers know.
LEMMA NextReadInv == ReadInv /\ [Next]_vars => ReadInv'
<1> SUFFICES ASSUME ReadInv, [Next]_vars PROVE \A r \in Reader : ReaderInv(r)'
  BY NextListInv DEF ReadInv
<1>1. ListInv
  BY DEF ReadInv
<1>2. ASSUME NEW r \in Reader, NEW req \in Request, ListStart(r, req)
      PROVE  \A q \in Reader : ReaderInv(q)'
  BY <1>1, <1>2, StartStep, StartKeepsReaderInv, OthersKeepReaderInv
<1>3. ASSUME NEW r \in Reader, ListPage(r)
      PROVE  \A q \in Reader : ReaderInv(q)'
  <2>1. \A q \in Reader : q # r => walk'[q] = walk[q] /\ known'[q] = known[q]
    BY <1>1, <1>3, PageStep
  <2>2. QED
    BY <1>3, <2>1, PageKeepsReaderInv, OthersKeepReaderInv
<1>4. ASSUME NEW r \in Reader, NEW ids \in SUBSET DOMAIN known[r], BatchGetRecords(r, ids)
      PROVE  \A q \in Reader : ReaderInv(q)'
  <2>1. /\ walk' = walk
        /\ \A q \in Reader : DOMAIN known'[q] = DOMAIN known[q]
    BY <1>1, <1>4, BatchStep
  <2>2. QED
    BY <2>1, OthersKeepReaderInv
<1>5. ASSUME UNCHANGED <<walk, known>> PROVE \A q \in Reader : ReaderInv(q)'
  BY <1>5, OthersKeepReaderInv
<1>6. QED
  BY <1>2, <1>3, <1>4, <1>5 DEF Next, vars, Insert, Commit, Rollback, ResultHandled

\* The invariant of what the readers know holds always.
LEMMA ReadInvariant == Spec => []ReadInv
BY InitReadInv, NextReadInv, PTL DEF Spec

\* A walk that has ended has shown every row that matched at each of its
\* pages: the cursor and the extra row of ListRecords lose none, whatever is
\* written meanwhile.
THEOREM WalksAreComplete == Spec => []WalkIsComplete
<1>1. ReadInv => WalkIsComplete
  BY DEF ReadInv, ReaderInv, SteadyInv, WalkIsComplete
<1>2. QED
  BY <1>1, ReadInvariant, PTL

\* A list that does not filter by status misses a row behind its cursor only
\* if its transaction was open when a page went past its id.
THEOREM MissedRowsWereOpen == Spec => []OnlyOpenRowsAreMissed
<1>1. ReadInv => OnlyOpenRowsAreMissed
  BY DEF ReadInv, ReaderInv, MissedAreOpen, OnlyOpenRowsAreMissed
<1>2. QED
  BY <1>1, ReadInvariant, PTL

----------------------------------------------------------------------------
(* What a page shows. *)

\* The filter of the gRPC face is the status that the enum stands for.
LEMMA ProtoFilter ==
    ASSUME NEW p \in ProtoStatus, NEW row \in Row, FromProtoStatus(p) \in {"", row.status}
    PROVE  p = RecordStatus[row.status]
<1>1. PICK s \in Status : p = RecordStatus[s]
  BY DEF ProtoStatus
<1>2. /\ RecordStatus["PENDING"] = "RECORD_STATUS_PENDING"
      /\ RecordStatus["ACCEPTED"] = "RECORD_STATUS_ACCEPTED"
      /\ RecordStatus["SENT"] = "RECORD_STATUS_SENT"
      /\ RecordStatus["FAILED_PERMANENT"] = "RECORD_STATUS_FAILED_PERMANENT"
      /\ RecordStatus["SUPPRESSED"] = "RECORD_STATUS_SUPPRESSED"
      /\ RecordStatus["RETRYING"] = "RECORD_STATUS_RETRYING"
  BY DEF RecordStatus
<1>3. /\ FromProtoStatus("RECORD_STATUS_PENDING") = "PENDING"
      /\ FromProtoStatus("RECORD_STATUS_ACCEPTED") = "ACCEPTED"
      /\ FromProtoStatus("RECORD_STATUS_SENT") = "SENT"
      /\ FromProtoStatus("RECORD_STATUS_FAILED_PERMANENT") = "FAILED_PERMANENT"
      /\ FromProtoStatus("RECORD_STATUS_SUPPRESSED") = "SUPPRESSED"
      /\ FromProtoStatus("RECORD_STATUS_RETRYING") = "RETRYING"
  BY DEF FromProtoStatus
<1>4. FromProtoStatus(RecordStatus[s]) = s /\ s # ""
  BY <1>2, <1>3 DEF Status
<1>5. QED
  BY <1>1, <1>4

\* Every row a page adds passes the filters of the request, as it is shown.
LEMMA PageIsAsAsked ==
    ASSUME ListInv, NEW r \in Reader, ListPage(r),
           NEW id \in DOMAIN known'[r] \ DOMAIN known[r]
    PROVE  LET req == walk[r].request
           IN  /\ req.face = "mine" => known'[r][id].recipient = req.caller
               /\ req.face = "admin" => req.recipient \in {"", known'[r][id].recipient}
               /\ req.category \in {"", known'[r][id].category}
               /\ req.status \in {"", Unspecified, known'[r][id].status}
               /\ known'[r][id].status # Unspecified
<1> DEFINE w    == walk[r]
           req  == w.request
           in   == Input(req)
           page == Page(in, w.cursor)
<1>1. /\ w.state = "walking" /\ req \in Request
      /\ DOMAIN known'[r] = DOMAIN known[r] \cup page
      /\ \A k \in page : known'[r][k] = Show(req.face, rows[k])
  BY PageStep
<1>2. TypeOK /\ WalkState(w)
  BY DEF ListInv, WalkInv
<1>3. id \in page /\ page \subseteq Selected(in, w.cursor)
  BY <1>1, <1>2, PassedIsEnd
<1>4. /\ id \in DOMAIN rows /\ rows[id] \in Row /\ Matches(rows[id], in)
      /\ known'[r][id] = Show(req.face, rows[id])
  BY <1>1, <1>2, <1>3, SelectedRows DEF TypeOK
<1>5. IsRequest(req)
  BY <1>1, RequestAssumption
<1>6. /\ in.recipient = (CASE req.face = "mine" -> req.caller
                           [] req.face = "admin" -> req.recipient
                           [] req.face = "grpc" -> "")
      /\ in.category = req.category
      /\ in.status = IF req.face = "grpc" THEN FromProtoStatus(req.status) ELSE req.status
  BY DEF Input
<1> DEFINE row == rows[id]
<1>7. /\ in.recipient \in {"", row.recipient}
      /\ in.category \in {"", row.category}
      /\ in.status \in {"", row.status}
      /\ row \in Row
  BY <1>4 DEF Matches
<1>8. /\ known'[r][id].recipient = row.recipient
      /\ known'[r][id].category = row.category
      /\ known'[r][id].status =
            IF req.face = "grpc" THEN RecordStatus[row.status] ELSE row.status
      /\ known'[r][id].status # Unspecified
  BY <1>4, ShownStatus
<1> HIDE DEF row, in, page, req
<1>9. req.face = "mine" => in.recipient = req.caller /\ req.caller # ""
  BY <1>5, <1>6, UserAssumption DEF IsRequest, UserAssumption
<1>10. req.face = "admin" => in.recipient = req.recipient
  BY <1>6
<1>11. req.status \in {"", Unspecified, known'[r][id].status}
  <2>1. CASE req.face = "grpc"
    <3>1. req.status = Unspecified \/ req.status \in ProtoStatus
      BY <1>5, <2>1 DEF IsRequest
    <3>2. QED
      BY <1>6, <1>7, <1>8, <2>1, <3>1, ProtoFilter
  <2>2. CASE req.face # "grpc"
    BY <1>6, <1>7, <1>8, <2>2
  <2>3. QED
    BY <2>1, <2>2
<1>12. QED
  BY <1>6, <1>7, <1>8, <1>9, <1>10, <1>11 DEF req, w

\* Every record on a page is one the caller asked for: his own on the
\* personal list, whatever else the request says, of the category asked for,
\* and in the status asked for, through the enum of the gRPC face as well.
THEOREM PagesShowWhatWasAsked == Spec => PagesAreAsAsked
<1> DEFINE Asked(r) ==
              LET req == walk[r].request
              IN  walk'[r] # walk[r] =>
                  \A id \in DOMAIN known'[r] \ DOMAIN known[r] :
                     /\ req.face = "mine" => known'[r][id].recipient = req.caller
                     /\ req.face = "admin" => req.recipient \in {"", known'[r][id].recipient}
                     /\ req.category \in {"", known'[r][id].category}
                     /\ req.status \in {"", Unspecified, known'[r][id].status}
                     /\ known'[r][id].status # Unspecified
<1>1. ListInv /\ [Next]_vars => [\A r \in Reader : Asked(r)]_vars
  <2> SUFFICES ASSUME ListInv, Next, NEW r \in Reader PROVE Asked(r)
    BY DEF vars
  <2>1. ASSUME NEW q \in Reader, NEW req \in Request, ListStart(q, req) PROVE Asked(r)
    BY <2>1 DEF ListStart
  <2>2. ASSUME NEW q \in Reader, ListPage(q) PROVE Asked(r)
    <3>1. CASE q = r
      BY <2>2, <3>1, PageIsAsAsked
    <3>2. CASE q # r
      BY <2>2, <3>2, PageStep
    <3>3. QED
      BY <3>1, <3>2
  <2>3. ASSUME walk' = walk PROVE Asked(r)
    BY <2>3
  <2>4. QED
    BY <2>1, <2>2, <2>3 DEF Next, BatchGetRecords, Insert, Commit, Rollback, ResultHandled
<1>2. QED
  BY <1>1, ListInvariant, PTL DEF Spec, PagesAreAsAsked

\* A record a client has been shown is found by every later read, and one it
\* was shown in a final status stays as it was shown.
THEOREM ClientsSeeFinalOnce == Spec => ClientViewIsFinal
<1> DEFINE Stays(r) ==
              \A id \in DOMAIN known[r] :
                 /\ id \in DOMAIN known'[r]
                 /\ known[r][id].status \in FinalToClient => known'[r][id] = known[r][id]
<1>1. ListInv /\ [Next]_vars => [\A r \in Reader : Stays(r)]_vars
  <2> SUFFICES ASSUME ListInv, Next, NEW r \in Reader PROVE Stays(r)
    BY DEF vars
  <2>1. KnownIsTrue(r)
    BY DEF ListInv, WalkInv
  <2>2. ASSUME NEW q \in Reader, ListPage(q) PROVE Stays(r)
    <3>1. CASE q = r
      <4>1. /\ \A id \in DOMAIN known[r] : id \in DOMAIN known'[r]
            /\ \A id \in DOMAIN known[r] :
                  \/ known'[r][id] = Show(walk[r].request.face, rows[id])
                  \/ known'[r][id] = known[r][id]
        BY <2>2, <3>1, PageStep
      <4>2. QED
        BY <2>1, <4>1 DEF KnownIsTrue
    <3>2. CASE q # r
      BY <2>2, <3>2, PageStep
    <3>3. QED
      BY <3>1, <3>2
  <2>3. ASSUME NEW q \in Reader, NEW ids \in SUBSET DOMAIN known[q],
               BatchGetRecords(q, ids)
        PROVE  Stays(r)
    <3>1. CASE q = r
      <4>1. /\ DOMAIN known'[r] = DOMAIN known[r]
            /\ \A id \in DOMAIN known[r] :
                  \/ known'[r][id] = Show(walk[r].request.face, rows[id])
                  \/ known'[r][id] = known[r][id]
        BY <2>3, <3>1, BatchStep
      <4>2. QED
        BY <2>1, <4>1 DEF KnownIsTrue
    <3>2. CASE q # r
      BY <2>3, <3>2, BatchStep
    <3>3. QED
      BY <3>1, <3>2
  <2>4. ASSUME known' = known PROVE Stays(r)
    BY <2>4
  <2>5. QED
    BY <2>2, <2>3, <2>4 DEF Next, ListStart, Insert, Commit, Rollback, ResultHandled
<1>2. QED
  BY <1>1, ListInvariant, PTL DEF Spec, ClientViewIsFinal
=============================================================================
