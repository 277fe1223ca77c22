------------------------- MODULE PreferencesProofs -------------------------
(***************************************************************************)
(* Preferences for any number of clients, any requests, and lists of any   *)
(* length: what is stored is one document, a replacement fails only        *)
(* because another went through, a send has a channel, and an answer is a  *)
(* document that was really stored.                                        *)
(***************************************************************************)
EXTENDS Preferences, SequenceTheorems, TLAPS

----------------------------------------------------------------------------
(* Lists on their way in and out. *)

\* Names and channels correspond to each other, over either face.
LEMMA NamesAreChannels ==
    ASSUME NEW face \in Face, NEW name \in Name(face), NEW c \in Channel
    PROVE  Parsed(face, name) = c <=> Printed(face, c) = name
<1>1. CASE face = "http"
  BY <1>1 DEF Face, Parsed, Printed
<1>2. CASE face = "grpc"
  <2>1. c = "IM" \/ c = "EMAIL" \/ c = "SMS"
    BY DEF Channel
  <2>2. name \in {"CHANNEL_UNSPECIFIED", "CHANNEL_IM", "CHANNEL_EMAIL", "CHANNEL_SMS"}
    BY <1>2 DEF Name
  <2>3. Parsed(face, name) = FromProtoChannel(name) /\ Printed(face, c) = ToProtoChannel(c)
    BY <1>2 DEF Parsed, Printed
  <2>4. QED
    BY <2>1, <2>2, <2>3 DEF FromProtoChannel, ToProtoChannel
<1>3. QED
  BY <1>1, <1>2 DEF Face

\* Every channel has a name.
LEMMA ChannelIsNamed ==
    ASSUME NEW face \in Face, NEW c \in Channel
    PROVE  Printed(face, c) \in Name(face)
BY DEF Face, Channel, Name, Printed, ToProtoChannel

\* A list of names is received as a list of channels.
LEMMA ReceivedType ==
    ASSUME NEW face \in Face, NEW list \in WireList(face) \cup {Null}
    PROVE  /\ Received(face, list) \in List
           /\ ReceivedGlobal(face, list) \in List
<1>1. Received(face, list) \in List
  <2>1. CASE list = Null
    BY <2>1 DEF Received, List
  <2>2. CASE list # Null
    <3>1. ASSUME NEW c \in Channel
          PROVE  list[CHOOSE name \in Name(face) : Parsed(face, name) = c] \in 0 .. MaxCopies
      <4>1. \E name \in Name(face) : Parsed(face, name) = c
        BY ChannelIsNamed, NamesAreChannels
      <4>2. (CHOOSE name \in Name(face) : Parsed(face, name) = c) \in Name(face)
        BY <4>1
      <4>3. QED
        BY <2>2, <4>2 DEF WireList
    <3>2. QED
      BY <2>2, <3>1 DEF Received, List, ChannelList
  <2>3. QED
    BY <2>1, <2>2
<1>2. NoChannels \in List
  BY MaxCopiesAssumption DEF NoChannels, List, ChannelList
<1>3. QED
  BY <1>1, <1>2 DEF ReceivedGlobal

\* A list of channels is answered as a list of names.
LEMMA AnsweredType ==
    ASSUME NEW face \in Face, NEW list \in ChannelList
    PROVE  Answered(face, list) \in WireList(face)
<1>1. ASSUME NEW name \in Name(face),
             \E c \in Channel : Printed(face, c) = name
      PROVE  list[CHOOSE c \in Channel : Printed(face, c) = name] \in 0 .. MaxCopies
  BY <1>1 DEF ChannelList
<1>2. 0 \in 0 .. MaxCopies
  BY MaxCopiesAssumption
<1>3. QED
  BY <1>1, <1>2 DEF Answered, WireList

\* Reading an answer back gives the list that was answered.
LEMMA AnswerIsUnderstood ==
    ASSUME NEW face \in Face, NEW list \in ChannelList
    PROVE  Received(face, Answered(face, list)) = list
<1> DEFINE Meant(c) == CHOOSE name \in Name(face) : Parsed(face, name) = c
<1>1. Answered(face, list) # Null
  BY AnsweredType, NullAssumption DEF Face
<1>2. ASSUME NEW c \in Channel
      PROVE  Answered(face, list)[Meant(c)] = list[c]
  <2>1. Meant(c) \in Name(face) /\ Parsed(face, Meant(c)) = c
    BY ChannelIsNamed, NamesAreChannels
  <2>2. \A d \in Channel : Printed(face, d) = Meant(c) <=> d = c
    BY <2>1, NamesAreChannels
  <2>3. (CHOOSE d \in Channel : Printed(face, d) = Meant(c)) = c
    BY <2>2
  <2>4. QED
    BY <2>1, <2>2, <2>3 DEF Answered
<1>3. QED
  BY <1>1, <1>2 DEF Received, ChannelList

----------------------------------------------------------------------------
(* The shape of the state. *)

Documents == [global : List, categories : UNION {[S -> List] : S \in SUBSET Category}]

Answer(face) ==
    [global : WireList(face),
     categories : UNION {[S -> WireList(face)] : S \in SUBSET Category}]

Transaction ==
    [state : {"idle"} \cup Running \cup Stored \cup Finished,
     face : Face, document : Documents \cup {Null},
     victims : SUBSET PreferenceRow, deleted : SUBSET PreferenceRow,
     inserted : SUBSET PreferenceRow, left : SUBSET Category,
     answer : {Null} \cup Answer("http") \cup Answer("grpc")]

ShapeInv ==
    /\ rows \in SUBSET PreferenceRow
    /\ tx \in [Client -> Transaction]
    /\ \A c \in Client : tx[c].state # "idle" => tx[c].document \in Documents
    /\ log \in Seq(Client)
    /\ \A c \in Client : tx[c].state \in Stored <=> \E i \in DOMAIN log : log[i] = c

\* A stored document is one every INSERT of which can succeed.
Storable(doc) ==
    /\ doc.global # Null
    /\ Global \notin DOMAIN doc.categories
    /\ \A category \in DOMAIN doc.categories : doc.categories[category] # Null

RowFor(c, category) ==
    [category |-> category,
     channels |-> IF category = Global THEN tx[c].document.global
                  ELSE tx[c].document.categories[category],
     by |-> c]

\* What one transaction holds, at each of its statements.
Progress(c) ==
    /\ tx[c].state # "deleting" => tx[c].victims = {}
    /\ tx[c].victims = {} \/ \E d \in Client : /\ tx[d].state \in Stored
                                               /\ tx[c].victims = RowsOf(d)
    /\ tx[c].state \notin {"global", "categories"} =>
          tx[c].deleted = {} /\ tx[c].inserted = {}
    /\ tx[c].deleted \in {{}, rows}
    /\ tx[c].state = "global" =>
          tx[c].inserted = {} /\ tx[c].left = DOMAIN tx[c].document.categories
    /\ tx[c].state = "categories" =>
          /\ tx[c].deleted = rows
          /\ tx[c].left \subseteq DOMAIN tx[c].document.categories
          /\ tx[c].document.global # Null
          /\ \A category \in DOMAIN tx[c].document.categories \ tx[c].left :
                category # Global /\ tx[c].document.categories[category] # Null
          /\ tx[c].inserted =
                {RowFor(c, category) :
                   category \in {Global} \cup
                      (DOMAIN tx[c].document.categories \ tx[c].left)}
    /\ tx[c].state \in Stored => Storable(tx[c].document)

\* Whoever holds the stored rows, or has written a row of their own, is
\* alone in doing so.
Exclusion ==
    \A c, d \in Client :
       c # d /\ (tx[c].deleted # {} \/ tx[c].state = "categories") =>
          tx[d].deleted = {} /\ tx[d].state # "categories"

Inv == ShapeInv /\ (\A c \in Client : Progress(c)) /\ Exclusion /\ StoredIsOneDocument

\* A request becomes a document.
LEMMA DocumentType ==
    ASSUME NEW req \in Request
    PROVE  DocumentOf(req) \in Documents
<1>1. IsRequest(req)
  BY RequestAssumption
<1>2. ReceivedGlobal(req.face, req.global) \in List
  BY <1>1, ReceivedType DEF IsRequest
<1>3. \A category \in DOMAIN req.categories :
         Received(req.face, req.categories[category]) \in List
  BY <1>1, ReceivedType DEF IsRequest
<1>4. [c \in DOMAIN req.categories |-> Received(req.face, req.categories[c])]
         \in [DOMAIN req.categories -> List]
  BY <1>3
<1>5. DOMAIN req.categories \in SUBSET Category
  BY <1>1 DEF IsRequest
<1>6. QED
  BY <1>2, <1>4, <1>5 DEF DocumentOf, Documents

\* The rows of a document are typed, and include the global layer.
LEMMA RowsOfDocument ==
    ASSUME ShapeInv, NEW c \in Client, tx[c].state # "idle",
           Storable(tx[c].document)
    PROVE  /\ RowsOf(c) \in SUBSET PreferenceRow
           /\ RowsOf(c) = {RowFor(c, category) :
                             category \in {Global} \cup DOMAIN tx[c].document.categories}
           /\ RowFor(c, Global) \in RowsOf(c)
           /\ \A row \in RowsOf(c) : row.by = c
<1>1. tx[c].document \in Documents
  BY DEF ShapeInv
<1>2. PICK S \in SUBSET Category : tx[c].document.categories \in [S -> List]
  BY <1>1 DEF Documents
<1>3. tx[c].document.global \in ChannelList
  BY <1>1 DEF Documents, Storable, List
<1>4. DOMAIN tx[c].document.categories \subseteq Category \ {Global}
  BY <1>2 DEF Storable
<1>5. \A category \in DOMAIN tx[c].document.categories :
         tx[c].document.categories[category] \in ChannelList
  BY <1>2 DEF Storable, List
<1>6. Global \in Category
  BY DEF Category
<1>7. RowsOf(c) = {RowFor(c, category) :
                     category \in {Global} \cup DOMAIN tx[c].document.categories}
  BY <1>4 DEF RowsOf, RowFor
<1>8. RowsOf(c) \in SUBSET PreferenceRow
  BY <1>3, <1>4, <1>5, <1>6 DEF RowsOf, PreferenceRow
<1>9. QED
  BY <1>7, <1>8 DEF RowFor, RowsOf

\* The last client of the log has stored its document.
LEMMA LastIsStored ==
    ASSUME ShapeInv, StoredIsOneDocument, rows # {}
    PROVE  /\ log # <<>> /\ log[Len(log)] \in Client
           /\ tx[log[Len(log)]].state \in Stored
           /\ rows = RowsOf(log[Len(log)])
<1>1. log # <<>> /\ rows = RowsOf(log[Len(log)])
  BY DEF StoredIsOneDocument
<1>2. Len(log) \in DOMAIN log /\ log[Len(log)] \in Client
  BY <1>1 DEF ShapeInv
<1>3. QED
  BY <1>1, <1>2 DEF ShapeInv

----------------------------------------------------------------------------
(* The steps, by what they leave alone. *)

Others(c) == \A d \in Client \ {c} : tx'[d] = tx[d]

\* The document and the face of every client stay.
Frame ==
    \A d \in Client : /\ tx'[d].document = tx[d].document
                      /\ tx'[d].face = tx[d].face

\* A step of one transaction that keeps its document and does not commit.
Inside(c) ==
    /\ rows' = rows /\ log' = log
    /\ Others(c) /\ Frame
    /\ tx' \in [Client -> Transaction]
    /\ tx[c].state # "idle" /\ tx'[c].state # "idle"
    /\ tx[c].state \in Stored <=> tx'[c].state \in Stored

\* Such a step keeps the shape, and what is stored.
LEMMA InsideShape ==
    ASSUME Inv, NEW c \in Client, Inside(c)
    PROVE  /\ ShapeInv'
           /\ StoredIsOneDocument'
           /\ \A d \in Client : RowsOf(d)' = RowsOf(d)
           /\ \A d \in Client : tx[d].state \in Stored <=> tx'[d].state \in Stored
<1>1. \A d \in Client : RowsOf(d)' = RowsOf(d)
  BY DEF Inside, Frame, RowsOf
<1>2. \A d \in Client : tx[d].state \in Stored <=> tx'[d].state \in Stored
  BY DEF Inside, Others
<1>3. ShapeInv'
  <2>1. \A d \in Client : tx'[d].state # "idle" => tx'[d].document \in Documents
    BY DEF Inside, Others, Frame, Inv, ShapeInv
  <2>2. QED
    BY <1>2, <2>1 DEF Inside, Inv, ShapeInv
<1>4. StoredIsOneDocument'
  <2>1. CASE log = <<>>
    BY <2>1 DEF Inside, Inv, StoredIsOneDocument
  <2>2. CASE log # <<>>
    <3>1. log[Len(log)] \in Client
      BY <2>2 DEF Inv, ShapeInv
    <3>2. QED
      BY <1>1, <2>2, <3>1 DEF Inside, Inv, StoredIsOneDocument
  <2>3. QED
    BY <2>1, <2>2
<1>5. QED
  BY <1>1, <1>2, <1>3, <1>4

\* It keeps the progress of the others.
LEMMA InsideOthers ==
    ASSUME Inv, NEW c \in Client, Inside(c), NEW d \in Client, d # c
    PROVE  Progress(d)'
<1>1. tx'[d] = tx[d]
  BY DEF Inside, Others
<1>2. tx'[d].victims = {} \/ \E e \in Client : /\ tx'[e].state \in Stored
                                               /\ tx'[d].victims = RowsOf(e)'
  BY <1>1, InsideShape DEF Inv, Progress
<1>3. \A category : RowFor(d, category)' = RowFor(d, category)
  BY <1>1 DEF RowFor
<1>4. Progress(d)
  BY DEF Inv
<1>5. tx[d].state = "categories" =>
        tx'[d].inserted =
           {RowFor(d, category)' :
              category \in {Global} \cup
                 (DOMAIN tx'[d].document.categories \ tx'[d].left)}
  BY <1>1, <1>3, <1>4 DEF Progress
<1>6. QED
  BY <1>1, <1>2, <1>4, <1>5 DEF Progress, Inside

\* A transaction that ends without a commit lets go of everything.
LEMMA EndStep ==
    ASSUME Inv, NEW c \in Client, NEW state \in {"failed", "aborted"},
           tx[c].state \in Running,
           tx' = [tx EXCEPT ![c] = Ended(c, state)],
           rows' = rows, log' = log
    PROVE  Inv'
<1>1. tx \in [Client -> Transaction]
  BY DEF Inv, ShapeInv
<1>2. Ended(c, state) \in Transaction
  BY <1>1 DEF Ended, Transaction, Finished
<1>3. tx'[c] = Ended(c, state) /\ Others(c) /\ tx' \in [Client -> Transaction]
  BY <1>1, <1>2 DEF Others
<1>4. /\ tx'[c].state = state
      /\ tx'[c].victims = {} /\ tx'[c].deleted = {} /\ tx'[c].inserted = {}
      /\ tx'[c].document = tx[c].document /\ tx'[c].face = tx[c].face
  BY <1>1, <1>3 DEF Ended, Transaction
<1>5. Inside(c)
  BY <1>1, <1>3, <1>4 DEF Inside, Others, Frame, Running, Stored
<1>6. Progress(c)'
  BY <1>4 DEF Progress, Stored
<1>7. Exclusion'
  <2>1. \A d \in Client : tx'[d].deleted # {} => tx[d].deleted # {} /\ d # c
    BY <1>3, <1>4 DEF Others
  <2>2. \A d \in Client : tx'[d].state = "categories" => tx[d].state = "categories" /\ d # c
    BY <1>3, <1>4 DEF Others
  <2>3. QED
    BY <1>3, <1>4, <2>1, <2>2 DEF Inv, Exclusion, Others
<1>8. QED
  BY <1>5, <1>6, <1>7, InsideShape, InsideOthers DEF Inv

----------------------------------------------------------------------------
(* The statements of a replacement. *)

\* Submitting a request keeps the invariant.
LEMMA SubmitStep ==
    ASSUME Inv, NEW c \in Client, NEW req \in Request, Submit(c, req)
    PROVE  Inv'
<1> DEFINE next == IF Accepts(req) THEN "open" ELSE "rejected"
<1>1. tx \in [Client -> Transaction]
  BY DEF Inv, ShapeInv
<1>2. req.face \in Face /\ DocumentOf(req) \in Documents
  BY RequestAssumption, DocumentType DEF IsRequest
<1>3. next \in {"open", "rejected"}
  OBVIOUS
<1>4. /\ \A d \in Client \ {c} : tx'[d] = tx[d]
      /\ tx'[c] = [tx[c] EXCEPT !.face = req.face, !.document = DocumentOf(req),
                                !.state = next]
      /\ rows' = rows /\ log' = log
  BY <1>1 DEF Submit
<1>5. /\ tx'[c].state = next /\ tx'[c].document = DocumentOf(req)
      /\ tx'[c].victims = tx[c].victims /\ tx'[c].deleted = tx[c].deleted
      /\ tx'[c].inserted = tx[c].inserted
  BY <1>1, <1>4 DEF Transaction
<1>6. tx' \in [Client -> Transaction]
  <2>1. tx'[c] \in Transaction
    BY <1>1, <1>2, <1>3, <1>4 DEF Transaction, Running, Finished
  <2>2. tx' = [d \in Client |-> tx'[d]]
    BY <1>1 DEF Submit
  <2>3. QED
    BY <1>1, <1>4, <2>1, <2>2
<1>7. tx[c].state = "idle"
  BY DEF Submit
<1>8. \A d \in Client : tx'[d].state \in Stored <=> tx[d].state \in Stored
  BY <1>3, <1>4, <1>5, <1>7 DEF Stored
<1>9. \A d \in Client : tx[d].state \in Stored => d # c /\ RowsOf(d)' = RowsOf(d)
  BY <1>4, <1>7 DEF Stored, RowsOf
<1>10. ShapeInv'
  <2>1. \A d \in Client : tx'[d].state # "idle" => tx'[d].document \in Documents
    BY <1>2, <1>4, <1>5 DEF Inv, ShapeInv
  <2>2. QED
    BY <1>4, <1>6, <1>8, <2>1 DEF Inv, ShapeInv
<1>11. StoredIsOneDocument'
  <2>1. CASE log = <<>>
    BY <1>4, <2>1 DEF Inv, StoredIsOneDocument
  <2>2. CASE log # <<>>
    <3>1. Len(log) \in DOMAIN log /\ log[Len(log)] \in Client
      BY <2>2 DEF Inv, ShapeInv
    <3>2. tx[log[Len(log)]].state \in Stored
      BY <3>1 DEF Inv, ShapeInv
    <3>3. QED
      BY <1>4, <1>9, <2>2, <3>1, <3>2 DEF Inv, StoredIsOneDocument
  <2>3. QED
    BY <2>1, <2>2
<1>12. Progress(c)'
  BY <1>3, <1>5, <1>7 DEF Inv, Progress, Stored
<1>13. ASSUME NEW d \in Client, d # c PROVE Progress(d)'
  <2>1. tx'[d] = tx[d] /\ Progress(d)
    BY <1>4, <1>13 DEF Inv
  <2>2. tx'[d].victims = {} \/ \E e \in Client : /\ tx'[e].state \in Stored
                                                 /\ tx'[d].victims = RowsOf(e)'
    BY <1>8, <1>9, <2>1 DEF Progress
  <2>3. \A category : RowFor(d, category)' = RowFor(d, category)
    BY <2>1 DEF RowFor
  <2>4. tx[d].state = "categories" =>
          tx'[d].inserted =
             {RowFor(d, category)' :
                category \in {Global} \cup
                   (DOMAIN tx'[d].document.categories \ tx'[d].left)}
    BY <2>1, <2>3 DEF Progress
  <2>5. QED
    BY <1>4, <2>1, <2>2, <2>4 DEF Progress
<1>14. Exclusion'
  <2>1. \A d \in Client : tx'[d].deleted = tx[d].deleted
    BY <1>4, <1>5
  <2>2. \A d \in Client : tx'[d].state = "categories" <=> tx[d].state = "categories"
    BY <1>3, <1>4, <1>5, <1>7
  <2>3. QED
    BY <2>1, <2>2 DEF Inv, Exclusion
<1>15. QED
  BY <1>10, <1>11, <1>12, <1>13, <1>14 DEF Inv

\* Starting the delete keeps the invariant.
LEMMA DeleteStartStep ==
    ASSUME Inv, NEW c \in Client, DeleteStart(c)
    PROVE  Inv'
<1>1. tx \in [Client -> Transaction] /\ rows \in SUBSET PreferenceRow
  BY DEF Inv, ShapeInv
<1>2. /\ tx'[c] = [tx[c] EXCEPT !.state = "deleting", !.victims = rows]
      /\ Others(c) /\ rows' = rows /\ log' = log
  BY <1>1 DEF DeleteStart, Others
<1>3. /\ tx'[c].state = "deleting" /\ tx'[c].victims = rows
      /\ tx'[c].deleted = tx[c].deleted /\ tx'[c].inserted = tx[c].inserted
      /\ tx'[c].document = tx[c].document /\ tx'[c].face = tx[c].face
  BY <1>1, <1>2 DEF Transaction
<1>4. tx' \in [Client -> Transaction]
  <2>1. tx'[c] \in Transaction
    BY <1>1, <1>2 DEF Transaction, Running
  <2>2. QED
    BY <1>1, <2>1 DEF DeleteStart
<1>5. tx[c].state = "open"
  BY DEF DeleteStart
<1>6. Inside(c)
  BY <1>2, <1>3, <1>4, <1>5 DEF Inside, Others, Frame, Stored
<1>7. Progress(c)'
  <2>1. rows = {} \/ \E d \in Client : /\ tx'[d].state \in Stored
                                       /\ rows = RowsOf(d)'
    BY <1>6, InsideShape, LastIsStored DEF Inv
  <2>2. tx[c].deleted = {} /\ tx[c].inserted = {}
    BY <1>5 DEF Inv, Progress
  <2>3. QED
    BY <1>3, <2>1, <2>2 DEF Progress, Stored
<1>8. Exclusion'
  <2>1. \A d \in Client : /\ tx'[d].deleted = tx[d].deleted
                          /\ tx'[d].state = "categories" <=> tx[d].state = "categories"
    BY <1>2, <1>3, <1>5 DEF Others
  <2>2. QED
    BY <2>1 DEF Inv, Exclusion
<1>9. QED
  BY <1>6, <1>7, <1>8, InsideShape, InsideOthers DEF Inv

\* A DELETE takes all of the stored rows or, when they have been replaced
\* since it started, none.
LEMMA DeleteFinishStep ==
    ASSUME Inv, NEW c \in Client, DeleteFinish(c)
    PROVE  Inv'
<1> DEFINE taken == tx[c].victims \cap rows
<1>1. tx \in [Client -> Transaction] /\ rows \in SUBSET PreferenceRow
  BY DEF Inv, ShapeInv
<1>2. /\ tx'[c] = [tx[c] EXCEPT !.state = "global", !.victims = {},
                                !.deleted = taken,
                                !.left = DOMAIN tx[c].document.categories]
      /\ Others(c) /\ rows' = rows /\ log' = log
  BY <1>1 DEF DeleteFinish, Others
<1>3. /\ tx'[c].state = "global" /\ tx'[c].victims = {}
      /\ tx'[c].deleted = taken /\ tx'[c].inserted = tx[c].inserted
      /\ tx'[c].left = DOMAIN tx[c].document.categories
      /\ tx'[c].document = tx[c].document /\ tx'[c].face = tx[c].face
  BY <1>1, <1>2 DEF Transaction
<1>4. tx[c].state = "deleting"
  BY DEF DeleteFinish
<1>5. tx' \in [Client -> Transaction]
  <2>1. tx[c].document \in Documents
    BY <1>4 DEF Inv, ShapeInv
  <2>2. DOMAIN tx[c].document.categories \in SUBSET Category
    BY <2>1 DEF Documents
  <2>3. tx'[c] \in Transaction
    BY <1>1, <1>2, <2>2 DEF Transaction, Running
  <2>4. QED
    BY <1>1, <2>3 DEF DeleteFinish
<1>6. Inside(c)
  BY <1>2, <1>3, <1>4, <1>5 DEF Inside, Others, Frame, Stored
<1>7. taken \in {{}, rows}
  <2>1. CASE tx[c].victims = {} \/ rows = {}
    BY <2>1
  <2>2. CASE tx[c].victims # {} /\ rows # {}
    <3>1. PICK d \in Client : tx[d].state \in Stored /\ tx[c].victims = RowsOf(d)
      BY <2>2 DEF Inv, Progress
    <3>2. PICK e \in Client : tx[e].state \in Stored /\ rows = RowsOf(e)
      BY <2>2, LastIsStored DEF Inv
    <3>3. /\ \A row \in tx[c].victims : row.by = d
          /\ \A row \in rows : row.by = e
      BY <3>1, <3>2 DEF RowsOf
    <3>4. CASE d = e
      BY <3>1, <3>2, <3>4
    <3>5. CASE d # e
      BY <3>3, <3>5
    <3>6. QED
      BY <3>4, <3>5
  <2>3. QED
    BY <2>1, <2>2
<1>8. Progress(c)'
  <2>1. tx[c].inserted = {}
    BY <1>4 DEF Inv, Progress
  <2>2. QED
    BY <1>2, <1>3, <1>7, <2>1 DEF Progress, Stored
<1>9. Exclusion'
  <2>1. \A d \in Client \ {c} : tx'[d] = tx[d]
    BY <1>2 DEF Others
  <2>2. \A d \in Client \ {c} : taken # {} => tx[d].deleted = {}
    <3>1. ASSUME NEW d \in Client \ {c}, taken # {} PROVE tx[d].deleted = {}
      <4>1. taken = rows /\ rows \subseteq tx[c].victims
        BY <1>7, <3>1
      <4>2. tx[d].deleted \cap tx[c].victims = {}
        BY DEF DeleteFinish
      <4>3. tx[d].deleted \in {{}, rows}
        BY DEF Inv, Progress
      <4>4. QED
        BY <4>1, <4>2, <4>3
    <3>2. QED
      BY <3>1
  <2>3. \A d \in Client \ {c} : taken # {} => tx[d].state # "categories"
    <3>1. ASSUME NEW d \in Client \ {c}, tx[d].state = "categories" PROVE taken = {}
      <4>1. tx[d].deleted = rows
        BY <3>1 DEF Inv, Progress
      <4>2. QED
        BY <2>2, <4>1
    <3>2. QED
      BY <3>1
  <2>4. \A d \in Client \ {c} : tx[d].deleted # {} \/ tx[d].state = "categories" => taken = {}
    BY <2>2, <2>3
  <2>5. QED
    BY <1>3, <2>1, <2>2, <2>3, <2>4 DEF Inv, Exclusion
<1>10. QED
  BY <1>6, <1>8, <1>9, InsideShape, InsideOthers DEF Inv

\* Where rows are stored the global layer is among them.
LEMMA GlobalIsStored ==
    ASSUME Inv, rows # {}
    PROVE  \E row \in rows : row.category = Global
<1>1. PICK e \in Client : tx[e].state \in Stored /\ rows = RowsOf(e)
  BY LastIsStored DEF Inv
<1>2. Storable(tx[e].document) /\ tx[e].state # "idle"
  BY <1>1 DEF Inv, Progress, Stored
<1>3. RowFor(e, Global) \in rows
  BY <1>1, <1>2, RowsOfDocument DEF Inv
<1>4. QED
  BY <1>3 DEF RowFor

\* What a successful INSERT does to the transaction.
LEMMA Written ==
    ASSUME Inv, NEW c \in Client, tx[c].state \in {"global", "categories"},
           NEW category \in Category, NEW channels \in ChannelList,
           NEW next \in SUBSET Category,
           Write(c, category, channels, next), rows' = rows, log' = log
    PROVE  /\ Inside(c)
           /\ tx'[c].state = "categories" /\ tx'[c].victims = tx[c].victims
           /\ tx'[c].deleted = tx[c].deleted /\ tx'[c].left = next
           /\ tx'[c].document = tx[c].document
           /\ tx'[c].inserted = tx[c].inserted \cup
                {[category |-> category, channels |-> channels, by |-> c]}
<1> DEFINE row == [category |-> category, channels |-> channels, by |-> c]
<1>1. tx \in [Client -> Transaction]
  BY DEF Inv, ShapeInv
<1>2. row \in PreferenceRow
  BY DEF PreferenceRow
<1>3. /\ tx'[c] = [tx[c] EXCEPT !.state = "categories",
                                !.inserted = tx[c].inserted \cup {row},
                                !.left = next]
      /\ Others(c)
  BY <1>1 DEF Write, Others
<1>4. /\ tx'[c].state = "categories" /\ tx'[c].victims = tx[c].victims
      /\ tx'[c].deleted = tx[c].deleted /\ tx'[c].left = next
      /\ tx'[c].document = tx[c].document /\ tx'[c].face = tx[c].face
      /\ tx'[c].inserted = tx[c].inserted \cup {row}
  BY <1>1, <1>3 DEF Transaction
<1>5. tx' \in [Client -> Transaction]
  <2>0. tx[c].inserted \cup {row} \in SUBSET PreferenceRow
    BY <1>1, <1>2 DEF Transaction
  <2>1. tx'[c] \in Transaction
    <3> DEFINE all == tx[c].inserted \cup {row}
    <3> HIDE DEF row
    <3>1. all \in SUBSET PreferenceRow
      BY <2>0
    <3>2. tx'[c] = [tx[c] EXCEPT !.state = "categories", !.inserted = all, !.left = next]
      BY <1>3
    <3> HIDE DEF all
    <3>3. QED
      BY <1>1, <3>1, <3>2 DEF Transaction, Running
  <2>2. tx' = [d \in Client |-> tx'[d]]
    BY <1>1 DEF Write
  <2>3. QED
    BY <1>1, <1>3, <2>1, <2>2 DEF Others
<1>6. QED
  BY <1>3, <1>4, <1>5 DEF Inside, Others, Frame, Stored

\* Inserting the global row keeps the invariant.
LEMMA InsertGlobalStep ==
    ASSUME Inv, NEW c \in Client, InsertGlobal(c)
    PROVE  Inv'
<1> DEFINE channels == tx[c].document.global
<1>1. /\ tx[c].state = "global" /\ rows' = rows /\ log' = log
      /\ Insert(c, Global, channels, tx[c].left)
  BY DEF InsertGlobal
<1>2. CASE tx' = [tx EXCEPT ![c] = Ended(c, "failed")]
  BY <1>1, <1>2, EndStep DEF Running
<1>3. CASE /\ channels # Null /\ ~Blocked(c, Global) /\ ~Taken(c, Global)
           /\ Write(c, Global, channels, tx[c].left)
  <2>1. /\ tx[c].document \in Documents /\ channels \in ChannelList
        /\ Global \in Category /\ tx[c].left \in SUBSET Category
    BY <1>1, <1>3 DEF Inv, ShapeInv, Documents, List, Transaction, Category
  <2>2. /\ Inside(c)
        /\ tx'[c].state = "categories" /\ tx'[c].victims = tx[c].victims
        /\ tx'[c].deleted = tx[c].deleted /\ tx'[c].left = tx[c].left
        /\ tx'[c].document = tx[c].document
        /\ tx'[c].inserted = tx[c].inserted \cup
             {[category |-> Global, channels |-> channels, by |-> c]}
    BY <1>1, <1>3, <2>1, Written
  <2>3. /\ tx[c].inserted = {} /\ tx[c].victims = {}
        /\ tx[c].left = DOMAIN tx[c].document.categories
        /\ tx[c].deleted \in {{}, rows}
    BY <1>1 DEF Inv, Progress
  <2>4. tx[c].deleted = rows
    <3>1. \A row \in rows \ tx[c].deleted : row.category # Global
      BY <1>3 DEF Taken
    <3>2. QED
      BY <2>3, <3>1, GlobalIsStored
  <2>5. ASSUME NEW d \in Client, d # c
        PROVE  tx[d].deleted = {} /\ tx[d].state # "categories"
    <3>1. \A row \in tx[d].inserted \cup tx[d].deleted : row.category # Global
      BY <1>3, <2>5 DEF Blocked
    <3>2. tx[d].deleted \in {{}, rows}
      BY DEF Inv, Progress
    <3>3. tx[d].deleted = {}
      BY <3>1, <3>2, GlobalIsStored
    <3>4. tx[d].state = "categories" => RowFor(d, Global) \in tx[d].inserted
      BY DEF Inv, Progress
    <3>5. RowFor(d, Global).category = Global
      BY DEF RowFor
    <3>6. QED
      BY <3>1, <3>3, <3>4, <3>5
  <2>6. Progress(c)'
    <3>1. RowFor(c, Global)' = [category |-> Global, channels |-> channels, by |-> c]
      BY <2>2 DEF RowFor
    <3>2. tx'[c].inserted = {RowFor(c, category)' : category \in {Global} \cup
                (DOMAIN tx'[c].document.categories \ tx'[c].left)}
      BY <2>2, <2>3, <3>1
    <3>3. QED
      BY <1>1, <1>3, <2>2, <2>3, <2>4, <3>2 DEF Progress, Stored
  <2>7. Exclusion'
    <3>1. \A d \in Client \ {c} : tx'[d] = tx[d]
      BY <2>2 DEF Inside, Others
    <3>2. QED
      BY <2>5, <3>1 DEF Exclusion
  <2>8. QED
    BY <2>2, <2>6, <2>7, InsideShape, InsideOthers DEF Inv
<1>4. QED
  BY <1>1, <1>2, <1>3 DEF Insert

\* Inserting a category row keeps the invariant.
LEMMA InsertCategoryStep ==
    ASSUME Inv, NEW c \in Client, NEW category \in Category,
           InsertCategory(c, category)
    PROVE  Inv'
<1> DEFINE channels == tx[c].document.categories[category]
           next == tx[c].left \ {category}
<1>1. /\ tx[c].state = "categories" /\ rows' = rows /\ log' = log
      /\ category \in tx[c].left
      /\ Insert(c, category, channels, next)
  BY DEF InsertCategory
<1>2. CASE tx' = [tx EXCEPT ![c] = Ended(c, "failed")]
  BY <1>1, <1>2, EndStep DEF Running
<1>3. CASE /\ channels # Null /\ ~Blocked(c, category) /\ ~Taken(c, category)
           /\ Write(c, category, channels, next)
  <2>1. /\ tx[c].deleted = rows /\ tx[c].victims = {}
        /\ tx[c].left \subseteq DOMAIN tx[c].document.categories
        /\ tx[c].document.global # Null
        /\ \A k \in DOMAIN tx[c].document.categories \ tx[c].left :
              k # Global /\ tx[c].document.categories[k] # Null
        /\ tx[c].inserted =
             {RowFor(c, k) : k \in {Global} \cup
                (DOMAIN tx[c].document.categories \ tx[c].left)}
    BY <1>1 DEF Inv, Progress
  <2>2. channels \in ChannelList /\ next \in SUBSET Category
    <3>1. tx[c].document \in Documents
      BY <1>1 DEF Inv, ShapeInv
    <3>2. PICK S \in SUBSET Category : tx[c].document.categories \in [S -> List]
      BY <3>1 DEF Documents
    <3>3. QED
      BY <1>1, <1>3, <2>1, <3>2 DEF List
  <2>3. /\ Inside(c)
        /\ tx'[c].state = "categories" /\ tx'[c].victims = tx[c].victims
        /\ tx'[c].deleted = tx[c].deleted /\ tx'[c].left = next
        /\ tx'[c].document = tx[c].document
        /\ tx'[c].inserted = tx[c].inserted \cup
             {[category |-> category, channels |-> channels, by |-> c]}
    BY <1>1, <1>3, <2>2, Written
  <2>4. category # Global
    <3>1. RowFor(c, Global) \in tx[c].inserted
      BY <2>1
    <3>2. RowFor(c, Global).category = Global
      BY DEF RowFor
    <3>3. QED
      BY <1>3, <3>1, <3>2 DEF Taken
  <2>5. \A k : RowFor(c, k)' = RowFor(c, k)
    BY <2>3 DEF RowFor
  <2>6. RowFor(c, category) = [category |-> category, channels |-> channels, by |-> c]
    BY <2>4 DEF RowFor
  <2>7. DOMAIN tx'[c].document.categories \ tx'[c].left =
          (DOMAIN tx[c].document.categories \ tx[c].left) \cup {category}
    BY <1>1, <2>1, <2>3
  <2>8. tx'[c].inserted =
          {RowFor(c, k)' : k \in {Global} \cup
             (DOMAIN tx'[c].document.categories \ tx'[c].left)}
    <3> DEFINE done == {Global} \cup (DOMAIN tx[c].document.categories \ tx[c].left)
    <3>1. {Global} \cup (DOMAIN tx'[c].document.categories \ tx'[c].left)
             = done \cup {category}
      BY <2>7
    <3>2. {RowFor(c, k)' : k \in done \cup {category}}
             = {RowFor(c, k) : k \in done \cup {category}}
      BY <2>5
    <3>3. {RowFor(c, k) : k \in done \cup {category}}
             = {RowFor(c, k) : k \in done} \cup {RowFor(c, category)}
      OBVIOUS
    <3>4. QED
      BY <2>1, <2>3, <2>6, <3>1, <3>2, <3>3
  <2>9. \A k \in DOMAIN tx'[c].document.categories \ tx'[c].left :
           k # Global /\ tx'[c].document.categories[k] # Null
    BY <1>3, <2>1, <2>3, <2>4, <2>7
  <2>10. tx'[c].left \subseteq DOMAIN tx'[c].document.categories
    BY <2>1, <2>3
  <2>11. Progress(c)'
    BY <1>1, <2>1, <2>3, <2>8, <2>9, <2>10 DEF Progress, Stored
  <2>12. Exclusion'
    <3>1. \A d \in Client : /\ tx'[d].deleted = tx[d].deleted
                            /\ tx'[d].state = "categories" <=> tx[d].state = "categories"
      BY <1>1, <2>3 DEF Inside, Others
    <3>2. QED
      BY <3>1 DEF Inv, Exclusion
  <2>13. QED
    BY <2>3, <2>11, <2>12, InsideShape, InsideOthers DEF Inv
<1>4. QED
  BY <1>1, <1>2, <1>3 DEF Insert

\* What a commit leaves behind.
LEMMA CommitStores ==
    ASSUME Inv, NEW c \in Client, Commit(c)
    PROVE  Storable(tx[c].document) /\ rows' = RowsOf(c)
<1>1. /\ tx[c].state = "categories" /\ tx[c].left = {}
      /\ rows' = (rows \ tx[c].deleted) \cup tx[c].inserted
  BY DEF Commit
<1>2. /\ tx[c].deleted = rows
      /\ tx[c].document.global # Null
      /\ \A k \in DOMAIN tx[c].document.categories :
            k # Global /\ tx[c].document.categories[k] # Null
      /\ tx[c].inserted =
           {RowFor(c, k) : k \in {Global} \cup DOMAIN tx[c].document.categories}
  BY <1>1 DEF Inv, Progress
<1>3. Storable(tx[c].document)
  BY <1>2 DEF Storable
<1>4. QED
  BY <1>1, <1>2, <1>3, RowsOfDocument DEF Inv

\* A commit replaces everything that was stored.
LEMMA CommitStep ==
    ASSUME Inv, NEW c \in Client, Commit(c)
    PROVE  Inv'
<1>1. tx \in [Client -> Transaction] /\ log \in Seq(Client)
  BY DEF Inv, ShapeInv
<1>2. /\ tx[c].state = "categories" /\ tx[c].left = {}
      /\ rows' = (rows \ tx[c].deleted) \cup tx[c].inserted
      /\ log' = Append(log, c)
  BY DEF Commit
<1>3. Ended(c, "committed") \in Transaction
  BY <1>1 DEF Ended, Transaction, Stored
<1>4. /\ tx'[c] = Ended(c, "committed") /\ Others(c)
      /\ tx' \in [Client -> Transaction]
  BY <1>1, <1>3 DEF Commit, Others
<1>5. /\ tx'[c].state = "committed"
      /\ tx'[c].victims = {} /\ tx'[c].deleted = {} /\ tx'[c].inserted = {}
      /\ tx'[c].document = tx[c].document
  BY <1>1, <1>4 DEF Ended, Transaction
<1>6. Storable(tx[c].document) /\ rows' = RowsOf(c)
  BY CommitStores
<1>7. RowsOf(c) \in SUBSET PreferenceRow
  BY <1>2, <1>6, RowsOfDocument DEF Inv
<1>8. \A d \in Client : RowsOf(d)' = RowsOf(d)
  BY <1>4, <1>5 DEF Others, RowsOf
<1>9. \A d \in Client \ {c} : /\ tx[d].deleted = {} /\ tx[d].state # "categories"
                               /\ tx'[d] = tx[d]
  BY <1>2, <1>4 DEF Inv, Exclusion, Others
<1>10. /\ log' \in Seq(Client) /\ log' # <<>>
       /\ log'[Len(log')] = c
       /\ DOMAIN log' = DOMAIN log \cup {Len(log')} /\ Len(log') \in DOMAIN log'
       /\ \A i \in DOMAIN log : log'[i] = log[i]
  BY <1>1, <1>2
<1>11. \A d \in Client : tx'[d].state \in Stored <=> \E i \in DOMAIN log' : log'[i] = d
  <2>1. "committed" \in Stored
    BY DEF Stored
  <2>2. ASSUME NEW d \in Client, d # c
        PROVE  (\E i \in DOMAIN log' : log'[i] = d) <=> \E i \in DOMAIN log : log[i] = d
    BY <1>10, <2>2
  <2>3. QED
    BY <1>5, <1>9, <1>10, <2>1, <2>2 DEF Inv, ShapeInv
<1>12. ShapeInv'
  <2>1. \A d \in Client : tx'[d].state # "idle" => tx'[d].document \in Documents
    BY <1>2, <1>5, <1>9 DEF Inv, ShapeInv
  <2>2. QED
    BY <1>4, <1>6, <1>7, <1>10, <1>11, <2>1 DEF ShapeInv
<1>13. StoredIsOneDocument'
  BY <1>6, <1>8, <1>10 DEF StoredIsOneDocument
<1>14. Progress(c)'
  BY <1>5, <1>6 DEF Progress, Stored
<1>15. ASSUME NEW d \in Client, d # c PROVE Progress(d)'
  <2>1. /\ tx'[d] = tx[d] /\ Progress(d)
        /\ tx'[d].deleted = {} /\ tx'[d].state # "categories"
    BY <1>9, <1>15 DEF Inv
  <2>2. \A e \in Client : tx[e].state \in Stored => tx'[e].state \in Stored
    BY <1>5, <1>9 DEF Stored
  <2>3. tx'[d].victims = {} \/ \E e \in Client : /\ tx'[e].state \in Stored
                                                 /\ tx'[d].victims = RowsOf(e)'
    BY <1>8, <2>1, <2>2 DEF Progress
  <2>4. QED
    BY <2>1, <2>3 DEF Progress
<1>16. Exclusion'
  BY <1>5, <1>9 DEF Exclusion
<1>17. QED
  BY <1>12, <1>13, <1>14, <1>15, <1>16 DEF Inv

----------------------------------------------------------------------------
(* The readers. *)

\* A layer that is read is one of a stored row, or unset.
LEMMA LayerType ==
    ASSUME rows \in SUBSET PreferenceRow, NEW category
    PROVE  /\ LayerOf(category) \in Layer
           /\ LayerOf(category).channels \in ChannelList
<1>1. Unset \in Layer
  BY MaxCopiesAssumption DEF Unset, NoChannels, Layer, ChannelList
<1>2. ASSUME \E row \in rows : row.category = category
      PROVE  (CHOOSE row \in rows : row.category = category).channels \in ChannelList
  BY <1>2 DEF PreferenceRow
<1>3. LayerOf(category) \in Layer
  BY <1>1, <1>2 DEF LayerOf, Layer
<1>4. QED
  BY <1>3 DEF Layer

\* The default is a list of channels, and not empty.
LEMMA DefaultType == DefaultGlobalChannels \in ChannelList /\ ~IsEmpty(DefaultGlobalChannels)
<1>1. "IM" \in Channel /\ DefaultGlobalChannels["IM"] = 1
  BY DEF Channel, DefaultGlobalChannels
<1>2. 0 \in 0 .. MaxCopies /\ 1 \in 0 .. MaxCopies
  BY MaxCopiesAssumption
<1>3. DefaultGlobalChannels \in ChannelList
  BY <1>2 DEF DefaultGlobalChannels, ChannelList
<1>4. ~IsEmpty(DefaultGlobalChannels)
  <2>1. "IM" \in Names(DefaultGlobalChannels)
    BY <1>1 DEF Names
  <2>2. QED
    BY <2>1 DEF IsEmpty
<1>5. QED
  BY <1>3, <1>4

\* The ceiling a layer sets is a list of channels.
LEMMA CeilingType ==
    ASSUME NEW layer \in Layer
    PROVE  Ceiling(layer) \in ChannelList
BY DefaultType DEF Ceiling, Layer

\* What a face shows is an answer of that face.
LEMMA ShownType ==
    ASSUME ShapeInv, NEW face \in Face
    PROVE  Shown(face) \in Answer(face)
<1> DEFINE keys == {row.category : row \in rows} \ {Global}
<1>1. rows \in SUBSET PreferenceRow
  BY DEF ShapeInv
<1>2. Answered(face, Ceiling(LayerOf(Global))) \in WireList(face)
  BY <1>1, LayerType, CeilingType, AnsweredType
<1>3. \A c \in keys : Answered(face, LayerOf(c).channels) \in WireList(face)
  BY <1>1, LayerType, AnsweredType
<1>4. keys \in SUBSET Category
  BY <1>1 DEF PreferenceRow
<1>5. [c \in keys |-> Answered(face, LayerOf(c).channels)] \in [keys -> WireList(face)]
  BY <1>3
<1>6. QED
  BY <1>2, <1>4, <1>5 DEF Shown, Answer

\* Reading back, or failing to, keeps the invariant.
LEMMA ReadBackStep ==
    ASSUME Inv, NEW c \in Client, ReadBack(c) \/ ReadBackFails(c)
    PROVE  Inv'
<1>1. tx \in [Client -> Transaction]
  BY DEF Inv, ShapeInv
<1>2. Shown(tx[c].face) \in Answer("http") \cup Answer("grpc")
  BY <1>1, ShownType DEF Inv, Transaction, Face
<1>3. PICK next \in {"answered", "unanswered"},
           answer \in {Null} \cup Answer("http") \cup Answer("grpc") :
         /\ tx[c].state = "committed" /\ rows' = rows /\ log' = log
         /\ tx' = [tx EXCEPT ![c] = [tx[c] EXCEPT !.state = next, !.answer = answer]]
  <2>1. CASE ReadBack(c)
    BY <1>1, <1>2, <2>1 DEF ReadBack
  <2>2. CASE ReadBackFails(c)
    <3>1. tx[c].answer \in {Null} \cup Answer("http") \cup Answer("grpc")
      BY <1>1 DEF Transaction
    <3>2. [tx[c] EXCEPT !.state = "unanswered"]
            = [tx[c] EXCEPT !.state = "unanswered", !.answer = tx[c].answer]
      BY <1>1 DEF Transaction
    <3>3. QED
      BY <1>1, <2>2, <3>1, <3>2 DEF ReadBackFails
  <2>3. QED
    BY <2>1, <2>2
<1>4. [tx[c] EXCEPT !.state = next, !.answer = answer] \in Transaction
  BY <1>1, <1>3 DEF Transaction, Stored
<1>5. /\ tx'[c] = [tx[c] EXCEPT !.state = next, !.answer = answer]
      /\ Others(c) /\ tx' \in [Client -> Transaction]
  BY <1>1, <1>3, <1>4 DEF Others
<1>6. /\ tx'[c].state = next /\ tx'[c].victims = tx[c].victims
      /\ tx'[c].deleted = tx[c].deleted /\ tx'[c].inserted = tx[c].inserted
      /\ tx'[c].document = tx[c].document /\ tx'[c].face = tx[c].face
  BY <1>1, <1>5 DEF Transaction
<1>7. Inside(c)
  BY <1>3, <1>5, <1>6 DEF Inside, Others, Frame, Stored
<1>8. Progress(c)'
  BY <1>3, <1>6 DEF Inv, Progress, Stored
<1>9. Exclusion'
  <2>1. \A d \in Client : /\ tx'[d].deleted = tx[d].deleted
                          /\ tx'[d].state = "categories" <=> tx[d].state = "categories"
    BY <1>3, <1>5, <1>6 DEF Others
  <2>2. QED
    BY <2>1 DEF Inv, Exclusion
<1>10. QED
  BY <1>7, <1>8, <1>9, InsideShape, InsideOthers DEF Inv

\* A send of the critical category is resolved to a list that is not empty.
LEMMA ResolveCritical ==
    ASSUME NEW global \in Layer, NEW category \in Layer
    PROVE  /\ Resolve(global, category, TRUE) \in ChannelList
           /\ ~IsEmpty(Resolve(global, category, TRUE))
<1> DEFINE resolved == IF category.set
                       THEN Intersect(category.channels, Ceiling(global))
                       ELSE Ceiling(global)
<1>1. Ceiling(global) \in ChannelList /\ category.channels \in ChannelList
  BY CeilingType DEF Layer
<1>2. 0 \in 0 .. MaxCopies
  BY MaxCopiesAssumption
<1>3. Intersect(category.channels, Ceiling(global)) \in ChannelList
  BY <1>1, <1>2 DEF Intersect, ChannelList
<1>4. resolved \in ChannelList
  BY <1>1, <1>3
<1>5. Resolve(global, category, TRUE)
        = IF IsEmpty(resolved) THEN DefaultGlobalChannels ELSE resolved
  BY DEF Resolve
<1>6. QED
  <2> HIDE DEF resolved
  <2>1. QED
    BY <1>4, <1>5, DefaultType

SendInv ==
    /\ send \in [step : {"idle", "global", "resolved"}, global : Layer,
                 resolved : ChannelList]
    /\ SendHasChannel

\* An unset layer is a layer, no channels a channel list.
LEMMA UnsetType == Unset \in Layer /\ NoChannels \in ChannelList
BY MaxCopiesAssumption DEF Unset, NoChannels, Layer, ChannelList

\* No step lets a send resolve to no channel at all.
LEMMA SendStep ==
    ASSUME Inv, SendInv, Next
    PROVE  SendInv'
<1>1. CASE UNCHANGED send
  BY <1>1 DEF SendInv, SendHasChannel
<1>2. CASE ResolveReadGlobal
  <2>1. LayerOf(Global) \in Layer
    BY LayerType DEF Inv, ShapeInv
  <2>2. send' = [step |-> "global", global |-> LayerOf(Global), resolved |-> NoChannels]
    BY <1>2 DEF ResolveReadGlobal
  <2>3. QED
    BY <2>1, <2>2, UnsetType DEF SendInv, SendHasChannel
<1>3. CASE ResolveReadCategory
  <2>1. LayerOf(Critical) \in Layer /\ send.global \in Layer
    BY LayerType DEF Inv, ShapeInv, SendInv
  <2>2. send' = [step |-> "resolved", global |-> Unset,
                 resolved |-> Resolve(send.global, LayerOf(Critical), TRUE)]
    BY <1>3 DEF ResolveReadCategory
  <2>3. QED
    BY <2>1, <2>2, UnsetType, ResolveCritical DEF SendInv, SendHasChannel
<1>4. QED
  BY <1>1, <1>2, <1>3
  DEF Next, Put, DeleteStart, DeleteFinish, InsertGlobal, InsertCategory, Commit,
      ReadBack, Abort, ReadBackFails, Submit

----------------------------------------------------------------------------
(* The theorems. *)

\* The initial state satisfies both invariants.
LEMMA InitInv == Init => Inv /\ SendInv
<1> SUFFICES ASSUME Init PROVE Inv /\ SendInv
  OBVIOUS
<1>1. Idle \in Transaction
  BY DEF Idle, Transaction, Face
<1>2. tx = [c \in Client |-> Idle] /\ rows = {} /\ log = <<>>
  BY DEF Init
<1>3. \A c \in Client : /\ tx[c].state = "idle" /\ tx[c].victims = {}
                        /\ tx[c].deleted = {} /\ tx[c].inserted = {}
  BY <1>2 DEF Idle
<1>4. ShapeInv
  BY <1>1, <1>2, <1>3 DEF ShapeInv, Stored
<1>5. \A c \in Client : Progress(c)
  BY <1>3 DEF Progress, Stored
<1>6. Exclusion /\ StoredIsOneDocument
  BY <1>2, <1>3 DEF Exclusion, StoredIsOneDocument
<1>7. SendInv
  BY UnsetType DEF Init, NoSend, SendInv, SendHasChannel
<1>8. QED
  BY <1>4, <1>5, <1>6, <1>7 DEF Inv

\* A step that leaves rows, transactions and log alone keeps the invariant.
LEMMA UnchangedInv ==
    ASSUME Inv, UNCHANGED <<rows, tx, log>>
    PROVE  Inv'
BY DEF Inv, ShapeInv, Progress, Exclusion, StoredIsOneDocument, RowsOf, RowFor

\* Every action keeps the invariant.
LEMMA NextInv ==
    ASSUME Inv, Next
    PROVE  Inv'
<1>1. ASSUME NEW c \in Client, Put(c) PROVE Inv'
  <2>1. CASE DeleteStart(c)
    BY <2>1, DeleteStartStep
  <2>2. CASE DeleteFinish(c)
    BY <2>2, DeleteFinishStep
  <2>3. CASE InsertGlobal(c)
    BY <2>3, InsertGlobalStep
  <2>4. ASSUME NEW category \in Category, InsertCategory(c, category) PROVE Inv'
    BY <2>4, InsertCategoryStep
  <2>5. CASE Commit(c)
    BY <2>5, CommitStep
  <2>6. CASE ReadBack(c)
    BY <2>6, ReadBackStep
  <2>7. QED
    BY <1>1, <2>1, <2>2, <2>3, <2>4, <2>5, <2>6 DEF Put
<1>2. ASSUME NEW c \in Client, Abort(c) PROVE Inv'
  BY <1>2, EndStep DEF Abort
<1>3. ASSUME NEW c \in Client, ReadBackFails(c) PROVE Inv'
  BY <1>3, ReadBackStep
<1>4. ASSUME NEW c \in Client, NEW req \in Request, Submit(c, req) PROVE Inv'
  BY <1>4, SubmitStep
<1>5. CASE ResolveReadGlobal
  BY <1>5, UnchangedInv DEF ResolveReadGlobal
<1>6. CASE ResolveReadCategory
  BY <1>6, UnchangedInv DEF ResolveReadCategory
<1>7. QED
  BY <1>1, <1>2, <1>3, <1>4, <1>5, <1>6 DEF Next

\* The inductive invariant.
THEOREM PreferencesInv == Spec => [](Inv /\ SendInv)
<1>1. Inv /\ SendInv /\ [Next]_vars => (Inv /\ SendInv)'
  <2>1. ASSUME Inv, SendInv, Next PROVE (Inv /\ SendInv)'
    BY <2>1, NextInv, SendStep
  <2>2. ASSUME Inv, SendInv, UNCHANGED vars PROVE (Inv /\ SendInv)'
    <3>1. Inv'
      BY <2>2, UnchangedInv DEF vars
    <3>2. SendInv'
      BY <2>2 DEF vars, SendInv, SendHasChannel
    <3>3. QED
      BY <3>1, <3>2
  <2>3. QED
    BY <2>1, <2>2
<1>2. QED
  BY <1>1, InitInv, PTL DEF Spec

\* The types of Preferences, and that exactly the clients of the log have
\* stored their document.
THEOREM PreferencesTypeOK == Spec => []TypeOK
<1>1. Inv /\ SendInv => TypeOK
  <2> SUFFICES ASSUME Inv, SendInv PROVE TypeOK
    OBVIOUS
  <2>1. rows \subseteq PreferenceRow /\ log \in Seq(Client)
    BY DEF Inv, ShapeInv
  <2>2. \A c \in Client : tx[c].state \in Stored <=> \E i \in DOMAIN log : log[i] = c
    BY DEF Inv, ShapeInv
  <2>3. ASSUME NEW c \in Client
        PROVE  /\ tx[c].state \in {"idle"} \cup Running \cup Stored \cup Finished
               /\ tx[c].state # "idle" =>
                     tx[c].face \in Face /\ IsDocument(tx[c].document)
               /\ tx[c].victims \cup tx[c].deleted \cup tx[c].inserted
                     \subseteq PreferenceRow
               /\ tx[c].left \subseteq Category
    <3>1. tx[c] \in Transaction
      BY DEF Inv, ShapeInv
    <3>2. tx[c].state # "idle" => tx[c].document \in Documents
      BY DEF Inv, ShapeInv
    <3>3. \A doc \in Documents : IsDocument(doc)
      BY DEF Documents, IsDocument
    <3>4. QED
      BY <3>1, <3>2, <3>3 DEF Transaction
  <2>4. QED
    BY <2>1, <2>2, <2>3 DEF TypeOK, SendInv
<1>2. QED
  BY <1>1, PreferencesInv, PTL

\* What is stored is at all times the document of the client that committed
\* last, all of it and nothing else.
THEOREM DocumentIsStored == Spec => []StoredIsOneDocument
<1>1. Inv /\ SendInv => StoredIsOneDocument
  BY DEF Inv
<1>2. QED
  BY <1>1, PreferencesInv, PTL

\* A send of the critical category always has a channel, between whatever
\* replacements it reads the two layers.
THEOREM SendNeverEmpty == Spec => []SendHasChannel
<1>1. Inv /\ SendInv => SendHasChannel
  BY DEF SendInv
<1>2. QED
  BY <1>1, PreferencesInv, PTL

----------------------------------------------------------------------------
(* What a step does to the clients, for the properties of their ends. *)

\* A client that is past its request keeps its document, one that has stored
\* it stays so, an answer is never revised, and the log only grows.
Onwards(d) ==
    /\ tx[d].state # "idle" =>
          /\ tx'[d].state # "idle"
          /\ tx'[d].document = tx[d].document /\ tx'[d].face = tx[d].face
    /\ tx[d].state \in Stored => tx'[d].state \in Stored
    /\ tx[d].state = "failed" => tx'[d].state = "failed"
    /\ tx[d].state = "answered" => tx'[d].answer = tx[d].answer

\* How a client comes to fail, and how it comes to be answered.
Fails(d) ==
    tx'[d].state = "failed" /\ tx[d].state # "failed" =>
       InsertGlobal(d) \/ \E category \in Category : InsertCategory(d, category)

IsAnswered(d) ==
    tx'[d].state = "answered" /\ tx[d].state # "answered" => ReadBack(d)

Step == /\ \A d \in Client : Onwards(d) /\ Fails(d) /\ IsAnswered(d)
        /\ DOMAIN log \subseteq DOMAIN log'
        /\ \A i \in DOMAIN log : log'[i] = log[i]

\* Submitting a request moves its client onwards and leaves the log alone.
LEMMA SubmitIsStep ==
    ASSUME Inv, NEW c \in Client, NEW req \in Request, Submit(c, req)
    PROVE  Step
<1>1. tx \in [Client -> Transaction]
  BY DEF Inv, ShapeInv
<1>2. PICK next \in {"open", "rejected"} :
         /\ tx[c].state = "idle" /\ log' = log
         /\ tx' = [tx EXCEPT ![c] = [tx[c] EXCEPT !.face = req.face,
                                       !.document = DocumentOf(req), !.state = next]]
  BY <1>1 DEF Submit
<1>3. (\A d \in Client \ {c} : tx'[d] = tx[d]) /\ tx'[c].state = next
  BY <1>1, <1>2 DEF Transaction
<1>4. \A d \in Client : Onwards(d) /\ Fails(d) /\ IsAnswered(d)
  BY <1>2, <1>3 DEF Onwards, Fails, IsAnswered, Stored
<1>5. QED
  BY <1>2, <1>4 DEF Step

Runs(c, state) ==
    /\ \A d \in Client \ {c} : tx'[d] = tx[d]
    /\ tx'[c].document = tx[c].document /\ tx'[c].face = tx[c].face
    /\ tx'[c].state = state

\* Ending a transaction concerns its own client only.
LEMMA EndRuns ==
    ASSUME Inv, NEW c \in Client, NEW state, tx' = [tx EXCEPT ![c] = Ended(c, state)]
    PROVE  Runs(c, state)
BY DEF Inv, ShapeInv, Runs, Ended, Transaction

\* An insert concerns its own client only, which goes on or fails.
LEMMA InsertRuns ==
    ASSUME Inv, NEW c \in Client, NEW category, NEW channels, NEW next,
           Insert(c, category, channels, next)
    PROVE  Runs(c, "failed") \/ Runs(c, "categories")
<1>1. CASE tx' = [tx EXCEPT ![c] = Ended(c, "failed")]
  BY <1>1, EndRuns
<1>2. CASE Write(c, category, channels, next)
  BY <1>2 DEF Write, Inv, ShapeInv, Runs, Transaction
<1>3. QED
  BY <1>1, <1>2 DEF Insert

\* The other steps of a client, by the fields they change.
LEMMA RunIsStep ==
    ASSUME Inv, NEW c \in Client,
           \/ DeleteStart(c) \/ DeleteFinish(c) \/ InsertGlobal(c)
           \/ (\E category \in Category : InsertCategory(c, category))
           \/ Commit(c) \/ Abort(c)
    PROVE  Step
<1>1. log \in Seq(Client)
  BY DEF Inv, ShapeInv
<1>2. \E state \in (Running \cup {"committed", "aborted", "failed"}) :
         /\ Runs(c, state)
         /\ state = "failed" =>
               InsertGlobal(c) \/ \E category \in Category : InsertCategory(c, category)
  <2>1. CASE DeleteStart(c)
    <3>1. Runs(c, "deleting")
      BY <2>1 DEF DeleteStart, Inv, ShapeInv, Runs, Transaction
    <3>2. QED
      BY <3>1 DEF Running
  <2>2. CASE DeleteFinish(c)
    <3>1. Runs(c, "global")
      BY <2>2 DEF DeleteFinish, Inv, ShapeInv, Runs, Transaction
    <3>2. QED
      BY <3>1 DEF Running
  <2>3. CASE InsertGlobal(c)
    BY <2>3, InsertRuns DEF InsertGlobal, Running
  <2>4. CASE \E category \in Category : InsertCategory(c, category)
    BY <2>4, InsertRuns DEF InsertCategory, Running
  <2>5. CASE Commit(c)
    <3>1. Runs(c, "committed")
      BY <2>5, EndRuns DEF Commit
    <3>2. QED
      BY <3>1
  <2>6. CASE Abort(c)
    <3>1. Runs(c, "aborted")
      BY <2>6, EndRuns DEF Abort
    <3>2. QED
      BY <3>1
  <2>7. QED
    BY <2>1, <2>2, <2>3, <2>4, <2>5, <2>6
<1>3. tx[c].state \in Running
  BY DEF DeleteStart, DeleteFinish, InsertGlobal, InsertCategory, Commit, Abort, Running
<1>4. log' = log \/ log' = Append(log, c)
  BY DEF DeleteStart, DeleteFinish, InsertGlobal, InsertCategory, Commit, Abort
<1>5. DOMAIN log \subseteq DOMAIN log' /\ \A i \in DOMAIN log : log'[i] = log[i]
  BY <1>1, <1>4
<1>6. \A d \in Client : Onwards(d) /\ Fails(d) /\ IsAnswered(d)
  BY <1>2, <1>3 DEF Runs, Onwards, Fails, IsAnswered, Running, Stored
<1>7. QED
  BY <1>5, <1>6 DEF Step

\* Reading back, or failing to, moves its client onwards and leaves the log alone.
LEMMA ReadIsStep ==
    ASSUME Inv, NEW c \in Client, ReadBack(c) \/ ReadBackFails(c)
    PROVE  Step
<1>1. tx \in [Client -> Transaction]
  BY DEF Inv, ShapeInv
<1>2. /\ \A d \in Client \ {c} : tx'[d] = tx[d]
      /\ tx'[c].document = tx[c].document /\ tx'[c].face = tx[c].face
      /\ tx[c].state = "committed"
      /\ tx'[c].state \in {"answered", "unanswered"}
      /\ tx'[c].state = "answered" => ReadBack(c)
      /\ log' = log
  BY <1>1 DEF ReadBack, ReadBackFails, Transaction
<1>3. \A d \in Client : Onwards(d) /\ Fails(d) /\ IsAnswered(d)
  BY <1>2 DEF Onwards, Fails, IsAnswered, Stored
<1>4. QED
  BY <1>2, <1>3 DEF Step

\* Every action moves the clients onwards and only extends the log.
LEMMA NextIsStep ==
    ASSUME Inv, [Next]_vars
    PROVE  Step
<1>1. CASE UNCHANGED <<tx, log>>
  BY <1>1 DEF Step, Onwards, Fails, IsAnswered
<1>2. CASE \E c \in Client : Put(c) \/ Abort(c) \/ ReadBackFails(c)
  BY <1>2, RunIsStep, ReadIsStep DEF Put
<1>3. CASE \E c \in Client, req \in Request : Submit(c, req)
  BY <1>3, SubmitIsStep
<1>4. QED
  BY <1>1, <1>2, <1>3 DEF Next, vars, ResolveReadGlobal, ResolveReadCategory

\* The rows that stand in the way of an INSERT are those of another client.
LEMMA LoserSeesWinner ==
    ASSUME Inv, NEW c \in Client, Storable(tx[c].document),
           tx'[c].state = "failed",
           InsertGlobal(c) \/ \E category \in Category : InsertCategory(c, category)
    PROVE  \E d \in Client \ {c} : tx[d].state \in Stored
<1>1. CASE InsertGlobal(c)
  <2>1. tx[c].inserted = {} /\ tx[c].state = "global"
    BY <1>1 DEF InsertGlobal, Inv, Progress
  <2>2. Taken(c, Global)
    BY <1>1 DEF InsertGlobal, Insert, Storable, Write, Inv, ShapeInv, Transaction
  <2>3. rows # {}
    BY <2>1, <2>2 DEF Taken
  <2>4. PICK d \in Client : tx[d].state \in Stored
    BY <2>3, LastIsStored DEF Inv
  <2>5. QED
    BY <2>1, <2>4 DEF Stored
<1>2. ASSUME NEW category \in Category, InsertCategory(c, category) PROVE FALSE
  <2>1. /\ tx[c].state = "categories" /\ category \in tx[c].left
        /\ Insert(c, category, tx[c].document.categories[category],
                  tx[c].left \ {category})
    BY <1>2 DEF InsertCategory
  <2>2. /\ tx[c].deleted = rows /\ tx[c].left \subseteq DOMAIN tx[c].document.categories
        /\ tx[c].inserted =
             {RowFor(c, k) : k \in {Global} \cup
                (DOMAIN tx[c].document.categories \ tx[c].left)}
    BY <2>1 DEF Inv, Progress
  <2>3. category # Global /\ tx[c].document.categories[category] # Null
    BY <2>1, <2>2 DEF Storable
  <2>4. Taken(c, category)
    BY <2>1, <2>3 DEF Insert, Write, Inv, ShapeInv, Transaction
  <2>5. PICK row \in tx[c].inserted : row.category = category
    BY <2>2, <2>4 DEF Taken
  <2>6. \A k : RowFor(c, k).category = k
    BY DEF RowFor
  <2>7. QED
    BY <2>1, <2>2, <2>3, <2>5, <2>6
<1>3. QED
  BY <1>1, <1>2

\* A well-formed replacement that fails has lost to one that is stored.
THEOREM LoserLostToWinner == Spec => []LoserHasWinner
<1>1. Inv /\ LoserHasWinner /\ [Next]_vars => LoserHasWinner'
  <2> SUFFICES ASSUME Inv, LoserHasWinner, [Next]_vars, NEW c \in Client,
                      tx'[c].state = "failed", Storable(tx'[c].document)
               PROVE  \E d \in Client \ {c} : tx'[d].state \in Stored
    BY DEF LoserHasWinner, Storable
  <2>1. Step
    BY NextIsStep
  <2>2. \A d \in Client : tx[d].state \in Stored => tx'[d].state \in Stored
    BY <2>1 DEF Step, Onwards
  <2>3. CASE tx[c].state = "failed"
    <3>1. tx'[c].document = tx[c].document
      BY <2>1, <2>3 DEF Step, Onwards
    <3>2. \E d \in Client \ {c} : tx[d].state \in Stored
      BY <2>3, <3>1 DEF LoserHasWinner, Storable
    <3>3. QED
      BY <2>2, <3>2
  <2>4. CASE tx[c].state # "failed"
    <3>1. InsertGlobal(c) \/ \E category \in Category : InsertCategory(c, category)
      BY <2>1, <2>4 DEF Step, Fails
    <3>2. tx'[c].document = tx[c].document
      <4>1. tx[c].state # "idle"
        BY <3>1 DEF InsertGlobal, InsertCategory
      <4>2. QED
        BY <2>1, <4>1 DEF Step, Onwards
    <3>3. \E d \in Client \ {c} : tx[d].state \in Stored
      BY <3>1, <3>2, LoserSeesWinner
    <3>4. QED
      BY <2>2, <3>3
  <2>5. QED
    BY <2>3, <2>4
<1>2. Init => LoserHasWinner
  BY DEF Init, Idle, LoserHasWinner
<1>3. QED
  BY <1>1, <1>2, PreferencesInv, PTL DEF Spec

----------------------------------------------------------------------------
(* Answers. *)

\* What is shown of a stored document is understood as that document.
LEMMA ShownIsDocument ==
    ASSUME Inv, NEW e \in Client, tx[e].state \in Stored, rows = RowsOf(e),
           NEW face \in Face
    PROVE  Understood(face, Shown(face)) = tx[e].document
<1> DEFINE doc == tx[e].document
           keys == {row.category : row \in rows} \ {Global}
<1>1. Storable(doc) /\ tx[e].state # "idle"
  BY DEF Inv, Progress, Stored
<1>2. doc \in Documents
  BY <1>1 DEF Inv, ShapeInv
<1>3. PICK S \in SUBSET Category : doc.categories \in [S -> List]
  BY <1>2 DEF Documents
<1>4. /\ doc.global \in ChannelList /\ Global \notin S
      /\ \A k \in S : doc.categories[k] \in ChannelList
  BY <1>1, <1>2, <1>3 DEF Storable, Documents, List
<1>5. rows = {RowFor(e, k) : k \in {Global} \cup S}
  BY <1>1, <1>3, RowsOfDocument DEF Inv
<1>6. \A k : RowFor(e, k).category = k
  BY DEF RowFor
<1>7. keys = S
  BY <1>4, <1>5, <1>6
<1>8. ASSUME NEW k \in {Global} \cup S
      PROVE  LayerOf(k) = [set |-> TRUE, channels |-> RowFor(e, k).channels]
  <2>1. RowFor(e, k) \in rows /\ RowFor(e, k).category = k
    BY <1>5, <1>6
  <2>2. \A row \in rows : row.category = k => row = RowFor(e, k)
    BY <1>5, <1>6
  <2>3. (CHOOSE row \in rows : row.category = k) = RowFor(e, k)
    BY <2>1, <2>2
  <2>4. QED
    BY <2>1, <2>3 DEF LayerOf
<1>9. Ceiling(LayerOf(Global)) = doc.global
  <2>1. RowFor(e, Global).channels = doc.global
    BY DEF RowFor
  <2>2. QED
    BY <1>8, <2>1 DEF Ceiling
<1>10. \A k \in S : LayerOf(k).channels = doc.categories[k]
  <2>1. \A k \in S : RowFor(e, k).channels = doc.categories[k]
    BY <1>4 DEF RowFor
  <2>2. QED
    BY <1>8, <2>1
<1>11. Shown(face) = [global |-> Answered(face, doc.global),
                      categories |-> [k \in S |-> Answered(face, doc.categories[k])]]
  BY <1>7, <1>9, <1>10 DEF Shown
<1>12. Received(face, Answered(face, doc.global)) = doc.global
  BY <1>4, AnswerIsUnderstood
<1>13. \A k \in S : Received(face, Answered(face, doc.categories[k])) = doc.categories[k]
  BY <1>4, AnswerIsUnderstood
<1>14. Understood(face, Shown(face))
         = [global |-> doc.global, categories |-> [k \in S |-> doc.categories[k]]]
  BY <1>11, <1>12, <1>13 DEF Understood
<1>15. doc = [global |-> doc.global, categories |-> [k \in S |-> doc.categories[k]]]
  BY <1>2, <1>3 DEF Documents
<1>16. QED
  BY <1>14, <1>15

\* An answer is the document of the client or of one that committed later.
THEOREM AnswersAreDocuments == Spec => []AnswerIsOwnOrLater
<1>1. Inv /\ AnswerIsOwnOrLater /\ [Next]_vars => AnswerIsOwnOrLater'
  <2> SUFFICES ASSUME Inv, AnswerIsOwnOrLater, [Next]_vars, NEW c \in Client,
                      tx'[c].state = "answered"
               PROVE  \E i, j \in DOMAIN log' :
                         /\ log'[i] = c /\ i <= j
                         /\ Understood(tx'[c].face, tx'[c].answer) = tx'[log'[j]].document
    <3>1. ASSUME NEW face, NEW answer
          PROVE  Understood(face, answer)' = Understood(face, answer)
      OBVIOUS
    <3>2. QED
      BY DEF AnswerIsOwnOrLater
  <2>1. Step
    BY NextIsStep
  <2>2. CASE tx[c].state = "answered"
    <3>1. PICK i, j \in DOMAIN log :
             /\ log[i] = c /\ i <= j
             /\ Understood(tx[c].face, tx[c].answer) = tx[log[j]].document
      BY <2>2 DEF AnswerIsOwnOrLater
    <3>2. tx'[c].answer = tx[c].answer /\ tx'[c].face = tx[c].face
      BY <2>1, <2>2 DEF Step, Onwards
    <3>3. log[j] \in Client /\ tx[log[j]].state \in Stored
      BY DEF Inv, ShapeInv
    <3>4. tx'[log[j]].document = tx[log[j]].document
      BY <2>1, <3>3 DEF Step, Onwards, Stored
    <3>5. i \in DOMAIN log' /\ j \in DOMAIN log' /\ log'[i] = log[i] /\ log'[j] = log[j]
      BY <2>1 DEF Step
    <3>6. QED
      BY <3>1, <3>2, <3>4, <3>5
  <2>3. CASE tx[c].state # "answered"
    <3>1. ReadBack(c)
      BY <2>1, <2>3 DEF Step, IsAnswered
    <3>2. /\ tx[c].state = "committed" /\ log' = log
          /\ tx'[c].answer = Shown(tx[c].face) /\ tx'[c].face = tx[c].face
          /\ tx[c].face \in Face
      BY <3>1 DEF ReadBack, Inv, ShapeInv, Transaction
    <3>3. PICK i \in DOMAIN log : log[i] = c
      BY <3>2 DEF Inv, ShapeInv, Stored
    <3>4. /\ log \in Seq(Client) /\ Len(log) \in DOMAIN log /\ i <= Len(log)
          /\ log # <<>> /\ log[Len(log)] \in Client
      BY <3>3 DEF Inv, ShapeInv
    <3>5. tx[log[Len(log)]].state \in Stored /\ rows = RowsOf(log[Len(log)])
      BY <3>4 DEF Inv, ShapeInv, StoredIsOneDocument
    <3>6. Understood(tx[c].face, Shown(tx[c].face)) = tx[log[Len(log)]].document
      BY <3>2, <3>4, <3>5, ShownIsDocument
    <3>7. tx'[log[Len(log)]].document = tx[log[Len(log)]].document
      BY <2>1, <3>4, <3>5 DEF Step, Onwards, Stored
    <3>8. QED
      BY <3>2, <3>3, <3>4, <3>6, <3>7
  <2>4. QED
    BY <2>2, <2>3
<1>2. Init => AnswerIsOwnOrLater
  BY DEF Init, Idle, AnswerIsOwnOrLater
<1>3. QED
  BY <1>1, <1>2, PreferencesInv, PTL DEF Spec

----------------------------------------------------------------------------
(* What the readers of the two layers see of a replacement. *)

\* Every document on its way is that of a request that was let through.
Accepted ==
    \A c \in Client :
       tx[c].state \in Running \cup Stored =>
          \E req \in Request : Accepts(req) /\ tx[c].document = DocumentOf(req)

\* No transaction runs at first, so none writes a document that was refused.
LEMMA AcceptedInit == Init => Accepted
BY DEF Init, Idle, Accepted, Running, Stored

\* Every document a transaction writes is that of an accepted request.
LEMMA AcceptedStep ==
    ASSUME Inv, Accepted, Next
    PROVE  Accepted'
<1> SUFFICES ASSUME NEW d \in Client, tx'[d].state \in Running \cup Stored
             PROVE  \E req \in Request : Accepts(req) /\ tx'[d].document = DocumentOf(req)
  BY DEF Accepted
<1>1. Step
  BY NextIsStep
<1>2. CASE tx[d].state \in Running \cup Stored
  <2>1. tx'[d].document = tx[d].document
    BY <1>1, <1>2 DEF Step, Onwards, Running, Stored
  <2>2. QED
    BY <1>2, <2>1 DEF Accepted
<1>3. CASE tx[d].state \notin Running \cup Stored
  <2>1. tx'[d] # tx[d]
    BY <1>3
  <2>2. ASSUME NEW c \in Client, tx[c].state \in Running \cup Stored,
               \A e \in Client \ {c} : tx'[e] = tx[e]
        PROVE  FALSE
    BY <1>3, <2>1, <2>2
  <2>3. tx \in [Client -> Transaction]
    BY DEF Inv, ShapeInv
  <2>4. PICK req \in Request : Submit(d, req)
    <3>1. \A c \in Client : Put(c) \/ Abort(c) \/ ReadBackFails(c) =>
             /\ tx[c].state \in Running \cup Stored
             /\ \A e \in Client \ {c} : tx'[e] = tx[e]
      <4>1. ASSUME NEW c \in Client, NEW category, NEW channels, NEW next,
                   Insert(c, category, channels, next)
            PROVE  \A e \in Client \ {c} : tx'[e] = tx[e]
        BY <4>1, InsertRuns DEF Runs
      <4>2. QED
        BY <2>3, <4>1
        DEF Put, DeleteStart, DeleteFinish, InsertGlobal, InsertCategory, Commit,
            ReadBack, Abort, ReadBackFails, Running, Stored
    <3>2. \A c \in Client, req \in Request :
             Submit(c, req) => \A e \in Client \ {c} : tx'[e] = tx[e]
      BY <2>3 DEF Submit
    <3>3. ~ UNCHANGED tx
      BY <2>1
    <3>4. QED
      BY <2>1, <2>2, <3>1, <3>2, <3>3 DEF Next, ResolveReadGlobal, ResolveReadCategory
  <2>5. tx'[d].document = DocumentOf(req)
    BY <2>3, <2>4 DEF Submit, Transaction
  <2>6. tx'[d].state = IF Accepts(req) THEN "open" ELSE "rejected"
    BY <2>3, <2>4 DEF Submit, Transaction
  <2>7. Accepts(req)
    BY <2>6 DEF Running, Stored
  <2>8. QED
    BY <2>5, <2>7
<1>4. QED
  BY <1>2, <1>3

\* LayerOf over a set of rows.
LayerIn(set, category) ==
    IF \E row \in set : row.category = category
    THEN [set |-> TRUE,
          channels |-> (CHOOSE row \in set : row.category = category).channels]
    ELSE Unset

\* Both layers of a document in its rows.
LEMMA LayersOfDocument ==
    ASSUME ShapeInv, NEW e \in Client, tx[e].state # "idle", Storable(tx[e].document)
    PROVE  LET doc == tx[e].document
           IN  /\ LayerIn(RowsOf(e), Global) = [set |-> TRUE, channels |-> doc.global]
               /\ LayerIn(RowsOf(e), Critical) =
                    IF Critical \in DOMAIN doc.categories
                    THEN [set |-> TRUE, channels |-> doc.categories[Critical]]
                    ELSE Unset
<1> DEFINE doc == tx[e].document
           S == DOMAIN doc.categories
<1>1. RowsOf(e) = {RowFor(e, k) : k \in {Global} \cup S}
  BY RowsOfDocument
<1>2. \A k : RowFor(e, k).category = k
  BY DEF RowFor
<1>3. ASSUME NEW k \in {Global} \cup S
      PROVE  LayerIn(RowsOf(e), k) = [set |-> TRUE, channels |-> RowFor(e, k).channels]
  <2>1. RowFor(e, k) \in RowsOf(e)
    BY <1>1
  <2>2. \A row \in RowsOf(e) : row.category = k => row = RowFor(e, k)
    BY <1>1, <1>2
  <2>3. (CHOOSE row \in RowsOf(e) : row.category = k) = RowFor(e, k)
    BY <1>2, <2>1, <2>2
  <2>4. QED
    BY <1>2, <2>1, <2>3 DEF LayerIn
<1>4. RowFor(e, Global).channels = doc.global
  BY DEF RowFor
<1>5. Critical # Global
  BY DEF Critical, Global
<1>6. RowFor(e, Critical).channels = doc.categories[Critical]
  BY <1>5 DEF RowFor
<1>7. ASSUME Critical \notin S PROVE LayerIn(RowsOf(e), Critical) = Unset
  <2>1. \A row \in RowsOf(e) : row.category # Critical
    BY <1>1, <1>2, <1>5, <1>7
  <2>2. QED
    BY <2>1 DEF LayerIn
<1>8. QED
  BY <1>3, <1>4, <1>6, <1>7

\* What is stored changes only by a commit.
LEMMA RowsStep ==
    ASSUME Next
    PROVE  rows' = rows \/ \E c \in Client : Commit(c)
BY DEF Next, Put, DeleteStart, DeleteFinish, InsertGlobal, InsertCategory, ReadBack,
       Abort, ReadBackFails, Submit, ResolveReadGlobal, ResolveReadCategory

\* A step leaves the stored layers alone, or replaces both by those of one
\* request that was let through.
LEMMA ReplacedAsOne ==
    ASSUME Inv, Accepted, Next
    PROVE  \/ rows' = rows
           \/ \E req \in Request :
                 /\ Accepts(req) /\ Storable(DocumentOf(req))
                 /\ LayerOf(Global)' = [set |-> TRUE, channels |-> DocumentOf(req).global]
                 /\ LayerOf(Critical)' =
                      IF Critical \in DOMAIN DocumentOf(req).categories
                      THEN [set |-> TRUE,
                            channels |-> DocumentOf(req).categories[Critical]]
                      ELSE Unset
<1> SUFFICES ASSUME NEW c \in Client, Commit(c)
             PROVE  \E req \in Request :
                 /\ Accepts(req) /\ Storable(DocumentOf(req))
                 /\ LayerOf(Global)' = [set |-> TRUE, channels |-> DocumentOf(req).global]
                 /\ LayerOf(Critical)' =
                      IF Critical \in DOMAIN DocumentOf(req).categories
                      THEN [set |-> TRUE,
                            channels |-> DocumentOf(req).categories[Critical]]
                      ELSE Unset
  BY RowsStep
<1>1. tx[c].state = "categories"
  BY DEF Commit
<1>2. Storable(tx[c].document) /\ rows' = RowsOf(c)
  BY CommitStores
<1>3. PICK req \in Request : Accepts(req) /\ tx[c].document = DocumentOf(req)
  BY <1>1 DEF Accepted, Running
<1>4. \A k : LayerOf(k)' = LayerIn(rows', k)
  BY DEF LayerOf, LayerIn
<1>5. LET doc == tx[c].document
      IN  /\ LayerIn(RowsOf(c), Global) = [set |-> TRUE, channels |-> doc.global]
          /\ LayerIn(RowsOf(c), Critical) =
               IF Critical \in DOMAIN doc.categories
               THEN [set |-> TRUE, channels |-> doc.categories[Critical]]
               ELSE Unset
  BY <1>1, <1>2, LayersOfDocument DEF Inv
<1>6. QED
  BY <1>2, <1>3, <1>4, <1>5

\* The global layer that is read is that of a document somebody committed.
LEMMA GlobalWasCommitted ==
    ASSUME Inv, LayerOf(Global).set
    PROVE  \E i \in DOMAIN log : LayerOf(Global).channels = tx[log[i]].document.global
<1> DEFINE e == log[Len(log)]
<1>1. rows # {}
  BY DEF LayerOf, Unset
<1>2. /\ log # <<>> /\ e \in Client /\ tx[e].state \in Stored /\ rows = RowsOf(e)
  BY <1>1, LastIsStored DEF Inv
<1>3. Storable(tx[e].document) /\ tx[e].state # "idle"
  BY <1>2 DEF Inv, Progress, Stored
<1>4. LayerIn(RowsOf(e), Global) = [set |-> TRUE, channels |-> tx[e].document.global]
  BY <1>2, <1>3, LayersOfDocument DEF Inv
<1>5. LayerOf(Global) = LayerIn(rows, Global)
  BY DEF LayerOf, LayerIn
<1>6. Len(log) \in DOMAIN log
  BY <1>2 DEF Inv, ShapeInv
<1>7. QED
  BY <1>2, <1>4, <1>5, <1>6

\* What was committed stays in the log, and so does what it said.
LEMMA CommittedStays ==
    ASSUME Inv, [Next]_vars, NEW i \in DOMAIN log
    PROVE  /\ i \in DOMAIN log' /\ log'[i] = log[i]
           /\ tx'[log[i]].document = tx[log[i]].document
<1>1. Step
  BY NextIsStep
<1>2. log[i] \in Client /\ tx[log[i]].state \in Stored
  BY DEF Inv, ShapeInv
<1>3. QED
  BY <1>1, <1>2 DEF Step, Onwards, Stored

----------------------------------------------------------------------------
(* Waiting. *)

\* The statement a client has come to waits for another transaction to end:
\* the DELETE for one that deletes a row it has seen, an INSERT for one that
\* writes or deletes its key.
WaitsFor(c, d) ==
    /\ c # d
    /\ \/ /\ tx[c].state = "deleting"
          /\ tx[d].deleted \cap tx[c].victims # {}
       \/ /\ tx[c].state \in {"global", "categories"}
          /\ tx[d].inserted \cup tx[d].deleted # {}

\* Replacements do not deadlock, in whatever order the rows of a document are
\* inserted (the loop over a Go map in SetPreferences): a transaction that
\* another one waits for waits for nobody, so there is no circle of any length.
WaitedForDoesNotWait ==
    \A c, d, e \in Client : WaitsFor(c, d) => ~WaitsFor(d, e)

\* Nothing else holds a statement up: a client whose DELETE or INSERT may not
\* be executed waits for another client in this sense.
LEMMA WaitsAreForClients ==
    ASSUME NEW c \in Client
    PROVE  /\ /\ tx[c].state = "deleting"
              /\ \E d \in Client \ {c} : tx[d].deleted \cap tx[c].victims # {}
              => \E d \in Client : WaitsFor(c, d)
           /\ /\ tx[c].state \in {"global", "categories"}
              /\ \E category \in Category : Blocked(c, category)
              => \E d \in Client : WaitsFor(c, d)
BY DEF WaitsFor, Blocked

\* No two clients, and no circle of clients, wait for each other, however many
\* replace the document at once: a consequence of Exclusion.
THEOREM ReplacementsDoNotDeadlock == Spec => []WaitedForDoesNotWait
<1> DEFINE Holds(d) == tx[d].deleted # {} \/ tx[d].state = "categories"
<1>1. ASSUME Inv, NEW c \in Client, NEW d \in Client, WaitsFor(c, d)
      PROVE  c # d /\ Holds(d)
  BY <1>1 DEF WaitsFor, Inv, Progress
<1>2. Inv => WaitedForDoesNotWait
  BY <1>1 DEF Inv, Exclusion, WaitedForDoesNotWait
<1>3. QED
  BY <1>2, PreferencesInv, PTL
=============================================================================
