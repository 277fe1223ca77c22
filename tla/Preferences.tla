---------------------------- MODULE Preferences ----------------------------
(***************************************************************************)
(* The channel preferences of one user as PostgreSQL runs the statements   *)
(* of backend/internal/repo/preferences.go: clients that replace the whole *)
(* document (DELETE, then one INSERT per layer, in one READ COMMITTED      *)
(* transaction) and are answered with what a second transaction reads      *)
(* back, and the task handler that reads the two layers with a SELECT      *)
(* each.                                                                   *)
(*                                                                         *)
(* A DELETE sees the rows committed when it starts, waits for whoever      *)
(* holds one of them, and passes over those that are gone by then.  An     *)
(* INSERT waits for the transaction that writes or deletes its key, and    *)
(* fails if the key is taken after that.                                   *)
(***************************************************************************)
EXTENDS PreferenceFaces, Sequences

CONSTANTS Client,  \* requests of the user to replace the document, one each
          Request  \* what they may ask for

VARIABLES rows, \* committed rows of notification_preferences
          tx,   \* the transaction of each client, and its answer
          send, \* the resolution of channels in the task handler
          log   \* history: the clients in the order of their commits

vars == <<rows, tx, send, log>>

Global == ""
Critical == "workflow_task"
Category == {Global, Critical, "other"}

List == ChannelList \cup {Null}

IsDocument(doc) ==
    /\ doc.global \in List
    /\ DOMAIN doc.categories \subseteq Category
    /\ \A c \in DOMAIN doc.categories : doc.categories[c] \in List

IsRequest(req) ==
    /\ req.face \in Face
    /\ req.global \in WireList(req.face) \cup {Null}
    /\ DOMAIN req.categories \subseteq Category
    /\ \A c \in DOMAIN req.categories :
          req.categories[c] \in WireList(req.face) \cup {Null}

ASSUME RequestAssumption == \A req \in Request : IsRequest(req)

DocumentOf(req) ==
    [global |-> ReceivedGlobal(req.face, req.global),
     categories |-> [c \in DOMAIN req.categories |->
                       Received(req.face, req.categories[c])]]

PreferenceRow == [category : Category, channels : ChannelList, by : Client]

Running == {"open", "deleting", "global", "categories"}

\* The document is stored; the answer is still to be read, was read, or could
\* not be.
Stored == {"committed", "answered", "unanswered"}

Finished == {"answered", "unanswered", "failed", "rejected", "aborted"}

TypeOK ==
    /\ rows \subseteq PreferenceRow
    /\ \A c \in Client :
          /\ tx[c].state \in {"idle"} \cup Running \cup Stored \cup Finished
          /\ tx[c].state # "idle" =>
                tx[c].face \in Face /\ IsDocument(tx[c].document)
          /\ tx[c].victims \cup tx[c].deleted \cup tx[c].inserted
                \subseteq PreferenceRow
          /\ tx[c].left \subseteq Category
    /\ send.step \in {"idle", "global", "resolved"}
    /\ send.global \in Layer
    /\ send.resolved \in ChannelList
    /\ log \in Seq(Client)
    /\ \A c \in Client : tx[c].state \in Stored <=> \E i \in DOMAIN log : log[i] = c

----------------------------------------------------------------------------
(* SetPreferences. *)

Idle == [state |-> "idle", face |-> "http", document |-> Null, victims |-> {},
         deleted |-> {}, inserted |-> {}, left |-> {}, answer |-> Null]

\* The end of a transaction, whatever it leaves behind.
Ended(c, state) ==
    [tx[c] EXCEPT !.state = state, !.victims = {}, !.deleted = {},
                  !.inserted = {}, !.left = {}]

RejectsCritical(doc) ==
    Critical \in DOMAIN doc.categories
    /\ doc.categories[Critical] \in {Null, NoChannels}

Accepts(req) ==
    /\ Valid(req.face, req.global)
    /\ \A c \in DOMAIN req.categories : Valid(req.face, req.categories[c])
    /\ ~RejectsCritical(DocumentOf(req))

Submit(c, req) ==
    /\ tx[c].state = "idle"
    /\ tx' = [tx EXCEPT ![c].face = req.face,
                        ![c].document = DocumentOf(req),
                        ![c].state = IF Accepts(req) THEN "open" ELSE "rejected"]
    /\ UNCHANGED <<rows, send, log>>

DeleteStart(c) ==
    /\ tx[c].state = "open"
    /\ tx' = [tx EXCEPT ![c].state = "deleting", ![c].victims = rows]
    /\ UNCHANGED <<rows, send, log>>

DeleteFinish(c) ==
    /\ tx[c].state = "deleting"
    /\ \A d \in Client \ {c} : tx[d].deleted \cap tx[c].victims = {}
    /\ tx' = [tx EXCEPT ![c].state = "global",
                        ![c].victims = {},
                        ![c].deleted = tx[c].victims \cap rows,
                        ![c].left = DOMAIN tx[c].document.categories]
    /\ UNCHANGED <<rows, send, log>>

\* Seeded fault: the INSERT goes out on another connection than the DELETE.
BlockedByItself(c, category) ==
    \E d \in Client :
       \E row \in tx[d].inserted \cup tx[d].deleted : row.category = category

\* Another transaction in flight writes or deletes the key.
Blocked(c, category) ==
    \E d \in Client \ {c} :
       \E row \in tx[d].inserted \cup tx[d].deleted : row.category = category

\* Seeded fault: the table has no unique index.
TakenNever(c, category) == FALSE

Taken(c, category) ==
    \E row \in (rows \ tx[c].deleted) \cup tx[c].inserted : row.category = category

Write(c, category, channels, next) ==
    tx' = [tx EXCEPT ![c].state = "categories",
                     ![c].inserted = @ \cup {[category |-> category,
                                              channels |-> channels, by |-> c]},
                     ![c].left = next]

\* Seeded faults: the column takes NULL; the INSERT does not wait.
InsertNullable(c, category, channels, next) ==
    /\ ~Blocked(c, category)
    /\ IF Taken(c, category) THEN tx' = [tx EXCEPT ![c] = Ended(c, "failed")]
                             ELSE Write(c, category, channels, next)

InsertNoWait(c, category, channels, next) ==
    IF channels = Null \/ Blocked(c, category) \/ Taken(c, category)
    THEN tx' = [tx EXCEPT ![c] = Ended(c, "failed")]
    ELSE Write(c, category, channels, next)

\* The INSERT of one layer and what comes after it.
Insert(c, category, channels, next) ==
    \/ /\ channels = Null
       /\ tx' = [tx EXCEPT ![c] = Ended(c, "failed")]
    \/ /\ channels # Null /\ ~Blocked(c, category) /\ Taken(c, category)
       /\ tx' = [tx EXCEPT ![c] = Ended(c, "failed")]
    \/ /\ channels # Null /\ ~Blocked(c, category) /\ ~Taken(c, category)
       /\ Write(c, category, channels, next)

InsertGlobal(c) ==
    /\ tx[c].state = "global"
    /\ Insert(c, Global, tx[c].document.global, tx[c].left)
    /\ UNCHANGED <<rows, send, log>>

InsertCategory(c, category) ==
    /\ tx[c].state = "categories"
    /\ category \in tx[c].left
    /\ Insert(c, category, tx[c].document.categories[category],
              tx[c].left \ {category})
    /\ UNCHANGED <<rows, send, log>>

Commit(c) ==
    /\ tx[c].state = "categories"
    /\ tx[c].left = {}
    /\ rows' = (rows \ tx[c].deleted) \cup tx[c].inserted
    /\ tx' = [tx EXCEPT ![c] = Ended(c, "committed")]
    /\ log' = Append(log, c)
    /\ UNCHANGED send

\* The connection or the request context is lost before COMMIT.
Abort(c) ==
    /\ tx[c].state \in Running
    /\ tx' = [tx EXCEPT ![c] = Ended(c, "aborted")]
    /\ UNCHANGED <<rows, send, log>>

----------------------------------------------------------------------------
(* The readers. *)

\* loadPreferenceRowTx.
LayerOf(category) ==
    IF \E row \in rows : row.category = category
    THEN [set |-> TRUE,
          channels |-> (CHOOSE row \in rows : row.category = category).channels]
    ELSE Unset

\* GetPreferences: both layers from one SELECT; the default where the global
\* one is not set, nothing where a category is not.
Shown(face) ==
    [global |-> Answered(face, Ceiling(LayerOf(Global))),
     categories |-> [c \in {row.category : row \in rows} \ {Global} |->
                       Answered(face, LayerOf(c).channels)]]

\* The answer to a replacement is read in a transaction of its own.
ReadBack(c) ==
    /\ tx[c].state = "committed"
    /\ tx' = [tx EXCEPT ![c].state = "answered", ![c].answer = Shown(tx[c].face)]
    /\ UNCHANGED <<rows, send, log>>

\* When that one fails the client is told that the replacement has.
ReadBackFails(c) ==
    /\ tx[c].state = "committed"
    /\ tx' = [tx EXCEPT ![c].state = "unanswered"]
    /\ UNCHANGED <<rows, send, log>>

NoSend == [step |-> "idle", global |-> Unset, resolved |-> NoChannels]

\* ResolvePreferredChannelsTx for the critical category: one SELECT, another.
ResolveReadGlobal ==
    /\ send.step \in {"idle", "resolved"}
    /\ send' = [step |-> "global", global |-> LayerOf(Global),
                resolved |-> NoChannels]
    /\ UNCHANGED <<rows, tx, log>>

ResolveReadCategory ==
    /\ send.step = "global"
    /\ send' = [step |-> "resolved", global |-> Unset,
                resolved |-> Resolve(send.global, LayerOf(Critical), TRUE)]
    /\ UNCHANGED <<rows, tx, log>>

----------------------------------------------------------------------------
Init ==
    /\ rows = {}
    /\ tx = [c \in Client |-> Idle]
    /\ send = NoSend
    /\ log = <<>>

Put(c) ==
    \/ DeleteStart(c)
    \/ DeleteFinish(c)
    \/ InsertGlobal(c)
    \/ \E category \in Category : InsertCategory(c, category)
    \/ Commit(c)
    \/ ReadBack(c)

Next ==
    \/ \E c \in Client :
          \/ Put(c) \/ Abort(c) \/ ReadBackFails(c)
          \/ \E req \in Request : Submit(c, req)
    \/ ResolveReadGlobal
    \/ ResolveReadCategory

Spec == Init /\ [][Next]_vars

\* A handler goes on with its transaction as soon as PostgreSQL lets it.
FairSpec == Spec /\ \A c \in Client : WF_vars(Put(c))

----------------------------------------------------------------------------
(* Properties. *)

RowsOf(c) ==
    {[category |-> Global, channels |-> tx[c].document.global, by |-> c]} \cup
    {[category |-> category, channels |-> tx[c].document.categories[category],
      by |-> c] : category \in DOMAIN tx[c].document.categories}

\* The stored rows are those of one document, complete, and of the client
\* that committed last; they are never a mixture of two requests and never
\* lost again (SetPreferences replaces the whole document).
StoredIsOneDocument ==
    rows = IF log = <<>> THEN {} ELSE RowsOf(log[Len(log)])

\* A well-formed request fails only because another one went through.
LoserHasWinner ==
    \A c \in Client :
       /\ tx[c].state = "failed"
       /\ tx[c].document.global # Null
       /\ Global \notin DOMAIN tx[c].document.categories
       /\ \A category \in DOMAIN tx[c].document.categories :
             tx[c].document.categories[category] # Null
       => \E d \in Client \ {c} : tx[d].state \in Stored

\* workflow_task can be directed but not switched off: no interleaving of a
\* send with any number of replacements leaves the send without a channel.
SendHasChannel == send.step = "resolved" => ~IsEmpty(send.resolved)

\* Reading an answer back.
Understood(face, answer) ==
    [global |-> Received(face, answer.global),
     categories |-> [c \in DOMAIN answer.categories |->
                       Received(face, answer.categories[c])]]

\* A successful replacement is answered with one whole document, its own or
\* one that replaced it since, in the words of its own face and channel for
\* channel as the other client meant it (SetPreferences returns what
\* GetPreferences reads after the commit).
AnswerIsOwnOrLater ==
    \A c \in Client :
       tx[c].state = "answered" =>
       \E i, j \in DOMAIN log :
          /\ log[i] = c /\ i <= j
          /\ Understood(tx[c].face, tx[c].answer) = tx[log[j]].document

\* No request waits forever for another.
EveryPutFinishes ==
    \A c \in Client :
       tx[c].state \in Running \cup {"committed"} ~> tx[c].state \in Finished
=============================================================================
