---------------------------- MODULE Notification ----------------------------
(***************************************************************************)
(* The component as a whole, for one recipient: the three consumers that   *)
(* keep user_contacts, the requests that replace the preference document,  *)
(* and the delivery of notifications, which reads what the other two have  *)
(* written.  UserContacts, Preferences and Delivery are the components;    *)
(* Delivery here no longer has contacts and preferences of its own, it     *)
(* sees the rows of the other two.                                         *)
(*                                                                         *)
(* Every table is keyed by the sub of the user, so one recipient is enough *)
(* for what the components can do to each other.                           *)
(***************************************************************************)
EXTENDS PreferenceRules, Sequences

CONSTANTS Sub,         \* the sub of the user
          Task,
          Adapter, EarlyPhase, MaxRetries,
          Phone, Email,
          Profile,     \* what the directory may say of the user
          MaxVersion,
          Client, Request, Null

NoProfile == [phone |-> "", email |-> ""]

ASSUME ProfileAssumption ==
    Profile \subseteq [phone : Phone \cup {""}, email : Email \cup {""}] \ {NoProfile}

ASSUME AddressAssumption == "" \notin Phone \cup Email

ASSUME EarlyPhaseAssumption == EarlyPhase \subseteq {"ACCEPTED", "UNKNOWN"}

ASSUME MaxRetriesAssumption == MaxRetries \in Nat

VARIABLES directory, userInbox, contacts, \* UserContacts
          rows, tx, log,                  \* Preferences
          records, outbox, taskInbox, resultInbox, jobs, received, results

contactVars == <<directory, userInbox, contacts>>
preferenceVars == <<rows, tx, log>>
deliveryVars == <<records, outbox, taskInbox, resultInbox, jobs, received, results>>

vars == <<contactVars, preferenceVars, deliveryVars>>

C == INSTANCE UserContacts WITH User <- {Sub}, inbox <- userInbox

\* The resolution of channels is part of the task handler here.
Pr == INSTANCE Preferences WITH
         send <- [step |-> "idle", global |-> Unset, resolved |-> NoChannels]

ASSUME NullAssumption ==
    Null \notin ChannelList \cup Pr!WireList("http") \cup Pr!WireList("grpc")

ASSUME RequestAssumption == \A req \in Request : Pr!IsRequest(req)

\* GetContactTx as the handlers of the consumer see it.
ContactOf(u) ==
    [phone |-> C!GetContact(u).profile.phone,
     email |-> C!GetContact(u).profile.email,
     disabled |-> C!GetContact(u).disabled]

\* What the readers of the two layers find after a request.
LayersOf(req) ==
    LET doc == Pr!DocumentOf(req)
    IN  [global |-> [set |-> TRUE, channels |-> doc.global],
         category |-> IF Pr!Critical \in DOMAIN doc.categories
                      THEN [set |-> TRUE, channels |-> doc.categories[Pr!Critical]]
                      ELSE Unset]

\* The requests that are let through and that the table takes.
StoredRequests ==
    {req \in Request : Pr!Accepts(req) /\ LayersOf(req) \in Preferences}

D == INSTANCE Delivery WITH
        User       <- {Sub},
        Assignee   <- [t \in Task |-> Sub],
        Preference <- {LayersOf(req) : req \in StoredRequests},
        contacts   <- [u \in {Sub} |-> ContactOf(u)],
        prefs      <- [u \in {Sub} |->
                         [global |-> Pr!LayerOf(Pr!Global),
                          category |-> Pr!LayerOf(Pr!Critical)]]

----------------------------------------------------------------------------
\* The directory publishes, and one of the three consumers handles an event.
UserEvents ==
    /\ C!Next
    /\ UNCHANGED <<preferenceVars, deliveryVars>>

PreferenceRequests ==
    /\ \E c \in Client :
          \/ Pr!Put(c) \/ Pr!Abort(c) \/ Pr!ReadBackFails(c)
          \/ \E req \in Request : Pr!Submit(c, req)
    /\ UNCHANGED <<contactVars, deliveryVars>>

\* The task and result consumers, and the adapters at the other end.
Notifications ==
    /\ UNCHANGED <<contactVars, preferenceVars>>
    /\ D!Consumer \/ D!Adapters

Init ==
    /\ C!Init
    /\ rows = {} /\ tx = [c \in Client |-> Pr!Idle] /\ log = <<>>
    /\ records = [id \in {} |-> CreateRecord("PENDING")]
    /\ outbox = {} /\ taskInbox = {} /\ resultInbox = {} /\ jobs = {}
    /\ received = {} /\ results = {}

Next == UserEvents \/ PreferenceRequests \/ Notifications

Spec == Init /\ [][Next]_vars

----------------------------------------------------------------------------
(* Properties. *)

\* The other two components are the environment that Delivery was specified
\* with: contacts that never come back from "disabled", and preferences that
\* are at all times those of one accepted request, both layers of it.  What
\* holds of Delivery thus holds here.
ImplementsDelivery == D!Spec

\* A dispatch goes to an address of its recipient that the directory has
\* published and the snapshot has taken up, by the time it goes out and for
\* retries too (GetContactTx, workflowTaskCreatedHandler,
\* handleRetryableFailureTx).
DispatchGoesWhereDirectorySaid ==
    \A row \in outbox :
       D!IsDispatch(row) =>
       \E seen \in C!Consumed(Sub) :
          LET profile == directory[Sub][seen].profile
          IN  row.to = IF row.subject = "dispatch.im" THEN profile.phone
                                                      ELSE profile.email

\* A notification goes over a channel that some stored document of the user
\* allows in its global list, or over the default one: no mixture of old and
\* new layers lets a category break through what was switched off
\* (ResolvePreferredChannelsTx reads the layers with two SELECTs).
ChannelWasChosen ==
    \A id \in DOMAIN records :
       \/ id.channel \in Names(DefaultGlobalChannels)
       \/ \E i \in DOMAIN log : id.channel \in Names(tx[log[i]].document.global)

\* Nobody is suppressed whom the directory has not disabled, whatever order
\* the user events arrive in and whatever preferences are stored meanwhile.
SuppressedWasDisabled ==
    \A id \in DOMAIN records :
       records[id].status = "SUPPRESSED" =>
          \E k \in DOMAIN directory[Sub] :
             directory[Sub][k].kind = "disabled"
=============================================================================
