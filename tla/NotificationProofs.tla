------------------------- MODULE NotificationProofs -------------------------
(***************************************************************************)
(* The composed component implements Delivery, for any directory, any      *)
(* clients and requests, any tasks and adapters: what the proofs about     *)
(* Delivery say of an environment left open holds with the real one.       *)
(*                                                                         *)
(* CP and PP repeat the instances C and Pr of Notification with the lemmas *)
(* about them.                                                             *)
(***************************************************************************)
EXTENDS Notification, TLAPS

CP == INSTANCE UserContactsProofs WITH User <- {Sub}, inbox <- userInbox

PP == INSTANCE PreferencesProofs WITH
         send <- [step |-> "idle", global |-> Unset, resolved |-> NoChannels]

----------------------------------------------------------------------------
(* The assumptions of the components. *)

\* The composition's constants meet the assumption of UserContacts.
LEMMA ContactAssumptions == CP!NoProfileAssumption
BY ProfileAssumption DEF CP!NoProfileAssumption

\* Channel lists and their names are the same in the composed copy of Preferences.
LEMMA SameNames ==
    /\ PP!ChannelList = ChannelList
    /\ \A face : PP!Name(face) = Pr!Name(face)
    /\ \A face : PP!WireList(face) = Pr!WireList(face)
<1>1. PP!ChannelList = ChannelList
  BY DEF PP!ChannelList, ChannelList, PP!Channel, Channel
<1>2. \A face : PP!Name(face) = Pr!Name(face)
  BY DEF PP!Name, Pr!Name, PP!Channel, Pr!Channel
<1>3. \A face : PP!WireList(face) = Pr!WireList(face)
  BY <1>2, Zenon DEF PP!WireList, Pr!WireList
<1>4. QED
  BY <1>1, <1>2, <1>3

\* The composition's constants meet the assumptions of Preferences.
LEMMA PreferenceAssumptions ==
    PP!MaxCopiesAssumption /\ PP!NullAssumption /\ PP!RequestAssumption
<1>1. PP!MaxCopiesAssumption
  BY MaxCopiesAssumption DEF PP!MaxCopiesAssumption
<1>2. PP!NullAssumption
  BY SameNames, NullAssumption DEF PP!NullAssumption
<1>3. \A req : PP!IsRequest(req) <=> Pr!IsRequest(req)
  BY SameNames, Zenon
  DEF PP!IsRequest, Pr!IsRequest, PP!Face, Pr!Face, PP!Category, Pr!Category,
      PP!Global, Pr!Global, PP!Critical, Pr!Critical
<1>4. PP!RequestAssumption
  BY <1>3, RequestAssumption DEF PP!RequestAssumption
<1>5. QED
  BY <1>1, <1>2, <1>4

----------------------------------------------------------------------------
(* The steps of the components, in either instance. *)

\* A request decodes and validates the same in both copies.
LEMMA SameRequests ==
    ASSUME NEW req
    PROVE  /\ Pr!DocumentOf(req) = PP!DocumentOf(req)
           /\ Pr!Accepts(req) <=> PP!Accepts(req)
<1>1. \A face, list : /\ Pr!Received(face, list) = PP!Received(face, list)
                      /\ Pr!ReceivedGlobal(face, list) = PP!ReceivedGlobal(face, list)
                      /\ Pr!Valid(face, list) <=> PP!Valid(face, list)
  <2>1. \A face, name : Pr!Parsed(face, name) = PP!Parsed(face, name)
    BY Zenon DEF Pr!Parsed, PP!Parsed, Pr!FromProtoChannel, PP!FromProtoChannel
  <2>2. Pr!Channel = PP!Channel /\ Pr!NoChannels = PP!NoChannels
    BY Zenon DEF Pr!Channel, PP!Channel, Pr!NoChannels, PP!NoChannels
  <2>3. \A face, list : Pr!Valid(face, list) <=> PP!Valid(face, list)
    BY <2>1, <2>2, SameNames, Zenon DEF Pr!Valid, PP!Valid
  <2>4. \A face, list : Pr!Received(face, list) = PP!Received(face, list)
    BY <2>1, <2>2, SameNames DEF Pr!Received, PP!Received
  <2>5. \A face, list : Pr!ReceivedGlobal(face, list) = PP!ReceivedGlobal(face, list)
    BY <2>2, <2>4, Zenon DEF Pr!ReceivedGlobal, PP!ReceivedGlobal
  <2>6. QED
    BY <2>3, <2>4, <2>5
<1>2. Pr!DocumentOf(req) = PP!DocumentOf(req)
  BY <1>1, Zenon DEF Pr!DocumentOf, PP!DocumentOf
<1>3. Pr!RejectsCritical(Pr!DocumentOf(req)) <=> PP!RejectsCritical(PP!DocumentOf(req))
  BY <1>2, Zenon
  DEF Pr!RejectsCritical, PP!RejectsCritical, Pr!Critical, PP!Critical,
      Pr!NoChannels, PP!NoChannels, Pr!Channel, PP!Channel
<1>4. QED
  BY <1>1, <1>2, <1>3, Zenon DEF Pr!Accepts, PP!Accepts

\* An insert does the same in both copies.
LEMMA SameInserts ==
    ASSUME NEW c, NEW category, NEW channels, NEW next
    PROVE  Pr!Insert(c, category, channels, next) <=> PP!Insert(c, category, channels, next)
BY Zenon
DEF Pr!Insert, PP!Insert, Pr!Write, PP!Write, Pr!Ended, PP!Ended,
    Pr!Blocked, PP!Blocked, Pr!Taken, PP!Taken

\* A preference request of the whole is a step of Preferences.
LEMMA PreferenceSteps == PreferenceRequests => PP!Next
<1> SUFFICES ASSUME PreferenceRequests PROVE PP!Next
  OBVIOUS
<1>1. ASSUME NEW c \in Client, NEW req \in Request, Pr!Submit(c, req)
      PROVE  PP!Submit(c, req)
  BY <1>1, SameRequests, Zenon DEF Pr!Submit, PP!Submit
<1>2. ASSUME NEW c \in Client, Pr!Put(c) PROVE PP!Put(c)
  <2>1. Pr!DeleteStart(c) => PP!DeleteStart(c)
    BY Zenon DEF Pr!DeleteStart, PP!DeleteStart
  <2>2. Pr!DeleteFinish(c) => PP!DeleteFinish(c)
    BY Zenon DEF Pr!DeleteFinish, PP!DeleteFinish
  <2>3. Pr!InsertGlobal(c) => PP!InsertGlobal(c)
    BY SameInserts, Zenon DEF Pr!InsertGlobal, PP!InsertGlobal, Pr!Global, PP!Global
  <2>4. \A category : Pr!InsertCategory(c, category) => PP!InsertCategory(c, category)
    BY SameInserts, Zenon DEF Pr!InsertCategory, PP!InsertCategory
  <2>5. Pr!Commit(c) => PP!Commit(c)
    BY Zenon DEF Pr!Commit, PP!Commit, Pr!Ended, PP!Ended
  <2>6. Pr!ReadBack(c) => PP!ReadBack(c)
    BY Zenon
    DEF Pr!ReadBack, PP!ReadBack, Pr!Shown, PP!Shown, Pr!Answered, PP!Answered,
        Pr!Printed, PP!Printed, Pr!ToProtoChannel, PP!ToProtoChannel,
        Pr!Ceiling, PP!Ceiling, Pr!LayerOf, PP!LayerOf, Pr!Global, PP!Global,
        Pr!Unset, PP!Unset, Pr!NoChannels, PP!NoChannels, Pr!Channel, PP!Channel,
        Pr!DefaultGlobalChannels, PP!DefaultGlobalChannels, Pr!Name, PP!Name
  <2>7. Pr!Category = PP!Category
    BY DEF Pr!Category, PP!Category, Pr!Global, PP!Global, Pr!Critical, PP!Critical
  <2>8. QED
    BY <1>2, <2>1, <2>2, <2>3, <2>4, <2>5, <2>6, <2>7 DEF Pr!Put, PP!Put
<1>3. ASSUME NEW c \in Client, Pr!Abort(c) PROVE PP!Abort(c)
  BY <1>3, Zenon DEF Pr!Abort, PP!Abort, Pr!Ended, PP!Ended, Pr!Running, PP!Running
<1>4. ASSUME NEW c \in Client, Pr!ReadBackFails(c) PROVE PP!ReadBackFails(c)
  BY <1>4, Zenon DEF Pr!ReadBackFails, PP!ReadBackFails
<1>5. QED
  BY <1>1, <1>2, <1>3, <1>4 DEF PreferenceRequests, PP!Next

----------------------------------------------------------------------------
(* The invariant of the composition: those of its parts. *)

WholeInv == CP!TypeOK /\ PP!Inv /\ PP!Accepted

\* A user event of the whole is a step of UserContacts.
LEMMA ContactSteps == C!Next => CP!Next
<1> SUFFICES ASSUME C!Next PROVE CP!Next
  OBVIOUS
<1>1. C!Event = CP!Event
  BY DEF C!Event, CP!Event, C!Kind, CP!Kind
<1>2. \A u, event : C!Publishes(u, event) => CP!Publishes(u, event)
  BY Zenon DEF C!Publishes, CP!Publishes
<1>3. \A u, version : C!Consume(u, version) => CP!Consume(u, version)
  BY Zenon DEF C!Consume, CP!Consume, C!Fresh, CP!Fresh, C!Consumed, CP!Consumed, C!Range, CP!Range
<1>4. \A u : C!GetContact(u) = CP!GetContact(u)
  BY Zenon DEF C!GetContact, CP!GetContact, C!NoRow, CP!NoRow
<1>5. \A u, row : C!Stored(u, row) = CP!Stored(u, row)
  BY Zenon DEF C!Stored, CP!Stored
<1>6. \A u, version : C!UserUpsert(u, version) => CP!UserUpsert(u, version)
  BY <1>3, <1>4, <1>5, Zenon
  DEF C!UserUpsert, CP!UserUpsert, C!UpsertContact, CP!UpsertContact
<1>7. \A u, version : C!UserDisabled(u, version) => CP!UserDisabled(u, version)
  BY <1>3, <1>4, <1>5, Zenon
  DEF C!UserDisabled, CP!UserDisabled, C!SetContactDisabled, CP!SetContactDisabled
<1>8. QED
  BY <1>1, <1>2, <1>6, <1>7 DEF C!Next, CP!Next

\* The parts' invariants hold at the start.
LEMMA WholeInit == Init => WholeInv
<1> SUFFICES ASSUME Init PROVE WholeInv
  OBVIOUS
<1>1. CP!Init
  BY Zenon DEF Init, C!Init, CP!Init, C!NoRow, CP!NoRow
<1>2. PP!Init
  BY Zenon DEF Init, PP!Init, Pr!Idle, PP!Idle, PP!NoSend, PP!Unset, Unset,
      PP!NoChannels, NoChannels, PP!Channel, Channel
<1>3. CP!TypeOK
  BY <1>1, CP!InitType, ContactAssumptions
<1>4. PP!Inv
  BY <1>2, PP!InitInv, PreferenceAssumptions
<1>5. PP!Accepted
  BY <1>2, PP!AcceptedInit, PreferenceAssumptions
<1>6. QED
  BY <1>3, <1>4, <1>5 DEF WholeInv

\* A step of one part keeps the invariants of all of them.
LEMMA WholeNext ==
    ASSUME WholeInv, [Next]_vars
    PROVE  WholeInv'
<1>1. CP!TypeOK'
  <2>1. [CP!Next]_(CP!vars)
    BY ContactSteps
    DEF Next, UserEvents, PreferenceRequests, Notifications, vars, contactVars, CP!vars
  <2>2. QED
    BY <2>1, CP!NextType, ContactAssumptions DEF WholeInv
<1>2. CASE PreferenceRequests
  <2>1. PP!Inv'
    BY <1>2, PreferenceSteps, PP!NextInv, PreferenceAssumptions DEF WholeInv
  <2>2. PP!Accepted'
    BY <1>2, PreferenceSteps, PP!AcceptedStep, PreferenceAssumptions DEF WholeInv
  <2>3. QED
    BY <1>1, <2>1, <2>2 DEF WholeInv
<1>3. CASE UNCHANGED preferenceVars
  <2>1. PP!Inv'
    BY <1>3, PP!UnchangedInv, PreferenceAssumptions DEF WholeInv, preferenceVars
  <2>2. PP!Accepted'
    BY <1>3 DEF WholeInv, preferenceVars, PP!Accepted
  <2>3. QED
    BY <1>1, <2>1, <2>2 DEF WholeInv
<1>4. QED
  BY <1>2, <1>3 DEF Next, UserEvents, Notifications, vars

----------------------------------------------------------------------------
(* Each step of the composition is a step of Delivery, or leaves alone all *)
(* that Delivery sees.                                                     *)

ContactsSeen == [u \in {Sub} |-> ContactOf(u)]

PrefsSeen == [u \in {Sub} |-> [global |-> Pr!LayerOf(Pr!Global),
                                     category |-> Pr!LayerOf(Pr!Critical)]]

\* The two things a user event may do to the contact.
Moved(phone, email) ==
    [phone |-> phone, email |-> email, disabled |-> ContactOf(Sub).disabled]

Disabled ==
    [phone |-> ContactOf(Sub).phone, email |-> ContactOf(Sub).email,
     disabled |-> TRUE]

\* A user event changes the assignee's contact the way Delivery lets its environment change it.
LEMMA ContactChanges ==
    ASSUME WholeInv, C!Next
    PROVE  \/ ContactOf(Sub)' = ContactOf(Sub)
           \/ \E phone \in Phone \cup {""}, email \in Email \cup {""} :
                 ContactOf(Sub)' = Moved(phone, email)
           \/ ContactOf(Sub)' = Disabled
<1> DEFINE row == C!GetContact(Sub)
<1>1. ASSUME NEW u \in {Sub}, NEW event, C!Publishes(u, event)
      PROVE  ContactOf(Sub)' = ContactOf(Sub)
  BY <1>1 DEF C!Publishes, ContactOf, C!GetContact
<1>2. ContactOf(Sub) = [phone |-> row.profile.phone, email |-> row.profile.email,
                              disabled |-> row.disabled]
  BY DEF ContactOf
<1>3. ASSUME NEW r, contacts' = C!Stored(Sub, r)
      PROVE  row' = r
  BY <1>3 DEF C!Stored, C!GetContact
<1>4. ASSUME NEW version \in DOMAIN directory[Sub], C!UserUpsert(Sub, version)
      PROVE  \/ ContactOf(Sub)' = ContactOf(Sub)
             \/ \E phone \in Phone \cup {""}, email \in Email \cup {""} :
                 ContactOf(Sub)' = Moved(phone, email)
  <2> DEFINE profile == directory[Sub][version].profile
  <2>1. row' = C!UpsertContact(row, profile, version)
    BY <1>3, <1>4 DEF C!UserUpsert
  <2>2. profile.phone \in Phone \cup {""} /\ profile.email \in Email \cup {""}
    <3>1. directory[Sub][version] \in CP!Event
      BY <1>4 DEF WholeInv, CP!TypeOK
    <3>2. profile \in Profile \cup {NoProfile}
      BY <3>1 DEF CP!Event
    <3>3. NoProfile.phone = "" /\ NoProfile.email = ""
      BY DEF NoProfile
    <3>4. \A p \in Profile : p.phone \in Phone \cup {""} /\ p.email \in Email \cup {""}
      BY ProfileAssumption
    <3>5. QED
      BY <3>2, <3>3, <3>4
  <2>3. CASE row' = row
    BY <2>3 DEF ContactOf
  <2>4. CASE row' = [profile |-> profile, disabled |-> row.disabled, version |-> version]
    <3>1. ContactOf(Sub)' = [phone |-> profile.phone, email |-> profile.email,
                                   disabled |-> row.disabled]
      BY <2>4 DEF ContactOf
    <3>2. ContactOf(Sub)' = Moved(profile.phone, profile.email)
      BY <1>2, <3>1 DEF Moved
    <3>3. QED
      BY <2>2, <3>2
  <2>5. QED
    BY <2>1, <2>3, <2>4 DEF C!UpsertContact
<1>5. ASSUME NEW version \in DOMAIN directory[Sub], C!UserDisabled(Sub, version)
      PROVE  \/ ContactOf(Sub)' = ContactOf(Sub)
             \/ ContactOf(Sub)' = Disabled
  <2>1. row' = C!SetContactDisabled(row, version)
    BY <1>3, <1>5 DEF C!UserDisabled
  <2>2. row = CP!GetContact(Sub)
    BY Zenon DEF C!GetContact, CP!GetContact, C!NoRow, CP!NoRow
  <2>3. row \in CP!Contact
    BY <2>2, CP!RowType, ContactAssumptions DEF WholeInv
  <2>4. CASE row' = row
    BY <2>4 DEF ContactOf
  <2>5. CASE row' = [row EXCEPT !.disabled = TRUE, !.version = version]
    <3>1. row'.profile = row.profile /\ row'.disabled = TRUE
      BY <2>3, <2>5 DEF CP!Contact
    <3>2. ContactOf(Sub)' = [phone |-> row.profile.phone,
                                   email |-> row.profile.email, disabled |-> TRUE]
      BY <3>1 DEF ContactOf
    <3>3. QED
      BY <1>2, <3>2 DEF Disabled
  <2>6. QED
    BY <2>1, <2>4, <2>5 DEF C!SetContactDisabled
<1>6. QED
  BY <1>1, <1>4, <1>5 DEF C!Next

\* A user event is a step of Delivery's environment, or a stutter.
LEMMA UserEventsMap ==
    ASSUME WholeInv, UserEvents
    PROVE  [D!Next]_(D!vars)
<1>1. PrefsSeen' = PrefsSeen
  BY DEF UserEvents, preferenceVars, PrefsSeen, Pr!LayerOf, Pr!Unset, Pr!NoChannels
<1>2. UNCHANGED deliveryVars
  BY DEF UserEvents
<1>3. CASE ContactOf(Sub)' = ContactOf(Sub)
  <2>1. ContactsSeen' = ContactsSeen
    BY <1>3 DEF ContactsSeen
  <2>2. QED
    BY <1>1, <1>2, <2>1 DEF D!vars, deliveryVars, ContactsSeen, PrefsSeen
<1>4. ASSUME NEW phone \in Phone \cup {""}, NEW email \in Email \cup {""},
             ContactOf(Sub)' = Moved(phone, email)
      PROVE  D!ProfileChanges(Sub, phone, email)
  <2>1. ContactsSeen' = [ContactsSeen EXCEPT ![Sub].phone = phone,
                                             ![Sub].email = email]
    BY <1>4 DEF ContactsSeen, ContactOf, Moved
  <2>2. QED
    BY <1>1, <1>2, <2>1
    DEF D!ProfileChanges, D!database, D!adapters, deliveryVars, ContactsSeen, PrefsSeen
<1>5. ASSUME ContactOf(Sub)' = Disabled
      PROVE  D!UserDisabled(Sub)
  <2>1. ContactsSeen' = [ContactsSeen EXCEPT ![Sub].disabled = TRUE]
    BY <1>5 DEF ContactsSeen, ContactOf, Disabled
  <2>2. QED
    BY <1>1, <1>2, <2>1
    DEF D!UserDisabled, D!database, D!adapters, deliveryVars, ContactsSeen, PrefsSeen
<1>6. QED
  BY <1>3, <1>4, <1>5, ContactChanges DEF UserEvents, D!Next, D!Environment

\* The layers of a document the table takes.
LEMMA StorableLayers ==
    ASSUME NEW req \in Request, PP!Storable(PP!DocumentOf(req))
    PROVE  LayersOf(req) \in Preferences
<1> DEFINE doc == PP!DocumentOf(req)
<1>1. doc \in PP!Documents
  BY PP!DocumentType, PreferenceAssumptions
<1>2. PICK S \in SUBSET PP!Category : doc.categories \in [S -> PP!List]
  BY <1>1 DEF PP!Documents
<1>3. /\ doc.global \in ChannelList
      /\ \A k \in DOMAIN doc.categories : doc.categories[k] \in ChannelList
  BY <1>1, <1>2, SameNames DEF PP!Documents, PP!Storable, PP!List
<1>4. Unset \in Layer
  BY MaxCopiesAssumption DEF Unset, NoChannels, Layer, ChannelList
<1>5. Pr!DocumentOf(req) = doc
  BY SameRequests
<1>6. QED
  <2> HIDE DEF doc
  <2>1. QED
    BY <1>3, <1>4, <1>5 DEF LayersOf, Layer, Preferences

\* A preference request is a step of Delivery's environment, or a stutter.
LEMMA RequestsMap ==
    ASSUME WholeInv, PreferenceRequests
    PROVE  [D!Next]_(D!vars)
<1>1. ContactsSeen' = ContactsSeen
  BY DEF PreferenceRequests, contactVars, ContactsSeen, ContactOf, C!GetContact, C!NoRow
<1>2. UNCHANGED deliveryVars
  BY DEF PreferenceRequests
<1>3. \A k : Pr!LayerOf(k) = PP!LayerOf(k) /\ (Pr!LayerOf(k))' = (PP!LayerOf(k))'
  BY Zenon DEF Pr!LayerOf, PP!LayerOf, Pr!Unset, PP!Unset, Pr!NoChannels, PP!NoChannels,
      Pr!Channel, PP!Channel
<1>4. Pr!Global = PP!Global /\ Pr!Critical = PP!Critical /\ Unset = PP!Unset
  BY Zenon DEF Pr!Global, PP!Global, Pr!Critical, PP!Critical, Unset, PP!Unset,
      NoChannels, PP!NoChannels, Channel, PP!Channel
<1>5. CASE rows' = rows
  <2>1. PrefsSeen' = PrefsSeen
    BY <1>5 DEF PrefsSeen, Pr!LayerOf, Pr!Unset, Pr!NoChannels
  <2>2. QED
    BY <1>1, <1>2, <2>1 DEF D!vars, deliveryVars, ContactsSeen, PrefsSeen
<1>6. ASSUME NEW req \in Request, PP!Accepts(req), PP!Storable(PP!DocumentOf(req)),
             (PP!LayerOf(PP!Global))' = [set |-> TRUE,
                                         channels |-> PP!DocumentOf(req).global],
             (PP!LayerOf(PP!Critical))' =
                IF PP!Critical \in DOMAIN PP!DocumentOf(req).categories
                THEN [set |-> TRUE,
                      channels |-> PP!DocumentOf(req).categories[PP!Critical]]
                ELSE PP!Unset
      PROVE  D!PreferencesReplaced(Sub, LayersOf(req)) /\ req \in StoredRequests
  <2>1. LayersOf(req) = [global |-> (PP!LayerOf(PP!Global))',
                         category |-> (PP!LayerOf(PP!Critical))']
    BY <1>4, <1>6, SameRequests DEF LayersOf
  <2>2. PrefsSeen' = [PrefsSeen EXCEPT ![Sub] = LayersOf(req)]
    BY <1>3, <1>4, <2>1 DEF PrefsSeen
  <2>3. LayersOf(req) \in Preferences
    BY <1>6, StorableLayers
  <2>4. QED
    BY <1>1, <1>2, <1>6, <2>2, <2>3, SameRequests
    DEF StoredRequests, D!PreferencesReplaced, D!database, D!adapters, deliveryVars, ContactsSeen, PrefsSeen
<1>7. \/ rows' = rows
      \/ \E req \in Request :
            D!PreferencesReplaced(Sub, LayersOf(req)) /\ req \in StoredRequests
  BY <1>6, PreferenceSteps, PP!ReplacedAsOne, PreferenceAssumptions DEF WholeInv
<1>8. ASSUME NEW req \in StoredRequests,
             D!PreferencesReplaced(Sub, LayersOf(req))
      PROVE  D!Next
  BY <1>8 DEF D!Next, D!Environment
<1>9. QED
  BY <1>5, <1>7, <1>8

\* A delivery step of the whole is one of Delivery.
LEMMA NotificationsMap ==
    ASSUME Notifications
    PROVE  D!Next
BY DEF Notifications, D!Next

\* The initial state maps to one of Delivery.
LEMMA InitMap == Init => D!Init
<1> SUFFICES ASSUME Init PROVE D!Init
  OBVIOUS
<1>1. ContactsSeen = [u \in {Sub} |-> [phone |-> "", email |-> "", disabled |-> FALSE]]
  BY DEF Init, C!Init, ContactsSeen, ContactOf, C!GetContact, C!NoRow, NoProfile
<1>2. PrefsSeen = [u \in {Sub} |-> [global |-> Unset, category |-> Unset]]
  BY DEF Init, PrefsSeen, Pr!LayerOf, Pr!Unset, Pr!NoChannels, Unset, NoChannels,
     Pr!Channel, Channel
<1>3. QED
  BY <1>1, <1>2, Zenon
  DEF Init, D!Init, ContactsSeen, PrefsSeen, CreateRecord, D!CreateRecord, Unset, D!Unset,
      NoChannels, D!NoChannels, Channel, D!Channel

\* Every step maps to a step of Delivery or a stutter.
LEMMA StepMap ==
    ASSUME WholeInv, [Next]_vars
    PROVE  [D!Next]_(D!vars)
<1>1. CASE UserEvents
  BY <1>1, UserEventsMap
<1>2. CASE PreferenceRequests
  BY <1>2, RequestsMap
<1>3. CASE Notifications
  BY <1>3, NotificationsMap
<1>4. CASE UNCHANGED vars
  BY <1>4
  DEF vars, contactVars, preferenceVars, deliveryVars, D!vars, ContactOf,
      C!GetContact, C!NoRow, Pr!LayerOf, Pr!Unset, Pr!NoChannels
<1>5. QED
  BY <1>1, <1>2, <1>3, <1>4 DEF Next

\* Delivery with the real writers of the contacts and of the preferences is
\* Delivery as it was specified: with the statements of UserContacts and of
\* Preferences for the tables it reads, every behaviour of the component is
\* one of Delivery's.
THEOREM WholeImplementsDelivery == Spec => ImplementsDelivery
BY StepMap, WholeNext, WholeInit, InitMap, PTL DEF Spec, ImplementsDelivery, D!Spec

----------------------------------------------------------------------------
(* What is proved of Delivery thus holds of the component.  DP repeats the  *)
(* instance D with the theorems about it.                                   *)

DP == INSTANCE SingleAdapterProofs WITH
        User       <- {Sub},
        Assignee   <- [t \in Task |-> Sub],
        Preference <- {LayersOf(req) : req \in StoredRequests},
        contacts   <- [u \in {Sub} |-> ContactOf(u)],
        prefs      <- [u \in {Sub} |->
                         [global |-> Pr!LayerOf(Pr!Global),
                          category |-> Pr!LayerOf(Pr!Critical)]]

\* The composition's constants meet the assumptions of Delivery.
LEMMA DeliveryAssumptions ==
    /\ DP!MaxCopiesAssumption /\ DP!AssigneeAssumption /\ DP!AddressAssumption
    /\ DP!EarlyPhaseAssumption /\ DP!PreferenceAssumption /\ DP!MaxRetriesAssumption
<1>1. DP!AssigneeAssumption
  BY DEF DP!AssigneeAssumption
<1>2. DP!Preferences = Preferences
  BY Zenon
  DEF DP!Preferences, Preferences, DP!Layer, Layer, DP!ChannelList, ChannelList,
      DP!Channel, Channel
<1>3. DP!PreferenceAssumption
  BY <1>2, Zenon DEF DP!PreferenceAssumption, StoredRequests
<1>4. QED
  BY <1>1, <1>3, MaxCopiesAssumption, AddressAssumption, EarlyPhaseAssumption,
     MaxRetriesAssumption
  DEF DP!MaxCopiesAssumption, DP!AddressAssumption, DP!EarlyPhaseAssumption,
      DP!MaxRetriesAssumption

\* The copy of Delivery the whole runs and the copy its theorems speak of take the same steps.
LEMMA SameDelivery ==
    /\ D!Init => DP!Init
    /\ D!Consumer => DP!Consumer
    /\ D!Adapters => DP!Adapters
    /\ D!Environment => DP!Environment
<1>1. D!Init => DP!Init
  BY Zenon
  DEF D!Channel, DP!Channel, D!CreateRecord, DP!CreateRecord, D!Init, DP!Init,
      D!NoChannels, DP!NoChannels, D!Unset, DP!Unset
<1>2. D!Consumer => DP!Consumer
  BY Zenon
  DEF D!AcceptResult, DP!AcceptResult, D!AddressFor, DP!AddressFor, D!AttemptAfter,
      DP!AttemptAfter, D!Ceiling, DP!Ceiling, D!Channel, DP!Channel, D!ChannelsFor,
      DP!ChannelsFor, D!ConfirmPermanentFailure, DP!ConfirmPermanentFailure,
      D!ConfirmSuccess, DP!ConfirmSuccess, D!Consume, DP!Consume, D!Consumer,
      DP!Consumer, D!CreateRecord, DP!CreateRecord, D!DefaultGlobalChannels,
      DP!DefaultGlobalChannels, D!Dispatch, DP!Dispatch, D!DispatchSubject,
      DP!DispatchSubject, D!Dispatchable, DP!Dispatchable, D!Dispatched, DP!Dispatched,
      D!Exhausted, DP!Exhausted, D!Failed, DP!Failed, D!Fresh, DP!Fresh, D!HandleResult,
      DP!HandleResult, D!IgnoreResult, DP!IgnoreResult, D!Intersect, DP!Intersect,
      D!IsActive, DP!IsActive, D!IsEmpty, DP!IsEmpty, D!MarkAccepted, DP!MarkAccepted,
      D!MarkFailedPermanent, DP!MarkFailedPermanent, D!MarkRetrying, DP!MarkRetrying,
      D!MarkSent, DP!MarkSent, D!Names, DP!Names, D!NewIds, DP!NewIds, D!NewRecord,
      DP!NewRecord, D!NoChannels, DP!NoChannels, D!Recipient, DP!Recipient, D!RecordId,
      DP!RecordId, D!Resolve, DP!Resolve, D!ResultVersion, DP!ResultVersion,
      D!RetryExhausted, DP!RetryExhausted, D!RetryRedispatch, DP!RetryRedispatch,
      D!RetryTooLate, DP!RetryTooLate, D!RetryWithoutPhone, DP!RetryWithoutPhone,
      D!RetryableFailure, DP!RetryableFailure, D!Sent, DP!Sent, D!TaskCommit,
      DP!TaskCommit, D!TaskReadGlobal, DP!TaskReadGlobal, D!TaskRollback,
      DP!TaskRollback, D!TaskStart, DP!TaskStart, D!Terminal, DP!Terminal,
      D!Undeliverable, DP!Undeliverable, D!Unset, DP!Unset, D!adapters, DP!adapters,
      D!database, DP!database, D!snapshots, DP!snapshots
<1>3. D!Adapters => DP!Adapters
  BY Zenon
  DEF D!AdapterConfirm, DP!AdapterConfirm, D!AdapterReceive, DP!AdapterReceive,
      D!AdapterReport, DP!AdapterReport, D!Adapters, DP!Adapters, D!Outcome, DP!Outcome,
      D!Publish, DP!Publish, D!ResultsOf, DP!ResultsOf, D!database, DP!database,
      D!snapshots, DP!snapshots
<1>4. D!Environment => DP!Environment
  BY Zenon
  DEF D!Environment, DP!Environment, D!PreferencesReplaced, DP!PreferencesReplaced,
      D!ProfileChanges, DP!ProfileChanges, D!UserDisabled, DP!UserDisabled, D!adapters,
      DP!adapters, D!database, DP!database
<1>5. QED
  BY <1>1, <1>2, <1>3, <1>4

\* So every step of the whole is one the theorems of Delivery speak of.
LEMMA SameSteps ==
    ASSUME WholeInv, [Next]_vars
    PROVE  [DP!Next]_(DP!vars)
BY StepMap, SameDelivery DEF D!Next, DP!Next, D!vars, DP!vars

\* The specification DeliveryProofs is about.
LEMMA WholeKeepsDelivery == Spec => DP!Spec
<1>1. Init => DP!Init
  BY InitMap, SameDelivery
<1>2. QED
  BY <1>1, SameSteps, WholeNext, WholeInit, PTL DEF Spec, DP!Spec

\* What is proved of Delivery with its abstract environment holds of the whole
\* component: every task leaves a record, every dispatch has an address, a
\* final status stays, and once the snapshot knows that a user is disabled,
\* the tasks taken up afterwards send nothing.
THEOREM DeliveryHoldsOfWhole ==
    Spec => /\ [](DP!NoSilentTask /\ DP!DispatchHasRecipient)
            /\ DP!TerminalIsFinal
            /\ DP!DisabledStopsLaterTasks
            /\ DP!RecordsMoveAsListed
BY WholeKeepsDelivery, DP!EveryTaskLeavesRecord, DP!EveryDispatchHasRecipient,
   DP!FinalStatusIsFinal, DP!DisabledUserIsLeftAlone, DP!WritersAreAsListed,
   DeliveryAssumptions, PTL

\* So do the attempts: the retries of a notification are numbered one by one,
\* giving up as RETRY_EXHAUSTED comes after all of them, nothing keeps an
\* active notification from being confirmed, and an end as sent, refused or
\* exhausted is announced, with any number of adapters.
THEOREM AttemptsOfWhole ==
    Spec => [](/\ DP!DispatchesAreTheAttempts
               /\ DP!ExhaustedAfterEveryRetry
               /\ DP!ActiveRecordCanSettle
               /\ DP!EndsAreAnnounced)
BY WholeKeepsDelivery, DP!RetriesAreNumbered, DP!RetriesAreUsed,
   DP!ActiveRecordsCanSettle, DP!NoSilentEnd, DeliveryAssumptions, PTL

\* With one adapter, as deployed, the whole component keeps the promise of
\* NotificationPromise: every notification is opened once, attempted in order
\* and ends once, the world is told what is stored, and an acceptance is that
\* of the current attempt, whatever the directory publishes and the user
\* prefers meanwhile.
THEOREM WholeKeepsPromise ==
    ASSUME DP!OneAdapter
    PROVE  Spec => /\ [](DP!AnnouncedOutcomeIsStored /\ DP!AcceptedIsCurrentAttempt)
                   /\ DP!KeepsPromise
<1>1. DP!Spec => []DP!AnnouncedOutcomeIsStored
  BY DP!OutcomesAreStored, DeliveryAssumptions
<1>2. DP!Spec => []DP!AcceptedIsCurrentAttempt
  BY DP!AcceptancesAreCurrent, DeliveryAssumptions
<1>3. DP!Spec => DP!KeepsPromise
  BY DP!DeliveryKeepsPromise, DeliveryAssumptions
<1>4. QED
  BY <1>1, <1>2, <1>3, WholeKeepsDelivery, PTL

\* The specification UserContactsProofs is about.
LEMMA WholeKeepsContacts == Spec => CP!Spec
<1>1. Init => CP!Init
  BY Zenon DEF Init, C!Init, CP!Init, C!NoRow, CP!NoRow
<1>2. [Next]_vars => [CP!Next]_(CP!vars)
  BY ContactSteps
  DEF Next, UserEvents, PreferenceRequests, Notifications, vars, contactVars, CP!vars
<1>3. QED
  BY <1>1, <1>2, PTL DEF Spec, CP!Spec

\* The specification PreferencesProofs is about; its send is the task handler's
\* here and does not move.
LEMMA WholeKeepsPreferences == Spec => PP!Spec
<1>1. Init => PP!Init
  BY Zenon DEF Init, PP!Init, Pr!Idle, PP!Idle, PP!NoSend, PP!Unset, Unset,
      PP!NoChannels, NoChannels, PP!Channel, Channel
<1>2. [Next]_vars => [PP!Next]_(PP!vars)
  <2>1. CASE PreferenceRequests
    BY <2>1, PreferenceSteps
  <2>2. CASE UNCHANGED preferenceVars
    BY <2>2 DEF preferenceVars, PP!vars
  <2>3. QED
    BY <2>1, <2>2 DEF Next, UserEvents, Notifications, vars
<1>3. QED
  BY <1>1, <1>2, PTL DEF Spec, PP!Spec

\* What is proved of the other two components holds of them in the whole too:
\* the contacts the task handler reads follow the directory, the layers it
\* reads are at all times those of one stored document, and the requests that
\* compete for the table neither lose to nobody nor wait in a circle.
THEOREM PartsHoldOfWhole ==
    Spec => /\ [](CP!NewestEventIsStored /\ CP!SnapshotOfDirectory)
            /\ CP!ContactNeverRegresses
            /\ CP!FollowsDirectory
            /\ [](PP!StoredIsOneDocument /\ PP!LoserHasWinner)
            /\ [](PP!AnswerIsOwnOrLater /\ PP!WaitedForDoesNotWait)
<1>1. CP!Spec => /\ [](CP!NewestEventIsStored /\ CP!SnapshotOfDirectory)
                 /\ CP!ContactNeverRegresses
                 /\ CP!FollowsDirectory
  BY CP!NewestWins, CP!SnapshotIsDirectory, CP!ContactsNeverRegress,
     CP!ContactsFollowDirectory, ContactAssumptions, PTL
<1>2. PP!Spec => /\ [](PP!StoredIsOneDocument /\ PP!LoserHasWinner)
                 /\ [](PP!AnswerIsOwnOrLater /\ PP!WaitedForDoesNotWait)
  BY PP!DocumentIsStored, PP!LoserLostToWinner, PP!AnswersAreDocuments,
     PP!ReplacementsDoNotDeadlock, PreferenceAssumptions, PTL
<1>3. QED
  BY <1>1, <1>2, WholeKeepsContacts, WholeKeepsPreferences

\* A disabled event was consumed, and no younger event before it.
DisableTaken ==
    \E i \in DOMAIN userInbox[Sub] :
       /\ directory[Sub][userInbox[Sub][i]].kind = "disabled"
       /\ \A j \in 1 .. i - 1 : ~(userInbox[Sub][j] > userInbox[Sub][i])

\* What the README promises of a user who left, as far as the code keeps it:
\* once a disabled event has been consumed ahead of all younger events of the
\* user, the tasks taken up afterwards dispatch nothing, whatever events,
\* requests, tasks and results come later.
THEOREM LeaverIsLeftAlone ==
    ASSUME NEW t \in Task
    PROVE  Spec => [](/\ DisableTaken
                      /\ t \notin taskInbox
                      /\ \A job \in jobs : job.task # t
                      => []DP!Quiet(t))
<1>1. /\ \A u \in {Sub} : CP!LostOnlyIfOvertaken(u)
      /\ DisableTaken /\ t \notin taskInbox /\ \A job \in jobs : job.task # t
      => DP!Untouched(t)
  <2>1. CP!GetContact(Sub).disabled <=> ContactOf(Sub).disabled
    BY DEF ContactOf, C!GetContact, CP!GetContact, C!NoRow, CP!NoRow
  <2>2. (\A u \in {Sub} : CP!LostOnlyIfOvertaken(u)) /\ DisableTaken
          => ContactOf(Sub).disabled
    BY <2>1 DEF DisableTaken, CP!LostOnlyIfOvertaken
  <2>3. QED
    BY <2>2 DEF DP!Untouched
<1>2. CP!Spec => [](\A u \in {Sub} : CP!LostOnlyIfOvertaken(u))
  BY CP!DisableIsLostOnlyIfOvertaken, ContactAssumptions
<1>3. DP!Spec => [](DP!Untouched(t) => []DP!Quiet(t))
  BY DP!UntouchedStaysQuiet, DeliveryAssumptions
<1>4. QED
  BY <1>1, <1>2, <1>3, WholeKeepsContacts, WholeKeepsDelivery, PTL

\* A disabled contact has been disabled by the directory.
DisabledWasPublished ==
    C!GetContact(Sub).disabled =>
       \E k \in DOMAIN directory[Sub] : directory[Sub][k].kind = "disabled"

\* A disabled contact stays the consequence of a published disable.
LEMMA DisabledStep ==
    ASSUME WholeInv, DisabledWasPublished, [Next]_vars
    PROVE  DisabledWasPublished'
<1> DEFINE row == C!GetContact(Sub)
           events == directory[Sub]
<1>1. directory \in [{Sub} -> Seq(CP!Event)] /\ events \in Seq(CP!Event)
  BY DEF WholeInv, CP!TypeOK
<1>2. CASE UNCHANGED contactVars
  BY <1>2 DEF contactVars, DisabledWasPublished, C!GetContact, C!NoRow
<1>3. ASSUME NEW event \in C!Event, C!Publishes(Sub, event)
      PROVE  DisabledWasPublished'
  <2>1. row' = row
    BY <1>3 DEF C!Publishes, C!GetContact, C!NoRow
  <2>2. directory'[Sub] = Append(events, event)
    BY <1>1, <1>3 DEF C!Publishes
  <2>3. \A k \in DOMAIN events : /\ k \in DOMAIN directory'[Sub]
                                 /\ directory'[Sub][k] = events[k]
    BY <1>1, <2>2
  <2>4. QED
    BY <2>1, <2>3 DEF DisabledWasPublished
<1>4. ASSUME NEW r, contacts' = C!Stored(Sub, r)
      PROVE  row' = r
  BY <1>4 DEF C!Stored, C!GetContact
<1>5. ASSUME NEW version \in DOMAIN events, C!UserUpsert(Sub, version)
      PROVE  DisabledWasPublished'
  <2>1. row' = C!UpsertContact(row, events[version].profile, version)
    BY <1>4, <1>5 DEF C!UserUpsert
  <2>2. directory' = directory
    BY <1>5 DEF C!UserUpsert, C!Consume
  <2>3. row'.disabled = row.disabled
    BY <2>1 DEF C!UpsertContact
  <2>4. QED
    BY <2>2, <2>3 DEF DisabledWasPublished
<1>6. ASSUME NEW version \in DOMAIN events, C!UserDisabled(Sub, version)
      PROVE  DisabledWasPublished'
  BY <1>6 DEF C!UserDisabled, C!Consume, DisabledWasPublished
<1>7. QED
  BY <1>2, <1>3, <1>5, <1>6
  DEF Next, UserEvents, PreferenceRequests, Notifications, vars, C!Next

\* A critical notification is suppressed only for a user the directory has
\* disabled, whatever preferences were stored meanwhile: the theorem about
\* Delivery, and what the contact row says of the directory.
THEOREM SuppressedByDirectory == Spec => []SuppressedWasDisabled
<1>1. Init => DisabledWasPublished
  BY DEF Init, C!Init, DisabledWasPublished, C!GetContact, C!NoRow
<1>2. Spec => []DisabledWasPublished
  BY <1>1, WholeInit, WholeNext, DisabledStep, PTL DEF Spec
<1>3. Spec => [](DP!TypeOK /\ DP!SuppressedMeansDisabled)
  BY WholeKeepsDelivery, DP!TypeCorrect, DP!CriticalIsNeverSilenced, DeliveryAssumptions, PTL
<1>4. DisabledWasPublished /\ DP!TypeOK /\ DP!SuppressedMeansDisabled
        => SuppressedWasDisabled
  <2> SUFFICES ASSUME DisabledWasPublished, DP!TypeOK, DP!SuppressedMeansDisabled,
                      NEW id \in DOMAIN records, records[id].status = "SUPPRESSED"
               PROVE  \E k \in DOMAIN directory[Sub] :
                         directory[Sub][k].kind = "disabled"
    BY DEF SuppressedWasDisabled
  <2>1. id.task \in Task
    BY DEF DP!TypeOK, DP!RecordId
  <2>2. DP!Recipient(id) = Sub
    BY <2>1 DEF DP!Recipient
  <2>3. ContactOf(Sub).disabled
    BY <2>2 DEF DP!SuppressedMeansDisabled
  <2>4. QED
    BY <2>3 DEF ContactOf, DisabledWasPublished
<1>5. QED
  BY <1>2, <1>3, <1>4, PTL

----------------------------------------------------------------------------
(* Where a dispatch goes. *)

\* The types and references of Delivery, for the lemmas about its steps.
LEMMA WholeTypeInv == Spec => []DP!TypeInv
<1>1. DP!Init => DP!TypeInv
  BY DP!InitTypeInv, DeliveryAssumptions
<1>2. DP!TypeInv /\ [DP!Next]_(DP!vars) => DP!TypeInv'
  BY DP!NextTypeInv, DeliveryAssumptions
<1>3. QED
  BY <1>1, <1>2, WholeKeepsDelivery, PTL DEF DP!Spec

\* An address of a consumed event, or none.
KnownPhone(phone) ==
    phone # "" =>
       \E seen \in C!Consumed(Sub) : phone = directory[Sub][seen].profile.phone

KnownEmail(email) ==
    email # "" =>
       \E seen \in C!Consumed(Sub) : email = directory[Sub][seen].profile.email

Known(contact) == KnownPhone(contact.phone) /\ KnownEmail(contact.email)

\* A consumed event stays consumed and stays what it is.
LEMMA ConsumedStays ==
    ASSUME WholeInv, [Next]_vars
    PROVE  /\ C!Consumed(Sub) \subseteq C!Consumed(Sub)'
           /\ \A seen \in C!Consumed(Sub) : directory'[Sub][seen] = directory[Sub][seen]
<1>1. /\ directory \in [{Sub} -> Seq(CP!Event)] /\ directory[Sub] \in Seq(CP!Event)
      /\ userInbox \in [{Sub} -> Seq(Nat)] /\ userInbox[Sub] \in Seq(Nat)
      /\ C!Consumed(Sub) \subseteq DOMAIN directory[Sub]
  BY DEF WholeInv, CP!TypeOK, C!Consumed, CP!Consumed, C!Range, CP!Range
<1>2. CASE UNCHANGED contactVars
  BY <1>2 DEF contactVars, C!Consumed, C!Range
<1>3. ASSUME NEW event \in C!Event, C!Publishes(Sub, event)
      PROVE  /\ C!Consumed(Sub) = C!Consumed(Sub)'
             /\ \A seen \in DOMAIN directory[Sub] : directory'[Sub][seen] = directory[Sub][seen]
  <2>1. directory'[Sub] = Append(directory[Sub], event) /\ userInbox' = userInbox
    BY <1>1, <1>3 DEF C!Publishes
  <2>2. QED
    BY <1>1, <2>1 DEF C!Consumed, C!Range
<1>4. ASSUME NEW version \in DOMAIN directory[Sub], C!Consume(Sub, version)
      PROVE  /\ C!Consumed(Sub) \subseteq C!Consumed(Sub)'
             /\ directory' = directory
  <2>1. userInbox'[Sub] = Append(userInbox[Sub], version) /\ directory' = directory
    BY <1>1, <1>4 DEF C!Consume
  <2>2. version \in Nat
    BY <1>1
  <2>3. CP!Range(Append(userInbox[Sub], version)) = CP!Range(userInbox[Sub]) \cup {version}
    BY <1>1, <2>2, CP!RangeOfAppend, ContactAssumptions
  <2>4. QED
    BY <2>1, <2>3 DEF C!Consumed, C!Range, CP!Range
<1>5. QED
  BY <1>1, <1>2, <1>3, <1>4
  DEF Next, UserEvents, PreferenceRequests, Notifications, vars, C!Next,
      C!UserUpsert, C!UserDisabled

\* An address once published stays published.
LEMMA KnownStays ==
    ASSUME WholeInv, [Next]_vars
    PROVE  /\ \A phone : KnownPhone(phone) => KnownPhone(phone)'
           /\ \A email : KnownEmail(email) => KnownEmail(email)'
           /\ \A contact : Known(contact) => Known(contact)'
BY ConsumedStays DEF Known, KnownPhone, KnownEmail

\* The contact row says what a consumed event said.
LEMMA ContactKnown ==
    ASSUME WholeInv, Known(ContactOf(Sub)), [Next]_vars
    PROVE  Known(ContactOf(Sub))'
<1> DEFINE row == C!GetContact(Sub)
<1>1. ASSUME ContactOf(Sub)'.phone = ContactOf(Sub).phone,
             ContactOf(Sub)'.email = ContactOf(Sub).email
      PROVE  Known(ContactOf(Sub))'
  BY <1>1, ConsumedStays DEF Known, KnownPhone, KnownEmail
<1>2. CASE UNCHANGED contacts
  BY <1>1, <1>2 DEF ContactOf, C!GetContact, C!NoRow
<1>3. ASSUME NEW r, contacts' = C!Stored(Sub, r) PROVE row' = r
  BY <1>3 DEF C!Stored, C!GetContact
<1>4. ASSUME NEW version \in DOMAIN directory[Sub], C!UserUpsert(Sub, version)
      PROVE  Known(ContactOf(Sub))'
  <2>1. row' = C!UpsertContact(row, directory[Sub][version].profile, version)
    BY <1>3, <1>4 DEF C!UserUpsert
  <2>2. CASE row' = row
    BY <1>1, <2>2 DEF ContactOf
  <2>3. CASE row'.profile = directory[Sub][version].profile
    <3>1. directory' = directory /\ version \in C!Consumed(Sub)'
      <4>1. /\ userInbox \in [{Sub} -> Seq(Nat)] /\ userInbox[Sub] \in Seq(Nat)
            /\ version \in Nat
        BY DEF WholeInv, CP!TypeOK
      <4>2. userInbox'[Sub] = Append(userInbox[Sub], version) /\ directory' = directory
        BY <1>4, <4>1 DEF C!UserUpsert, C!Consume
      <4>3. version \in CP!Range(Append(userInbox[Sub], version))
        BY <4>1, CP!RangeOfAppend, ContactAssumptions
      <4>4. QED
        BY <4>2, <4>3 DEF C!Consumed, C!Range, CP!Range
    <3>2. /\ ContactOf(Sub)'.phone = directory[Sub][version].profile.phone
          /\ ContactOf(Sub)'.email = directory[Sub][version].profile.email
      BY <2>3 DEF ContactOf
    <3>3. QED
      BY <3>1, <3>2 DEF Known, KnownPhone, KnownEmail
  <2>4. QED
    BY <2>1, <2>2, <2>3 DEF C!UpsertContact
<1>5. ASSUME NEW version \in DOMAIN directory[Sub], C!UserDisabled(Sub, version)
      PROVE  Known(ContactOf(Sub))'
  <2>1. row' = C!SetContactDisabled(row, version)
    BY <1>3, <1>5 DEF C!UserDisabled
  <2>2. row = CP!GetContact(Sub)
    BY Zenon DEF C!GetContact, CP!GetContact, C!NoRow, CP!NoRow
  <2>3. row \in CP!Contact
    BY <2>2, CP!RowType, ContactAssumptions DEF WholeInv
  <2>4. row'.profile = row.profile
    BY <2>1, <2>3 DEF C!SetContactDisabled, CP!Contact
  <2>5. QED
    BY <1>1, <2>4 DEF ContactOf
<1>6. QED
  BY <1>2, <1>4, <1>5
  DEF Next, UserEvents, PreferenceRequests, Notifications, vars, contactVars, C!Next,
      C!Publishes

AddressInv ==
    /\ Known(ContactOf(Sub))
    /\ \A job \in jobs : Known(job.contact)
    /\ DispatchGoesWhereDirectorySaid

\* No step brings in a contact address that was not published.
LEMMA AddressStep ==
    ASSUME WholeInv, DP!TypeInv, AddressInv, [Next]_vars
    PROVE  AddressInv'
<1>1. Known(ContactOf(Sub)) /\ Known(ContactOf(Sub))'
  BY ContactKnown DEF AddressInv
<1>2. ASSUME NEW job \in jobs' PROVE Known(job.contact)'
  <2>1. CASE job \in jobs
    BY <2>1, KnownStays DEF AddressInv
  <2>2. CASE job \notin jobs
    <3>1. \/ job.contact = ContactOf(Sub)
          \/ \E old \in jobs : job.contact = old.contact
      BY <2>2, SameSteps, DP!JobsRead, DeliveryAssumptions
    <3>2. Known(job.contact)
      BY <1>1, <3>1 DEF AddressInv
    <3>3. QED
      BY <3>2, KnownStays
  <2>3. QED
    BY <2>1, <2>2
<1>3. ASSUME NEW row \in outbox', D!IsDispatch(row)
      PROVE  \E seen \in C!Consumed(Sub)' :
                row.to = IF row.subject = "dispatch.im"
                         THEN directory'[Sub][seen].profile.phone
                         ELSE directory'[Sub][seen].profile.email
  <2>1. CASE row \in outbox
    <3>1. PICK seen \in C!Consumed(Sub) :
             row.to = IF row.subject = "dispatch.im"
                      THEN directory[Sub][seen].profile.phone
                      ELSE directory[Sub][seen].profile.email
      BY <1>3, <2>1 DEF AddressInv, DispatchGoesWhereDirectorySaid
    <3>2. QED
      BY <3>1, ConsumedStays
  <2>2. CASE row \notin outbox
    <3>1. DP!IsDispatch(row)
      BY <1>3 DEF D!IsDispatch, DP!IsDispatch
    <3>2. /\ row.to # ""
          /\ \E contact \in {job.contact : job \in jobs} \cup {ContactOf(Sub)} :
                row.to = IF row.subject = "dispatch.im" THEN contact.phone
                                                        ELSE contact.email
      BY <2>2, <3>1, SameSteps, DP!DispatchesAddressed, DeliveryAssumptions
    <3>3. PICK contact : /\ Known(contact)
                         /\ row.to = IF row.subject = "dispatch.im" THEN contact.phone
                                                                    ELSE contact.email
      BY <1>1, <3>2 DEF AddressInv
    <3>4. Known(contact)'
      BY <3>3, KnownStays
    <3>5. QED
      BY <3>2, <3>3, <3>4 DEF Known, KnownPhone, KnownEmail
  <2>3. QED
    BY <2>1, <2>2
<1>4. DispatchGoesWhereDirectorySaid'
  BY <1>3 DEF DispatchGoesWhereDirectorySaid, D!IsDispatch
<1>5. QED
  BY <1>1, <1>2, <1>4 DEF AddressInv

\* A dispatch, first or repeated, goes to an address that the directory
\* published and the snapshot took up, whatever happens between the read of
\* the contact and the commit.
THEOREM AddressesArePublished == Spec => []DispatchGoesWhereDirectorySaid
<1>1. Init => AddressInv
  BY DEF Init, C!Init, AddressInv, Known, KnownPhone, KnownEmail, ContactOf,
     C!GetContact, C!NoRow, NoProfile, DispatchGoesWhereDirectorySaid
<1>2. AddressInv => DispatchGoesWhereDirectorySaid
  BY DEF AddressInv
<1>3. QED
  BY <1>1, <1>2, AddressStep, WholeInit, WholeNext, WholeTypeInv, PTL DEF Spec

----------------------------------------------------------------------------
(* Which channels are used. *)

\* The global list of a committed document.
Committed(channels) == \E i \in DOMAIN log : channels = tx[log[i]].document.global

\* The log of committed documents grows and is never rewritten.
LEMMA CommittedGrows ==
    ASSUME WholeInv, [Next]_vars, NEW i \in DOMAIN log
    PROVE  /\ i \in DOMAIN log' /\ log'[i] = log[i]
           /\ tx'[log[i]].document = tx[log[i]].document
<1>1. CASE PreferenceRequests
  BY <1>1, PreferenceSteps, PP!CommittedStays, PreferenceAssumptions DEF WholeInv
<1>2. CASE UNCHANGED preferenceVars
  BY <1>2 DEF preferenceVars
<1>3. QED
  BY <1>1, <1>2 DEF Next, UserEvents, Notifications, vars

ChosenInv ==
    /\ \A job \in jobs : job.global.set => Committed(job.global.channels)
    /\ ChannelWasChosen

\* No step creates a record on a channel nobody chose.
LEMMA ChosenStep ==
    ASSUME WholeInv, DP!TypeInv, ChosenInv, [Next]_vars
    PROVE  ChosenInv'
<1>1. \A channels : Committed(channels) => Committed(channels)'
  BY CommittedGrows DEF Committed
<1>2. DP!Unset.set = FALSE
  BY DEF DP!Unset
<1>3. Pr!LayerOf(Pr!Global).set => Committed(Pr!LayerOf(Pr!Global).channels)
  <2>1. Pr!LayerOf(Pr!Global) = PP!LayerOf(PP!Global)
    BY Zenon DEF Pr!LayerOf, PP!LayerOf, Pr!Global, PP!Global, Pr!Unset, PP!Unset,
        Pr!NoChannels, PP!NoChannels, Pr!Channel, PP!Channel
  <2>2. QED
    BY <2>1, PP!GlobalWasCommitted, PreferenceAssumptions DEF WholeInv, Committed
<1>4. ASSUME NEW job \in jobs', job.global.set
      PROVE  Committed(job.global.channels)'
  <2>1. CASE job \in jobs
    BY <1>1, <1>4, <2>1 DEF ChosenInv
  <2>2. CASE job \notin jobs
    <3>1. job.global = DP!Unset \/ job.global = Pr!LayerOf(Pr!Global)
      BY <2>2, SameSteps, DP!JobsRead, DeliveryAssumptions
    <3>2. Committed(job.global.channels)
      BY <1>2, <1>3, <1>4, <3>1
    <3>3. QED
      BY <1>1, <3>2
  <2>3. QED
    BY <2>1, <2>2
<1>5. /\ DP!DefaultGlobalChannels = DefaultGlobalChannels
      /\ \A list : DP!Names(list) = Names(list)
  BY Zenon DEF DP!DefaultGlobalChannels, DefaultGlobalChannels, DP!Names, Names,
      DP!Channel, Channel
<1>6. ASSUME NEW id \in DOMAIN records', id.channel \notin Names(DefaultGlobalChannels)
      PROVE  \E i \in DOMAIN log' : id.channel \in Names(tx'[log'[i]].document.global)
  <2>1. \E i \in DOMAIN log : id.channel \in Names(tx[log[i]].document.global)
    <3>1. CASE id \in DOMAIN records
      BY <1>6, <3>1 DEF ChosenInv, ChannelWasChosen
    <3>2. CASE id \notin DOMAIN records
      <4>1. PICK job \in jobs : job.global.set /\ id.channel \in Names(job.global.channels)
        BY <1>5, <1>6, <3>2, SameSteps, DP!RecordsChosen, DeliveryAssumptions
      <4>2. QED
        BY <4>1 DEF ChosenInv, Committed
    <3>3. QED
      BY <3>1, <3>2
  <2>2. QED
    BY <2>1, CommittedGrows
<1>7. ChannelWasChosen'
  BY <1>6 DEF ChannelWasChosen, Names, DefaultGlobalChannels, Channel
<1>8. QED
  BY <1>4, <1>7 DEF ChosenInv

\* No notification goes over a channel that every stored document of the user
\* switched off, although the two layers are read one after the other and may
\* be those of different documents.
THEOREM ChannelsAreChosen == Spec => []ChannelWasChosen
<1>1. Init => ChosenInv
  BY DEF Init, ChosenInv, ChannelWasChosen
<1>2. ChosenInv => ChannelWasChosen
  BY DEF ChosenInv
<1>3. QED
  BY <1>1, <1>2, ChosenStep, WholeInit, WholeNext, WholeTypeInv, PTL DEF Spec
=============================================================================
