------------------------- MODULE UserContactsProofs -------------------------
(***************************************************************************)
(* What the contact snapshot guarantees for every set of users, and for    *)
(* every length of their histories.                                        *)
(***************************************************************************)
EXTENDS UserContacts, TLAPS

----------------------------------------------------------------------------
(* The parts of a step. *)

\* Appending to a sequence adds to its range.
LEMMA RangeOfAppend ==
    ASSUME NEW S, NEW s \in Seq(S), NEW e \in S
    PROVE  /\ Append(s, e) \in Seq(S)
           /\ Range(Append(s, e)) = Range(s) \cup {e}
<1>1. Append(s, e) \in Seq(S) /\ Len(Append(s, e)) = Len(s) + 1
  OBVIOUS
<1>2. \A i \in 1 .. Len(s) : Append(s, e)[i] = s[i]
  OBVIOUS
<1>3. Append(s, e)[Len(s) + 1] = e
  OBVIOUS
<1>4. /\ DOMAIN s = 1 .. Len(s) /\ Len(s) \in Nat
      /\ DOMAIN Append(s, e) = 1 .. Len(s) + 1
  BY <1>1
<1>5. 1 .. Len(s) + 1 = (1 .. Len(s)) \cup {Len(s) + 1}
  BY <1>4
<1>6. QED
  BY <1>1, <1>2, <1>3, <1>4, <1>5 DEF Range

\* The row of a user is a contact, whether it is stored or not.
LEMMA RowType ==
    ASSUME TypeOK, NEW u \in User
    PROVE  /\ GetContact(u) \in Contact
           /\ u \notin DOMAIN contacts => GetContact(u) = NoRow
           /\ u \in DOMAIN contacts =>
                 /\ GetContact(u) = contacts[u]
                 /\ GetContact(u).version \in DOMAIN directory[u]
BY DEF TypeOK, GetContact, NoRow, Contact

\* The two statements return a contact, no older than the row they find.
LEMMA StatementsType ==
    ASSUME NEW row \in Contact, NEW version \in Nat,
           NEW profile \in Profile \cup {NoProfile}
    PROVE  /\ UpsertContact(row, profile, version) \in Contact
           /\ SetContactDisabled(row, version) \in Contact
BY DEF UpsertContact, SetContactDisabled, Contact

\* The row after the event of version v was handled.
RowAfter(u, v) ==
    IF directory[u][v].kind = "disabled"
    THEN SetContactDisabled(GetContact(u), v)
    ELSE UpsertContact(GetContact(u), directory[u][v].profile, v)

\* The handlers of the three subjects rewrite one row and one inbox.
Handles(u, v) ==
    /\ v \in DOMAIN directory[u]
    /\ Fresh(u, v)
    /\ directory' = directory
    /\ inbox' = [inbox EXCEPT ![u] = Append(@, v)]
    /\ contacts' = Stored(u, RowAfter(u, v))

\* Whichever handler runs, it is described by Handles.
LEMMA HandlersHandle ==
    ASSUME NEW u \in User, NEW v \in DOMAIN directory[u],
           UserUpsert(u, v) \/ UserDisabled(u, v)
    PROVE  Handles(u, v)
BY DEF UserUpsert, UserDisabled, Consume, Handles, RowAfter

\* The row of the user after a handler, the rows of all others as before.
LEMMA RowStep ==
    ASSUME TypeOK, NEW u \in User, NEW v, Handles(u, v)
    PROVE  /\ v \in Nat \ {0}
           /\ RowAfter(u, v) \in Contact
           /\ GetContact(u)' = RowAfter(u, v)
           /\ Consumed(u)' = Consumed(u) \cup {v}
           /\ inbox'[u] = Append(inbox[u], v)
           /\ \A w \in User \ {u} :
                 /\ inbox'[w] = inbox[w]
                 /\ Consumed(w)' = Consumed(w)
                 /\ GetContact(w)' = GetContact(w)
<1>1. /\ directory[u] \in Seq(Event) /\ inbox[u] \in Seq(Nat)
      /\ inbox \in [User -> Seq(Nat)]
  BY DEF TypeOK
<1>2. v \in Nat \ {0} /\ directory[u][v] \in Event
  BY <1>1 DEF Handles
<1>3. RowAfter(u, v) \in Contact
  BY <1>2, RowType, StatementsType DEF RowAfter, Event
<1>4. /\ inbox'[u] = Append(inbox[u], v)
      /\ \A w \in User \ {u} : inbox'[w] = inbox[w]
  BY <1>1 DEF Handles
<1>5. Consumed(u)' = Consumed(u) \cup {v}
  BY <1>1, <1>2, <1>4, RangeOfAppend DEF Consumed
<1>6. GetContact(u)' = RowAfter(u, v)
  BY DEF GetContact, Handles, Stored
<1>7. \A w \in User \ {u} : GetContact(w)' = GetContact(w)
  BY DEF GetContact, Handles, Stored
<1>8. \A w \in User \ {u} : Consumed(w)' = Consumed(w)
  BY <1>4 DEF Consumed
<1>9. QED
  BY <1>2, <1>3, <1>4, <1>5, <1>6, <1>7, <1>8

\* A published event leaves what was published before in its place.
LEMMA PublishStep ==
    ASSUME TypeOK, NEW u \in User, NEW event \in Event, Publishes(u, event)
    PROVE  /\ directory' \in [User -> Seq(Event)]
           /\ \A w \in User :
                 /\ DOMAIN directory[w] \subseteq DOMAIN directory'[w]
                 /\ \A k \in DOMAIN directory[w] : directory'[w][k] = directory[w][k]
<1>1. directory \in [User -> Seq(Event)] /\ directory[u] \in Seq(Event)
  BY DEF TypeOK
<1>2. /\ Append(directory[u], event) \in Seq(Event)
      /\ DOMAIN directory[u] \subseteq DOMAIN Append(directory[u], event)
      /\ \A k \in DOMAIN directory[u] :
            Append(directory[u], event)[k] = directory[u][k]
  BY <1>1
<1>3. /\ directory'[u] = Append(directory[u], event)
      /\ \A w \in User \ {u} : directory'[w] = directory[w]
      /\ directory' \in [User -> Seq(Event)]
  BY <1>1, <1>2 DEF Publishes
<1>4. QED
  BY <1>2, <1>3

----------------------------------------------------------------------------
(* Types. *)

\* The empty tables are well typed.
LEMMA InitType == Init => TypeOK
<1> SUFFICES ASSUME Init PROVE TypeOK
    OBVIOUS
<1>1. <<>> \in Seq(Event) /\ <<>> \in Seq(Nat)
  OBVIOUS
<1>2. \A u \in User : Consumed(u) = {}
  BY DEF Init, Consumed, Range
<1>3. QED
  BY <1>1, <1>2 DEF Init, TypeOK

\* The new version of a row is the one found or the one of the event.
LEMMA VersionAfter ==
    ASSUME TypeOK, NEW u \in User, NEW v, Handles(u, v)
    PROVE  RowAfter(u, v).version \in DOMAIN directory[u]
<1>1. CASE GetContact(u).version < v
  BY <1>1, RowType
     DEF RowAfter, UpsertContact, SetContactDisabled, Handles, Contact
<1>2. CASE ~(GetContact(u).version < v)
  <2>1. GetContact(u).version # 0
    BY <1>2, RowStep, RowType DEF Contact
  <2>2. u \in DOMAIN contacts
    BY <2>1, RowType DEF NoRow
  <2>3. RowAfter(u, v) = GetContact(u)
    BY <1>2 DEF RowAfter, UpsertContact, SetContactDisabled
  <2>4. QED
    BY <2>2, <2>3, RowType
<1>3. QED
  BY <1>1, <1>2

\* Publishing and handling keep the types.
LEMMA NextType == TypeOK /\ [Next]_vars => TypeOK'
<1> SUFFICES ASSUME TypeOK, [Next]_vars PROVE TypeOK'
    OBVIOUS
<1>1. ASSUME NEW u \in User, NEW event \in Event, Publishes(u, event)
      PROVE  TypeOK'
  <2>1. \A w \in User : Consumed(w)' = Consumed(w)
    BY <1>1 DEF Publishes, Consumed
  <2>2. \A w \in User : Consumed(w)' \subseteq DOMAIN directory'[w]
    BY <1>1, <2>1, PublishStep DEF TypeOK
  <2>3. QED
    BY <1>1, <2>2, PublishStep DEF TypeOK, Publishes
<1>2. ASSUME NEW u \in User, NEW v, Handles(u, v)
      PROVE  TypeOK'
  <2>1. directory' = directory /\ v \in DOMAIN directory[u]
    BY <1>2 DEF Handles
  <2>2. inbox' \in [User -> Seq(Nat)]
    <3>1. Append(inbox[u], v) \in Seq(Nat)
      BY <1>2, RowStep, RangeOfAppend DEF TypeOK
    <3>2. QED
      BY <1>2, <3>1 DEF TypeOK, Handles
  <2>3. \A w \in User : Consumed(w)' \subseteq DOMAIN directory'[w]
    <3>1. \A w \in User : Consumed(w) \subseteq DOMAIN directory[w]
      BY DEF TypeOK
    <3>2. /\ Consumed(u)' = Consumed(u) \cup {v}
          /\ \A w \in User \ {u} : Consumed(w)' = Consumed(w)
      BY <1>2, RowStep
    <3>3. QED
      BY <2>1, <3>1, <3>2
  <2>4. /\ DOMAIN contacts' = DOMAIN contacts \cup {u}
        /\ contacts'[u] = RowAfter(u, v)
        /\ \A w \in DOMAIN contacts \ {u} : contacts'[w] = contacts[w]
        /\ contacts' = [w \in DOMAIN contacts' |-> contacts'[w]]
    BY <1>2 DEF Handles, Stored
  <2>5. contacts' \in [DOMAIN contacts' -> Contact]
    BY <1>2, <2>4, RowStep DEF TypeOK
  <2>6. \A w \in DOMAIN contacts' : contacts'[w].version \in DOMAIN directory'[w]
    BY <1>2, <2>1, <2>4, VersionAfter DEF TypeOK
  <2>7. QED
    BY <2>1, <2>2, <2>3, <2>4, <2>5, <2>6 DEF TypeOK
<1>3. CASE UNCHANGED vars
  BY <1>3 DEF vars, TypeOK, Consumed
<1>4. QED
  BY <1>1, <1>2, <1>3, HandlersHandle DEF Next

\* user_contacts holds one contact for each user heard of, at a version the
\* directory published; event_inbox holds published versions only.
THEOREM ContactsTypeCorrect == Spec => []TypeOK
<1>1. Init => TypeOK
  BY InitType
<1>2. TypeOK /\ [Next]_vars => TypeOK'
  BY NextType
<1>3. QED
  BY <1>1, <1>2, PTL DEF Spec

----------------------------------------------------------------------------
(* The row is the newest event. *)

\* What NewestEventIsStored says of one user, and that a row has a cause.
Newest(u) ==
    LET row == GetContact(u)
    IN  /\ u \in DOMAIN contacts => Consumed(u) # {}
        /\ \A seen \in Consumed(u) : seen <= row.version
        /\ Consumed(u) # {} =>
              /\ row.version \in Consumed(u)
              /\ IF directory[u][row.version].kind = "disabled"
                 THEN row.disabled
                 ELSE row.profile = directory[u][row.version].profile

\* A handler leaves its own event behind if it is the newest, and otherwise
\* finds the newest in its place.
LEMMA NewestStep ==
    ASSUME TypeOK, NEW u \in User, NEW v, Handles(u, v), Newest(u)
    PROVE  Newest(u)'
<1> DEFINE row == GetContact(u)
<1>1. /\ row \in Contact /\ v \in Nat \ {0} /\ directory' = directory
      /\ row' = RowAfter(u, v) /\ Consumed(u)' = Consumed(u) \cup {v}
  BY RowType, RowStep DEF Handles
<1>2. \A seen \in Consumed(u) : seen \in Nat /\ seen <= row.version
  <2>1. Consumed(u) \subseteq DOMAIN directory[u] /\ directory[u] \in Seq(Event)
    BY DEF TypeOK
  <2>2. QED
    BY <2>1 DEF Newest
<1>3. CASE row.version < v
  <2>1. row'.version = v
    BY <1>1, <1>3 DEF RowAfter, UpsertContact, SetContactDisabled, Contact
  <2>2. IF directory[u][v].kind = "disabled"
        THEN row'.disabled ELSE row'.profile = directory[u][v].profile
    BY <1>1, <1>3 DEF RowAfter, UpsertContact, SetContactDisabled, Contact
  <2>3. \A seen \in Consumed(u)' : seen <= row'.version
    BY <1>1, <1>2, <1>3, <2>1 DEF Contact
  <2> HIDE DEF row
  <2>4. QED
    BY <1>1, <2>1, <2>2, <2>3 DEF Newest, row
<1>4. CASE ~(row.version < v)
  <2>1. row' = row /\ v <= row.version
    BY <1>1, <1>4 DEF RowAfter, UpsertContact, SetContactDisabled, Contact
  <2>2. Consumed(u) # {}
    <3>1. SUFFICES ASSUME Consumed(u) = {} PROVE FALSE
      OBVIOUS
    <3>2. u \in DOMAIN contacts
      BY <1>1, <2>1, RowType DEF NoRow, Contact
    <3>3. QED
      BY <3>1, <3>2 DEF Newest
  <2> HIDE DEF row
  <2>3. QED
    BY <1>1, <1>2, <2>1, <2>2 DEF Newest, row
<1>5. QED
  BY <1>3, <1>4

\* Every step keeps the newest event of every user in the row.
LEMMA NewestNext ==
    ASSUME TypeOK, [Next]_vars, NEW w \in User, Newest(w)
    PROVE  Newest(w)'
<1>1. ASSUME NEW u \in User, NEW event \in Event, Publishes(u, event)
      PROVE  Newest(w)'
  <2>1. /\ Consumed(w)' = Consumed(w) /\ GetContact(w)' = GetContact(w)
        /\ contacts' = contacts
    BY <1>1 DEF Publishes, Consumed, GetContact
  <2>2. \A k \in DOMAIN directory[w] : directory'[w][k] = directory[w][k]
    BY <1>1, PublishStep
  <2>3. Consumed(w) \subseteq DOMAIN directory[w]
    BY DEF TypeOK
  <2>4. QED
    BY <2>1, <2>2, <2>3 DEF Newest
<1>2. ASSUME NEW u \in User, NEW v, Handles(u, v), u # w
      PROVE  Newest(w)'
  <2>1. /\ Consumed(w)' = Consumed(w) /\ GetContact(w)' = GetContact(w)
        /\ directory' = directory
        /\ (w \in DOMAIN contacts' <=> w \in DOMAIN contacts)
    BY <1>2, RowStep DEF Handles, Stored
  <2>2. QED
    BY <2>1 DEF Newest
<1>3. CASE UNCHANGED vars
  BY <1>3 DEF vars, Newest, Consumed, GetContact
<1>4. ASSUME NEW v, Handles(w, v)
      PROVE  Newest(w)'
  BY <1>4, NewestStep
<1>5. QED
  BY <1>1, <1>2, <1>3, <1>4, HandlersHandle DEF Next

\* The invariant the theorems below share.
ContactsInv == TypeOK /\ \A u \in User : Newest(u)

\* It holds of the empty tables and every step keeps it.
LEMMA ContactsInvariant == Spec => []ContactsInv
<1>1. Init => ContactsInv
  <2> SUFFICES ASSUME Init PROVE ContactsInv
    OBVIOUS
  <2>1. \A u \in User : Consumed(u) = {} /\ u \notin DOMAIN contacts
    BY DEF Init, Consumed, Range
  <2>2. QED
    BY <2>1, InitType DEF ContactsInv, Newest
<1>2. ContactsInv /\ [Next]_vars => ContactsInv'
  BY NextType, NewestNext DEF ContactsInv
<1>3. QED
  BY <1>1, <1>2, PTL DEF Spec

\* Whatever order the three subjects arrive in, and however often, the row of
\* a user is at the highest version consumed and says what that event said.
THEOREM NewestWins == Spec => []NewestEventIsStored
<1>1. ContactsInv => NewestEventIsStored
  BY DEF ContactsInv, Newest, NewestEventIsStored
<1>2. QED
  BY <1>1, ContactsInvariant, PTL

----------------------------------------------------------------------------
(* Rows do not go back. *)

\* A statement returns the row it found, or a younger one that is disabled
\* if the old one was.
LEMMA RowAfterIsLater ==
    ASSUME TypeOK, NEW u \in User, NEW v, Handles(u, v)
    PROVE  /\ RowAfter(u, v).version >= GetContact(u).version
           /\ RowAfter(u, v) # GetContact(u) =>
                 RowAfter(u, v).version > GetContact(u).version
           /\ GetContact(u).disabled => RowAfter(u, v).disabled
<1>1. GetContact(u) \in Contact /\ v \in Nat
  BY RowType, RowStep
<1>2. QED
  BY <1>1 DEF RowAfter, UpsertContact, SetContactDisabled, Contact

\* What ContactNeverRegresses says of one step.
LEMMA RegressStep ==
    ASSUME TypeOK, [Next]_vars, NEW w \in DOMAIN contacts
    PROVE  /\ w \in DOMAIN contacts'
           /\ contacts'[w].version >= contacts[w].version
           /\ contacts'[w] # contacts[w] => contacts'[w].version > contacts[w].version
           /\ contacts[w].disabled => contacts'[w].disabled
<1>1. contacts[w] \in Contact /\ contacts[w].version \in Nat
  BY DEF TypeOK, Contact
<1>2. CASE contacts' = contacts
  BY <1>1, <1>2
<1>3. ASSUME NEW u \in User, NEW v, Handles(u, v), u # w
      PROVE  w \in DOMAIN contacts' /\ contacts'[w] = contacts[w]
  BY <1>3 DEF Handles, Stored
<1>4. ASSUME NEW v, Handles(w, v)
      PROVE  /\ w \in DOMAIN contacts' /\ contacts'[w] = RowAfter(w, v)
             /\ contacts[w] = GetContact(w) /\ w \in User
  BY <1>4 DEF Handles, Stored, GetContact, TypeOK
<1>5. QED
  BY <1>1, <1>2, <1>3, <1>4, HandlersHandle, RowAfterIsLater DEF Next, Publishes, vars

\* No step takes a contact back to an older version, rewrites it under the
\* same version or enables a disabled user.
THEOREM ContactsNeverRegress == Spec => ContactNeverRegresses
<1>1. TypeOK /\ [Next]_vars =>
         [\A u \in DOMAIN contacts :
             /\ u \in DOMAIN contacts'
             /\ contacts'[u].version >= contacts[u].version
             /\ contacts'[u] # contacts[u] => contacts'[u].version > contacts[u].version
             /\ contacts[u].disabled => contacts'[u].disabled]_vars
  BY RegressStep
<1>2. QED
  BY <1>1, ContactsTypeCorrect, PTL DEF Spec, ContactNeverRegresses

----------------------------------------------------------------------------
(* The row is the directory, while events come in order. *)

\* What SnapshotOfDirectory says of one user.
Snapshot(u) ==
    LET row == GetContact(u)
        past == 1 .. row.version
    IN  InOrder(u) =>
        /\ row.disabled <=> \E k \in past : directory[u][k].kind = "disabled"
        /\ \A k \in past :
              /\ directory[u][k].kind # "disabled"
              /\ \A later \in past :
                    later > k => directory[u][later].kind = "disabled"
              => row.profile = directory[u][k].profile

\* In order means that the version of the row counts the events consumed.
LEMMA VersionIsLength ==
    ASSUME TypeOK, NEW u \in User, Newest(u), InOrder(u)
    PROVE  GetContact(u).version = Len(inbox[u])
<1>1. inbox[u] \in Seq(Nat) /\ GetContact(u).version \in Nat
  BY RowType DEF TypeOK, Contact
<1>2. DOMAIN inbox[u] = 1 .. Len(inbox[u]) /\ Len(inbox[u]) \in Nat
  BY <1>1
<1>3. Consumed(u) = 1 .. Len(inbox[u])
  BY <1>2 DEF InOrder, Consumed, Range
<1>4. CASE Len(inbox[u]) = 0
  <2>1. u \notin DOMAIN contacts
    BY <1>3, <1>4 DEF Newest
  <2>2. QED
    BY <1>4, <2>1, RowType DEF NoRow
<1>5. CASE Len(inbox[u]) # 0
  <2>1. Len(inbox[u]) \in Consumed(u)
    BY <1>2, <1>3, <1>5
  <2>2. QED
    BY <1>1, <1>2, <1>3, <2>1 DEF Newest
<1>6. QED
  BY <1>4, <1>5

\* An event that continues the order is the one after the row's version.
LEMMA NextInOrder ==
    ASSUME TypeOK, NEW u \in User, NEW v, Handles(u, v), Newest(u), InOrder(u)'
    PROVE  InOrder(u) /\ v = GetContact(u).version + 1
<1>1. inbox[u] \in Seq(Nat) /\ inbox'[u] = Append(inbox[u], v) /\ v \in Nat
  BY RowStep DEF TypeOK
<1>2. /\ DOMAIN inbox[u] = 1 .. Len(inbox[u]) /\ Len(inbox[u]) \in Nat
      /\ DOMAIN inbox'[u] = 1 .. Len(inbox[u]) + 1
      /\ \A i \in 1 .. Len(inbox[u]) : inbox'[u][i] = inbox[u][i]
      /\ inbox'[u][Len(inbox[u]) + 1] = v
  BY <1>1
<1>3. InOrder(u) /\ v = Len(inbox[u]) + 1
  BY <1>2 DEF InOrder
<1>4. QED
  BY <1>3, VersionIsLength

\* The next event of the directory is applied to the state before it.
LEMMA SnapshotStep ==
    ASSUME TypeOK, NEW u \in User, NEW v, Handles(u, v), Newest(u), Snapshot(u)
    PROVE  Snapshot(u)'
<1> SUFFICES ASSUME InOrder(u)' PROVE Snapshot(u)'
  BY DEF Snapshot
<1> DEFINE row == GetContact(u)
           n == row.version
<1>1. /\ InOrder(u) /\ v = n + 1 /\ n \in Nat /\ directory' = directory
      /\ row' = RowAfter(u, v) /\ row \in Contact
  BY NextInOrder, RowStep, RowType DEF Handles, Contact
<1>2. 1 .. n + 1 = (1 .. n) \cup {n + 1} /\ \A k \in 1 .. n : n + 1 > k
  BY <1>1
<1>3. CASE directory[u][v].kind = "disabled"
  <2>1. row' = [row EXCEPT !.disabled = TRUE, !.version = n + 1]
    BY <1>1, <1>3 DEF RowAfter, SetContactDisabled
  <2>2. row'.disabled /\ row'.version = n + 1 /\ row'.profile = row.profile
    BY <1>1, <2>1 DEF Contact
  <2> HIDE DEF row
  <2>3. ASSUME NEW k \in 1 .. n + 1, directory[u][k].kind # "disabled",
               \A later \in 1 .. n + 1 :
                  later > k => directory[u][later].kind = "disabled"
        PROVE  row'.profile = directory[u][k].profile
    <3>1. k \in 1 .. n
      BY <1>1, <1>2, <1>3, <2>3
    <3>2. QED
      BY <1>1, <1>2, <2>2, <2>3, <3>1 DEF Snapshot, row
  <2>4. \E k \in 1 .. n + 1 : directory[u][k].kind = "disabled"
    BY <1>1, <1>2, <1>3
  <2>5. QED
    BY <1>1, <2>2, <2>3, <2>4 DEF Snapshot, row
<1>4. CASE directory[u][v].kind # "disabled"
  <2>1. row' = [profile |-> directory[u][v].profile, disabled |-> row.disabled,
                version |-> n + 1]
    BY <1>1, <1>4 DEF RowAfter, UpsertContact
  <2>2. /\ row'.disabled = row.disabled /\ row'.version = n + 1
        /\ row'.profile = directory[u][n + 1].profile
    BY <1>1, <2>1
  <2> HIDE DEF row
  <2>3. ASSUME NEW k \in 1 .. n + 1, directory[u][k].kind # "disabled",
               \A later \in 1 .. n + 1 :
                  later > k => directory[u][later].kind = "disabled"
        PROVE  row'.profile = directory[u][k].profile
    <3>1. k = n + 1
      BY <1>1, <1>2, <1>4, <2>3
    <3>2. QED
      BY <2>2, <3>1
  <2>4. (\E k \in 1 .. n + 1 : directory[u][k].kind = "disabled")
           <=> \E k \in 1 .. n : directory[u][k].kind = "disabled"
    BY <1>1, <1>2, <1>4
  <2>5. row.disabled <=> \E k \in 1 .. n : directory[u][k].kind = "disabled"
    BY <1>1 DEF Snapshot, row
  <2>6. QED
    BY <1>1, <2>2, <2>3, <2>4, <2>5 DEF Snapshot, row
<1>5. QED
  BY <1>3, <1>4

\* Every step keeps the snapshot of every user.
LEMMA SnapshotNext ==
    ASSUME TypeOK, [Next]_vars, NEW w \in User, Newest(w), Snapshot(w)
    PROVE  Snapshot(w)'
<1>1. ASSUME NEW u \in User, NEW event \in Event, Publishes(u, event)
      PROVE  Snapshot(w)'
  <2>1. /\ (InOrder(w)' <=> InOrder(w)) /\ GetContact(w)' = GetContact(w)
        /\ contacts' = contacts
    BY <1>1 DEF Publishes, InOrder, GetContact
  <2>2. \A k \in 1 .. GetContact(w).version : directory'[w][k] = directory[w][k]
    <3>1. CASE w \in DOMAIN contacts
      <4>1. /\ directory[w] \in Seq(Event)
            /\ GetContact(w).version \in DOMAIN directory[w]
        BY <3>1, RowType DEF TypeOK
      <4>2. \A k \in 1 .. GetContact(w).version : k \in DOMAIN directory[w]
        BY <4>1
      <4>3. QED
        BY <1>1, <4>2, PublishStep
    <3>2. CASE w \notin DOMAIN contacts
      BY <3>2, RowType DEF NoRow
    <3>3. QED
      BY <3>1, <3>2
  <2>3. QED
    BY <2>1, <2>2 DEF Snapshot
<1>2. ASSUME NEW u \in User, NEW v, Handles(u, v), u # w
      PROVE  Snapshot(w)'
  <2>1. /\ inbox'[w] = inbox[w] /\ GetContact(w)' = GetContact(w)
        /\ directory' = directory
    BY <1>2, RowStep DEF Handles
  <2>2. QED
    BY <2>1 DEF Snapshot, InOrder
<1>3. CASE UNCHANGED vars
  BY <1>3 DEF vars, Snapshot, InOrder, GetContact
<1>4. ASSUME NEW v, Handles(w, v)
      PROVE  Snapshot(w)'
  BY <1>4, SnapshotStep
<1>5. QED
  BY <1>1, <1>2, <1>3, <1>4, HandlersHandle DEF Next

\* As long as a user's events have come in order and without a gap, the row
\* is the directory's state at the row's version, disabled included.
THEOREM SnapshotIsDirectory == Spec => []SnapshotOfDirectory
<1> DEFINE Snapshots == \A u \in User : Snapshot(u)
<1>1. Init => Snapshots
  <2> SUFFICES ASSUME Init, NEW u \in User PROVE Snapshot(u)
    OBVIOUS
  <2>1. GetContact(u) = NoRow
    BY DEF Init, GetContact
  <2>2. QED
    BY <2>1 DEF Snapshot, NoRow
<1>2. ContactsInv /\ Snapshots /\ [Next]_vars => Snapshots'
  BY SnapshotNext DEF ContactsInv
<1>3. Snapshots => SnapshotOfDirectory
  BY DEF Snapshot, SnapshotOfDirectory
<1>4. QED
  BY <1>1, <1>2, <1>3, ContactsInvariant, PTL DEF Spec

----------------------------------------------------------------------------
(* The table is a replica of the directory. *)

\* A handler whose event is newer than the row applies it, and another one
\* leaves the row as it is.
LEMMA RowFollows ==
    ASSUME TypeOK, NEW u \in User, NEW v, Handles(u, v)
    PROVE  \/ RowAfter(u, v) = GetContact(u)
           \/ /\ v > GetContact(u).version
              /\ RowAfter(u, v) = Replica!Applied(GetContact(u), directory[u][v], v)
<1> DEFINE row == GetContact(u)
<1>1. row \in Contact /\ v \in Nat /\ row.version \in Nat
  BY RowType, RowStep DEF Contact
<1>2. CASE ~(row.version < v)
  BY <1>2 DEF RowAfter, UpsertContact, SetContactDisabled
<1>3. CASE row.version < v /\ directory[u][v].kind = "disabled"
  <2>1. RowAfter(u, v) = [row EXCEPT !.disabled = TRUE, !.version = v]
    BY <1>3 DEF RowAfter, SetContactDisabled
  <2>2. RowAfter(u, v) = [profile |-> row.profile, disabled |-> TRUE, version |-> v]
    BY <1>1, <2>1 DEF Contact
  <2>3. (row.disabled \/ directory[u][v].kind = "disabled") = TRUE
    BY <1>3
  <2>4. QED
    BY <1>1, <1>3, <2>2, <2>3 DEF Replica!Applied
<1>4. CASE row.version < v /\ directory[u][v].kind # "disabled"
  <2>1. RowAfter(u, v) = [profile |-> directory[u][v].profile,
                          disabled |-> row.disabled, version |-> v]
    BY <1>4 DEF RowAfter, UpsertContact
  <2>2. (row.disabled \/ directory[u][v].kind = "disabled") = row.disabled
    <3>1. row.disabled \in BOOLEAN
      BY <1>1 DEF Contact
    <3>2. QED
      BY <1>4, <3>1
  <2>3. QED
    BY <1>1, <1>4, <2>1, <2>2 DEF Replica!Applied
<1>5. QED
  BY <1>2, <1>3, <1>4

\* Every step of the consumers is one of the replica, or shows it nothing.
LEMMA ReplicaStep ==
    ASSUME TypeOK, [Next]_vars
    PROVE  [Replica!Next]_<<directory, [u \in User |-> GetContact(u)]>>
<1> DEFINE seen == [u \in User |-> GetContact(u)]
<1>1. ASSUME NEW u \in User, NEW event \in Event, Publishes(u, event)
      PROVE  Replica!Says(u, event) /\ event \in Replica!Event
  <2>1. seen' = seen
    BY <1>1 DEF Publishes, GetContact
  <2>2. event \in Replica!Event
    BY DEF Event, Kind, Replica!Event
  <2>3. QED
    BY <1>1, <2>1, <2>2 DEF Publishes, Replica!Says
<1>2. ASSUME NEW u \in User, NEW v, Handles(u, v)
      PROVE  /\ directory' = directory /\ v \in DOMAIN directory[u]
             /\ seen' = seen \/ Replica!Follows(u, v)
  <2>1. /\ GetContact(u)' = RowAfter(u, v)
        /\ \A w \in User \ {u} : GetContact(w)' = GetContact(w)
        /\ directory' = directory /\ v \in DOMAIN directory[u]
    BY <1>2, RowStep DEF Handles
  <2>2. CASE RowAfter(u, v) = GetContact(u)
    <3>1. \A w \in User : GetContact(w)' = GetContact(w)
      BY <2>1, <2>2
    <3>2. QED
      BY <2>1, <3>1
  <2>3. CASE /\ v > GetContact(u).version
             /\ RowAfter(u, v) = Replica!Applied(GetContact(u), directory[u][v], v)
    <3>1. seen' = [seen EXCEPT ![u] = Replica!Applied(seen[u], directory[u][v], v)]
      <4>1. seen[u] = GetContact(u)
        OBVIOUS
      <4>2. \A w \in User :
               GetContact(w)' = IF w = u
                                THEN Replica!Applied(GetContact(u), directory[u][v], v)
                                ELSE GetContact(w)
        BY <2>1, <2>3
      <4>3. QED
        BY <4>1, <4>2
    <3>2. v > seen[u].version
      BY <2>3
    <3>3. QED
      BY <2>1, <3>1, <3>2 DEF Replica!Follows
  <2>4. QED
    BY <1>2, <2>1, <2>2, <2>3, RowFollows
<1>3. CASE UNCHANGED vars
  BY <1>3 DEF vars, GetContact
<1>4. QED
  BY <1>1, <1>2, <1>3, HandlersHandle DEF Next, Replica!Next

\* user_contacts implements the replica: whatever order the three subjects
\* arrive in and whatever is skipped, its readers see the directory move
\* forward, one whole event at a time, and a disabled user stay disabled.
THEOREM ContactsFollowDirectory == Spec => FollowsDirectory
<1>1. Init => Replica!Init
  <2> SUFFICES ASSUME Init PROVE Replica!Init
    OBVIOUS
  <2>1. \A u \in User :
           GetContact(u) = [profile |-> NoProfile, disabled |-> FALSE, version |-> 0]
    BY DEF Init, GetContact, NoRow
  <2>2. QED
    BY <2>1 DEF Init, Replica!Init
<1>2. QED
  BY <1>1, ReplicaStep, ContactsTypeCorrect, PTL DEF Spec, FollowsDirectory, Replica!Spec

----------------------------------------------------------------------------
(* When a disabled event is lost. *)

\* A disabled event consumed as the i-th has disabled the contact, unless a
\* younger event had been consumed before it.
LostOnlyIfOvertaken(u) ==
    \A i \in DOMAIN inbox[u] :
       directory[u][inbox[u][i]].kind = "disabled" =>
          \/ GetContact(u).disabled
          \/ \E j \in 1 .. i - 1 : inbox[u][j] > inbox[u][i]

\* A disabled event that comes first of all the events it is older than finds
\* its statement's WHERE clause true.
LEMMA OvertakenStep ==
    ASSUME TypeOK, NEW u \in User, NEW v, Handles(u, v), Newest(u),
           LostOnlyIfOvertaken(u)
    PROVE  LostOnlyIfOvertaken(u)'
<1> DEFINE row == GetContact(u)
           n == Len(inbox[u])
<1>1. /\ row \in Contact /\ row.version \in Nat /\ v \in Nat \ {0}
      /\ directory' = directory /\ row' = RowAfter(u, v)
      /\ inbox[u] \in Seq(Nat) /\ inbox'[u] = Append(inbox[u], v)
  BY RowType, RowStep DEF Handles, Contact, TypeOK
<1>2. /\ n \in Nat /\ DOMAIN inbox[u] = 1 .. n
      /\ DOMAIN inbox'[u] = (1 .. n) \cup {n + 1}
      /\ \A i \in 1 .. n : inbox'[u][i] = inbox[u][i]
      /\ inbox'[u][n + 1] = v
      /\ \A i \in 1 .. n : 1 .. i - 1 \subseteq 1 .. n
      /\ 1 .. (n + 1) - 1 = 1 .. n
  BY <1>1
<1>3. row.disabled => row'.disabled
  BY <1>1, RowAfterIsLater
<1>4. ASSUME directory[u][v].kind = "disabled"
      PROVE  row'.disabled \/ \E j \in 1 .. n : inbox[u][j] > v
  <2>1. CASE row.version < v
    BY <1>1, <1>4, <2>1 DEF RowAfter, SetContactDisabled, Contact
  <2>2. CASE ~(row.version < v)
    <3>1. u \in DOMAIN contacts
      BY <1>1, <2>2, RowType DEF NoRow
    <3>2. row.version \in Consumed(u)
      BY <3>1 DEF Newest
    <3>3. v \notin Consumed(u)
      BY <1>1 DEF Handles, Fresh
    <3>4. PICK j \in 1 .. n : inbox[u][j] = row.version
      BY <1>2, <3>2 DEF Consumed, Range
    <3>5. row.version > v
      <4>1. row.version # v
        BY <3>2, <3>3
      <4> HIDE DEF row
      <4>2. QED
        BY <1>1, <2>2, <4>1
    <3>6. QED
      BY <3>4, <3>5
  <2>3. QED
    BY <2>1, <2>2
<1> HIDE DEF row, n
<1>5. ASSUME NEW i \in 1 .. n, directory[u][inbox[u][i]].kind = "disabled"
      PROVE  row'.disabled \/ \E j \in 1 .. i - 1 : inbox'[u][j] > inbox'[u][i]
  <2>1. row.disabled \/ \E j \in 1 .. i - 1 : inbox[u][j] > inbox[u][i]
    BY <1>2, <1>5 DEF LostOnlyIfOvertaken, row
  <2>2. \A j \in 1 .. i - 1 : inbox'[u][j] = inbox[u][j]
    BY <1>2
  <2>3. QED
    BY <1>2, <1>3, <2>1, <2>2
<1>6. QED
  BY <1>1, <1>2, <1>4, <1>5 DEF LostOnlyIfOvertaken, row

\* Every step keeps it for every user.
LEMMA OvertakenNext ==
    ASSUME TypeOK, [Next]_vars, NEW w \in User, Newest(w), LostOnlyIfOvertaken(w)
    PROVE  LostOnlyIfOvertaken(w)'
<1>1. ASSUME NEW u \in User, NEW event \in Event, Publishes(u, event)
      PROVE  LostOnlyIfOvertaken(w)'
  <2>1. inbox' = inbox /\ GetContact(w)' = GetContact(w)
    BY <1>1 DEF Publishes, GetContact
  <2>2. \A i \in DOMAIN inbox[w] : directory'[w][inbox[w][i]] = directory[w][inbox[w][i]]
    <3>1. \A i \in DOMAIN inbox[w] : inbox[w][i] \in DOMAIN directory[w]
      BY DEF TypeOK, Consumed, Range
    <3>2. QED
      BY <1>1, <3>1, PublishStep
  <2>3. QED
    BY <2>1, <2>2 DEF LostOnlyIfOvertaken
<1>2. ASSUME NEW u \in User, NEW v, Handles(u, v), u # w
      PROVE  LostOnlyIfOvertaken(w)'
  <2>1. /\ inbox'[w] = inbox[w] /\ GetContact(w)' = GetContact(w)
        /\ directory' = directory
    BY <1>2, RowStep DEF Handles
  <2>2. QED
    BY <2>1 DEF LostOnlyIfOvertaken
<1>3. CASE UNCHANGED vars
  BY <1>3 DEF vars, LostOnlyIfOvertaken, GetContact
<1>4. ASSUME NEW v, Handles(w, v)
      PROVE  LostOnlyIfOvertaken(w)'
  BY <1>4, OvertakenStep
<1>5. QED
  BY <1>1, <1>2, <1>3, <1>4, HandlersHandle DEF Next

\* What the run ContactDisableOvertaken finds is the only way: a disabled
\* event that was consumed is without effect only if a younger event of the
\* user, of another subject, was consumed before it.
THEOREM DisableIsLostOnlyIfOvertaken ==
    Spec => [](\A u \in User : LostOnlyIfOvertaken(u))
<1> DEFINE AllTaken == \A u \in User : LostOnlyIfOvertaken(u)
<1>1. Init => AllTaken
  BY DEF Init, LostOnlyIfOvertaken
<1>2. ContactsInv /\ AllTaken /\ [Next]_vars => AllTaken'
  BY OvertakenNext DEF ContactsInv
<1>3. QED
  BY <1>1, <1>2, ContactsInvariant, PTL DEF Spec
=============================================================================
