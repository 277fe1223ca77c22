---------------------------- MODULE UserContacts ----------------------------
(***************************************************************************)
(* user_contacts, the snapshot of the user directory that                  *)
(* backend/internal/repo/contacts.go keeps from the events                 *)
(* infra.iam.user.created, .updated and .disabled.  Three goroutines       *)
(* consume the three subjects, so their order among each other is open;    *)
(* each handler is one INSERT ... ON CONFLICT statement, guarded by the    *)
(* version of the stored row.                                              *)
(*                                                                         *)
(* The profile stands for phone, e-mail and display name, which one event  *)
(* sets together.                                                          *)
(***************************************************************************)
EXTENDS Naturals, Sequences, Functions

CONSTANTS User, Profile,
          NoProfile,  \* the column defaults, what GetContactTx calls zero
          MaxVersion  \* bound: events the directory publishes of one user

ASSUME NoProfileAssumption == NoProfile \notin Profile

VARIABLES directory, \* the events of each user; the index is the version
          inbox,     \* event_inbox: the versions consumed, as they came
          contacts   \* user_contacts, a function on the users with a row

vars == <<directory, inbox, contacts>>

Kind == {"created", "updated", "disabled"}

Event == [kind : Kind, profile : Profile \cup {NoProfile}]

Contact == [profile : Profile \cup {NoProfile}, disabled : BOOLEAN, version : Nat]

Consumed(u) == Range(inbox[u])

TypeOK ==
    /\ directory \in [User -> Seq(Event)]
    /\ inbox \in [User -> Seq(Nat)]
    /\ \A u \in User : Consumed(u) \subseteq DOMAIN directory[u]
    /\ DOMAIN contacts \subseteq User
    /\ contacts \in [DOMAIN contacts -> Contact]
    /\ \A u \in DOMAIN contacts : contacts[u].version \in DOMAIN directory[u]

----------------------------------------------------------------------------
(* Seeded faults: a late profile overwrites a newer row; an update enables *)
(* the user again; a disable replaces the whole row, or counts the version *)
(* on like an optimistic lock.                                             *)

UpsertUnguarded(row, profile, version) ==
    [profile |-> profile, disabled |-> row.disabled, version |-> version]

UpsertEnabling(row, profile, version) ==
    IF row.version < version
    THEN [profile |-> profile, disabled |-> FALSE, version |-> version]
    ELSE row

DisableClearing(row, version) ==
    IF row.version < version
    THEN [profile |-> NoProfile, disabled |-> TRUE, version |-> version]
    ELSE row

DisableCounting(row, version) ==
    IF row.version < version
    THEN [row EXCEPT !.disabled = TRUE, !.version = version + 1]
    ELSE row

\* The rows the two statements leave behind; a missing row is the one of the
\* column defaults, at version 0.
NoRow == [profile |-> NoProfile, disabled |-> FALSE, version |-> 0]

UpsertContact(row, profile, version) ==
    IF row.version < version
    THEN [profile |-> profile, disabled |-> row.disabled, version |-> version]
    ELSE row

SetContactDisabled(row, version) ==
    IF row.version < version
    THEN [row EXCEPT !.disabled = TRUE, !.version = version]
    ELSE row

\* GetContactTx: the row, or the zero value.
GetContact(u) == IF u \in DOMAIN contacts THEN contacts[u] ELSE NoRow

Stored(u, row) ==
    [v \in DOMAIN contacts \cup {u} |-> IF v = u THEN row ELSE contacts[v]]

----------------------------------------------------------------------------
(* The directory (another component): a user is created, then updated and  *)
(* disabled any number of times; there is no event that enables.           *)

Publishes(u, event) ==
    /\ Len(directory[u]) < MaxVersion
    /\ event.kind = "created" <=> directory[u] = <<>>
    /\ event.profile = NoProfile <=> event.kind = "disabled"
    /\ directory' = [directory EXCEPT ![u] = Append(@, event)]
    /\ UNCHANGED <<inbox, contacts>>

\* event_inbox lets the versions of one subject through in rising order.
Fresh(u, version) ==
    \A seen \in Consumed(u) :
       directory[u][seen].kind = directory[u][version].kind => seen < version

Consume(u, version) ==
    /\ version \in DOMAIN directory[u]
    /\ Fresh(u, version)
    /\ inbox' = [inbox EXCEPT ![u] = Append(@, version)]
    /\ UNCHANGED directory

UserUpsert(u, version) ==
    /\ Consume(u, version)
    /\ directory[u][version].kind \in {"created", "updated"}
    /\ contacts' = Stored(u, UpsertContact(GetContact(u),
                                           directory[u][version].profile, version))

UserDisabled(u, version) ==
    /\ Consume(u, version)
    /\ directory[u][version].kind = "disabled"
    /\ contacts' = Stored(u, SetContactDisabled(GetContact(u), version))

Init ==
    /\ directory = [u \in User |-> <<>>]
    /\ inbox = [u \in User |-> <<>>]
    /\ contacts = [u \in {} |-> NoRow]

Next ==
    \E u \in User :
       \/ \E event \in Event : Publishes(u, event)
       \/ \E version \in DOMAIN directory[u] :
             UserUpsert(u, version) \/ UserDisabled(u, version)

Spec == Init /\ [][Next]_vars

----------------------------------------------------------------------------
(* Properties. *)

\* The row carries the highest version consumed of the user, over all three
\* subjects, and what the event of that version said (the WHERE clauses of
\* UpsertContactTx and SetContactDisabledTx).
NewestEventIsStored ==
    \A u \in User :
       LET row == GetContact(u)
       IN  /\ \A seen \in Consumed(u) : seen <= row.version
           /\ Consumed(u) # {} =>
                 /\ row.version \in Consumed(u)
                 /\ IF directory[u][row.version].kind = "disabled"
                    THEN row.disabled
                    ELSE row.profile = directory[u][row.version].profile

\* As long as the events of a user have come without a gap and in order, the
\* row is the state of the directory at the row's version: the last profile
\* published up to it, and disabled iff a disabled event is among them.
InOrder(u) == \A i \in DOMAIN inbox[u] : inbox[u][i] = i

SnapshotOfDirectory ==
    \A u \in User :
       LET row == GetContact(u)
           past == 1 .. row.version
       IN  InOrder(u) =>
           /\ row.disabled <=> \E k \in past : directory[u][k].kind = "disabled"
           /\ \A k \in past :
                 /\ directory[u][k].kind # "disabled"
                 /\ \A later \in past :
                       later > k => directory[u][later].kind = "disabled"
                 => row.profile = directory[u][k].profile

\* Once a disabled event is consumed the contact is disabled: nobody who left
\* is notified (README, contacts.go on infra.iam.user.disabled.v1).
ConsumedDisableSticks ==
    \A u \in User : \A seen \in Consumed(u) :
       directory[u][seen].kind = "disabled" => GetContact(u).disabled

\* No step takes a row back to an older version, changes the profile without
\* a newer version, or enables a disabled user (UpsertContactTx leaves the
\* disabled column alone).
ContactNeverRegresses ==
    [][\A u \in DOMAIN contacts :
          /\ u \in DOMAIN contacts'
          /\ contacts'[u].version >= contacts[u].version
          /\ contacts'[u] # contacts[u] => contacts'[u].version > contacts[u].version
          /\ contacts[u].disabled => contacts'[u].disabled]_vars

Replica == INSTANCE ContactReplica WITH
              replica <- [u \in User |-> GetContact(u)]

\* For its readers the table is a replica of the directory that may skip
\* events but never goes back and mixes nothing up: with three consumers and
\* two statements, each of which writes some of the columns, a contact is at
\* all times what some of the events, applied in their order, make of it.
FollowsDirectory == Replica!Spec
=============================================================================
