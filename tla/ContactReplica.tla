--------------------------- MODULE ContactReplica ---------------------------
(***************************************************************************)
(* What user_contacts promises its readers, without inboxes, consumers or  *)
(* statements: it follows the directory at a distance.  It may skip what   *)
(* the directory says of a user, but takes each step forward, and a step   *)
(* does to the contact what the directory said.                            *)
(***************************************************************************)
EXTENDS Naturals, Sequences

CONSTANTS User, Profile, NoProfile

VARIABLES directory, \* what is said of each user, in order
          replica    \* the contact as its readers find it

Event == [kind : {"created", "updated", "disabled"}, profile : Profile \cup {NoProfile}]

\* Being disabled changes nothing else, and nothing takes it back.
Applied(contact, event, version) ==
    [profile |-> IF event.kind = "disabled" THEN contact.profile ELSE event.profile,
     disabled |-> contact.disabled \/ event.kind = "disabled",
     version |-> version]

Init ==
    /\ directory = [u \in User |-> <<>>]
    /\ replica = [u \in User |->
                    [profile |-> NoProfile, disabled |-> FALSE, version |-> 0]]

Says(u, event) ==
    /\ directory' = [directory EXCEPT ![u] = Append(@, event)]
    /\ UNCHANGED replica

Follows(u, version) ==
    /\ version > replica[u].version
    /\ replica' = [replica EXCEPT ![u] = Applied(@, directory[u][version], version)]
    /\ UNCHANGED directory

Next ==
    \E u \in User :
       \/ \E event \in Event : Says(u, event)
       \/ \E version \in DOMAIN directory[u] : Follows(u, version)

Spec == Init /\ [][Next]_<<directory, replica>>
=============================================================================
