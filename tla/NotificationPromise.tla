------------------------ MODULE NotificationPromise ------------------------
(***************************************************************************)
(* What the component promises of every notification, without consumers,   *)
(* inboxes, adapters or retry counters: it is opened once, attempted a     *)
(* bounded number of times in order, and ends once, in one of three ways,  *)
(* of which the world is told what is true.                                *)
(***************************************************************************)
EXTENDS Integers

CONSTANTS Notification,
          MaxAttempts \* the first dispatch and maxRetries more

VARIABLE notes

Told == {"sent", "failed"}

Note == [stage : {"absent", "open", "sent", "failed", "suppressed"},
         attempts : SUBSET (1 .. MaxAttempts), \* the dispatches that went out
         told : SUBSET Told]                   \* sent.v1 and failed.v1

Absent == [stage |-> "absent", attempts |-> {}, told |-> {}]

\* A notification is opened, dispatched or without an adapter to go to; or
\* it is written down as one that will never be dispatched.
Opens(old, new) ==
    /\ old = Absent
    /\ new.told = {}
    /\ \/ new.stage = "open" /\ new.attempts \in {{}, {1}}
       \/ new.stage \in {"failed", "suppressed"} /\ new.attempts = {}

Retries(old, new) ==
    /\ old.stage = "open"
    /\ \E k \in 1 .. MaxAttempts - 1 :
          /\ old.attempts = 1 .. k
          /\ new = [stage |-> "open", attempts |-> 1 .. k + 1, told |-> {}]

Succeeds(old, new) ==
    /\ old.stage = "open" /\ old.attempts # {}
    /\ new = [stage |-> "sent", attempts |-> old.attempts, told |-> {"sent"}]

\* Giving up may be silent, for want of an address to retry at, but never
\* after the last attempt.
GivesUp(old, new) ==
    /\ old.stage = "open" /\ old.attempts # {}
    /\ \/ new.told = {"failed"}
       \/ new.told = {} /\ MaxAttempts \notin old.attempts
    /\ new = [stage |-> "failed", attempts |-> old.attempts, told |-> new.told]

Evolves(old, new) ==
    \/ new = old
    \/ Opens(old, new)
    \/ Retries(old, new)
    \/ Succeeds(old, new)
    \/ GivesUp(old, new)

Init == notes = [n \in Notification |-> Absent]

\* One task may open several notifications at once.
Next ==
    /\ notes' \in [Notification -> Note]
    /\ \A n \in Notification : Evolves(notes[n], notes'[n])

Spec == Init /\ [][Next]_notes
=============================================================================
