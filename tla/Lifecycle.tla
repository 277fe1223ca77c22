----------------------------- MODULE Lifecycle -----------------------------
(***************************************************************************)
(* How the background loops of the module are started and how they end:    *)
(* Start of module.New runs four loops in goroutines of their own, one of  *)
(* them is consumer.Start, which runs a besdk.Consume for each subject.    *)
(* Both wait in a select for the context or for the first loop that        *)
(* returns; nobody receives what the others send after that.               *)
(***************************************************************************)
EXTENDS Integers, Sequences, FiniteSets

CONSTANT Subject \* what consumer.Start subscribes to, five in the code

ASSUME SubjectAssumption ==
    /\ IsFiniteSet(Subject)
    /\ Subject \cap {"pump", "weekly", "monthly", "consumer"} = {}

VARIABLES ctx,     \* "live", or "done" once the caller has cancelled it
          loops,   \* what each goroutine is doing, and what it returned
          errCh,   \* the channel of each Start
          returned \* what each Start has returned

vars == <<ctx, loops, errCh, returned>>

\* The two Starts.  "consumer" is also a loop of the module.
Starter == {"module", "consumer"}

Loop == {"pump", "weekly", "monthly", "consumer"} \cup Subject

LoopsOf(s) == IF s = "consumer" THEN Subject ELSE Loop \ Subject

Value == {"nil", "error"}

TypeOK ==
    /\ ctx \in {"live", "done"}
    /\ loops \in [Loop -> [at : {"running", "sending", "ended"}, value : Value]]
    /\ \A l \in Loop : loops[l].at = "running" => loops[l].value = "nil"
    /\ errCh \in [Starter -> Seq(Value)]
    /\ returned \in [Starter -> Value \cup {"waiting"}]
    /\ Len(errCh["module"]) <= 4 /\ Len(errCh["consumer"]) <= Cardinality(Subject)

----------------------------------------------------------------------------
(* The loops. *)

\* Seeded fault: a failed check ends the loop of the partitions.
ReturnsOnFailedCheck(l) ==
    IF l \in {"weekly", "monthly"} \/ ctx = "done" THEN Value ELSE {"error"}

\* What a loop may return now: the loops of the partitions return nil and
\* only for the context; those of be-sdk-go (external) return for the
\* context, with or without its error, or because they failed.
MayReturn(l) ==
    IF l \in {"weekly", "monthly"}
    THEN {v \in {"nil"} : ctx = "done"}
    ELSE IF ctx = "done" THEN Value ELSE {"error"}

LoopReturns(l) ==
    /\ l # "consumer"
    /\ loops[l].at = "running"
    /\ \E v \in MayReturn(l) : loops' = [loops EXCEPT ![l] = [at |-> "sending", value |-> v]]
    /\ UNCHANGED <<ctx, errCh, returned>>

\* Seeded fault: the channels are made for the one value that is received.
CapacityOne(s) == 1

\* make(chan error, 4) and make(chan error, len(subjects)).
Capacity(s) == IF s = "consumer" THEN Cardinality(Subject) ELSE 4

\* Seeded fault: the goroutine runs its loop again when it has sent.
SendAndRestart(s, l) ==
    /\ l \in LoopsOf(s)
    /\ loops[l].at = "sending"
    /\ Len(errCh[s]) < Capacity(s)
    /\ errCh' = [errCh EXCEPT ![s] = Append(@, loops[l].value)]
    /\ loops' = [loops EXCEPT ![l].at = "running"]
    /\ UNCHANGED <<ctx, returned>>

\* errCh <- ...: blocks while the channel is full.
Send(s, l) ==
    /\ l \in LoopsOf(s)
    /\ loops[l].at = "sending"
    /\ Len(errCh[s]) < Capacity(s)
    /\ errCh' = [errCh EXCEPT ![s] = Append(@, loops[l].value)]
    /\ loops' = [loops EXCEPT ![l].at = "ended"]
    /\ UNCHANGED <<ctx, returned>>

----------------------------------------------------------------------------
(* The select of either Start. *)

\* consumer.Start is what the goroutine of that loop runs.
Return(s, value) ==
    /\ returned[s] = "waiting"
    /\ returned' = [returned EXCEPT ![s] = value]
    /\ loops' = IF s = "consumer"
                THEN [loops EXCEPT ![s] = [at |-> "sending", value |-> value]]
                ELSE loops
    /\ UNCHANGED ctx

Cancelled(s) ==
    /\ ctx = "done"
    /\ Return(s, "nil")
    /\ UNCHANGED errCh

\* Seeded fault: consumer.Start waits for the context alone.
ReceiveInModule(s) ==
    /\ s = "module"
    /\ errCh[s] # <<>>
    /\ Return(s, Head(errCh[s]))
    /\ errCh' = [errCh EXCEPT ![s] = Tail(@)]

Receive(s) ==
    /\ errCh[s] # <<>>
    /\ Return(s, Head(errCh[s]))
    /\ errCh' = [errCh EXCEPT ![s] = Tail(@)]

\* The caller ends the context, whenever it likes.
Cancel ==
    /\ ctx = "live"
    /\ ctx' = "done"
    /\ UNCHANGED <<loops, errCh, returned>>

Init ==
    /\ ctx = "live"
    /\ loops = [l \in Loop |-> [at |-> "running", value |-> "nil"]]
    /\ errCh = [s \in Starter |-> <<>>]
    /\ returned = [s \in Starter |-> "waiting"]

Next ==
    \/ \E l \in Loop : LoopReturns(l)
    \/ \E s \in Starter : Cancelled(s) \/ Receive(s) \/ \E l \in Loop : Send(s, l)
    \/ Cancel

Spec == Init /\ [][Next]_vars

\* The Go scheduler lets every goroutine go on that can, and every loop
\* looks at its context.  Nothing makes a loop fail or the caller cancel.
Fairness ==
    /\ \A l \in Loop : WF_vars(ctx = "done" /\ LoopReturns(l))
    /\ \A s \in Starter : WF_vars(Cancelled(s) \/ Receive(s))
    /\ \A s \in Starter, l \in Loop : WF_vars(Send(s, l))

FairSpec == Spec /\ Fairness

----------------------------------------------------------------------------
(* Properties. *)

Failed(l) == loops[l].at # "running" /\ loops[l].value = "error"

\* What Start returns is what happened: nil only for a context that has
\* ended, an error only for a loop that returned one (module.go: return the
\* error; partition.Start swallows its own).
StartTellsTruth ==
    \A s \in Starter :
       /\ returned[s] = "nil" => ctx = "done"
       /\ returned[s] = "error" =>
             \E l \in LoopsOf(s) : Failed(l)

\* No goroutine waits at its channel, whether or not anyone still receives
\* from it: there is room for one value of each (make(chan error,
\* len(subjects)) in consumer.go, 4 in module.go).
SendNeverBlocks ==
    \A s \in Starter : \A l \in LoopsOf(s) :
       loops[l].at = "sending" => Len(errCh[s]) < Capacity(s)

\* A loop that fails, at whatever depth, ends Start with an error, unless the
\* context ends meanwhile: no component goes on half dead without a word.
FailureEndsStart ==
    (\E l \in Loop : Failed(l)) ~> (returned["module"] = "error" \/ ctx = "done")

\* When the context has ended every goroutine ends, those included whose
\* result nobody receives any more.
CancelEndsEverything ==
    ctx = "done" ~> /\ \A l \in Loop : loops[l].at = "ended"
                    /\ \A s \in Starter : returned[s] # "waiting"
=============================================================================
