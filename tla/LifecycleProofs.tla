-------------------------- MODULE LifecycleProofs --------------------------
(***************************************************************************)
(* What the channels and the results of the two Starts are worth, for any  *)
(* finite set of subjects.                                                 *)
(***************************************************************************)
EXTENDS Lifecycle, FiniteSetTheorems, TLAPS

----------------------------------------------------------------------------
(* The loops of either Start and the room in its channel. *)

\* The loops of each starter, written out.
LEMMA Loops ==
    /\ Loop = Subject \cup {"pump", "weekly", "monthly", "consumer"}
    /\ LoopsOf("consumer") = Subject
    /\ LoopsOf("module") = {"pump", "weekly", "monthly", "consumer"}
    /\ "consumer" \in Loop /\ "consumer" \notin Subject
BY SubjectAssumption DEF SubjectAssumption, Loop, LoopsOf

\* A new member adds one to the size of a finite set.
LEMMA OneMore ==
    ASSUME NEW S, IsFiniteSet(S), NEW x, x \notin S
    PROVE  IsFiniteSet(S \cup {x}) /\ Cardinality(S \cup {x}) = Cardinality(S) + 1
BY FS_AddElement

\* A channel was made for as many values as there are loops that send on it.
LEMMA LoopsAreFinite ==
    ASSUME NEW s \in Starter
    PROVE  /\ LoopsOf(s) \subseteq Loop
           /\ IsFiniteSet(LoopsOf(s))
           /\ Cardinality(LoopsOf(s)) = Capacity(s)
           /\ Capacity(s) \in Nat
<1>1. CASE s = "consumer"
  <2>1. LoopsOf(s) = Subject /\ Subject \subseteq Loop /\ IsFiniteSet(Subject)
    BY <1>1, Loops, SubjectAssumption DEF SubjectAssumption
  <2>2. Capacity(s) = Cardinality(Subject) /\ Cardinality(Subject) \in Nat
    BY <1>1, <2>1, FS_CardinalityType DEF Capacity
  <2>3. QED
    BY <2>1, <2>2
<1>2. CASE s = "module"
  <2>1. IsFiniteSet({"pump"}) /\ Cardinality({"pump"}) = 1
    BY FS_Singleton
  <2> DEFINE two == {"pump"} \cup {"weekly"}
             three == two \cup {"monthly"}
  <2>2. IsFiniteSet(two) /\ Cardinality(two) = 2
    <3>1. "weekly" \notin {"pump"}
      OBVIOUS
    <3>2. QED
      BY <2>1, <3>1, OneMore
  <2>3. IsFiniteSet(three) /\ Cardinality(three) = 3
    <3>1. "monthly" \notin two
      OBVIOUS
    <3> HIDE DEF two
    <3>2. QED
      BY <2>2, <3>1, OneMore
  <2>4. IsFiniteSet(three \cup {"consumer"}) /\ Cardinality(three \cup {"consumer"}) = 4
    <3>1. "consumer" \notin three
      OBVIOUS
    <3> HIDE DEF three
    <3>2. QED
      BY <2>3, <3>1, OneMore
  <2>5. LoopsOf(s) = three \cup {"consumer"}
    BY <1>2, Loops
  <2>6. LoopsOf(s) \subseteq Loop
    BY <1>2, Loops
  <2>7. QED
    BY <1>2, <2>4, <2>5, <2>6 DEF Capacity
<1>3. QED
  BY <1>1, <1>2 DEF Starter

----------------------------------------------------------------------------
(* Types. *)

\* Nothing has been started: the initial state is typed.
LEMMA InitType == Init => TypeOK
<1> SUFFICES ASSUME Init PROVE TypeOK
  OBVIOUS
<1>1. Cardinality(Subject) \in Nat
  BY FS_CardinalityType, SubjectAssumption DEF SubjectAssumption
<1>2. errCh \in [Starter -> Seq(Value)]
  BY DEF Init, Starter
<1>3. Len(errCh["module"]) = 0 /\ Len(errCh["consumer"]) = 0
  BY DEF Init, Starter
<1>4. QED
  BY <1>1, <1>2, <1>3 DEF Init, TypeOK, Value

\* What Append and Tail do to a channel.
LEMMA ChannelSteps ==
    ASSUME NEW ch \in Seq(Value), NEW v \in Value
    PROVE  /\ Append(ch, v) \in Seq(Value) /\ Len(Append(ch, v)) = Len(ch) + 1
           /\ Len(ch) \in Nat
           /\ \A i \in 1 .. Len(ch) + 1 :
                 Append(ch, v)[i] = IF i = Len(ch) + 1 THEN v ELSE ch[i]
           /\ ch # <<>> =>
                 /\ Tail(ch) \in Seq(Value) /\ Len(Tail(ch)) = Len(ch) - 1
                 /\ Head(ch) = ch[1] /\ Head(ch) \in Value /\ Len(ch) \in Nat \ {0}
                 /\ \A i \in 1 .. Len(ch) - 1 : Tail(ch)[i] = ch[i + 1]
OBVIOUS

\* Every action keeps the types.
LEMMA NextType == TypeOK /\ [Next]_vars => TypeOK'
<1> SUFFICES ASSUME TypeOK, [Next]_vars PROVE TypeOK'
  OBVIOUS
<1>1. ASSUME NEW l \in Loop, LoopReturns(l)
      PROVE  TypeOK'
  BY <1>1 DEF LoopReturns, MayReturn, TypeOK, Value
<1>2. ASSUME NEW s \in Starter, NEW value \in Value, Return(s, value), UNCHANGED errCh
      PROVE  TypeOK'
  BY <1>2, Loops DEF Return, TypeOK
<1>3. ASSUME NEW s \in Starter, Receive(s)
      PROVE  TypeOK'
  <2>1. /\ errCh[s] \in Seq(Value) /\ errCh[s] # <<>>
        /\ errCh' = [errCh EXCEPT ![s] = Tail(errCh[s])]
    BY <1>3 DEF Receive, TypeOK
  <2>2. /\ Tail(errCh[s]) \in Seq(Value) /\ Head(errCh[s]) \in Value
        /\ Len(Tail(errCh[s])) = Len(errCh[s]) - 1 /\ Len(errCh[s]) \in Nat
    BY <2>1, ChannelSteps DEF Value
  <2>3. /\ errCh' \in [Starter -> Seq(Value)]
        /\ Len(errCh'["module"]) <= 4 /\ Len(errCh'["consumer"]) <= Cardinality(Subject)
    BY <2>1, <2>2, LoopsAreFinite DEF TypeOK, Starter, Capacity
  <2>4. QED
    BY <1>3, <2>2, <2>3, Loops DEF Receive, Return, TypeOK
<1>4. ASSUME NEW s \in Starter, NEW l \in Loop, Send(s, l)
      PROVE  TypeOK'
  <2>1. /\ errCh[s] \in Seq(Value) /\ loops[l].value \in Value
        /\ errCh' = [errCh EXCEPT ![s] = Append(errCh[s], loops[l].value)]
    BY <1>4 DEF Send, TypeOK
  <2>2. /\ Append(errCh[s], loops[l].value) \in Seq(Value)
        /\ Len(Append(errCh[s], loops[l].value)) = Len(errCh[s]) + 1
        /\ Len(errCh[s]) \in Nat
    BY <2>1, ChannelSteps
  <2>3. /\ errCh' \in [Starter -> Seq(Value)]
        /\ Len(errCh'["module"]) <= 4 /\ Len(errCh'["consumer"]) <= Cardinality(Subject)
    BY <1>4, <2>1, <2>2, LoopsAreFinite DEF Send, TypeOK, Starter, Capacity
  <2>4. QED
    BY <1>4, <2>3 DEF Send, TypeOK
<1>5. CASE Cancel
  BY <1>5 DEF Cancel, TypeOK
<1>6. CASE UNCHANGED vars
  BY <1>6 DEF vars, TypeOK
<1>7. QED
  BY <1>1, <1>2, <1>3, <1>4, <1>5, <1>6 DEF Next, Cancelled, Value

\* Every goroutine is running, waiting to send, or gone, and the channels
\* never hold more than they were made for.
THEOREM LifecycleTypeOK == Spec => []TypeOK
BY InitType, NextType, PTL DEF Spec

----------------------------------------------------------------------------
(* The invariant. *)

\* The goroutine of consumer.Start is done when consumer.Start has returned.
ConsumerIsStart ==
    returned["consumer"] = "waiting" <=> loops["consumer"].at = "running"

\* What a loop returned, is on its way, or was received, happened.
Happened(s, value) ==
    /\ value = "nil" => ctx = "done"
    /\ value = "error" => \E l \in LoopsOf(s) : Failed(l)

ValuesAreTrue ==
    /\ \A l \in Loop : loops[l].at # "running" /\ loops[l].value = "nil" => ctx = "done"
    /\ \A s \in Starter : /\ \A i \in 1 .. Len(errCh[s]) : Happened(s, errCh[s][i])
                          /\ Happened(s, returned[s])

\* Every value in a channel is of a goroutine that has ended, one each.
EndedOf(s) == {l \in LoopsOf(s) : loops[l].at = "ended"}

RoomForTheRest == \A s \in Starter : Len(errCh[s]) <= Cardinality(EndedOf(s))

TruthInv == TypeOK /\ ConsumerIsStart /\ ValuesAreTrue

\* What has happened stays so: a loop that failed is not run again, and the
\* context does not come back.
LEMMA HappenedStays ==
    ASSUME TypeOK, ConsumerIsStart, [Next]_vars
    PROVE  /\ \A l \in Loop : Failed(l) => Failed(l)'
           /\ ctx = "done" => ctx' = "done"
           /\ \A s \in Starter : \A value : Happened(s, value) => Happened(s, value)'
<1>1. ctx = "done" => ctx' = "done"
  BY DEF Next, LoopReturns, Cancelled, Receive, Send, Return, Cancel, vars
<1>2. ASSUME NEW l \in Loop, Failed(l)
      PROVE  Failed(l)'
  <2>1. loops \in [Loop -> [at : {"running", "sending", "ended"}, value : Value]]
    BY DEF TypeOK
  <2>2. ASSUME NEW k \in Loop, LoopReturns(k) PROVE Failed(l)'
    BY <1>2, <2>1, <2>2 DEF LoopReturns, Failed
  <2>3. ASSUME NEW s \in Starter, NEW value, Return(s, value) PROVE Failed(l)'
    BY <1>2, <2>1, <2>3 DEF Return, Failed, ConsumerIsStart
  <2>4. ASSUME NEW s \in Starter, NEW k \in Loop, Send(s, k) PROVE Failed(l)'
    BY <1>2, <2>1, <2>4 DEF Send, Failed
  <2>5. CASE UNCHANGED loops
    BY <1>2, <2>5 DEF Failed
  <2>6. QED
    BY <2>2, <2>3, <2>4, <2>5 DEF Next, Cancelled, Receive, Cancel, vars
<1>3. \A s \in Starter : LoopsOf(s) \subseteq Loop
  BY LoopsAreFinite
<1>4. QED
  BY <1>1, <1>2, <1>3 DEF Happened

\* Values that have happened by now keep ValuesAreTrue.
LEMMA ValuesKept ==
    ASSUME TypeOK, ConsumerIsStart, [Next]_vars,
           \A l \in Loop :
              loops'[l].at # "running" /\ loops'[l].value = "nil" => ctx' = "done",
           \A s \in Starter : /\ \A i \in 1 .. Len(errCh'[s]) : Happened(s, errCh'[s][i])
                              /\ Happened(s, returned'[s])
    PROVE  ValuesAreTrue'
<1>1. \A s \in Starter : \A value : Happened(s, value) => Happened(s, value)'
  BY HappenedStays
<1>2. QED
  BY <1>1 DEF ValuesAreTrue

\* No Start has returned yet, so none has misreported.
LEMMA InitTruth == Init => TruthInv
<1> SUFFICES ASSUME Init PROVE TruthInv
  OBVIOUS
<1>1. TypeOK /\ ConsumerIsStart
  BY InitType, Loops DEF Init, ConsumerIsStart, Starter
<1>2. ValuesAreTrue
  BY DEF Init, ValuesAreTrue, Happened
<1>3. QED
  BY <1>1, <1>2 DEF TruthInv

\* The value a Start returns is one it may return.
LEMMA ReturnIsTrue ==
    ASSUME TruthInv, NEW s \in Starter, NEW value \in Value, Return(s, value),
           Happened(s, value), [Next]_vars,
           \A t \in Starter : \A i \in 1 .. Len(errCh'[t]) : Happened(t, errCh'[t][i])
    PROVE  ConsumerIsStart' /\ ValuesAreTrue'
<1>1. /\ loops \in [Loop -> [at : {"running", "sending", "ended"}, value : Value]]
      /\ returned \in [Starter -> Value \cup {"waiting"}]
      /\ "consumer" \in Loop /\ "consumer" \in Starter
  BY Loops DEF TruthInv, TypeOK, Starter
<1>2. ConsumerIsStart'
  BY <1>1 DEF TruthInv, Return, ConsumerIsStart, Value
<1>3. \A t \in Starter : Happened(t, returned'[t])
  BY <1>1 DEF TruthInv, ValuesAreTrue, Return
<1>4. \A l \in Loop :
         loops'[l].at # "running" /\ loops'[l].value = "nil" => ctx = "done"
  BY <1>1 DEF TruthInv, ValuesAreTrue, Return, Happened
<1>5. ctx' = ctx
  BY DEF Return
<1>6. QED
  BY <1>2, <1>3, <1>4, <1>5, ValuesKept DEF TruthInv

\* Every action keeps the strengthened invariant.
LEMMA NextTruth == TruthInv /\ [Next]_vars => TruthInv'
<1> SUFFICES ASSUME TruthInv, [Next]_vars PROVE TruthInv'
  OBVIOUS
<1>1. /\ TypeOK /\ TypeOK' /\ "consumer" \in Loop
      /\ loops \in [Loop -> [at : {"running", "sending", "ended"}, value : Value]]
      /\ errCh \in [Starter -> Seq(Value)]
  BY NextType, Loops DEF TruthInv, TypeOK
<1>2. /\ ctx = "done" => ctx' = "done"
      /\ \A s \in Starter : \A value : Happened(s, value) => Happened(s, value)'
  BY HappenedStays DEF TruthInv
<1>3. ASSUME NEW l \in Loop, LoopReturns(l)
      PROVE  ConsumerIsStart' /\ ValuesAreTrue'
  <2>1. PICK v \in MayReturn(l) :
           loops' = [loops EXCEPT ![l] = [at |-> "sending", value |-> v]]
    BY <1>3 DEF LoopReturns
  <2>2. v = "nil" => ctx = "done"
    BY DEF MayReturn
  <2>3. ConsumerIsStart'
    BY <1>1, <1>3, <2>1 DEF LoopReturns, TruthInv, ConsumerIsStart
  <2>4. \A k \in Loop :
           loops'[k].at # "running" /\ loops'[k].value = "nil" => ctx' = "done"
    BY <1>1, <1>2, <2>1, <2>2 DEF TruthInv, ValuesAreTrue
  <2>5. \A s \in Starter : /\ \A i \in 1 .. Len(errCh'[s]) : Happened(s, errCh'[s][i])
                           /\ Happened(s, returned'[s])
    BY <1>3 DEF LoopReturns, TruthInv, ValuesAreTrue
  <2>6. QED
    BY <1>1, <2>3, <2>4, <2>5, ValuesKept DEF TruthInv
<1>4. ASSUME NEW s \in Starter, Cancelled(s)
      PROVE  ConsumerIsStart' /\ ValuesAreTrue'
  <2>1. Return(s, "nil") /\ Happened(s, "nil") /\ errCh' = errCh
    BY <1>4 DEF Cancelled, Happened
  <2>2. \A t \in Starter : \A i \in 1 .. Len(errCh'[t]) : Happened(t, errCh'[t][i])
    BY <2>1 DEF TruthInv, ValuesAreTrue
  <2>3. QED
    BY <2>1, <2>2, ReturnIsTrue DEF Value
<1>5. ASSUME NEW s \in Starter, Receive(s)
      PROVE  ConsumerIsStart' /\ ValuesAreTrue'
  <2>1. /\ errCh[s] \in Seq(Value) /\ errCh[s] # <<>> /\ Return(s, Head(errCh[s]))
        /\ errCh' = [errCh EXCEPT ![s] = Tail(errCh[s])]
    BY <1>1, <1>5 DEF Receive
  <2>2. /\ Head(errCh[s]) = errCh[s][1] /\ Head(errCh[s]) \in Value
        /\ Len(errCh[s]) \in Nat \ {0} /\ Len(Tail(errCh[s])) = Len(errCh[s]) - 1
        /\ \A i \in 1 .. Len(errCh[s]) - 1 : Tail(errCh[s])[i] = errCh[s][i + 1]
    BY <2>1, ChannelSteps DEF Value
  <2>3. Happened(s, Head(errCh[s]))
    BY <2>2 DEF TruthInv, ValuesAreTrue
  <2>4. \A t \in Starter : \A i \in 1 .. Len(errCh'[t]) : Happened(t, errCh'[t][i])
    <3>1. \A i \in 1 .. Len(errCh[s]) - 1 : i + 1 \in 1 .. Len(errCh[s])
      BY <2>2
    <3>2. \A i \in 1 .. Len(Tail(errCh[s])) : Happened(s, Tail(errCh[s])[i])
      BY <2>2, <3>1 DEF TruthInv, ValuesAreTrue
    <3>3. QED
      BY <1>1, <2>1, <3>2 DEF TruthInv, ValuesAreTrue
  <2>5. QED
    BY <2>1, <2>2, <2>3, <2>4, ReturnIsTrue
<1>6. ASSUME NEW s \in Starter, NEW l \in Loop, Send(s, l)
      PROVE  ConsumerIsStart' /\ ValuesAreTrue'
  <2> DEFINE v == loops[l].value
  <2>1. /\ l \in LoopsOf(s) /\ loops[l].at = "sending" /\ v \in Value
        /\ errCh' = [errCh EXCEPT ![s] = Append(errCh[s], v)]
        /\ loops' = [loops EXCEPT ![l].at = "ended"]
        /\ UNCHANGED <<ctx, returned>>
    BY <1>1, <1>6 DEF Send
  <2>2. Happened(s, v)
    BY <2>1 DEF Happened, Failed, TruthInv, ValuesAreTrue
  <2>3. /\ errCh[s] \in Seq(Value) /\ Len(Append(errCh[s], v)) = Len(errCh[s]) + 1
        /\ Len(errCh[s]) \in Nat
        /\ \A i \in 1 .. Len(errCh[s]) + 1 :
              Append(errCh[s], v)[i] = IF i = Len(errCh[s]) + 1 THEN v ELSE errCh[s][i]
    BY <1>1, <2>1, ChannelSteps
  <2>4. \A t \in Starter : \A i \in 1 .. Len(errCh'[t]) : Happened(t, errCh'[t][i])
    <3>1. \A i \in 1 .. Len(errCh[s]) + 1 :
             i = Len(errCh[s]) + 1 \/ i \in 1 .. Len(errCh[s])
      BY <2>3
    <3>2. \A i \in 1 .. Len(errCh[s]) + 1 : Happened(s, Append(errCh[s], v)[i])
      BY <2>2, <2>3, <3>1 DEF TruthInv, ValuesAreTrue
    <3>3. QED
      BY <1>1, <2>1, <2>3, <3>2 DEF TruthInv, ValuesAreTrue
  <2>5. \A t \in Starter : Happened(t, returned'[t])
    BY <2>1 DEF TruthInv, ValuesAreTrue
  <2>6. ConsumerIsStart'
    BY <1>1, <2>1 DEF TruthInv, ConsumerIsStart
  <2>7. \A k \in Loop :
           loops'[k].at # "running" /\ loops'[k].value = "nil" => ctx' = "done"
    BY <1>1, <2>1 DEF TruthInv, ValuesAreTrue
  <2>8. QED
    BY <2>4, <2>5, <2>6, <2>7, ValuesKept DEF TruthInv
<1>7. CASE Cancel \/ UNCHANGED vars
  <2>1. UNCHANGED <<loops, errCh, returned>>
    BY <1>7 DEF Cancel, vars
  <2>2. ConsumerIsStart'
    BY <2>1 DEF TruthInv, ConsumerIsStart
  <2>3. \A l \in Loop :
           loops'[l].at # "running" /\ loops'[l].value = "nil" => ctx' = "done"
    BY <1>2, <2>1 DEF TruthInv, ValuesAreTrue
  <2>4. \A s \in Starter : /\ \A i \in 1 .. Len(errCh'[s]) : Happened(s, errCh'[s][i])
                           /\ Happened(s, returned'[s])
    BY <2>1 DEF TruthInv, ValuesAreTrue
  <2>5. QED
    BY <1>1, <2>2, <2>3, <2>4, ValuesKept DEF TruthInv
<1>8. QED
  BY <1>1, <1>3, <1>4, <1>5, <1>6, <1>7 DEF Next, TruthInv

\* Whatever a Start returns is what happened: no error is invented, and nil
\* never hides a failure while the context is alive.
THEOREM StartsTellTruth == Spec => []StartTellsTruth
<1>1. TruthInv => StartTellsTruth
  BY DEF TruthInv, ValuesAreTrue, StartTellsTruth, Happened
<1>2. QED
  BY <1>1, InitTruth, NextTruth, PTL DEF Spec

----------------------------------------------------------------------------
(* Room in the channels. *)

\* The loops that have ended are finitely many.
LEMMA EndedIsFinite ==
    ASSUME NEW s \in Starter
    PROVE  IsFiniteSet(EndedOf(s)) /\ Cardinality(EndedOf(s)) \in Nat
<1>1. EndedOf(s) \subseteq LoopsOf(s)
  BY DEF EndedOf
<1>2. QED
  BY <1>1, LoopsAreFinite, FS_Subset, FS_CardinalityType

\* Every action keeps errs from holding more values than loops have ended.
LEMMA NextRoom == TruthInv /\ RoomForTheRest /\ [Next]_vars => RoomForTheRest'
<1> SUFFICES ASSUME TruthInv, RoomForTheRest, [Next]_vars,
                    NEW s \in Starter
             PROVE  Len(errCh'[s]) <= Cardinality(EndedOf(s)')
  BY DEF RoomForTheRest
<1>1. /\ loops \in [Loop -> [at : {"running", "sending", "ended"}, value : Value]]
      /\ errCh \in [Starter -> Seq(Value)] /\ errCh[s] \in Seq(Value)
      /\ LoopsOf(s) \subseteq Loop
      /\ Len(errCh[s]) <= Cardinality(EndedOf(s))
  BY LoopsAreFinite DEF TruthInv, TypeOK, RoomForTheRest
<1>2. ASSUME NEW l \in Loop, LoopReturns(l)
      PROVE  EndedOf(s)' = EndedOf(s) /\ errCh' = errCh
  BY <1>1, <1>2 DEF LoopReturns, EndedOf
<1>3. ASSUME NEW t \in Starter, NEW value, Return(t, value)
      PROVE  EndedOf(s)' = EndedOf(s)
  BY <1>1, <1>3 DEF Return, EndedOf, TruthInv, ConsumerIsStart
<1>4. ASSUME NEW t \in Starter, Receive(t)
      PROVE  Len(errCh'[s]) <= Len(errCh[s])
  BY <1>1, <1>4, ChannelSteps DEF Receive, Value
<1>5. ASSUME NEW t \in Starter, NEW l \in Loop, Send(t, l), t # s
      PROVE  EndedOf(s)' = EndedOf(s) /\ errCh'[s] = errCh[s]
  <2>1. l \notin LoopsOf(s)
    BY <1>5, Loops DEF Send, LoopsOf, Starter
  <2>2. QED
    BY <1>1, <1>5, <2>1 DEF Send, EndedOf
<1>6. ASSUME NEW l \in Loop, Send(s, l)
      PROVE  Len(errCh'[s]) <= Cardinality(EndedOf(s)')
  <2>1. l \notin EndedOf(s) /\ EndedOf(s)' = EndedOf(s) \cup {l}
    BY <1>1, <1>6 DEF Send, EndedOf
  <2>2. Cardinality(EndedOf(s) \cup {l}) = Cardinality(EndedOf(s)) + 1
    BY <2>1, EndedIsFinite, OneMore
  <2>3. loops[l].value \in Value
    BY <1>1
  <2>4. errCh'[s] = Append(errCh[s], loops[l].value)
    BY <1>1, <1>6 DEF Send
  <2>5. Len(errCh'[s]) = Len(errCh[s]) + 1 /\ Len(errCh[s]) \in Nat
    BY <1>1, <2>3, <2>4, ChannelSteps
  <2>6. QED
    BY <1>1, <2>1, <2>2, <2>5, EndedIsFinite
<1>7. CASE UNCHANGED <<loops, errCh>>
  BY <1>1, <1>7 DEF EndedOf
<1>8. ASSUME NEW t \in Starter, Cancelled(t)
      PROVE  EndedOf(s)' = EndedOf(s) /\ errCh' = errCh
  BY <1>3, <1>8 DEF Cancelled
<1>9. ASSUME NEW t \in Starter, Receive(t)
      PROVE  Len(errCh'[s]) <= Cardinality(EndedOf(s)')
  <2>1. EndedOf(s)' = EndedOf(s)
    BY <1>3, <1>9 DEF Receive
  <2>2. Len(errCh'[s]) \in Nat /\ Len(errCh[s]) \in Nat
    BY <1>1, NextType, ChannelSteps DEF TruthInv, TypeOK
  <2>3. QED
    BY <1>1, <1>4, <1>9, <2>1, <2>2, EndedIsFinite
<1>10. QED
  BY <1>1, <1>2, <1>5, <1>6, <1>7, <1>8, <1>9 DEF Next, Cancel, vars

\* A goroutine that is about to send has not ended, so those that have are
\* fewer than the channel was made for.
LEMMA RoomIsEnough ==
    ASSUME TypeOK, RoomForTheRest
    PROVE  SendNeverBlocks
<1> SUFFICES ASSUME NEW s \in Starter, NEW l \in LoopsOf(s), loops[l].at = "sending"
             PROVE  Len(errCh[s]) < Capacity(s)
  BY DEF SendNeverBlocks
<1>1. l \notin EndedOf(s) /\ EndedOf(s) \cup {l} \subseteq LoopsOf(s)
  BY DEF EndedOf
<1>2. Cardinality(EndedOf(s) \cup {l}) = Cardinality(EndedOf(s)) + 1
  BY <1>1, EndedIsFinite, OneMore
<1>3. Cardinality(EndedOf(s) \cup {l}) <= Cardinality(LoopsOf(s))
  BY <1>1, LoopsAreFinite, FS_Subset
<1>4. Len(errCh[s]) \in Nat /\ Len(errCh[s]) <= Cardinality(EndedOf(s))
  BY DEF TypeOK, RoomForTheRest
<1>5. QED
  BY <1>2, <1>3, <1>4, EndedIsFinite, LoopsAreFinite

\* No goroutine of the module or of the consumer waits for a receiver: each
\* channel has room for one value of every goroutine that sends on it.
THEOREM SendsNeverBlock == Spec => []SendNeverBlocks
<1>1. Init => RoomForTheRest
  <2> SUFFICES ASSUME Init, NEW s \in Starter
               PROVE  Len(errCh[s]) <= Cardinality(EndedOf(s))
    BY DEF RoomForTheRest
  <2>1. Len(errCh[s]) = 0
    BY DEF Init
  <2>2. QED
    BY <2>1, EndedIsFinite
<1>2. TruthInv /\ RoomForTheRest => SendNeverBlocks
  BY RoomIsEnough DEF TruthInv
<1>3. QED
  BY <1>1, <1>2, InitTruth, NextTruth, NextRoom, PTL DEF Spec
=============================================================================
