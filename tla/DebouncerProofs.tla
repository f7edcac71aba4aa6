--------------------------- MODULE DebouncerProofs ---------------------------
(* Theorems about Debouncer, for any set of fires and callers of Stop. *)
EXTENDS Debouncer, FiniteSetTheorems, TLAPS

(* The counter of the WaitGroup is the number of running calls of fn, and    *)
(* a call of Stop that has passed its critical section has set the flag.     *)
Counted == IsFiniteSet(Running) /\ running = Cardinality(Running)
FlagSet == \A s \in Stopper : stopper[s] # "idle" => stopped

IInv ==
    /\ TypeOK
    /\ Counted
    /\ FlagSet
    /\ StopIsFinal

LEMMA Inductive == Spec => []IInv
<1>1. Init => IInv
  <2> SUFFICES ASSUME Init PROVE IInv
    OBVIOUS
  <2>1. Running = {}
    BY DEF Init, Running
  <2> QED BY <2>1, FS_EmptySet DEF Init, IInv, TypeOK, Counted, FlagSet, StopIsFinal
<1>2. IInv /\ [Next]_vars => IInv'
  <2> SUFFICES ASSUME IInv, [Next]_vars PROVE IInv'
    OBVIOUS
  <2> USE DEF IInv, TypeOK, FlagSet
  <2>1. CASE Arm
    <3>1. Running' = Running
      BY <2>1 DEF Arm, Running
    <3> QED BY <2>1, <3>1 DEF Arm, Counted, StopIsFinal
  <2>2. ASSUME NEW f \in Fire, Expire(f) PROVE IInv'
    <3>1. Running' = Running
      BY <2>2 DEF Expire, Running
    <3> QED BY <2>2, <3>1 DEF Expire, Counted, StopIsFinal
  <2>3. ASSUME NEW f \in Fire, Begin(f) PROVE IInv'
    <3>1. Running' = Running \cup {f} /\ f \notin Running
      BY <2>3 DEF Begin, Running
    <3>2. Counted'
      BY <2>3, <3>1, FS_AddElement DEF Begin, Counted
    <3>3. StopIsFinal'
      <4> SUFFICES ASSUME NEW s \in Stopper, stopper'[s] = "returned" PROVE FALSE
        BY DEF StopIsFinal
      <4> QED BY <2>3 DEF Begin
    <3>4. TypeOK'
      <4>1. fire' \in [Fire -> {"idle", "launched", "running"}]
        BY <2>3 DEF Begin
      <4>2. running' \in Nat
        BY <2>3 DEF Begin
      <4>3. stopped' \in BOOLEAN /\ timer' \in BOOLEAN /\ owed' \in BOOLEAN
        BY <2>3, Zenon DEF Begin
      <4>4. stopper' \in [Stopper -> {"idle", "waiting", "returned"}]
        BY <2>3 DEF Begin
      <4> QED BY <4>1, <4>2, <4>3, <4>4
    <3>5. FlagSet'
      BY <2>3 DEF Begin
    <3> QED BY <3>2, <3>3, <3>4, <3>5
  <2>4. ASSUME NEW f \in Fire, GiveUp(f) PROVE IInv'
    <3>1. Running' = Running
      BY <2>4 DEF GiveUp, Running
    <3> QED BY <2>4, <3>1 DEF GiveUp, Counted, StopIsFinal
  <2>5. ASSUME NEW f \in Fire, End(f) PROVE IInv'
    <3>1. Running' = Running \ {f} /\ f \in Running
      BY <2>5 DEF End, Running
    <3>2. Cardinality(Running') = running - 1 /\ IsFiniteSet(Running')
      BY <3>1, FS_RemoveElement DEF Counted
    <3>3. running - 1 \in Nat
      BY <3>2, FS_CardinalityType
    <3> QED BY <2>5, <3>1, <3>2, <3>3 DEF End, Counted, StopIsFinal
  <2>6. ASSUME NEW s \in Stopper, Stop(s) PROVE IInv'
    <3>1. Running' = Running
      BY <2>6 DEF Stop, Running
    <3> QED BY <2>6, <3>1 DEF Stop, Counted, StopIsFinal
  <2>7. ASSUME NEW s \in Stopper, StopReturns(s) PROVE IInv'
    <3>1. Running' = Running
      BY <2>7 DEF StopReturns, Running
    <3>2. Running = {}
      BY <2>7, FS_EmptySet DEF StopReturns, Counted
    <3> QED BY <2>7, <3>1, <3>2 DEF StopReturns, Counted, StopIsFinal
  <2>8. CASE UNCHANGED vars
    <3>1. Running' = Running
      BY <2>8 DEF vars, Running
    <3> QED BY <2>8, <3>1 DEF vars, Counted, StopIsFinal
  <2> QED BY <2>1, <2>2, <2>3, <2>4, <2>5, <2>6, <2>7, <2>8 DEF Next
<1> QED BY <1>1, <1>2, PTL DEF Spec

(* After Stop has returned fn is not running, and none is started. *)
THEOREM StopFinal == Spec => []StopIsFinal
<1>1. IInv => StopIsFinal
  BY DEF IInv
<1> QED BY <1>1, Inductive, PTL

(* The WaitGroup is used as its contract demands: Add from zero never runs  *)
(* next to Wait, since fire adds under the lock and only with the flag down. *)
THEOREM WaitGroupSafe == Spec => NoAddDuringWait
<1>1. IInv /\ [Next]_vars =>
        [running' > running => \A s \in Stopper : stopper[s] # "waiting"]_vars
  BY DEF IInv, TypeOK, FlagSet, Next, Arm, Expire, Begin, GiveUp, End, Stop,
         StopReturns, vars
<1> QED BY <1>1, Inductive, PTL DEF Spec, NoAddDuringWait

(* No Arm is lost. *)
THEOREM ArmsKept == Spec => []NoArmLost
<1>1. Init => NoArmLost
  BY DEF Init, NoArmLost
<1>2. TypeOK /\ NoArmLost /\ [Next]_vars => NoArmLost'
  BY DEF TypeOK, NoArmLost, Next, Arm, Expire, Begin, GiveUp, End, Stop,
         StopReturns, vars
<1>3. IInv => TypeOK
  BY DEF IInv
<1> QED BY <1>1, <1>2, <1>3, Inductive, PTL DEF Spec

(* Every reachable state is well typed; the WaitGroup's counter, which would *)
(* panic below zero, is a number.                                            *)
THEOREM TypeInvariant == Spec => []TypeOK
<1>1. IInv => TypeOK
  BY DEF IInv
<1> QED BY <1>1, Inductive, PTL

=============================================================================
