--------------------------- MODULE Barrier_proofs ---------------------------
(***************************************************************************)
(* For any finite set of threads and any wrap-around modulus of at least   *)
(* two, Barrier keeps its type, its generation invariant and its single    *)
(* winner, and implements BarrierSpec.                                     *)
(***************************************************************************)
EXTENDS Barrier, FiniteSetTheorems, TLAPS

IInv == TypeOK /\ GenerationInv

(* Every set of threads is finite. *)
LEMMA ThreadSets ==
    ASSUME NEW S \in SUBSET Threads
    PROVE  IsFiniteSet(S) /\ Cardinality(S) \in Nat
  BY BarrierAssumption, FS_Subset, FS_CardinalityType, Zenon

(* The constructor is given a positive count.                              *)
LEMMA NumWaitingPos == numWaiting \in Nat \ {0}
  BY BarrierAssumption, FS_CardinalityType, FS_EmptySet, Zenon DEF numWaiting

(* Going on to the next generation really changes the counter. *)
LEMMA NextDiffers ==
    ASSUME TypeOK
    PROVE  /\ NextGeneration \in 0 .. GenMod - 1
           /\ NextGeneration # generation
  <1>1. CASE generation + 1 = GenMod
    BY <1>1, BarrierAssumption DEF TypeOK, NextGeneration
  <1>2. CASE generation + 1 < GenMod
    BY <1>2, BarrierAssumption DEF TypeOK, NextGeneration
  <1> QED
    BY <1>1, <1>2, BarrierAssumption DEF TypeOK

(* numLeft says one is left exactly when t is the only thread not arrived. *)
LEMMA LastOne ==
    ASSUME IInv, NEW t \in Threads, pc[t] = "idle"
    PROVE  (numLeft - 1 = 0) <=> (Arrived \cup {t} = Threads)
  <1> DEFINE L == Threads \ Arrived
  <1>1. t \in L
    BY Zenon DEF Arrived
  <1>2. IsFiniteSet(L) /\ Cardinality(L) \in Nat /\ numLeft = Cardinality(L)
    BY ThreadSets, Zenon DEF IInv, GenerationInv
  <1>3. ASSUME numLeft - 1 = 0 PROVE Arrived \cup {t} = Threads
    <2>1. Cardinality(L) = 1
      BY <1>2, <1>3
    <2> HIDE DEF L
    <2>2. PICK x : L = {x}
      BY <1>2, <2>1, FS_Singleton, Zenon
    <2> QED
      BY <1>1, <2>2, Zenon DEF Arrived, L
  <1>4. ASSUME Arrived \cup {t} = Threads PROVE numLeft - 1 = 0
    <2>1. L = {t}
      BY <1>1, <1>4, Zenon
    <2> QED
      BY <1>2, <2>1, FS_Singleton
  <1> QED
    BY <1>3, <1>4, Zenon

(* It holds of a new barrier.                                              *)
LEMMA InitIInv == Init => IInv
  <1> SUFFICES ASSUME Init PROVE IInv
    BY Zenon
  <1>1. TypeOK
    BY BarrierAssumption, NumWaitingPos DEF Init, TypeOK
  <1>2. Arrived = {} /\ Released = {}
    BY Zenon DEF Init, Arrived, Released
  <1>3. GenerationInv
    <2>1. Threads \ Arrived = Threads
      BY <1>2, Zenon
    <2> QED
      BY <1>2, <2>1, Zenon DEF Init, GenerationInv, numWaiting
  <1> QED
    BY <1>1, <1>3, Zenon DEF IInv

(* How each action moves the threads between Arrived and Released. *)
LEMMA SleepSets ==
    ASSUME IInv, NEW t \in Threads, WaitSleep(t)
    PROVE  /\ Arrived' = Arrived \cup {t}
           /\ Released' = Released
           /\ t \notin Arrived \cup Released
  BY Zenon DEF IInv, TypeOK, WaitSleep, Arrived, Released

(* What the last thread to arrive does to the sets of threads.             *)
LEMMA LastSets ==
    ASSUME IInv, NEW t \in Threads, WaitLast(t)
    PROVE  /\ Arrived \cup {t} = Threads
           /\ Released = {}
           /\ Arrived' = {}
           /\ Released' = Threads \ {t}
           /\ t \notin Arrived \cup Released
  <1>1. Arrived \cup {t} = Threads
    BY LastOne, Zenon DEF WaitLast
  <1>2. t \notin Arrived \cup Released
    BY Zenon DEF WaitLast, Arrived, Released
  <1>3. Released = {}
    BY <1>1, <1>2, Zenon DEF Arrived, Released
  <1>4. \A u \in Threads \ {t} : pc'[u] = "asleep" /\ gen'[u] = generation
    BY <1>1, Zenon DEF WaitLast, Arrived, IInv, TypeOK
  <1>5. generation' # generation /\ pc'[t] = "idle"
    BY NextDiffers, Zenon DEF WaitLast, IInv
  <1> QED
    BY <1>1, <1>2, <1>3, <1>4, <1>5, Zenon DEF Arrived, Released

(* What a thread that wakes up does to them.                               *)
LEMMA WakeSets ==
    ASSUME IInv, NEW t \in Threads, Wake(t)
    PROVE  /\ Arrived' = Arrived
           /\ Released' = Released \ {t}
           /\ t \in Released
  BY Zenon DEF IInv, TypeOK, Wake, Arrived, Released

(* No step of wait() breaks it.                                            *)
LEMMA NextIInv == IInv /\ [Next]_vars => IInv'
  <1> SUFFICES ASSUME IInv, [Next]_vars PROVE IInv'
    BY Zenon
  <1>1. ASSUME NEW t \in Threads, WaitSleep(t) PROVE IInv'
    <2>1. numLeft' = Cardinality((Threads \ Arrived) \ {t})
      BY <1>1, SleepSets, ThreadSets, FS_RemoveElement, Zenon
      DEF WaitSleep, IInv, GenerationInv
    <2>2. (Threads \ Arrived) \ {t} = Threads \ Arrived'
      BY <1>1, SleepSets, Zenon
    <2>3. \A u \in Released' : generation' = (gen'[u] + 1) % GenMod
      BY <1>1, SleepSets, Zenon DEF WaitSleep, IInv, GenerationInv, TypeOK, Released
    <2>4. TypeOK'
      BY <1>1, NumWaitingPos DEF WaitSleep, IInv, TypeOK, numWaiting
    <2> QED
      BY <2>1, <2>2, <2>3, <2>4, Zenon DEF IInv, GenerationInv
  <1>2. ASSUME NEW t \in Threads, WaitLast(t) PROVE IInv'
    <2>1. numLeft' = Cardinality(Threads \ Arrived')
      <3>1. Threads \ Arrived' = Threads
        BY <1>2, LastSets, Zenon
      <3> QED
        BY <1>2, <3>1, Zenon DEF WaitLast, numWaiting
    <2>2. \A u \in Released' : generation' = (gen'[u] + 1) % GenMod
      <3>1. \A u \in Released' : u \in Threads /\ u \in Arrived /\ u # t
        BY <1>2, LastSets, Zenon
      <3> QED
        BY <1>2, <3>1, Zenon DEF WaitLast, NextGeneration, Arrived, IInv, TypeOK
    <2>3. TypeOK'
      BY <1>2, NextDiffers, NumWaitingPos
      DEF WaitLast, IInv, TypeOK, numWaiting
    <2> QED
      BY <2>1, <2>2, <2>3, Zenon DEF IInv, GenerationInv
  <1>3. ASSUME NEW t \in Threads, Wake(t) PROVE IInv'
    <2>1. GenerationInv'
      BY <1>3, WakeSets, Zenon DEF Wake, IInv, GenerationInv
    <2>2. TypeOK'
      BY <1>3, Zenon DEF Wake, IInv, TypeOK, numWaiting
    <2> QED
      BY <2>1, <2>2, Zenon DEF IInv
  <1>4. CASE UNCHANGED vars
    BY <1>4, Zenon DEF vars, IInv, TypeOK, GenerationInv, Arrived, Released,
                numWaiting
  <1> QED
    BY <1>1, <1>2, <1>3, <1>4, Zenon DEF Next

(* Every reachable state is well typed: in particular numLeft, an unsigned *)
(* that wait() decrements, never reaches zero and so never underflows.     *)
THEOREM TypeCorrect == Spec => []TypeOK
  <1>1. IInv => TypeOK
    BY Zenon DEF IInv
  <1> QED
    BY InitIInv, NextIInv, <1>1, PTL DEF Spec

(* numLeft and the wrapping generation always describe the current round.  *)
THEOREM GenerationCorrect == Spec => []GenerationInv
  <1>1. IInv => GenerationInv
    BY Zenon DEF IInv
  <1> QED
    BY InitIInv, NextIInv, <1>1, PTL DEF Spec
-----------------------------------------------------------------------------
(* OneWinner made inductive: before the first round nobody has been told   *)
(* anything; from then on one thread of the last round has been told true. *)
Winners == {t \in Threads \ Released : ret[t] = "true"}

WinnerInv ==
    \/ Released = {} /\ \A t \in Threads : ret[t] = "none"
    \/ \E w \in Threads : Winners = {w}

(* No step of wait() breaks this either.                                   *)
LEMMA NextWinnerInv == IInv /\ WinnerInv /\ [Next]_vars => WinnerInv'
  <1> SUFFICES ASSUME IInv, WinnerInv, [Next]_vars PROVE WinnerInv'
    BY Zenon
  <1>1. ASSUME NEW t \in Threads, WaitSleep(t) PROVE WinnerInv'
    BY <1>1, SleepSets, ZenonT(40) DEF WaitSleep, WinnerInv, Winners
  <1>2. ASSUME NEW t \in Threads, WaitLast(t) PROVE WinnerInv'
    <2>1. ret'[t] = "true" /\ Released' = Threads \ {t}
      BY <1>2, LastSets, Zenon DEF WaitLast, IInv, TypeOK
    <2>2. Winners' = {t}
      BY <2>1, Zenon DEF Winners
    <2> QED
      BY <2>2, Zenon DEF WinnerInv
  <1>3. ASSUME NEW t \in Threads, Wake(t) PROVE WinnerInv'
    <2>1. t \in Released /\ Released' = Released \ {t}
      BY <1>3, WakeSets, Zenon
    <2>2. ret' = [ret EXCEPT ![t] = "false"] /\ ret \in [Threads -> {"none", "true", "false"}]
      BY <1>3, Zenon DEF Wake, IInv, TypeOK
    <2>3. Winners' = Winners
      BY <2>1, <2>2, Zenon DEF Winners
    <2> QED
      BY <2>1, <2>3, Zenon DEF WinnerInv
  <1>4. CASE UNCHANGED vars
    BY <1>4, Zenon DEF vars, WinnerInv, Winners, Released
  <1> QED
    BY <1>1, <1>2, <1>3, <1>4, Zenon DEF Next

(* In every round exactly one thread is told true, so a global event is    *)
(* processed once, by one thread.                                          *)
THEOREM SingleWinner == Spec => []OneWinner
  <1>1. Init => WinnerInv
    BY Zenon DEF Init, WinnerInv, Released
  <1>2. WinnerInv => OneWinner
    BY FS_Singleton, Zenon DEF WinnerInv, OneWinner, Winners
  <1> QED
    BY InitIInv, NextIInv, <1>1, NextWinnerInv, <1>2, PTL DEF Spec
-----------------------------------------------------------------------------
(* wait() as coded implements the abstract barrier. *)
THEOREM Refinement == Spec => ImplementsBarrier
  <1>1. Init => Abstract!Init
    BY Zenon DEF Init, Abstract!Init, Arrived, Released
  <1>2. IInv /\ [Next]_vars => [Abstract!Next]_Abstract!vars
    <2> SUFFICES ASSUME IInv, [Next]_vars
                 PROVE  [Abstract!Next]_Abstract!vars
      BY Zenon
    <2>1. ASSUME NEW t \in Threads, WaitSleep(t) PROVE Abstract!Arrive(t)
      <3>1. Arrived \cup {t} # Threads
        BY <2>1, LastOne, Zenon DEF WaitSleep
      <3> QED
        BY <2>1, <3>1, SleepSets, Zenon DEF WaitSleep, Abstract!Arrive
    <2>2. ASSUME NEW t \in Threads, WaitLast(t) PROVE Abstract!Complete(t)
      BY <2>2, LastSets, Zenon DEF WaitLast, Abstract!Complete
    <2>3. ASSUME NEW t \in Threads, Wake(t) PROVE Abstract!Return(t)
      BY <2>3, WakeSets, Zenon DEF Wake, Abstract!Return
    <2>4. CASE UNCHANGED vars
      BY <2>4, Zenon DEF vars, Abstract!vars, Arrived, Released
    <2> QED
      BY <2>1, <2>2, <2>3, <2>4, Zenon DEF Next, Abstract!Next
  <1> QED
    BY InitIInv, NextIInv, <1>1, <1>2, PTL
    DEF Spec, ImplementsBarrier, Abstract!Spec
=============================================================================
