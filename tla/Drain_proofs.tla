---------------------------- MODULE Drain_proofs ----------------------------
(***************************************************************************)
(* The safety of draining, for any number of objects and any amount of     *)
(* work.                                                                   *)
(***************************************************************************)
EXTENDS Drain, FiniteSetTheorems, TLAPS

(***************************************************************************)
(* What ties the script's place to the manager and to the objects: without *)
(* it nothing says that a script in simulate() finds the counter at rest,  *)
(* that tryDrain() visits every object that can hold work, or that the     *)
(* objects it has visited are still as they answered.                      *)
(***************************************************************************)
Phase ==
    /\ py \in {"instantiate", "simulate"} => state = "Running"
    /\ py \in {"tryDrain", "drain_simulate", "drain_again"} =>
          state = "Draining"
    /\ py = "drained" => state = "Drained"
    /\ py = "resume" => state = "Resuming"
    /\ py \notin {"tryDrain", "resume"} => left = {}
    /\ py # "drain_simulate" => exits = 0
    /\ py \notin {"tryDrain", "drain_simulate"} => count = 0

Idle ==
    /\ Objects \ Late \subseteq registered
    /\ \A o \in Late : work[o] = 0
    /\ py = "instantiate" => \A o \in Objects : work[o] = 0

Visited ==
    py = "tryDrain" =>
        \A o \in registered \ left :
            ostate[o] = IF work[o] = 0 THEN "Drained" ELSE "Draining"

IInv ==
    /\ TypeOK
    /\ CountMatches
    /\ DrainedIsQuiet
    /\ DrainCycle
    /\ Phase
    /\ Idle
    /\ Visited

-----------------------------------------------------------------------------
(* Every set of objects is finite and no larger than the set of all.       *)
LEMMA ObjectSets ==
    ASSUME NEW S \in SUBSET Objects
    PROVE  IsFiniteSet(S) /\ Cardinality(S) \in 0 .. Cardinality(Objects)
  BY DrainAssumption, FS_Subset, FS_CardinalityType

(* The objects that drain are drainable objects.                           *)
LEMMA PendingSet == Pending \in SUBSET Objects
  BY Zenon DEF Pending

(* The count stays the number of pending objects, and within its type, as  *)
(* long as neither changes.                                                *)
LEMMA SamePending ==
    ASSUME CountMatches, Pending' = Pending, count' = count
    PROVE  CountMatches' /\ count' \in 0 .. Cardinality(Objects)
  BY ObjectSets, PendingSet, Zenon DEF CountMatches

(***************************************************************************)
(* A signal from an object that held work: it is either ignored or taken   *)
(* off a count of at least one, in a drain cycle whose exit event is still *)
(* to come.                                                                *)
(***************************************************************************)
LEMMA Signalled ==
    ASSUME IInv, Simulating, NEW o \in Objects, work[o] > 0,
           signalDrainDone(o, work'), UNCHANGED <<py, left>>
    PROVE  /\ CountMatches'
           /\ count' \in 0 .. Cardinality(Objects)
           /\ exits' \in 0 .. 1
           /\ ostate' \in [Objects -> States]
           /\ DrainCycle'
           /\ py # "drain_simulate" => count' = 0 /\ exits' = 0
  <1> DEFINE P == Pending
  <1>1. left = {} /\ left' = {} /\ o \notin Late
    BY DEF IInv, Phase, Idle, Simulating
  <1>2. /\ TypeOK /\ CountMatches /\ DrainCycle
        /\ py # "drain_simulate" => count = 0 /\ exits = 0
    BY Zenon DEF IInv, Phase, Simulating
  <1>3. IsFiniteSet(P) /\ Cardinality(P) \in Nat /\ count = Cardinality(P)
    BY <1>2, ObjectSets, PendingSet DEF CountMatches
  <1>4. CASE work'[o] = 0 /\ ostate[o] = "Draining"
    <2>1. /\ ostate' = [ostate EXCEPT ![o] = "Drained"]
          /\ count' = count - 1
          /\ exits' = IF count = 1 THEN exits + 1 ELSE exits
      BY <1>4, Zenon DEF signalDrainDone
    <2>2. o \in P
      BY <1>1, <1>4, Zenon DEF Pending
    <2>3. Pending' = P \ {o}
      BY <1>1, <1>2, <2>1, Zenon DEF Pending, TypeOK
    <2>4. Cardinality(P \ {o}) = Cardinality(P) - 1 /\ P # {}
      <3> HIDE DEF P
      <3> QED BY <1>3, <2>2, FS_RemoveElement, Zenon
    <2>5. count \in Nat \ {0}
      <3> HIDE DEF P
      <3> QED BY <1>3, <2>4, FS_EmptySet, Zenon
    <2>6. CountMatches'
      BY <1>3, <2>1, <2>3, <2>4, Zenon DEF CountMatches
    <2>7. py = "drain_simulate" /\ exits = 0
      BY <1>2, <2>5 DEF DrainCycle, TypeOK
    <2>8. count' \in 0 .. Cardinality(Objects)
      BY <1>2, <2>1, <2>5, DrainAssumption, FS_CardinalityType DEF TypeOK
    <2>9. exits' \in 0 .. 1 /\ DrainCycle'
      BY <1>2, <2>1, <2>5, <2>7 DEF DrainCycle
    <2>10. ostate' \in [Objects -> States]
      BY <1>2, <2>1, Zenon DEF TypeOK, States
    <2> QED
      BY <2>6, <2>7, <2>8, <2>9, <2>10, Zenon
  <1>5. CASE ~(work'[o] = 0 /\ ostate[o] = "Draining")
    <2>1. UNCHANGED <<ostate, count, exits>>
      BY <1>5, Zenon DEF signalDrainDone
    <2>2. Pending' = Pending
      BY <2>1, Zenon DEF Pending
    <2>3. DrainCycle'
      BY <1>2, <2>1, Zenon DEF DrainCycle
    <2> QED
      BY <1>2, <2>1, <2>2, <2>3, SamePending, Zenon DEF TypeOK
  <1> QED
    BY <1>4, <1>5, Zenon
-----------------------------------------------------------------------------
(* It holds at the start.                                                  *)
LEMMA InitIInv == Init => IInv
  <1> SUFFICES ASSUME Init PROVE IInv
    BY Zenon
  <1>1. Pending = {}
    BY Zenon DEF Init, Pending
  <1>2. CountMatches
    BY <1>1, FS_EmptySet, Zenon DEF Init, CountMatches
  <1>3. TypeOK
    BY DrainAssumption, ObjectSets, FS_CardinalityType DEF Init, TypeOK, States
  <1> QED
    BY <1>2, <1>3, DrainAssumption, Zenon
    DEF Init, IInv, DrainedIsQuiet, DrainCycle, Phase, Idle, Visited

(***************************************************************************)
(* One step preserves the invariant, action by action.                     *)
(***************************************************************************)
LEMMA NextIInv == IInv /\ [Next]_vars => IInv'
  <1> SUFFICES ASSUME IInv, [Next]_vars PROVE IInv'
    BY Zenon
  <1> USE DrainAssumption
  <1>0. /\ TypeOK /\ CountMatches /\ DrainedIsQuiet /\ DrainCycle
        /\ Phase /\ Idle /\ Visited
    BY Zenon DEF IInv
  <1>1. ASSUME NEW o \in Objects, Issue(o) PROVE IInv'
    <2>1. work' \in [Objects -> 0 .. MaxWork]
      BY <1>0, <1>1 DEF Issue, TypeOK
    <2>2. Pending' = Pending
      BY <1>1, Zenon DEF Issue, Pending
    <2>3. CountMatches'
      BY <1>0, <1>1, <2>2, Zenon DEF Issue, CountMatches
    <2>4. TypeOK' /\ DrainCycle' /\ Phase'
      BY <1>0, <1>1, <2>1, Zenon DEF Issue, TypeOK, DrainCycle, Phase
    <2>5. DrainedIsQuiet' /\ Idle' /\ Visited'
      BY <1>0, <1>1, Zenon DEF Issue, Simulating, DrainedIsQuiet, Idle, Visited,
                        Phase, TypeOK
    <2> QED
      BY <2>3, <2>4, <2>5, Zenon DEF IInv
  <1>2. ASSUME NEW o \in Objects, NEW p \in Objects, Send(o, p) PROVE IInv'
    <2>1. work' \in [Objects -> 0 .. MaxWork]
      BY <1>0, <1>2 DEF Send, TypeOK
    <2>2. /\ CountMatches'
          /\ count' \in 0 .. Cardinality(Objects)
          /\ exits' \in 0 .. 1
          /\ ostate' \in [Objects -> States]
          /\ DrainCycle'
          /\ py # "drain_simulate" => count' = 0 /\ exits' = 0
      BY <1>2, Signalled, Zenon DEF Send
    <2>3. TypeOK' /\ Phase'
      BY <1>0, <1>2, <2>1, <2>2, Zenon DEF Send, TypeOK, Phase, Simulating
    <2>4. DrainedIsQuiet' /\ Visited'
      BY <1>0, <1>2, Zenon DEF Send, Simulating, DrainedIsQuiet, Visited, Phase
    <2>5. Idle'
      BY <1>0, <1>2 DEF Send, Simulating, Idle, TypeOK
    <2> QED
      BY <2>2, <2>3, <2>4, <2>5, Zenon DEF IInv
  <1>3. ASSUME NEW o \in Objects, Finish(o) PROVE IInv'
    <2>1. work' \in [Objects -> 0 .. MaxWork]
      BY <1>0, <1>3 DEF Finish, TypeOK
    <2>2. /\ CountMatches'
          /\ count' \in 0 .. Cardinality(Objects)
          /\ exits' \in 0 .. 1
          /\ ostate' \in [Objects -> States]
          /\ DrainCycle'
          /\ py # "drain_simulate" => count' = 0 /\ exits' = 0
      BY <1>3, Signalled, Zenon DEF Finish
    <2>3. TypeOK' /\ Phase'
      BY <1>0, <1>3, <2>1, <2>2, Zenon DEF Finish, TypeOK, Phase, Simulating
    <2>4. DrainedIsQuiet' /\ Visited'
      BY <1>0, <1>3, Zenon DEF Finish, Simulating, DrainedIsQuiet, Visited, Phase
    <2>5. Idle'
      BY <1>0, <1>3 DEF Finish, Simulating, Idle, TypeOK
    <2> QED
      BY <2>2, <2>3, <2>4, <2>5, Zenon DEF IInv
  <1>4. ASSUME NEW o \in Objects, Construct(o) \/ Destroy(o) PROVE IInv'
    <2>1. /\ Simulating /\ o \in Late
          /\ UNCHANGED <<state, count, work, exits, py, left>>
      BY <1>4, Zenon DEF Construct, Destroy
    <2>2. /\ ostate' \in [Objects -> States]
          /\ \A q \in Objects \ {o} : ostate'[q] = ostate[q]
      BY <1>0, <1>4 DEF Construct, Destroy, TypeOK
    <2>3. registered' \subseteq Objects /\ Objects \ Late \subseteq registered'
      BY <1>0, <1>4, Zenon DEF Construct, Destroy, TypeOK, Idle
    <2>4. Pending' = Pending
      BY <2>1, <2>2, Zenon DEF Pending
    <2>5. CountMatches'
      BY <1>0, <2>1, <2>4, Zenon DEF CountMatches
    <2>6. TypeOK' /\ DrainCycle' /\ Phase'
      BY <1>0, <2>1, <2>2, <2>3, Zenon DEF TypeOK, DrainCycle, Phase, Simulating
    <2>7. DrainedIsQuiet' /\ Idle' /\ Visited'
      BY <1>0, <2>1, <2>3, Zenon DEF Simulating, DrainedIsQuiet, Idle, Visited, Phase
    <2> QED
      BY <2>5, <2>6, <2>7, Zenon DEF IInv
  <1>5. ASSUME NEW o \in Objects, dmDrain(o) PROVE IInv'
    <2>1. /\ py = "tryDrain" /\ o \in left /\ left' = left \ {o}
          /\ UNCHANGED <<state, registered, work, exits, py>>
      BY <1>5, Zenon DEF dmDrain
    <2>2. ostate' = [ostate EXCEPT ![o] = IF work[o] = 0 THEN "Drained"
                                          ELSE "Draining"]
      BY <1>5, Zenon DEF dmDrain
    <2>3. o \notin Pending
      BY <2>1, Zenon DEF Pending
    <2>4. CountMatches' /\ count' \in 0 .. Cardinality(Objects)
      <3>1. CASE work[o] = 0
        <4>1. Pending' = Pending
          BY <1>0, <2>1, <2>2, <3>1, Zenon DEF Pending, TypeOK
        <4> QED
          BY <1>0, <1>5, <3>1, <4>1, SamePending, Zenon DEF dmDrain
      <3>2. CASE work[o] # 0
        <4> DEFINE P == Pending
        <4>1. Pending' = P \cup {o}
          BY <1>0, <2>1, <2>2, <3>2, Zenon DEF Pending, TypeOK, Idle
        <4>2. IsFiniteSet(P) /\ Cardinality(P) \in Nat /\ o \notin P
          BY <2>3, ObjectSets, PendingSet
        <4>3. Cardinality(P \cup {o}) = Cardinality(P) + 1
          <5> HIDE DEF P
          <5> QED BY <4>2, FS_AddElement, Zenon
        <4>4. count' = count + 1
          BY <1>5, <3>2, Zenon DEF dmDrain
        <4>5. CountMatches'
          BY <1>0, <4>1, <4>3, <4>4, Zenon DEF CountMatches
        <4>6. P \cup {o} \in SUBSET Objects
          BY PendingSet, Zenon
        <4>7. Cardinality(P \cup {o}) \in 0 .. Cardinality(Objects)
          BY <4>6, ObjectSets, Zenon
        <4>8. count' = Cardinality(P \cup {o})
          BY <4>1, <4>5, Zenon DEF CountMatches
        <4> QED
          BY <4>5, <4>7, <4>8, Zenon
      <3> QED
        BY <3>1, <3>2, Zenon
    <2>5. TypeOK'
      BY <1>0, <2>1, <2>2, <2>4, Zenon DEF TypeOK, States
    <2>6. DrainedIsQuiet' /\ DrainCycle' /\ Phase' /\ Idle'
      BY <1>0, <2>1, Zenon DEF DrainedIsQuiet, DrainCycle, Phase, Idle
    <2>7. Visited'
      BY <1>0, <2>1, <2>2, Zenon DEF Visited, TypeOK
    <2> QED
      BY <2>4, <2>5, <2>6, <2>7, Zenon DEF IInv
  <1>6. ASSUME NEW o \in Objects, dmDrainResume(o) PROVE IInv'
    <2>1. /\ py = "resume" /\ o \in left /\ left' = left \ {o}
          /\ ostate' = [ostate EXCEPT ![o] = "Running"]
          /\ UNCHANGED <<state, count, registered, work, exits, py>>
      BY <1>6, Zenon DEF dmDrainResume
    <2>2. Pending' = Pending
      BY <1>0, <2>1, Zenon DEF Pending, TypeOK
    <2>3. CountMatches'
      BY <1>0, <2>1, <2>2, Zenon DEF CountMatches
    <2>4. TypeOK'
      BY <1>0, <2>1, Zenon DEF TypeOK, States
    <2>5. DrainedIsQuiet' /\ DrainCycle' /\ Phase' /\ Idle' /\ Visited'
      BY <1>0, <2>1, Zenon DEF DrainedIsQuiet, DrainCycle, Phase, Idle, Visited
    <2> QED
      BY <2>3, <2>4, <2>5, Zenon DEF IInv
  <1>7. ASSUME StartFresh \/ drain PROVE IInv'
    <2>1. UNCHANGED <<state, count, registered, ostate, work, left>>
      BY <1>7, Zenon DEF StartFresh, drain
    <2>2. Pending' = Pending
      BY <2>1, Zenon DEF Pending
    <2>3. CountMatches'
      BY <1>0, <2>1, <2>2, Zenon DEF CountMatches
    <2>4. TypeOK' /\ DrainCycle' /\ Phase'
      BY <1>0, <1>7 DEF StartFresh, drain, TypeOK, DrainCycle, Phase
    <2>5. DrainedIsQuiet' /\ Idle' /\ Visited'
      BY <1>0, <1>7, Zenon DEF StartFresh, drain, DrainedIsQuiet, Idle, Visited, Phase
    <2> QED
      BY <2>3, <2>4, <2>5, Zenon DEF IInv
  <1>8. CASE preCheckpointRestore
    <2>1. count = 0 /\ left = {}
      BY <1>0, <1>8, Zenon DEF preCheckpointRestore, Phase
    <2>2. Pending' = {}
      BY <1>0, <1>8, Zenon DEF preCheckpointRestore, Pending, Idle
    <2>3. CountMatches'
      BY <1>8, <2>1, <2>2, FS_EmptySet, Zenon DEF preCheckpointRestore, CountMatches
    <2>4. TypeOK' /\ DrainCycle' /\ Phase'
      BY <1>0, <1>8, <2>1, Zenon
      DEF preCheckpointRestore, TypeOK, DrainCycle, Phase, States
    <2>5. DrainedIsQuiet' /\ Idle' /\ Visited'
      BY <1>0, <1>8, Zenon
      DEF preCheckpointRestore, DrainedIsQuiet, Idle, Visited, TypeOK
    <2> QED
      BY <2>3, <2>4, <2>5, Zenon DEF IInv
  <1>9. CASE tryDrain
    <2>1. Pending' = {}
      BY <1>0, <1>9, Zenon DEF tryDrain, Pending, Idle
    <2>2. CountMatches'
      BY <1>9, <2>1, FS_EmptySet, Zenon DEF tryDrain, CountMatches
    <2>3. TypeOK' /\ DrainCycle' /\ Phase'
      BY <1>0, <1>9, Zenon DEF tryDrain, TypeOK, DrainCycle, Phase, States
    <2>4. DrainedIsQuiet' /\ Idle' /\ Visited'
      BY <1>0, <1>9, Zenon DEF tryDrain, DrainedIsQuiet, Idle, Visited
    <2> QED
      BY <2>2, <2>3, <2>4, Zenon DEF IInv
  <1>10. CASE tryDrainReturn
    <2>1. UNCHANGED <<count, registered, ostate, work, exits, left>>
      BY <1>10, Zenon DEF tryDrainReturn
    <2>2. Pending' = Pending
      BY <2>1, Zenon DEF Pending
    <2>3. CountMatches'
      BY <1>0, <2>1, <2>2, Zenon DEF CountMatches
    <2>4. TypeOK' /\ DrainCycle' /\ Phase' /\ Idle' /\ Visited'
      BY <1>0, <1>10
      DEF tryDrainReturn, TypeOK, DrainCycle, Phase, Idle, Visited, States
    <2>5. DrainedIsQuiet'
      <3> SUFFICES ASSUME state' = "Drained", NEW o \in registered
                   PROVE  work[o] = 0 /\ ostate[o] = "Drained"
        BY <2>1, Zenon DEF DrainedIsQuiet
      <3>1. py = "tryDrain" /\ left = {} /\ count = 0
        BY <1>0, <1>10, Zenon DEF tryDrainReturn, Phase
      <3>2. Pending = {}
        BY <1>0, <3>1, ObjectSets, PendingSet, FS_EmptySet, Zenon DEF CountMatches
      <3>3. ostate[o] # "Draining" \/ o \in Late
        BY <1>0, <3>1, <3>2, Zenon DEF Pending, TypeOK
      <3> QED
        BY <1>0, <3>1, <3>3, Zenon DEF Visited, Idle
    <2> QED
      BY <2>3, <2>4, <2>5, Zenon DEF IInv
  <1>11. CASE resume
    <2>1. Pending' = {}
      BY <1>0, <1>11, Zenon DEF resume, Pending, Idle
    <2>2. CountMatches'
      BY <1>11, <2>1, FS_EmptySet, Zenon DEF resume, CountMatches
    <2>3. TypeOK' /\ DrainCycle' /\ Phase'
      BY <1>0, <1>11, Zenon DEF resume, TypeOK, DrainCycle, Phase, States
    <2>4. DrainedIsQuiet' /\ Idle' /\ Visited'
      BY <1>0, <1>11, Zenon DEF resume, DrainedIsQuiet, Idle, Visited
    <2> QED
      BY <2>2, <2>3, <2>4, Zenon DEF IInv
  <1>12. CASE resumeReturn
    <2>1. UNCHANGED <<count, registered, ostate, work, exits, left>>
      BY <1>12, Zenon DEF resumeReturn
    <2>2. Pending' = Pending
      BY <2>1, Zenon DEF Pending
    <2>3. CountMatches'
      BY <1>0, <2>1, <2>2, Zenon DEF CountMatches
    <2>4. TypeOK' /\ DrainCycle' /\ Phase'
      BY <1>0, <1>12, Zenon DEF resumeReturn, TypeOK, DrainCycle, Phase, States
    <2>5. DrainedIsQuiet' /\ Idle' /\ Visited'
      BY <1>0, <1>12, Zenon DEF resumeReturn, DrainedIsQuiet, Idle, Visited
    <2> QED
      BY <2>3, <2>4, <2>5, Zenon DEF IInv
  <1>13. CASE UNCHANGED vars
    BY <1>0, <1>13, Zenon
    DEF vars, IInv, TypeOK, CountMatches, Pending, DrainedIsQuiet, DrainCycle,
        Phase, Idle, Visited
  <1> QED
    BY <1>1, <1>2, <1>3, <1>4, <1>5, <1>6, <1>7, <1>8, <1>9, <1>10, <1>11,
       <1>12, <1>13, Zenon
    DEF Next, ScriptStep, ObjectStep
-----------------------------------------------------------------------------
(***************************************************************************)
(* For any objects, any routes of work between them and any amount of it:  *)
(* _count is the number of signals still to come, so the assert in         *)
(* DrainManager::signalDrainDone() holds and no signal is lost.            *)
(***************************************************************************)
THEOREM CountCorrect == Spec => []CountMatches
  <1>1. IInv => CountMatches
    BY Zenon DEF IInv
  <1> QED
    BY InitIInv, NextIInv, <1>1, PTL DEF Spec

(***************************************************************************)
(* When tryDrain() has returned true (or a checkpoint is being restored)   *)
(* no object holds work and every object is in the Drained state.          *)
(***************************************************************************)
THEOREM DrainSafe == Spec => []DrainedIsQuiet
  <1>1. IInv => DrainedIsQuiet
    BY Zenon DEF IInv
  <1> QED
    BY InitIInv, NextIInv, <1>1, PTL DEF Spec

(***************************************************************************)
(* tryDrain() never panics over its counter, and a script that waits for   *)
(* "Finished drain" has exactly one such exit event coming.                *)
(***************************************************************************)
THEOREM CycleCorrect == Spec => []DrainCycle
  <1>1. IInv => DrainCycle
    BY Zenon DEF IInv
  <1> QED
    BY InitIInv, NextIInv, <1>1, PTL DEF Spec

(* The types of the variables, the bounds of the two counters included.    *)
THEOREM TypeCorrect == Spec => []TypeOK
  <1>1. IInv => TypeOK
    BY Zenon DEF IInv
  <1> QED
    BY InitIInv, NextIInv, <1>1, PTL DEF Spec
=============================================================================
