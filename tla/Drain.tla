------------------------------- MODULE Drain -------------------------------
(***************************************************************************)
(* Draining the simulator before a checkpoint or a switch of CPUs          *)
(* (sim/drain.{hh,cc}, and the loop around tryDrain() and simulate() in    *)
(* python/m5/simulate.py).                                                 *)
(*                                                                         *)
(* An object holds work (packets, events, outstanding requests): it is     *)
(* handed on to other objects or finished as the simulation runs, and      *)
(* drain() answers Drained exactly when the object holds none.  An object  *)
(* already drained can be handed new work by another.  Signals of objects  *)
(* on different simulation threads meet only in _count, which is atomic.   *)
(***************************************************************************)
EXTENDS Naturals, FiniteSets

CONSTANTS Objects,   \* the Drainables
          Late,      \* those constructed while the simulation runs (a cloned
                     \* Process): they hold no work and never signal
          Sources,   \* the objects that start new work of their own
          sendsTo,   \* whom an object hands work to
          MaxWork    \* bound on the work an object holds

ASSUME DrainAssumption ==
    /\ IsFiniteSet(Objects)
    /\ Late \subseteq Objects
    /\ Sources \subseteq Objects \ Late
    /\ sendsTo \in [Objects -> SUBSET (Objects \ Late)]
    /\ \A o \in Objects : o \notin sendsTo[o]
    /\ MaxWork \in Nat

VARIABLES state,        \* DrainManager::_state
          count,        \* DrainManager::_count
          registered,   \* DrainManager::_allDrainable
          ostate,       \* Drainable::_drainState of each object
          work,         \* how much work each object holds
          exits,        \* the "Finished drain" exit events pending
          py,           \* where the script is
          left          \* the objects tryDrain() or resume() has yet to visit

vars == <<state, count, registered, ostate, work, exits, py, left>>

States == {"Running", "Draining", "Drained", "Resuming"}

(* The script is in the simulation loop, for the user or for drain().      *)
Simulating == py \in {"simulate", "drain_simulate"}

Init ==
    /\ state = "Running"
    /\ count = 0
    /\ registered = Objects \ Late
    /\ ostate = [o \in Objects |-> "Running"]
    /\ work = [o \in Objects |-> 0]
    /\ exits = 0
    /\ py = "instantiate"
    /\ left = {}
-----------------------------------------------------------------------------
signalEarly(o, w) ==
    IF w[o] = 0 /\ ostate[o] = "Draining"
    THEN /\ ostate' = [ostate EXCEPT ![o] = "Drained"]
         /\ count' = count - 1
         /\ exits' = 1
    ELSE UNCHANGED <<ostate, count, exits>>

(* signalDrainDone() by an object that has run out of work.                *)
signalDrainDone(o, w) ==
    IF w[o] = 0 /\ ostate[o] = "Draining"
    THEN /\ ostate' = [ostate EXCEPT ![o] = "Drained"]
         /\ count' = count - 1
         /\ exits' = IF count = 1 THEN exits + 1 ELSE exits
    ELSE UNCHANGED <<ostate, count, exits>>

(* An object starts work while it is running, *)
Issue(o) ==
    /\ Simulating
    /\ o \in Sources
    /\ ostate[o] = "Running"
    /\ work[o] < MaxWork
    /\ work' = [work EXCEPT ![o] = @ + 1]
    /\ UNCHANGED <<state, count, registered, ostate, exits, py, left>>

(* hands some on, *)
Send(o, p) ==
    /\ Simulating
    /\ p \in sendsTo[o]
    /\ work[o] > 0
    /\ work[p] < MaxWork
    /\ work' = [work EXCEPT ![o] = @ - 1, ![p] = @ + 1]
    /\ signalDrainDone(o, work')
    /\ UNCHANGED <<state, registered, py, left>>

(* or finishes some. *)
Finish(o) ==
    /\ Simulating
    /\ work[o] > 0
    /\ work' = [work EXCEPT ![o] = @ - 1]
    /\ signalDrainDone(o, work')
    /\ UNCHANGED <<state, registered, py, left>>

(* The constructor takes the manager's state and registers the object.     *)
Construct(o) ==
    /\ Simulating
    /\ o \in Late \ registered
    /\ registered' = registered \cup {o}
    /\ ostate' = [ostate EXCEPT ![o] = state]
    /\ UNCHANGED <<state, count, work, exits, py, left>>

Destroy(o) ==
    /\ Simulating
    /\ o \in Late \cap registered
    /\ registered' = registered \ {o}
    /\ UNCHANGED <<state, count, ostate, work, exits, py, left>>
-----------------------------------------------------------------------------
(* m5.instantiate() of a new system goes on to simulate(); of a checkpoint *)
(* it first marks everything drained.                                      *)
StartFresh ==
    /\ py = "instantiate"
    /\ py' = "simulate"
    /\ UNCHANGED <<state, count, registered, ostate, work, exits, left>>

preCheckpointRestore ==
    /\ py = "instantiate"
    /\ state = "Running"
    /\ state' = "Drained"
    /\ ostate' = [o \in Objects |-> IF o \in registered THEN "Drained"
                                    ELSE ostate[o]]
    /\ py' = "drained"
    /\ UNCHANGED <<count, registered, work, exits, left>>

(* tryDrain(), first called by a script that is back from simulate(): the  *)
(* loop over the objects, then the result.                                 *)
tryDrain ==
    /\ py \in {"simulate", "drain_again"}
    /\ state # "Drained"
    /\ count = 0
    /\ state' = "Draining"
    /\ left' = registered
    /\ py' = "tryDrain"
    /\ UNCHANGED <<count, registered, ostate, work, exits>>

dmDrainForgets(o) ==
    /\ py = "tryDrain"
    /\ o \in left
    /\ left' = left \ {o}
    /\ ostate' = [ostate EXCEPT ![o] = IF work[o] = 0 THEN "Drained"
                                       ELSE "Draining"]
    /\ UNCHANGED <<state, count, registered, work, exits, py>>

dmDrainWaits(o) ==
    /\ py = "tryDrain"
    /\ o \in left
    /\ left' = left \ {o}
    /\ ostate' = [ostate EXCEPT ![o] = IF o \in Late THEN "Drained"
                                       ELSE "Draining"]
    /\ count' = IF o \in Late THEN count ELSE count + 1
    /\ UNCHANGED <<state, registered, work, exits, py>>

dmDrain(o) ==
    /\ py = "tryDrain"
    /\ o \in left
    /\ left' = left \ {o}
    /\ ostate' = [ostate EXCEPT ![o] = IF work[o] = 0 THEN "Drained"
                                       ELSE "Draining"]
    /\ count' = IF work[o] = 0 THEN count ELSE count + 1
    /\ UNCHANGED <<state, registered, work, exits, py>>

tryDrainReturn ==
    /\ py = "tryDrain"
    /\ left = {}
    /\ IF count = 0
       THEN state' = "Drained" /\ py' = "drained"
       ELSE py' = "drain_simulate" /\ UNCHANGED state
    /\ UNCHANGED <<count, registered, ostate, work, exits, left>>

drainOnce ==
    /\ py = "drain_simulate"
    /\ exits > 0
    /\ exits' = exits - 1
    /\ state' = "Drained"
    /\ py' = "drained"
    /\ UNCHANGED <<count, registered, ostate, work, left>>

(* simulate() returns with "Finished drain" to drain(), which tries again; *)
(* with any other cause it simulates on.                                   *)
drain ==
    /\ py = "drain_simulate"
    /\ exits > 0
    /\ exits' = exits - 1
    /\ py' = "drain_again"
    /\ UNCHANGED <<state, count, registered, ostate, work, left>>

(* simulate() on a drained system begins with resume().                    *)
resume ==
    /\ py = "drained"
    /\ state \notin {"Running", "Resuming"}
    /\ count = 0
    /\ state' = "Resuming"
    /\ left' = registered
    /\ py' = "resume"
    /\ UNCHANGED <<count, registered, ostate, work, exits>>

dmDrainResume(o) ==
    /\ py = "resume"
    /\ o \in left
    /\ left' = left \ {o}
    /\ ostate' = [ostate EXCEPT ![o] = "Running"]
    /\ UNCHANGED <<state, count, registered, work, exits, py>>

resumeReturn ==
    /\ py = "resume"
    /\ left = {}
    /\ \A o \in registered : ostate[o] = "Running"
    /\ state' = "Running"
    /\ py' = "simulate"
    /\ UNCHANGED <<count, registered, ostate, work, exits, left>>

ObjectStep(o) ==
    \/ Issue(o)
    \/ \E p \in Objects : Send(o, p)
    \/ Finish(o)
    \/ Construct(o)
    \/ Destroy(o)
    \/ dmDrain(o)
    \/ dmDrainResume(o)

ScriptStep ==
    \/ StartFresh
    \/ preCheckpointRestore
    \/ tryDrain
    \/ tryDrainReturn
    \/ drain
    \/ resume
    \/ resumeReturn

Next == ScriptStep \/ \E o \in Objects : ObjectStep(o)

Spec == Init /\ [][Next]_vars

(* The simulator simulates: work is finished, and the loops of the manager *)
(* and the script run to their ends.  Nothing makes a script drain, new    *)
(* work start or an object be handed work.                                 *)
Fairness ==
    /\ WF_vars(tryDrainReturn)
    /\ WF_vars(drain)
    /\ WF_vars(py = "drain_again" /\ tryDrain)
    /\ \A o \in Objects : WF_vars(Finish(o)) /\ WF_vars(dmDrain(o))

FairSpec == Spec /\ Fairness
-----------------------------------------------------------------------------
(* The values of the variables; _count stays within the number of objects, *)
(* and at most one exit event is pending.                                  *)
TypeOK ==
    /\ state \in States
    /\ count \in 0 .. Cardinality(Objects)
    /\ registered \subseteq Objects
    /\ ostate \in [Objects -> States]
    /\ work \in [Objects -> 0 .. MaxWork]
    /\ exits \in 0 .. 1
    /\ py \in {"instantiate", "simulate", "tryDrain", "drain_simulate",
               "drain_again", "drained", "resume"}
    /\ left \subseteq registered

(* The objects that have been counted and have not signalled yet.          *)
Pending == {o \in Objects \ (Late \cup left) : ostate[o] = "Draining"}

(***************************************************************************)
(* _count is the number of objects whose signal is still to come: the      *)
(* assert in signalDrainDone() holds, and no signal is missed or counted   *)
(* twice.                                                                  *)
(***************************************************************************)
CountMatches == count = Cardinality(Pending)

(***************************************************************************)
(* A system that is drained holds no work and all its objects know: it is  *)
(* safe to write a checkpoint.                                             *)
(***************************************************************************)
DrainedIsQuiet ==
    state = "Drained" =>
        \A o \in registered : work[o] = 0 /\ ostate[o] = "Drained"

(***************************************************************************)
(* Every drain cycle begins with a zero count, so that tryDrain() does not *)
(* panic, and the script that waits for "Finished drain" has an exit event *)
(* coming: one is pending, or an object will still signal.                 *)
(***************************************************************************)
DrainCycle ==
    /\ py \in {"simulate", "drain_again", "drained"} => count = 0 /\ exits = 0
    /\ py = "drain_simulate" => (exits = 1 <=> count = 0)

(* drain() comes to an end.                                                *)
DrainEnds == py = "tryDrain" ~> py = "drained"
=============================================================================
