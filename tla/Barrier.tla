------------------------------- MODULE Barrier -------------------------------
(***************************************************************************)
(* The reusable thread barrier of src/gem5/src/base/barrier.hh: the one    *)
(* on which the simulation threads meet before they enter the simulation   *)
(* loop (threadBarrier, sim/simulate.cc) and at every global event         *)
(* (BaseGlobalEvent::barrier, sim/global_event.hh).                        *)
(*                                                                         *)
(* wait() runs under bMutex, which only bCond.wait() gives up, so it is    *)
(* two atomic pieces: the part up to the return or the first bCond.wait(), *)
(* and, for a thread that went to sleep, a wake-up that finds              *)
(* gen != generation.  A wake-up (spurious or not) that finds them equal   *)
(* sleeps again and changes nothing.                                       *)
(***************************************************************************)
EXTENDS Naturals, FiniteSets

CONSTANTS Threads,   \* the threads sharing the barrier; numWaiting of them
          GenMod     \* generation is an unsigned: it wraps at GenMod (2^32)

ASSUME BarrierAssumption ==
    /\ IsFiniteSet(Threads)
    /\ Threads # {}
    /\ GenMod \in Nat
    /\ GenMod >= 2

VARIABLES generation,   \* generation of the barrier
          numLeft,      \* threads still to arrive in this generation
          pc,           \* "idle": outside wait(); "asleep": in bCond.wait()
          gen,          \* the local gen of each thread's last wait()
          ret           \* what each thread's last wait() returned

vars == <<generation, numLeft, pc, gen, ret>>

numWaiting == Cardinality(Threads)

NextGeneration == (generation + 1) % GenMod

Init ==
    /\ generation = 0
    /\ numLeft = numWaiting
    /\ pc = [t \in Threads |-> "idle"]
    /\ gen = [t \in Threads |-> 0]
    /\ ret = [t \in Threads |-> "none"]
-----------------------------------------------------------------------------
(***************************************************************************)
(* wait() by a thread that is not the last: it decrements numLeft and goes *)
(* to sleep.                                                               *)
(***************************************************************************)
WaitSleep(t) ==
    /\ pc[t] = "idle"
    /\ numLeft - 1 # 0
    /\ numLeft' = numLeft - 1
    /\ gen' = [gen EXCEPT ![t] = generation]
    /\ pc' = [pc EXCEPT ![t] = "asleep"]
    /\ UNCHANGED <<generation, ret>>

WaitLastNoBump(t) ==
    /\ pc[t] = "idle"
    /\ numLeft - 1 = 0
    /\ gen' = [gen EXCEPT ![t] = generation]
    /\ numLeft' = numWaiting
    /\ ret' = [ret EXCEPT ![t] = "true"]
    /\ UNCHANGED <<generation, pc>>

(***************************************************************************)
(* wait() by the last thread: a new generation, numLeft rearmed, everybody *)
(* notified; it returns true without sleeping.                             *)
(***************************************************************************)
WaitLast(t) ==
    /\ pc[t] = "idle"
    /\ numLeft - 1 = 0
    /\ gen' = [gen EXCEPT ![t] = generation]
    /\ generation' = NextGeneration
    /\ numLeft' = numWaiting
    /\ ret' = [ret EXCEPT ![t] = "true"]
    /\ UNCHANGED pc

WakeUnchecked(t) ==
    /\ pc[t] = "asleep"
    /\ pc' = [pc EXCEPT ![t] = "idle"]
    /\ ret' = [ret EXCEPT ![t] = "false"]
    /\ UNCHANGED <<generation, numLeft, gen>>

(* The loop around bCond.wait() ends; wait() returns false. *)
Wake(t) ==
    /\ pc[t] = "asleep"
    /\ gen[t] # generation
    /\ pc' = [pc EXCEPT ![t] = "idle"]
    /\ ret' = [ret EXCEPT ![t] = "false"]
    /\ UNCHANGED <<generation, numLeft, gen>>

Next == \E t \in Threads : WaitSleep(t) \/ WaitLast(t) \/ Wake(t)

Spec == Init /\ [][Next]_vars

(***************************************************************************)
(* Every thread keeps coming back to the barrier (thread_loop() does       *)
(* nothing else; the barrier events are on every queue), and a notified    *)
(* thread gets to run.                                                     *)
(***************************************************************************)
Fairness ==
    \A t \in Threads : /\ WF_vars(WaitSleep(t) \/ WaitLast(t))
                       /\ WF_vars(Wake(t))

FairSpec == Spec /\ Fairness
-----------------------------------------------------------------------------
Arrived == {t \in Threads : pc[t] = "asleep" /\ gen[t] = generation}

Released == {t \in Threads : pc[t] = "asleep" /\ gen[t] # generation}

(* The values of the variables; numLeft is never 0 outside of wait().      *)
TypeOK ==
    /\ generation \in 0 .. GenMod - 1
    /\ numLeft \in 1 .. numWaiting
    /\ pc \in [Threads -> {"idle", "asleep"}]
    /\ gen \in [Threads -> 0 .. GenMod - 1]
    /\ ret \in [Threads -> {"none", "true", "false"}]

(***************************************************************************)
(* A thread asleep is either of this generation or of the one just before  *)
(* it, and numLeft counts exactly the threads the current generation still *)
(* lacks.  It is what makes a generation counter that wraps harmless.      *)
(***************************************************************************)
GenerationInv ==
    /\ numLeft = Cardinality(Threads \ Arrived)
    /\ \A t \in Released : generation = (gen[t] + 1) % GenMod

(***************************************************************************)
(* Exactly one of the threads that are through with the last completed     *)
(* round was told "true": it alone runs BaseGlobalEvent::process(), the    *)
(* others skip it.                                                         *)
(***************************************************************************)
OneWinner ==
    LET through == Threads \ Released
    IN  (\E t \in Threads : ret[t] # "none") =>
            Cardinality({t \in through : ret[t] = "true"}) = 1

(* The counter and the generation implement the abstract barrier.          *)
Abstract == INSTANCE BarrierSpec WITH arrived <- Arrived, released <- Released

(* Nobody leaves a round before everybody has arrived in it, and nobody is *)
(* left behind in it: every step of wait() is a step of BarrierSpec.       *)
ImplementsBarrier == Abstract!Spec

(* A thread that went to sleep in wait() returns from it.                  *)
EveryWaiterReturns ==
    \A t \in Threads : pc[t] = "asleep" ~> pc[t] = "idle"
=============================================================================
