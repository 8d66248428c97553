------------------------------ MODULE PortState -----------------------------
(***************************************************************************)
(* The state of a path through the memory system: masters with request     *)
(* queues, a non-coherent crossbar, a bridge to a far memory and a near    *)
(* memory on the crossbar itself.  The components call each other within   *)
(* one event: a retry may make a queue send, which makes the crossbar ask  *)
(* the bridge, and so on back.  Their functions are therefore operators    *)
(* from a state s to the state after the call, and for sendTiming calls to *)
(* the answer and the state.                                               *)
(*                                                                         *)
(* Ticks are left out: an event that is scheduled may happen at any time,  *)
(* and where the code orders packets by tick, `ahead' is the number of     *)
(* packets that a new one is due before.                                   *)
(***************************************************************************)
EXTENDS Naturals, Sequences, SequencesExt, FiniteSets, FiniteSetsExt

CONSTANTS Masters,         \* CPUs and devices
          Requests,        \* the requests they make
          Owner,           \* Owner[r]: the master that makes r
          Posted,          \* those that need no response
          Line,            \* Line[r]: the address of r
          Dest,            \* Dest[r]: the crossbar port that address belongs to
          ReqQueueLimit,   \* parameters of the bridge
          RespQueueLimit,
          NoMaster

Ports == {"bridge", "near"}
Memories == {"far", "near"}

ASSUME PortAssumption ==
    /\ Posted \subseteq Requests
    /\ Owner \in [Requests -> Masters]
    /\ Dest \in [Requests -> Ports]
    /\ \A r1, r2 \in Requests : Line[r1] = Line[r2] => Dest[r1] = Dest[r2]
    /\ ReqQueueLimit \in Nat \ {0} /\ RespQueueLimit \in Nat \ {0}
    /\ NoMaster \notin Masters

\* A PacketQueue, a crossbar layer, the bridge and a memory when idle.  A layer
\* that is BUSY has its releaseEvent scheduled, and so has a busy memory.
\* `promised' is history: the bridge has asked for a stalled request because
\* a response has left.
EmptyQueue == [transmitList |-> << >>, waitingOnRetry |-> FALSE, sendEvent |-> FALSE]
IdleLayer == [state |-> "IDLE", waitingForPeer |-> {}, waitingForLayer |-> << >>]
IdleBridge == [reqs |-> << >>, reqEvent |-> FALSE, resps |-> << >>, respEvent |-> FALSE,
               outstandingResponses |-> 0, retryReq |-> FALSE, promised |-> FALSE]
IdleMemory == [isBusy |-> FALSE, retryReq |-> FALSE, packetQueue |-> << >>,
               dequeueEvent |-> FALSE, retryResp |-> FALSE]

\* The objects that the drain manager asks to drain: the PacketQueues, the
\* layers and the memories, and the masters.  The bridge is not one of them.
Drainables == ({"master", "reqQueue", "respQueue", "respLayer"} \X Masters)
              \cup ({"reqLayer"} \X Ports) \cup ({"memory"} \X Memories)

\* The system at rest.  draining is the set of objects in the state Draining,
\* whose signals the drain manager waits for.  The last four are history: how many requests of other
\* masters a layer has taken while a master waits for it; the requests performed
\* and not yet answered, in the order they were performed; an assert of the
\* code has failed; a promise of the bridge has been broken.
Idle == [reqQueue |-> [m \in Masters |-> EmptyQueue],
         reqLayer |-> [p \in Ports |-> IdleLayer],
         respLayer |-> [m \in Masters |-> IdleLayer],
         respQueue |-> [m \in Masters |-> EmptyQueue],
         routeTo |-> [r \in Requests |-> NoMaster],
         bridge |-> IdleBridge,
         memory |-> [x \in Memories |-> IdleMemory],
         draining |-> {},
         overtaken |-> [m \in Masters |-> 0],
         performed |-> << >>, failed |-> FALSE, broken |-> FALSE]

\* The masters that wait for the layer of a port, or for the port itself
Waiters(layer) == layer.waitingForPeer \cup ToSet(layer.waitingForLayer)

Accepted(s) == [ok |-> TRUE, s |-> s]
Refused(s) == [ok |-> FALSE, s |-> s]

\* Drainable::signalDrainDone by object o, which is done if the condition holds.
\* It does nothing unless the object is draining.
signalDrainDone(s, o, done) == [s EXCEPT !.draining = IF done THEN @ \ {o} ELSE @]

\* An assert of the code
Check(s, condition) == [s EXCEPT !.failed = @ \/ ~condition]
=============================================================================
