------------------------------- MODULE MemPath ------------------------------
(***************************************************************************)
(* Masters, crossbar, bridge and memories together.  An action is an event *)
(* of the simulation: a master makes a request, or a scheduled event of a  *)
(* component happens, with all the calls it leads to.                      *)
(***************************************************************************)
EXTENDS MemSystem

CONSTANTS MaxAhead,      \* how many packets a new one may be due before
          Workloads,     \* the sets of requests that one simulation may make
          Checkpointed   \* those workloads whose simulation is drained once

VARIABLES sys, workload,
          drain          \* DrainManager::_state, and "Resumed" when running again

vars == <<sys, workload, drain>>

Init == sys = Idle /\ workload \in Workloads /\ drain = "Running"

Aheads == 0..MaxAhead

\* The requests that have been made and not performed, and those performed
Asked == UNION {ToSet(sys.reqQueue[m].transmitList) : m \in Masters} \cup ToSet(sys.bridge.reqs)
Inside == Asked \cup ToSet(sys.performed)

\* Nothing happens in a drained system until it is resumed.
Simulating == drain # "Drained"

\* QueuedMasterPort::schedTimingReq.  A master that has drained makes no more
\* requests; one that is draining may need some to finish what it does.
Issue(r, ahead) ==
    /\ drain \in {"Running", "Resumed"} \/ <<"master", Owner[r]>> \in sys.draining
    /\ r \in workload \ Inside
    /\ sys' = [sys EXCEPT !.reqQueue[Owner[r]] = schedSendTiming(@, r, ahead)]
    /\ UNCHANGED <<workload, drain>>

\* PacketQueue::processSendEvent of a request queue
SendReq(m, ahead) ==
    /\ Simulating
    /\ sys.reqQueue[m].sendEvent
    /\ sys' = sendDeferredPacket(sys, m, ahead)
    /\ UNCHANGED <<workload, drain>>

ReleaseReqLayer(p, ahead) ==
    /\ Simulating
    /\ sys.reqLayer[p].state = "BUSY"
    /\ sys' = releaseReqLayer(sys, p, ahead)
    /\ UNCHANGED <<workload, drain>>

BridgeSendReq(ahead) ==
    /\ Simulating
    /\ sys.bridge.reqEvent
    /\ sys' = trySendReq(sys, ahead)
    /\ UNCHANGED <<workload, drain>>

Release(x, ahead) ==
    /\ Simulating
    /\ sys.memory[x].isBusy
    /\ sys' = release(sys, x, ahead)
    /\ UNCHANGED <<workload, drain>>

Dequeue(x) ==
    /\ Simulating
    /\ sys.memory[x].dequeueEvent
    /\ sys' = dequeue(sys, x)
    /\ UNCHANGED <<workload, drain>>

BridgeSendResp(ahead) ==
    /\ Simulating
    /\ sys.bridge.respEvent
    /\ sys' = trySendResp(sys, ahead)
    /\ UNCHANGED <<workload, drain>>

ReleaseRespLayer(m, ahead) ==
    /\ Simulating
    /\ sys.respLayer[m].state = "BUSY"
    /\ sys' = releaseRespLayer(sys, m, ahead)
    /\ UNCHANGED <<workload, drain>>

\* PacketQueue::processSendEvent of a response queue; masters take every
\* response.
DeliverResp(m) ==
    LET q == sys.respQueue[m] IN
    /\ Simulating
    /\ q.sendEvent
    /\ LET s == [sys EXCEPT
                   !.respQueue[m] = [q EXCEPT !.transmitList = Tail(@),
                                              !.sendEvent = Len(q.transmitList) > 1],
                   !.performed = SelectSeq(@, LAMBDA r : r # Head(q.transmitList))]
       IN sys' = signalDrainDone(signalDrainDone(s, <<"master", m>>, ~masterDrain(s, m)),
                                 <<"respQueue", m>>, Len(q.transmitList) = 1)
    /\ UNCHANGED <<workload, drain>>

\* DrainManager::tryDrain, first called by the script at any time and then
\* again when all objects that were draining have signalled.
tryDrain ==
    /\ workload \in Checkpointed
    /\ drain = "Running" \/ (drain = "Draining" /\ sys.draining = {})
    /\ sys' = [sys EXCEPT !.draining = NotDrained(sys)]
    /\ drain' = IF NotDrained(sys) = {} THEN "Drained" ELSE "Draining"
    /\ UNCHANGED workload

\* DrainManager::resume
resume ==
    /\ drain = "Drained"
    /\ drain' = "Resumed"
    /\ UNCHANGED <<sys, workload>>

Events ==
    \/ \E m \in Masters, ahead \in Aheads : SendReq(m, ahead) \/ ReleaseRespLayer(m, ahead)
    \/ \E p \in Ports, ahead \in Aheads : ReleaseReqLayer(p, ahead)
    \/ \E ahead \in Aheads : BridgeSendReq(ahead) \/ BridgeSendResp(ahead)
    \/ \E x \in Memories, ahead \in Aheads : Release(x, ahead)
    \/ \E x \in Memories : Dequeue(x)
    \/ \E m \in Masters : DeliverResp(m)

Next ==
    \/ \E r \in Requests, ahead \in Aheads : Issue(r, ahead)
    \/ Events
    \/ tryDrain
    \/ resume

Spec == Init /\ [][Next]_vars

\* Some event is scheduled; the exit event of a drain is one of them.
Scheduled == Simulating /\
    \/ drain = "Draining" /\ sys.draining = {}
    \/ \E m \in Masters : \/ sys.reqQueue[m].sendEvent \/ sys.respQueue[m].sendEvent
                           \/ sys.respLayer[m].state = "BUSY"
    \/ \E p \in Ports : sys.reqLayer[p].state = "BUSY"
    \/ \E x \in Memories : sys.memory[x].isBusy \/ sys.memory[x].dequeueEvent
    \/ sys.bridge.reqEvent \/ sys.bridge.respEvent

\* While events are scheduled they happen.  This is WF_vars of all steps but
\* Issue, written with what tells them from it: only Issue adds a request.
EventStep == Inside' \subseteq Inside
Fairness == []<>~Scheduled \/ []<><<EventStep>>_vars

FairSpec == Spec /\ Fairness
-----------------------------------------------------------------------------
\* Every part of the system has its type.
QueueType == [transmitList : Seq(Requests), waitingOnRetry : BOOLEAN, sendEvent : BOOLEAN]
LayerType(src) == [state : {"IDLE", "BUSY"}, waitingForPeer : SUBSET src,
                   waitingForLayer : Seq(src)]

TypeOK ==
    /\ \A m \in Masters : /\ sys.reqQueue[m] \in QueueType
                          /\ sys.respQueue[m] \in QueueType
                          /\ sys.respLayer[m] \in LayerType(Ports)
    /\ \A p \in Ports : sys.reqLayer[p] \in LayerType(Masters)
    /\ sys.draining \subseteq Drainables
    /\ drain \in {"Running", "Draining", "Drained", "Resumed"}
    /\ sys.routeTo \in [Requests -> Masters \cup {NoMaster}]
    /\ sys.bridge \in [reqs : Seq(Requests), reqEvent : BOOLEAN, resps : Seq(Requests),
                       respEvent : BOOLEAN, outstandingResponses : 0..RespQueueLimit,
                       retryReq : BOOLEAN, promised : BOOLEAN]
    /\ \A x \in Memories : sys.memory[x] \in
           [isBusy : BOOLEAN, retryReq : BOOLEAN, packetQueue : Seq(Requests),
            dequeueEvent : BOOLEAN, retryResp : BOOLEAN]

\* No assert of packet_queue.cc, xbar.cc, noncoherent_xbar.cc, bridge.cc or
\* simple_mem.cc fails: nobody gets a retry it does not wait for, no port waits
\* twice for a layer, no response comes back without a route, no queue is empty
\* when its event happens.
NoAssertFails == ~sys.failed

\* BridgeSlavePort::trySendTiming says of a stalled request that after a response
\* has left "it will definitely be possible to accept it now": the bridge
\* accepts the next request it is offered.
PromiseKept == ~sys.broken

\* The bridge's outstandingResponses is the number of its requests that are on
\* their way to a response, wherever they are: in its own queues or in the far
\* memory.  So a response always finds room in the bridge.
Expected(packets) == Cardinality({i \in DOMAIN packets : packets[i] \notin Posted})

SlotsReserved ==
    /\ sys.bridge.outstandingResponses =
         Expected(sys.bridge.reqs) + Len(sys.memory["far"].packetQueue) + Len(sys.bridge.resps)
    /\ Len(sys.bridge.resps) <= RespQueueLimit

\* Who waits for a retry is known to the one that will send it, and who has
\* something to send and does not wait has its event scheduled: no packet can
\* be left behind in a queue.
WaitsAt(m) == {p \in Ports : m \in Waiters(sys.reqLayer[p])}
WaitsFor(src) == {m \in Masters : src \in ToSet(sys.respLayer[m].waitingForLayer)}

RetryOwed ==
    /\ \A m \in Masters :
         LET q == sys.reqQueue[m] IN
         /\ WaitsAt(m) = IF q.waitingOnRetry THEN {Dest[Head(q.transmitList)]} ELSE {}
         /\ q.sendEvent <=> q.transmitList # << >> /\ ~q.waitingOnRetry
    /\ \A p \in Ports :
         LET layer == sys.reqLayer[p] IN
         /\ layer.waitingForPeer # {} <=>
              IF p = "bridge" THEN sys.bridge.retryReq ELSE sys.memory["near"].retryReq
         /\ layer.state = "IDLE" /\ layer.waitingForLayer # << >> => layer.waitingForPeer # {}
    /\ \A x \in Memories : sys.memory[x].retryReq => sys.memory[x].isBusy
    /\ sys.bridge.reqs # << >> => (sys.bridge.reqEvent # sys.memory["far"].retryReq)
    /\ sys.bridge.resps # << >> => (sys.bridge.respEvent # (WaitsFor("bridge") # {}))
    /\ sys.bridge.retryReq => sys.bridge.reqs # << >> \/ sys.bridge.outstandingResponses > 0
    /\ sys.memory["near"].retryResp <=> WaitsFor("near") # {}
    /\ \A x \in Memories :
         sys.memory[x].packetQueue # << >> =>
           (sys.memory[x].dequeueEvent # sys.memory[x].retryResp)
    /\ \A m \in Masters :
         sys.respLayer[m].state = "IDLE" => sys.respLayer[m].waitingForLayer = << >>

\* The path does what masters rely on (PortSpec), whatever is refused and
\* retried on the way.
Abstract == INSTANCE PortSpec WITH asked <- Asked, performed <- sys.performed
Implements == Abstract!Spec

\* A layer is fair: while a master waits, each of the other masters gets at most
\* one request through (waitingForLayer is first come first served, and a
\* request the peer refused goes back to its front).
BoundedOvertaking == \A m \in Masters : sys.overtaken[m] < Cardinality(Masters)

\* In a drained system ("Buffers drained, ready for serialization/handover",
\* sim/drain.hh) no queue, layer or memory holds or waits for a packet.  The
\* bridge cannot be asked: a posted request may still be on its way through it.
DrainedIsEmpty ==
    drain = "Drained" =>
        /\ sys.reqQueue = Idle.reqQueue /\ sys.respQueue = Idle.respQueue
        /\ sys.reqLayer = Idle.reqLayer /\ sys.respLayer = Idle.respLayer
        /\ \A x \in Memories : sys.memory[x].packetQueue = << >>
        /\ sys.bridge.resps = << >> /\ ~sys.bridge.retryReq
        /\ ToSet(sys.bridge.reqs) \subseteq Posted

\* When no more requests are made, all requests are answered and a drain that
\* was begun comes to its end: the path never stops with a packet in a queue,
\* and no object that was asked to drain forgets to signal.
Settles ==
    <>[][EventStep]_vars => <>[](drain = "Drained" \/ (Inside = {} /\ drain # "Draining"))
=============================================================================
