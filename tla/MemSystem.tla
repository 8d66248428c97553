------------------------------ MODULE MemSystem -----------------------------
(***************************************************************************)
(* The functions of PacketQueue (mem/packet_queue.cc), SimpleMemory        *)
(* (mem/simple_mem.cc), Bridge (mem/bridge.cc) and the crossbar layers and *)
(* NoncoherentXBar (mem/xbar.cc, mem/noncoherent_xbar.cc), innermost call  *)
(* first.                                                                  *)
(***************************************************************************)
EXTENDS PortState

\* PacketQueue::schedSendTiming and schedSendEvent.  The first packet of a
\* queue that waits for a retry was due already, so nothing is due before it.
schedSendTiming(q, r, ahead) ==
    LET n == Len(q.transmitList)
        place == n + 1 - Min({ahead, IF q.waitingOnRetry THEN n - 1 ELSE n})
    IN
    [q EXCEPT !.transmitList = InsertAt(@, place, r),
              !.sendEvent = @ \/ (place = 1 /\ ~q.waitingOnRetry)]
-----------------------------------------------------------------------------
queueResponseByTick(packets, r, ahead) ==
    LET n == Len(packets) IN
    IF ahead > 0 /\ n > 1 THEN InsertAt(packets, n, r) ELSE Append(packets, r)

\* SimpleMemory::recvTimingReq: a response never goes in front of the first
\* packet, nor of one for the same address.
queueResponse(packets, r, ahead) ==
    LET n == Len(packets) IN
    IF ahead > 0 /\ n > 1 /\ Line[packets[n]] # Line[r]
    THEN InsertAt(packets, n, r) ELSE Append(packets, r)

memRecvTimingReq(s, x, r, ahead) ==
    LET memory == s.memory[x] IN
    IF memory.retryReq \/ memory.isBusy
    THEN Refused([s EXCEPT !.memory[x].retryReq = TRUE])
    ELSE Accepted([s EXCEPT
            !.memory[x].isBusy = TRUE,
            !.memory[x].packetQueue = IF r \in Posted THEN @ ELSE queueResponse(@, r, ahead),
            !.memory[x].dequeueEvent = @ \/ (r \notin Posted /\ ~memory.retryResp),
            !.performed = IF r \in Posted THEN @ ELSE Append(@, r)])
-----------------------------------------------------------------------------
reqQueueFull(s) == Len(s.bridge.reqs) = ReqQueueLimit
respQueueFullLate(s) == s.bridge.outstandingResponses > RespQueueLimit
respQueueFull(s) == s.bridge.outstandingResponses = RespQueueLimit

bridgeReserveAlways(s, r) ==
    IF s.bridge.retryReq \/ reqQueueFull(s) \/ respQueueFull(s)
    THEN Refused([s EXCEPT !.bridge.retryReq = TRUE, !.broken = @ \/ s.bridge.promised])
    ELSE Accepted([s EXCEPT
            !.bridge.outstandingResponses = @ + 1,
            !.bridge.reqEvent = @ \/ s.bridge.reqs = << >>,
            !.bridge.reqs = Append(@, r),
            !.bridge.promised = FALSE])

\* BridgeSlavePort::recvTimingReq and BridgeMasterPort::schedTimingReq
bridgeRecvTimingReq(s, r) ==
    IF s.bridge.retryReq \/ reqQueueFull(s) \/ (r \notin Posted /\ respQueueFull(s))
    THEN Refused([s EXCEPT !.bridge.retryReq = TRUE, !.broken = @ \/ s.bridge.promised])
    ELSE Accepted([s EXCEPT
            !.bridge.outstandingResponses = IF r \in Posted THEN @ ELSE @ + 1,
            !.bridge.reqEvent = @ \/ s.bridge.reqs = << >>,
            !.bridge.reqs = Append(@, r),
            !.bridge.promised = FALSE])

\* BridgeMasterPort::recvTimingResp and BridgeSlavePort::schedTimingResp
bridgeRecvTimingResp(s, r) ==
    [s EXCEPT !.bridge.respEvent = @ \/ s.bridge.resps = << >>,
              !.bridge.resps = Append(@, r)]
-----------------------------------------------------------------------------
tryTimingWhenIdle(layer, src) ==
    IF layer.state = "BUSY"
    THEN Refused([layer EXCEPT !.waitingForLayer = Append(@, src)])
    ELSE Accepted([layer EXCEPT !.state = "BUSY"])

\* Layer::tryTiming
tryTiming(layer, src) ==
    IF layer.state = "BUSY" \/ layer.waitingForPeer # {}
    THEN Refused([layer EXCEPT !.waitingForLayer = Append(@, src)])
    ELSE Accepted([layer EXCEPT !.state = "BUSY"])

\* NoncoherentXBar::recvTimingReq.  The layer stays busy, whether the packet
\* went through (succeededTiming) or not (failedTiming).
xbarRecvTimingReq(s, m, r, ahead) ==
    LET p == Dest[r]
        try == tryTiming(s.reqLayer[p], m)
        s1 == [s EXCEPT !.reqLayer[p] = try.s]
        passed == [n \in Masters |-> IF n = m THEN 0 ELSE
                      IF n \in Waiters(s.reqLayer[p]) THEN s.overtaken[n] + 1 ELSE s.overtaken[n]]
        sent == IF p = "bridge" THEN bridgeRecvTimingReq(s1, r)
                ELSE memRecvTimingReq(s1, "near", r, ahead)
    IN  IF ~try.ok
        THEN Refused(Check(s1, m \notin ToSet(s.reqLayer[p].waitingForLayer)))
        ELSE IF ~sent.ok
        THEN Refused([Check(sent.s, sent.s.reqLayer[p].waitingForPeer = {})
                        EXCEPT !.reqLayer[p].waitingForPeer = {m}])
        ELSE Accepted([Check(sent.s, s.routeTo[r] = NoMaster) EXCEPT
                !.routeTo[r] = IF r \in Posted THEN @ ELSE m,
                !.overtaken = passed])

\* NoncoherentXBar::recvTimingResp: the slave port's queue takes any number
\* of responses.  Each is due the same number of cycles after the edge it was
\* taken at (bridge and memory leave no header delay), so none is due before
\* another.
xbarRecvTimingResp(s, src, r) ==
    LET m == s.routeTo[r]
        try == tryTiming(s.respLayer[m], src)
        s1 == [s EXCEPT !.respLayer[m] = try.s]
    IN  IF m = NoMaster THEN Accepted(Check(s, FALSE))
        ELSE IF ~try.ok
        THEN Refused(Check(s1, src \notin ToSet(s.respLayer[m].waitingForLayer)))
        ELSE Accepted([s1 EXCEPT !.respQueue[m] = schedSendTiming(@, r, 0),
                                 !.routeTo[r] = NoMaster])
-----------------------------------------------------------------------------
\* PacketQueue::sendDeferredPacket of a master's request queue
sendDeferredPacket(s, m, ahead) ==
    LET q == s.reqQueue[m]
        rest == [s EXCEPT !.reqQueue[m].transmitList = Tail(@)]
        sent == xbarRecvTimingReq(rest, m, Head(q.transmitList), ahead)
    IN  IF q.transmitList = << >> \/ q.waitingOnRetry THEN Check(s, FALSE)
        ELSE IF sent.ok
        THEN signalDrainDone([sent.s EXCEPT !.reqQueue[m].sendEvent = Len(q.transmitList) > 1],
                             <<"reqQueue", m>>, Len(q.transmitList) = 1)
        ELSE [sent.s EXCEPT !.reqQueue[m] = [q EXCEPT !.waitingOnRetry = TRUE,
                                                        !.sendEvent = FALSE]]

\* PacketQueue::retry
retry(s, m, ahead) ==
    sendDeferredPacket([Check(s, s.reqQueue[m].waitingOnRetry)
                            EXCEPT !.reqQueue[m].waitingOnRetry = FALSE], m, ahead)

\* ReqLayer::retryWaiting: a port that did not use its retry has kept the
\* layer for a cycle.
retryWaitingReq(s, p, ahead) ==
    LET layer == s.reqLayer[p]
        retried == retry([s EXCEPT !.reqLayer[p].state = "RETRY",
                                   !.reqLayer[p].waitingForLayer = Tail(@)],
                         Head(layer.waitingForLayer), ahead)
    IN  [retried EXCEPT !.reqLayer[p].state = IF @ = "RETRY" THEN "BUSY" ELSE @]

recvRetryToBack(s, p, ahead) ==
    LET layer == s.reqLayer[p]
        s1 == [Check(s, layer.waitingForPeer # {} /\ layer.state # "RETRY")
                 EXCEPT !.reqLayer[p].waitingForLayer = @ \o SetToSeq(layer.waitingForPeer),
                        !.reqLayer[p].waitingForPeer = {}]
    IN  IF layer.state = "IDLE" THEN retryWaitingReq(s1, p, ahead) ELSE s1

\* Layer::recvRetry, from the port that refused a packet of the layer
recvRetry(s, p, ahead) ==
    LET layer == s.reqLayer[p]
        s1 == [Check(s, layer.waitingForPeer # {} /\ layer.state # "RETRY")
                 EXCEPT !.reqLayer[p].waitingForLayer = SetToSeq(layer.waitingForPeer) \o @,
                        !.reqLayer[p].waitingForPeer = {}]
    IN  IF layer.state = "IDLE" THEN retryWaitingReq(s1, p, ahead) ELSE s1

\* Layer::releaseLayer of a request layer
releaseReqLayer(s, p, ahead) ==
    LET layer == s.reqLayer[p]
        s1 == [s EXCEPT !.reqLayer[p].state = "IDLE"]
    IN  IF layer.waitingForPeer # {} THEN s1
        ELSE IF layer.waitingForLayer # << >> THEN retryWaitingReq(s1, p, ahead)
        ELSE signalDrainDone(s1, <<"reqLayer", p>>, TRUE)
-----------------------------------------------------------------------------
\* BridgeSlavePort::retryStalledReq
retryStalledReq(s, ahead) ==
    IF s.bridge.retryReq
    THEN recvRetry([s EXCEPT !.bridge.retryReq = FALSE], "bridge", ahead) ELSE s

trySendReqNoRetry(s, ahead) ==
    LET sent == memRecvTimingReq(s, "far", Head(s.bridge.reqs), ahead)
        more == Len(s.bridge.reqs) > 1
    IN  IF s.bridge.reqs = << >> THEN Check(s, FALSE)
        ELSE IF sent.ok
        THEN [sent.s EXCEPT !.bridge.reqs = Tail(@), !.bridge.reqEvent = more]
        ELSE [sent.s EXCEPT !.bridge.reqEvent = FALSE]

\* BridgeMasterPort::trySendTiming
trySendReq(s, ahead) ==
    LET sent == memRecvTimingReq(s, "far", Head(s.bridge.reqs), ahead)
        more == Len(s.bridge.reqs) > 1
    IN  IF s.bridge.reqs = << >> THEN Check(s, FALSE)
        ELSE IF sent.ok
        THEN retryStalledReq([sent.s EXCEPT !.bridge.reqs = Tail(@),
                                            !.bridge.reqEvent = more], ahead)
        ELSE [sent.s EXCEPT !.bridge.reqEvent = FALSE]

trySendRespAnyway(s, ahead) ==
    LET sent == xbarRecvTimingResp(s, "bridge", Head(s.bridge.resps))
        more == Len(s.bridge.resps) > 1
        s1 == [Check(sent.s, s.bridge.outstandingResponses # 0)
                 EXCEPT !.bridge.resps = Tail(@), !.bridge.respEvent = more,
                        !.bridge.outstandingResponses = @ - 1]
    IN  IF s.bridge.resps = << >> THEN Check(s, FALSE)
        ELSE IF ~sent.ok THEN [sent.s EXCEPT !.bridge.respEvent = FALSE]
        ELSE retryStalledReq([s1 EXCEPT !.bridge.promised = @ \/ s1.bridge.retryReq], ahead)

\* BridgeSlavePort::trySendTiming
trySendResp(s, ahead) ==
    LET sent == xbarRecvTimingResp(s, "bridge", Head(s.bridge.resps))
        more == Len(s.bridge.resps) > 1
        s1 == [Check(sent.s, s.bridge.outstandingResponses # 0)
                 EXCEPT !.bridge.resps = Tail(@), !.bridge.respEvent = more,
                        !.bridge.outstandingResponses = @ - 1]
    IN  IF s.bridge.resps = << >> THEN Check(s, FALSE)
        ELSE IF ~sent.ok THEN [sent.s EXCEPT !.bridge.respEvent = FALSE]
        ELSE IF reqQueueFull(s1) THEN s1
        ELSE retryStalledReq([s1 EXCEPT !.bridge.promised = @ \/ s1.bridge.retryReq], ahead)
-----------------------------------------------------------------------------
releaseQuiet(s, x, ahead) ==
    [s EXCEPT !.memory[x].isBusy = FALSE, !.memory[x].retryReq = FALSE]

\* SimpleMemory::release: the memory that refused a request asks for it.
release(s, x, ahead) ==
    LET s1 == [s EXCEPT !.memory[x].isBusy = FALSE, !.memory[x].retryReq = FALSE]
    IN  IF ~s.memory[x].retryReq THEN s1
        ELSE IF x = "far" THEN trySendReq(s1, ahead)
        ELSE recvRetry(s1, "near", ahead)

\* SimpleMemory::dequeue
dequeue(s, x) ==
    LET r == Head(s.memory[x].packetQueue)
        sent == IF x = "far" THEN Accepted(bridgeRecvTimingResp(s, r))
                ELSE xbarRecvTimingResp(s, "near", r)
    IN  IF s.memory[x].packetQueue = << >> THEN Check(s, FALSE)
        ELSE signalDrainDone(
                [sent.s EXCEPT
                    !.memory[x].retryResp = ~sent.ok,
                    !.memory[x].packetQueue = IF sent.ok THEN Tail(@) ELSE @,
                    !.memory[x].dequeueEvent = sent.ok /\ Len(s.memory[x].packetQueue) > 1],
                <<"memory", x>>, sent.ok /\ Len(s.memory[x].packetQueue) = 1)

\* RespLayer::retryWaiting: the bridge or the near memory sends again.
retryWaitingResp(s, m, ahead) ==
    LET src == Head(s.respLayer[m].waitingForLayer)
        s1 == [s EXCEPT !.respLayer[m].state = "RETRY",
                        !.respLayer[m].waitingForLayer = Tail(@)]
        retried == IF src = "bridge" THEN trySendResp(s1, ahead)
                   ELSE dequeue(Check(s1, s.memory["near"].retryResp), "near")
    IN  [retried EXCEPT !.respLayer[m].state = IF @ = "RETRY" THEN "BUSY" ELSE @]

\* Layer::releaseLayer of a response layer
releaseRespLayer(s, m, ahead) ==
    LET s1 == [s EXCEPT !.respLayer[m].state = "IDLE"]
    IN  IF s.respLayer[m].waitingForLayer = << >>
        THEN signalDrainDone(s1, <<"respLayer", m>>, TRUE)
        ELSE retryWaitingResp(s1, m, ahead)
-----------------------------------------------------------------------------
\* drain() of a PacketQueue, a layer and a memory: the object has to drain.
queueDrainButLast(q) == Len(q.transmitList) > 1
queueDrain(q) == q.transmitList # << >>
layerDrain(layer) == layer.state # "IDLE"
memoryDrain(memory) == memory.packetQueue # << >>

\* A master has to drain while a response to one of its requests is to come.
masterDrain(s, m) ==
    \E r \in Requests \ Posted :
        /\ Owner[r] = m
        /\ r \in UNION {ToSet(s.reqQueue[m].transmitList), ToSet(s.bridge.reqs), ToSet(s.performed)}

\* The objects that answer Draining to DrainManager::tryDrain
NotDrained(s) ==
    {o \in Drainables :
        CASE o[1] = "master" -> masterDrain(s, o[2])
          [] o[1] = "reqQueue" -> queueDrain(s.reqQueue[o[2]])
          [] o[1] = "respQueue" -> queueDrain(s.respQueue[o[2]])
          [] o[1] = "reqLayer" -> layerDrain(s.reqLayer[o[2]])
          [] o[1] = "respLayer" -> layerDrain(s.respLayer[o[2]])
          [] o[1] = "memory" -> memoryDrain(s.memory[o[2]])}
=============================================================================
