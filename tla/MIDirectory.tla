----------------------------- MODULE MIDirectory ----------------------------
(***************************************************************************)
(* The directory controller (MI_example-dir.sm) with the memory behind it. *)
(* A transition that recycles its message changes nothing, so it is not an *)
(* action.  The answer of memory and the transition it triggers are one    *)
(* step: the directory is busy with the line until then, and no one else   *)
(* sees the memory of the line.                                            *)
(***************************************************************************)
EXTENDS MIProtocol

Send(a, c, m) == fwd' = [fwd EXCEPT ![c][Home[a]] = Append(@, m)]

\* l_queueMemoryWBRequest: all of the block in the PUTX.
\* qw_queueMemoryWBRequest_partial and ..._partialTBE: AbstractController::
\* queueMemoryWritePartial takes the address of the line, so it writes the
\* first Len words of the DMA block to the first Len words of the line.
DmaBlock(op) == [w \in Words |-> IF w \in OpWords(op) THEN op.val ELSE 0]
queueMemoryRead(a, for) == memOp' = [memOp EXCEPT ![a] = MemoryOp({for}, NoData, 0)]
queueMemoryWriteAsRead(a, for, block) == queueMemoryRead(a, for)
queueMemoryWrite(a, for, block) == memOp' = [memOp EXCEPT ![a] = MemoryOp({for}, block, LineSize)]
queueMemoryWritePartial(a, for, op) ==
    memOp' = [memOp EXCEPT ![a] = MemoryOp({for}, DmaBlock(op), op.len)]

GETXKeepsOwner(m) ==
    LET a == m.addr IN
    /\ m \in reqs /\ m.type = "GETX"
    /\ \/ /\ dstate[a] = "I"
          /\ dstate' = [dstate EXCEPT ![a] = "IM"]
          /\ owner' = [owner EXCEPT ![a] = {m.from}]
          /\ queueMemoryRead(a, m.from)
          /\ UNCHANGED fwd
       \/ /\ dstate[a] = "M"
          /\ \E o \in owner[a] : Send(a, o, ForwardMsg("GETX", a, m.from))
          /\ UNCHANGED <<dstate, memOp, owner>>
    /\ reqs' = reqs \ {m}
    /\ UNCHANGED <<table, cacheVars, resp, dmaFor, mem, dmaVars, panicked>>

\* transition(I, GETX, IM): fetch the line from memory.
\* transition(M, GETX, M): the owner is to send it.
GETX(m) ==
    LET a == m.addr IN
    /\ m \in reqs /\ m.type = "GETX"
    /\ \/ /\ dstate[a] = "I"
          /\ dstate' = [dstate EXCEPT ![a] = "IM"]
          /\ queueMemoryRead(a, m.from)
          /\ UNCHANGED fwd
       \/ /\ dstate[a] = "M"
          /\ \E o \in owner[a] : Send(a, o, ForwardMsg("GETX", a, m.from))
          /\ UNCHANGED <<dstate, memOp>>
    /\ owner' = [owner EXCEPT ![a] = {m.from}]
    /\ reqs' = reqs \ {m}
    /\ UNCHANGED <<table, cacheVars, resp, dmaFor, mem, dmaVars, panicked>>

PUTXFromAnyone(m) ==
    LET a == m.addr IN
    /\ m \in reqs /\ m.type = "PUTX"
    /\ dstate[a] = "M"
    /\ dstate' = [dstate EXCEPT ![a] = "MI"]
    /\ queueMemoryWrite(a, m.from, m.data)
    /\ owner' = [owner EXCEPT ![a] = {}]
    /\ reqs' = reqs \ {m}
    /\ UNCHANGED <<table, cacheVars, fwd, resp, dmaFor, mem, dmaVars, panicked>>

\* transition(M, PUTX, MI), transition(M_DRD, PUTX, M_DRDI) and
\* transition(M_DWR, PUTX, M_DWRI): the owner gives the line back.  A DMA
\* read is answered from the PUTX; a DMA write goes to memory in place of it.
PUTX(m) ==
    LET a == m.addr IN
    /\ m \in reqs /\ m.type = "PUTX" /\ m.from \in owner[a]
    /\ \/ /\ dstate[a] = "M"
          /\ dstate' = [dstate EXCEPT ![a] = "MI"]
          /\ queueMemoryWrite(a, m.from, m.data)
          /\ UNCHANGED dmaResp
       \/ /\ dstate[a] = "M_DRD"
          /\ dstate' = [dstate EXCEPT ![a] = "M_DRDI"]
          /\ queueMemoryWrite(a, m.from, m.data)
          /\ dmaResp' = dmaResp \cup {ResponseMsg(a, d, m.data) : d \in dmaFor[a]}
       \/ /\ dstate[a] = "M_DWR"
          /\ dstate' = [dstate EXCEPT ![a] = "M_DWRI"]
          /\ \E d \in dmaFor[a] : queueMemoryWritePartial(a, m.from, table[d][a])
          /\ UNCHANGED dmaResp
    /\ owner' = [owner EXCEPT ![a] = {}]
    /\ reqs' = reqs \ {m}
    /\ UNCHANGED <<table, cacheVars, fwd, resp, dmaFor, mem, dma, dmaReqs, panicked>>

\* transition(M, PUTX_NotOwner, M) and transition(I, PUTX_NotOwner, I)
PUTX_NotOwner(m) ==
    LET a == m.addr IN
    /\ m \in reqs /\ m.type = "PUTX" /\ m.from \notin owner[a]
    /\ dstate[a] \in {"M", "I"}
    /\ Send(a, m.from, ForwardMsg("WB_NACK", a, m.from))
    /\ reqs' = reqs \ {m}
    /\ UNCHANGED <<table, cacheVars, resp, dirVars, dmaVars, panicked>>

\* transition(I, DMA_READ, ID) and transition(M, DMA_READ, M_DRD)
\* transition(I, DMA_WRITE, ID_W) and transition(M, DMA_WRITE, M_DWR)
DMA_Request(m) ==
    LET a == m.addr op == table[m.from][a] read == op.op = "Load" IN
    /\ m \in dmaReqs
    /\ \/ /\ dstate[a] = "I"
          /\ dstate' = [dstate EXCEPT ![a] = IF read THEN "ID" ELSE "ID_W"]
          /\ IF read THEN queueMemoryRead(a, m.from)
                     ELSE queueMemoryWritePartial(a, m.from, op)
          /\ UNCHANGED fwd
       \/ /\ dstate[a] = "M"
          /\ dstate' = [dstate EXCEPT ![a] = IF read THEN "M_DRD" ELSE "M_DWR"]
          /\ \E o \in owner[a] : Send(a, o, ForwardMsg("INV", a, o))
          /\ UNCHANGED memOp
    /\ dmaFor' = [dmaFor EXCEPT ![a] = {m.from}]
    /\ dmaReqs' = dmaReqs \ {m}
    /\ UNCHANGED <<table, cacheVars, resp, reqs, owner, mem, dma, dmaResp, panicked>>

memoryDone(a, next) ==
    /\ dstate' = [dstate EXCEPT ![a] = next]
    /\ mem' = [mem EXCEPT ![a] = Performed(@, memOp[a])]
    /\ memOp' = [memOp EXCEPT ![a] = NoOp]
    /\ dmaFor' = [dmaFor EXCEPT ![a] = {}]
    /\ UNCHANGED <<table, cacheVars, reqs, owner, dma, dmaReqs, panicked>>

\* transition(IM, Memory_Data, M) and transition(ID, Memory_Data, I)
Memory_Data(a) ==
    LET answers == {ResponseMsg(a, p, mem[a]) : p \in memOp[a].for} IN
    /\ \/ /\ dstate[a] = "IM"
          /\ resp' = resp \cup answers
          /\ memoryDone(a, "M")
          /\ UNCHANGED dmaResp
       \/ /\ dstate[a] = "ID"
          /\ dmaResp' = dmaResp \cup answers
          /\ memoryDone(a, "I")
          /\ UNCHANGED resp
    /\ UNCHANGED fwd

Memory_AckSilent(a) ==
    /\ dstate[a] \in {"MI", "M_DRDI", "M_DWRI", "ID_W"}
    /\ memoryDone(a, "I")
    /\ IF dstate[a] \in {"ID_W", "M_DWRI"}
       THEN dmaResp' = dmaResp \cup {ResponseMsg(a, d, NoData) : d \in dmaFor[a]}
       ELSE UNCHANGED dmaResp
    /\ UNCHANGED <<resp, fwd>>

\* transition(MI, Memory_Ack, I), transition(M_DRDI, Memory_Ack, I),
\* transition(M_DWRI, Memory_Ack, I) and transition(ID_W, Memory_Ack, I)
Memory_Ack(a) ==
    /\ dstate[a] \in {"MI", "M_DRDI", "M_DWRI", "ID_W"}
    /\ memoryDone(a, "I")
    /\ IF dstate[a] = "ID_W"
       THEN UNCHANGED fwd
       ELSE \E c \in memOp[a].for : Send(a, c, ForwardMsg("WB_ACK", a, c))
    /\ IF dstate[a] \in {"ID_W", "M_DWRI"}
       THEN dmaResp' = dmaResp \cup {ResponseMsg(a, d, NoData) : d \in dmaFor[a]}
       ELSE UNCHANGED dmaResp
    /\ UNCHANGED resp

\* The states in which an event is handled or recycled.
Recycling == {"IM", "MI", "ID", "ID_W"}
DirTransitions ==
    [GETX |-> DirStates,
     PUTX |-> {"M", "M_DRD", "M_DWR"} \cup Recycling,
     PUTX_NotOwner |-> {"M", "I"} \cup Recycling,
     DMA |-> {"M", "I"} \cup Recycling]

EventOf(m) == IF m.type = "PUTX" /\ m.from \notin owner[m.addr] THEN "PUTX_NotOwner" ELSE m.type

DirNoTransition ==
    \/ \E m \in reqs : dstate[m.addr] \notin DirTransitions[EventOf(m)]
    \/ \E m \in dmaReqs : dstate[m.addr] \notin DirTransitions["DMA"]

DirStep ==
    \/ \E m \in reqs : GETX(m) \/ PUTX(m) \/ PUTX_NotOwner(m)
    \/ \E m \in dmaReqs : DMA_Request(m)
    \/ \E a \in Addrs : Memory_Data(a) \/ Memory_Ack(a)
=============================================================================
