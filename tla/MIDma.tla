-------------------------------- MODULE MIDma -------------------------------
(***************************************************************************)
(* The DMA controller (MI_example-dma.sm) and its sequencer.               *)
(* DMASequencer::makeRequest refuses a second request for a line, so a     *)
(* request never meets a busy line, and the controller's stalling of such  *)
(* requests has nothing to do.                                             *)
(***************************************************************************)
EXTENDS MIProtocol

\* DMASequencer::makeRequest, then transition(READY, ReadRequest, BUSY_RD) or
\* transition(READY, WriteRequest, BUSY_WR)
DmaRequest(d, a) ==
    /\ dma[d][a] = "READY"
    /\ \E op \in OpsOf[d] :
        /\ table' = [table EXCEPT ![d][a] = op]
        /\ dma' = [dma EXCEPT ![d][a] = IF op.op = "Load" THEN "BUSY_RD" ELSE "BUSY_WR"]
    /\ dmaReqs' = dmaReqs \cup {[addr |-> a, from |-> d]}
    /\ UNCHANGED <<cacheVars, fwd, resp, reqs, dirVars, dmaResp, panicked>>

\* transition(BUSY_RD, Data, READY): dataCallback takes the words asked for.
\* transition(BUSY_WR, Ack, READY)
DmaAnswer(d) ==
    \E m \in dmaResp :
        /\ m.to = d
        /\ dma[d][m.addr] = (IF m.data = NoData THEN "BUSY_WR" ELSE "BUSY_RD")
        /\ table' = [table EXCEPT ![d][m.addr] =
                        IF m.data = NoData THEN Stored ELSE Got(@, m.data)]
        /\ dma' = [dma EXCEPT ![d][m.addr] = "READY"]
        /\ dmaResp' = dmaResp \ {m}
        /\ UNCHANGED <<cacheVars, fwd, resp, reqs, dirVars, dmaReqs, panicked>>

\* The controller has no other transition for an answer.
DmaNoTransition(d) ==
    \E m \in dmaResp :
        /\ m.to = d
        /\ dma[d][m.addr] # (IF m.data = NoData THEN "BUSY_WR" ELSE "BUSY_RD")
=============================================================================
