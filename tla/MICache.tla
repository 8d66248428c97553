------------------------------- MODULE MICache ------------------------------
(***************************************************************************)
(* The cache controller (MI_example-cache.sm) and the sequencer in front   *)
(* of it.  An action is a transition of the controller with all of its     *)
(* steps; a z_stall leaves everything as it is, except that a stalled      *)
(* forwarded request keeps its place at the head of the queue.             *)
(***************************************************************************)
EXTENDS MIProtocol

\* Sequencer::makeRequest: one request at a time for a line.
makeRequest(c, a) ==
    /\ ~Waiting(c, a)
    /\ \E op \in OpsOf[c] : table' = [table EXCEPT ![c][a] = op]
    /\ mq' = [mq EXCEPT ![c] = Append(@, a)]
    /\ UNCHANGED <<cstate, entries, data, stalledOn, fwd, resp, reqs, dirVars, dmaVars, panicked>>

\* readCallback and writeCallback: the request is performed on the block.
hitCallback(c, a, block) ==
    LET op == table[c][a] IN
    IF op.op = "Load"
    THEN /\ table' = [table EXCEPT ![c][a] = Got(op, block)]
         /\ data' = [data EXCEPT ![c][a] = block]
    ELSE /\ table' = [table EXCEPT ![c][a] = Stored]
         /\ data' = [data EXCEPT ![c][a] = Overlay(block, op)]

cacheAvail(c) == Cardinality(entries[c]) < Assoc

\* The line at the head of the mandatory queue has an entry or may get one.
Roomy(c) == mq[c] # << >> /\ (Head(mq[c]) \in entries[c] \/ cacheAvail(c))

\* transition(M, {Load, Ifetch}) and transition(M, Store)
Hit(c) ==
    /\ Roomy(c)
    /\ cstate[c][Head(mq[c])] = "M"
    /\ hitCallback(c, Head(mq[c]), data[c][Head(mq[c])])
    /\ mq' = [mq EXCEPT ![c] = Tail(@)]
    /\ UNCHANGED <<cstate, entries, stalledOn, fwd, resp, reqs, dirVars, dmaVars, panicked>>

\* transition(I, Store, IM) and transition(I, {Load, Ifetch}, IS)
Miss(c) ==
    LET a == Head(mq[c]) IN
    /\ Roomy(c)
    /\ cstate[c][a] = "I"
    /\ cstate' = [cstate EXCEPT ![c][a] = IF table[c][a].op = "Load" THEN "IS" ELSE "IM"]
    /\ entries' = [entries EXCEPT ![c] = @ \cup {a}]
    /\ reqs' = reqs \cup {RequestMsg("GETX", a, c, NoData)}
    /\ mq' = [mq EXCEPT ![c] = Tail(@)]
    /\ UNCHANGED <<table, data, stalledOn, fwd, resp, dirVars, dmaVars, panicked>>

writeBackNoCopy(c, a) ==
    /\ cstate[c][a] = "M"
    /\ cstate' = [cstate EXCEPT ![c][a] = "MI"]
    /\ entries' = [entries EXCEPT ![c] = @ \ {a}]
    /\ reqs' = reqs \cup {RequestMsg("PUTX", a, c, data[c][a])}
    /\ data' = [data EXCEPT ![c][a] = NoData]
    /\ UNCHANGED <<table, mq, stalledOn, fwd, resp, dirVars, dmaVars, panicked>>

\* transition(M, {Replacement, Inv}, MI): the block goes to the TBE and, with
\* the PUTX, to the directory.  The invalidation is not popped.
writeBack(c, a) ==
    /\ cstate[c][a] = "M"
    /\ cstate' = [cstate EXCEPT ![c][a] = "MI"]
    /\ entries' = [entries EXCEPT ![c] = @ \ {a}]
    /\ reqs' = reqs \cup {RequestMsg("PUTX", a, c, data[c][a])}
    /\ UNCHANGED <<table, mq, data, stalledOn, fwd, resp, dirVars, dmaVars, panicked>>

\* transition(I, Replacement)
dropEntry(c, a) ==
    /\ cstate[c][a] = "I"
    /\ entries' = [entries EXCEPT ![c] = @ \ {a}]
    /\ UNCHANGED <<table, mq, cstate, data, stalledOn, fwd, resp, reqs, dirVars, dmaVars, panicked>>

\* The line at the head of the mandatory queue has no entry and its set is
\* full: any line of the set may be the victim.  When the queue holds no line
\* of Addrs, a line outside Addrs may be asked for at any time.
Replacement(c) ==
    /\ ~cacheAvail(c)
    /\ mq[c] # << >> => Head(mq[c]) \notin entries[c]
    /\ \E a \in entries[c] : writeBack(c, a) \/ dropEntry(c, a)
-----------------------------------------------------------------------------
\* The next message of the forward queue, if it comes from directory d: while
\* the queue is stalled on a message nothing else gets past it.
Forwarded(c, d) == fwd[c][d] # << >> /\ stalledOn[c] \subseteq {d}

popForwardedRequestQueue(c, d) ==
    /\ fwd' = [fwd EXCEPT ![c][d] = Tail(@)]
    /\ stalledOn' = [stalledOn EXCEPT ![c] = {}]

\* transition({IS, IM}, {Fwd_GETX, Inv})
StallForward(c, d) ==
    /\ Forwarded(c, d) /\ stalledOn[c] = {}
    /\ Head(fwd[c][d]).type \in {"GETX", "INV"}
    /\ cstate[c][Head(fwd[c][d]).addr] \in {"IS", "IM"}
    /\ stalledOn' = [stalledOn EXCEPT ![c] = {d}]
    /\ UNCHANGED <<table, mq, cstate, entries, data, fwd, resp, reqs, dirVars, dmaVars, panicked>>

\* transition(MI, Inv) and transition(I, Inv)
IgnoreInv(c, d) ==
    /\ Forwarded(c, d)
    /\ Head(fwd[c][d]).type = "INV"
    /\ cstate[c][Head(fwd[c][d]).addr] \in {"MI", "I"}
    /\ popForwardedRequestQueue(c, d)
    /\ UNCHANGED <<table, mq, cstate, entries, data, resp, reqs, dirVars, dmaVars, panicked>>

InvIgnored(c, d) ==
    /\ Forwarded(c, d)
    /\ Head(fwd[c][d]).type = "INV"
    /\ cstate[c][Head(fwd[c][d]).addr] = "M"
    /\ popForwardedRequestQueue(c, d)
    /\ UNCHANGED <<table, mq, cstate, entries, data, resp, reqs, dirVars, dmaVars, panicked>>

Inv(c, d) ==
    /\ Forwarded(c, d)
    /\ Head(fwd[c][d]).type = "INV"
    /\ writeBack(c, Head(fwd[c][d]).addr)

AfterFwdGETX == [M |-> "I", MI |-> "II", MII |-> "I"]

\* transition(M, Fwd_GETX, I), transition(MI, Fwd_GETX, II) and
\* transition(MII, Fwd_GETX, I): the block goes to the cache that asked.
Fwd_GETX(c, d) ==
    LET m == Head(fwd[c][d]) a == m.addr IN
    /\ Forwarded(c, d)
    /\ m.type = "GETX" /\ cstate[c][a] \in DOMAIN AfterFwdGETX
    /\ resp' = resp \cup {ResponseMsg(a, m.for, data[c][a])}
    /\ cstate' = [cstate EXCEPT ![c][a] = AfterFwdGETX[@]]
    /\ data' = [data EXCEPT ![c][a] = NoData]
    /\ popForwardedRequestQueue(c, d)
    /\ UNCHANGED <<table, mq, entries, reqs, dirVars, dmaVars, panicked>>

\* transition(MI, Writeback_Ack, I)
Writeback_Ack(c, d) ==
    LET m == Head(fwd[c][d]) a == m.addr IN
    /\ Forwarded(c, d)
    /\ m.type = "WB_ACK" /\ cstate[c][a] = "MI"
    /\ cstate' = [cstate EXCEPT ![c][a] = "I"]
    /\ data' = [data EXCEPT ![c][a] = NoData]
    /\ popForwardedRequestQueue(c, d)
    /\ UNCHANGED <<table, mq, entries, resp, reqs, dirVars, dmaVars, panicked>>

AfterNack == [MI |-> "MII", II |-> "I"]

\* transition(MI, Writeback_Nack, MII) and transition(II, Writeback_Nack, I)
Writeback_Nack(c, d) ==
    LET m == Head(fwd[c][d]) a == m.addr IN
    /\ Forwarded(c, d)
    /\ m.type = "WB_NACK" /\ cstate[c][a] \in DOMAIN AfterNack
    /\ cstate' = [cstate EXCEPT ![c][a] = AfterNack[@]]
    /\ popForwardedRequestQueue(c, d)
    /\ UNCHANGED <<table, mq, entries, data, resp, reqs, dirVars, dmaVars, panicked>>

\* transition(IS, Data, M) and transition(IM, Data, M)
Data(c) ==
    \E m \in resp :
        /\ m.to = c /\ cstate[c][m.addr] \in {"IS", "IM"}
        /\ cstate' = [cstate EXCEPT ![c][m.addr] = "M"]
        /\ hitCallback(c, m.addr, m.data)
        /\ resp' = resp \ {m}
        /\ UNCHANGED <<mq, entries, stalledOn, fwd, reqs, dirVars, dmaVars, panicked>>

\* The events a state has a transition for.
CacheTransitions ==
    [I |-> {"INV"}, II |-> {"WB_NACK"}, M |-> {"GETX", "INV"},
     MI |-> {"GETX", "INV", "WB_ACK", "WB_NACK"}, MII |-> {"GETX"},
     IS |-> {"GETX", "INV", "DATA"}, IM |-> {"GETX", "INV", "DATA"}]

\* The next message has no transition in the state its line is in.
CacheNoTransition(c) ==
    \/ \E d \in Dirs :
        /\ Forwarded(c, d)
        /\ Head(fwd[c][d]).type \notin CacheTransitions[cstate[c][Head(fwd[c][d]).addr]]
    \/ \E m \in resp : m.to = c /\ "DATA" \notin CacheTransitions[cstate[c][m.addr]]

\* What the environment does, and what the controller does.
CacheRequest == \E c \in Caches : Replacement(c) \/ \E a \in Addrs : makeRequest(c, a)

CacheStep(c) ==
    \/ Hit(c) \/ Miss(c) \/ Data(c)
    \/ \E d \in Dirs : \/ StallForward(c, d) \/ IgnoreInv(c, d) \/ Inv(c, d)
                       \/ Fwd_GETX(c, d) \/ Writeback_Ack(c, d) \/ Writeback_Nack(c, d)
=============================================================================
