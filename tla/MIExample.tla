------------------------------ MODULE MIExample -----------------------------
(***************************************************************************)
(* The MI_example protocol: caches, directories and DMA controllers        *)
(* together, and what they promise.                                        *)
(***************************************************************************)
EXTENDS MICache, MIDirectory, MIDma

Init ==
    /\ table = [p \in Caches \cup DMAs |-> [a \in Addrs |-> Stored]]
    /\ mq = [c \in Caches |-> << >>]
    /\ cstate = [c \in Caches |-> [a \in Addrs |-> "I"]]
    /\ entries = [c \in Caches |-> {}]
    /\ data = [c \in Caches |-> [a \in Addrs |-> NoData]]
    /\ fwd = [c \in Caches |-> [d \in Dirs |-> << >>]]
    /\ stalledOn = [c \in Caches |-> {}]
    /\ resp = {} /\ reqs = {}
    /\ dstate = [a \in Addrs |-> "I"]
    /\ owner = [a \in Addrs |-> {}]
    /\ dmaFor = [a \in Addrs |-> {}]
    /\ memOp = [a \in Addrs |-> NoOp]
    /\ mem = [a \in Addrs |-> [w \in Words |-> 0]]
    /\ dma = [d \in DMAs |-> [a \in Addrs |-> "READY"]]
    /\ dmaReqs = {} /\ dmaResp = {}
    /\ panicked = FALSE

\* doTransitionWorker panics when a state has no transition for an event.
InvalidTransition ==
    /\ \/ \E c \in Caches : CacheNoTransition(c)
       \/ DirNoTransition
       \/ \E d \in DMAs : DmaNoTransition(d)
    /\ panicked' = TRUE
    /\ UNCHANGED <<table, cacheVars, fwd, resp, reqs, dirVars, dmaVars>>

\* A request is made; a controller takes a step.
Issue == CacheRequest \/ \E d \in DMAs, a \in Addrs : DmaRequest(d, a)
Step == (\E c \in Caches : CacheStep(c)) \/ DirStep \/ \E d \in DMAs : DmaAnswer(d)

\* A panic ends the simulation.
Next == \/ ~panicked /\ (Issue \/ Step \/ InvalidTransition)
        \/ panicked /\ UNCHANGED vars

\* Controllers are woken as long as there is something in their queues.
Fairness == WF_vars(~panicked /\ Step)

Spec == Init /\ [][Next]_vars /\ Fairness
-----------------------------------------------------------------------------
TypeOK ==
    /\ \A p \in Caches \cup DMAs, a \in Addrs : Waiting(p, a) => table[p][a] \in OpsOf[p]
    /\ \A c \in Caches : \A i \in DOMAIN mq[c] : mq[c][i] \in Addrs
    /\ cstate \in [Caches -> [Addrs -> CacheStates]]
    /\ entries \in [Caches -> SUBSET Addrs]
    /\ data \in [Caches -> [Addrs -> Block \cup {NoData}]]
    /\ \A c \in Caches, d \in Dirs : \A i \in DOMAIN fwd[c][d] :
        fwd[c][d][i] \in [type : {"GETX", "INV", "WB_ACK", "WB_NACK"},
                          addr : Addrs, for : Caches]
    /\ stalledOn \in [Caches -> SUBSET Dirs]
    /\ resp \subseteq [addr : Addrs, to : Caches, data : Block]
    /\ reqs \subseteq [type : {"GETX", "PUTX"}, addr : Addrs, from : Caches,
                       data : Block \cup {NoData}]
    /\ dstate \in [Addrs -> DirStates]
    /\ owner \in [Addrs -> SUBSET Caches]
    /\ dmaFor \in [Addrs -> SUBSET DMAs]
    /\ mem \in [Addrs -> Block]
    /\ dma \in [DMAs -> [Addrs -> {"READY", "BUSY_RD", "BUSY_WR"}]]
    /\ dmaReqs \subseteq [addr : Addrs, from : DMAs]
    /\ dmaResp \subseteq [addr : Addrs, to : DMAs, data : Block \cup {NoData}]
    /\ panicked \in BOOLEAN

\* A forwarded request for line a on its way to cache c.
Pending(c, a, type) ==
    \E i \in DOMAIN fwd[c][Home[a]] :
        fwd[c][Home[a]][i].addr = a /\ fwd[c][Home[a]][i].type = type

\* The directory has given line a to the caches.
GivenOut(a) == dstate[a] \in {"M", "M_DRD", "M_DWR"}

\* The directory has taken the block that c wrote back; the acknowledgement
\* is still to reach c.
WrittenBack(c, a) == c \in memOp[a].for \/ Pending(c, a, "WB_ACK")

\* Cache c has a valid copy of line a.
Holds(c, a) ==
    \/ cstate[c][a] \in {"M", "MII"}
    \/ cstate[c][a] = "MI" /\ ~WrittenBack(c, a)

Copies(a) == {[at |-> c, data |-> data[c][a]] : c \in {x \in Caches : Holds(x, a)}}
             \cup {[at |-> "network", data |-> m.data] : m \in {x \in resp : x.addr = a}}

\* There is never a second copy of a line: when the directory has given it to
\* the caches it is in one cache or in one message, and otherwise in none.
OneCopy == \A a \in Addrs : Cardinality(Copies(a)) = IF GivenOut(a) THEN 1 ELSE 0

\* Who the directory takes to be the owner is where the line is going to end
\* up: the owner holds it or waits for it, and nobody has been told to take it
\* away from there.  With it go the asserts of setState.
OwnerIsLast ==
    \A a \in Addrs :
        /\ GivenOut(a) \/ dstate[a] = "IM" => Cardinality(owner[a]) = 1
        /\ ~GivenOut(a) /\ dstate[a] # "IM" => owner[a] = {}
        /\ \A c \in owner[a] :
            /\ Holds(c, a) \/ cstate[c][a] \in {"IS", "IM"}
            /\ ~Pending(c, a, "GETX")

\* While a request is unanswered some controller has a step to take: no chain
\* of stalled forward queues and busy directories waits for itself.
NotWedged ==
    (\E p \in Caches \cup DMAs, a \in Addrs : Waiting(p, a)) /\ ~panicked
        => ENABLED Step

\* Once no more requests are made, all that were made are answered.
Settles ==
    <>[][~Issue]_vars =>
        <>[](panicked \/ \A p \in Caches \cup DMAs, a \in Addrs : ~Waiting(p, a))

\* No controller meets an event that its state has no transition for.
NoInvalidTransition == ~panicked

\* The value of a line: the copy in the caches, or memory once it has done
\* what it has been told to do.
LineValue(a) ==
    IF GivenOut(a) THEN (CHOOSE x \in Copies(a) : TRUE).data ELSE Performed(mem[a], memOp[a])

\* A DMA request counts as performed when the directory has performed it.
PerformedFor(p, a) ==
    IF p \in DMAs /\ \E m \in dmaResp : m.to = p /\ m.addr = a
    THEN LET m == CHOOSE x \in dmaResp : x.to = p /\ x.addr = a IN
         IF m.data = NoData THEN Stored ELSE Got(table[p][a], m.data)
    ELSE IF p \in dmaFor[a] /\ dstate[a] \in {"ID_W", "M_DWRI"} THEN Stored
    ELSE table[p][a]

Memory == INSTANCE CoherentMemory
            WITH Ports <- Caches \cup DMAs,
                 mem <- [a \in Addrs |-> LineValue(a)],
                 table <- [p \in Caches \cup DMAs |-> [a \in Addrs |-> PerformedFor(p, a)]]

\* The caches, the directory and the DMA controllers behave as one memory:
\* every load returns what was stored last, wherever the line is.
Coherent == Memory!Spec
=============================================================================
