----------------------------- MODULE MIProtocol -----------------------------
(***************************************************************************)
(* The state of the MI_example coherence protocol of Ruby: the controllers *)
(* of the caches (MI_example-cache.sm), of the directories                 *)
(* (MI_example-dir.sm) and of the DMA devices (MI_example-dma.sm), their   *)
(* sequencers, and the network between them.  The actions are in MICache,  *)
(* MIDirectory and MIDma.                                                  *)
(*                                                                         *)
(* A line's state in a cache is that of its TBE if there is one and that   *)
(* of its cache entry otherwise (getState).  Requests to a directory are   *)
(* kept as a set: a request that the directory recycles goes behind those  *)
(* that arrive meanwhile, so any request may be the next to be handled.    *)
(* Forwarded requests keep their order between one directory and one       *)
(* cache.                                                                  *)
(***************************************************************************)
EXTENDS MemoryOps, Sequences, FiniteSets

CONSTANTS Caches, DMAs, Dirs,   \* the machines
          Addrs,                \* the lines modelled
          Home,                 \* Home[a]: the directory of line a
          Assoc,                \* the lines of Addrs a cache has room for
          OpsOf,                \* OpsOf[p]: the requests port p makes
          NoData                \* no block

ASSUME MIAssumption ==
    /\ Home \in [Addrs -> Dirs]
    /\ Assoc \in Nat \ {0} /\ LineSize \in Nat \ {0} /\ 0 \in Val
    /\ Caches \cap DMAs = {}
    /\ \A p \in Caches \cup DMAs : OpsOf[p] \subseteq LineOps
    /\ NoData \notin Block

VARIABLES
    table,      \* the requests of the sequencers, or their results
    mq,         \* mq[c]: the lines asked for in the mandatory queue of c
    cstate,     \* cstate[c][a]: state of line a in cache c
    entries,    \* entries[c]: the lines with an entry in cache c
    data,       \* data[c][a]: DataBlk of the entry (in M), of the TBE (MI, MII)
    fwd,        \* fwd[c][d]: forwarded requests from directory d to cache c
    stalledOn,  \* stalledOn[c]: whose message c's forward queue is stalled on
    resp,       \* data on its way to caches
    reqs,       \* requests on their way to directories
    dstate,     \* dstate[a]: state of line a in its directory
    owner,      \* owner[a]: the Owner set of the directory entry
    dmaFor,     \* dmaFor[a]: the DmaRequestor of the directory's TBE, as a set
    memOp,      \* memOp[a]: what the directory has queued for memory
    mem,        \* mem[a]: the line in memory
    dma,        \* dma[d][a]: state of line a in DMA controller d
    dmaReqs,    \* DMA requests on their way to directories
    dmaResp,    \* responses on their way to DMA controllers
    panicked    \* a controller met an event its state has no transition for

cacheVars == <<mq, cstate, entries, data, stalledOn>>
dirVars == <<dstate, owner, dmaFor, memOp, mem>>
dmaVars == <<dma, dmaReqs, dmaResp>>
vars == <<table, cacheVars, fwd, resp, reqs, dirVars, dmaVars, panicked>>

CacheStates == {"I", "II", "M", "MI", "MII", "IS", "IM"}
DirStates == {"I", "M", "M_DRD", "M_DWR", "M_DWRI", "M_DRDI",
              "IM", "MI", "ID", "ID_W"}

Waiting(p, a) == Unanswered(table[p][a])

\* Messages.  A forwarded GETX names the cache that asked.
RequestMsg(type, a, c, block) == [type |-> type, addr |-> a, from |-> c, data |-> block]
ForwardMsg(type, a, to) == [type |-> type, addr |-> a, for |-> to]
ResponseMsg(a, to, block) == [addr |-> a, to |-> to, data |-> block]

\* An operation queued for memory: who it is for, and the first len words of
\* a block to be written; a read writes none.
MemoryOp(for, block, len) == [for |-> for, data |-> block, len |-> len]
NoOp == MemoryOp({}, NoData, 0)

\* Memory once the operation is done.
Performed(block, op) ==
    [w \in Words |-> IF w < op.len THEN op.data[w] ELSE block[w]]
=============================================================================
