--------------------------- MODULE CoherentMemory ---------------------------
(***************************************************************************)
(* What a coherent memory system promises to the CPUs and the devices that *)
(* use it: one value per line, and every request performed at one instant  *)
(* between being made and being answered.  There are no caches, messages   *)
(* or protocol states here.                                                *)
(***************************************************************************)
EXTENDS MemoryOps

CONSTANTS Ports,       \* the sequencers of CPUs and of DMA devices
          Addrs,       \* the lines of memory
          OpsOf        \* OpsOf[p]: the requests port p makes

VARIABLES mem,         \* mem[a]: the words of line a
          table        \* table[p][a]: p's request for line a, or its result

vars == <<mem, table>>
-----------------------------------------------------------------------------
Init == /\ mem = [a \in Addrs |-> [w \in Words |-> 0]]
        /\ table = [p \in Ports |-> [a \in Addrs |-> Stored]]

\* A port has one request at a time for a line.
Ask(p, a) ==
    /\ ~Unanswered(table[p][a])
    /\ \E op \in OpsOf[p] : table' = [table EXCEPT ![p][a] = op]
    /\ UNCHANGED mem

PerformLoad(p, a) ==
    /\ table[p][a].op = "Load"
    /\ table' = [table EXCEPT ![p][a] = Got(table[p][a], mem[a])]
    /\ UNCHANGED mem

PerformStore(p, a) ==
    /\ table[p][a].op = "Store"
    /\ mem' = [mem EXCEPT ![a] = Overlay(@, table[p][a])]
    /\ table' = [table EXCEPT ![p][a] = Stored]

Next == \E p \in Ports, a \in Addrs :
            Ask(p, a) \/ PerformLoad(p, a) \/ PerformStore(p, a)

Spec == Init /\ [][Next]_vars
=============================================================================
