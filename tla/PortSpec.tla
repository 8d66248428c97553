------------------------------ MODULE PortSpec ------------------------------
(***************************************************************************)
(* What masters may rely on when they send requests into a memory system   *)
(* of ports: a request is performed once, a request that needs a response  *)
(* is answered once, by its own master, and the answers to one master for  *)
(* one address come in the order the accesses were performed.              *)
(***************************************************************************)
EXTENDS Naturals, Sequences, SequencesExt

CONSTANTS Requests, Owner, Posted, Line

VARIABLES asked,       \* the requests that have not been performed
          performed    \* those performed and not answered, in that order

vars == <<asked, performed>>

Init == asked = {} /\ performed = << >>

Ask(r) ==
    /\ r \notin asked \cup ToSet(performed)
    /\ asked' = asked \cup {r}
    /\ UNCHANGED performed

Perform(r) ==
    /\ r \in asked
    /\ asked' = asked \ {r}
    /\ performed' = IF r \in Posted THEN performed ELSE Append(performed, r)

SameStream(r1, r2) == Owner[r1] = Owner[r2] /\ Line[r1] = Line[r2]

Answer(i) ==
    /\ ~\E j \in 1..(i - 1) : SameStream(performed[i], performed[j])
    /\ performed' = RemoveAt(performed, i)
    /\ UNCHANGED asked

Next == \/ \E r \in Requests : Ask(r) \/ Perform(r)
        \/ \E i \in DOMAIN performed : Answer(i)

Spec == Init /\ [][Next]_vars
=============================================================================
