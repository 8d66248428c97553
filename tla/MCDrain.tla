------------------------------ MODULE MCDrain ------------------------------
(* A CPU (1), a cache (2) and a memory (3): work moves towards the memory. *)
(* 4 is a late object.                                                     *)
EXTENDS Drain

MCSendsTo == [o \in Objects |-> IF o \in Late THEN {}
                                ELSE {p \in Objects \ Late : p > o}]
=============================================================================
