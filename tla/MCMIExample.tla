----------------------------- MODULE MCMIExample ----------------------------
(***************************************************************************)
(* Instances of MIExample for TLC.                                         *)
(***************************************************************************)
EXTENDS MIExample, TLC

CONSTANTS c1, c2, c3, d1, home1, home2, a1, a2

\* A CPU loads or stores a word; a device reads or writes a whole line.
CpuOps == {Load(w, 1) : w \in Words} \cup {Store(w, 1, v) : w \in Words, v \in Val}
DeviceOps == {Load(0, LineSize)} \cup {Store(0, LineSize, v) : v \in Val}
WholeLines == [p \in Caches \cup DMAs |-> IF p \in Caches THEN CpuOps ELSE DeviceOps]

OneHome == [a \in Addrs |-> home1]

TwoHomes == (a1 :> home1) @@ (a2 :> home2)

\* CPUs that only store, and always the same.
Stores == [p \in Caches \cup DMAs |-> {Store(0, 1, 0)}]

Symmetry == Permutations(Caches)
=============================================================================
