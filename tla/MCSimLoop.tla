----------------------------- MODULE MCSimLoop -----------------------------
(***************************************************************************)
(* Queues 0 and 1 have local events: "a" and "b" are scheduled by their    *)
(* own queue's handlers, "c" lives in queue 1 and is scheduled by the      *)
(* handlers of queue 0.  Further queues hold the global events only.       *)
(***************************************************************************)
EXTENDS SimLoop, TLC

MCHome == [e \in LocalEvents |-> IF e = "a" THEN 0 ELSE 1]

MCUser == [e \in LocalEvents |-> IF e = "b" THEN 1 ELSE 0]

(* Nothing tells two statistics events apart. *)
StatSymmetry == Permutations(Stats)
=============================================================================
