---------------------------- MODULE MCEventQueue ----------------------------
(* Three of the four events have the same priority and can share a bin. *)
EXTENDS EventQueue

MCPriority == [e \in Events |-> IF e = 4 THEN 1 ELSE 0]
=============================================================================
