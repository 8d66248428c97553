--------------------------- MODULE MCEventRestore ---------------------------
(* Two unmanaged events of one priority. *)
EXTENDS EventRestore

MCPriority == [e \in Events |-> 0]
=============================================================================
