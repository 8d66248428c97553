---------------------------- MODULE MCAsyncEvent ----------------------------
(* A listening socket is in the queue from the start. *)
EXTENDS AsyncEvent

Sockets == <<1>>
=============================================================================
