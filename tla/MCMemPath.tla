------------------------------ MODULE MCMemPath -----------------------------
(* Constants of MemPath for TLC: requests 1 to 4 crowd the bridge, 4 to 7 the *)
(* near memory.                                                              *)
EXTENDS MemPath

MCOwner == <<"cpu", "cpu", "io", "io", "io", "cpu", "cpu">>
MCDest == <<"bridge", "bridge", "bridge", "near", "near", "near", "bridge">>
MCLine == <<1, 1, 2, 3, 3, 4, 5>>
=============================================================================
