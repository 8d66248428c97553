----------------------------- MODULE BarrierSpec -----------------------------
(***************************************************************************)
(* What a reusable barrier promises the threads that share it, with no     *)
(* counter and no generation number: a thread that arrives is held until   *)
(* every thread has arrived, the last to arrive passes straight through    *)
(* and is told so, and a thread held in one round cannot be overtaken by   *)
(* the next one.                                                           *)
(***************************************************************************)
CONSTANT Threads

VARIABLES arrived,    \* threads held in the current round
          released,   \* threads of the previous round that may return
          ret         \* what each thread's last wait() returned

vars == <<arrived, released, ret>>

Init ==
    /\ arrived = {}
    /\ released = {}
    /\ ret = [t \in Threads |-> "none"]

\* Some other thread is still to come: t is held.
Arrive(t) ==
    /\ t \notin arrived \cup released
    /\ arrived \cup {t} # Threads
    /\ arrived' = arrived \cup {t}
    /\ UNCHANGED <<released, ret>>

\* t is the last one: every held thread may go, t returns true at once.
Complete(t) ==
    /\ t \notin arrived \cup released
    /\ arrived \cup {t} = Threads
    /\ arrived' = {}
    /\ released' = Threads \ {t}
    /\ ret' = [ret EXCEPT ![t] = "true"]

Return(t) ==
    /\ t \in released
    /\ released' = released \ {t}
    /\ ret' = [ret EXCEPT ![t] = "false"]
    /\ UNCHANGED arrived

Next == \E t \in Threads : Arrive(t) \/ Complete(t) \/ Return(t)

Spec == Init /\ [][Next]_vars
=============================================================================
