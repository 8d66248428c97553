----------------------------- MODULE EventTypes -----------------------------
(***************************************************************************)
(* The events of a queue and their fixed attributes.                       *)
(***************************************************************************)
EXTENDS EventOrder

CONSTANTS NoEvent,    \* the null pointer
          Managed,    \* the events with the Managed (AutoDelete) flag
          MaxTick     \* the last tick

ASSUME EventQueueAssumption ==
    /\ NoEvent \notin Events
    /\ priority \in [Events -> Int]
    /\ Managed \subseteq Events
    /\ MaxTick \in Nat

Ticks == 0 .. MaxTick
=============================================================================
