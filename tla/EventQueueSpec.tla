--------------------------- MODULE EventQueueSpec ---------------------------
(***************************************************************************)
(* What an event queue promises its users (the interface comments of       *)
(* sim/eventq.hh): events are serviced by increasing time, by increasing   *)
(* priority value at the same time, and last-in first-out when both agree. *)
(* The queue is a sequence in service order; EventQueue implements it with *)
(* a list of stacks.                                                       *)
(***************************************************************************)
EXTENDS EventTypes

VARIABLES queue,      \* the scheduled events, next one first
          when,       \* the time of each event
          squashed,   \* the events whose processing is cancelled
          curTick,    \* the queue's time
          current     \* the event whose process() is running, or NoEvent

vars == <<queue, when, squashed, curTick, current>>

Scheduled == Elements(queue)

Init ==
    /\ queue = <<>>
    /\ when = [e \in Events |-> 0]
    /\ squashed = {}
    /\ curTick = 0
    /\ current = NoEvent
-----------------------------------------------------------------------------
Schedule(e, w) ==
    /\ e \notin Scheduled
    /\ w >= curTick
    /\ when' = [when EXCEPT ![e] = w]
    /\ queue' = Insert(queue, when', e)
    /\ UNCHANGED <<squashed, curTick, current>>

(* The handler of a managed event may not deschedule that event: it would  *)
(* delete the object it runs in.                                           *)
Deschedule(e) ==
    /\ e \in Scheduled
    /\ ~(e = current /\ e \in Managed)
    /\ queue' = Without(queue, e)
    /\ squashed' = squashed \ {e}
    /\ UNCHANGED <<when, curTick, current>>

Reschedule(e, w) ==
    /\ w >= curTick
    /\ when' = [when EXCEPT ![e] = w]
    /\ queue' = Insert(IF e \in Scheduled THEN Without(queue, e) ELSE queue,
                       when', e)
    /\ squashed' = squashed \ {e}
    /\ UNCHANGED <<curTick, current>>

Squash(e) ==
    /\ e \in Scheduled
    /\ squashed' = squashed \cup {e}
    /\ UNCHANGED <<queue, when, curTick, current>>

(* The next event is taken off the queue; squashed, it is dropped and time *)
(* stays.                                                                  *)
Service ==
    /\ current = NoEvent
    /\ queue # <<>>
    /\ queue' = Tail(queue)
    /\ IF Head(queue) \in squashed
       THEN /\ squashed' = squashed \ {Head(queue)}
            /\ UNCHANGED <<curTick, current>>
       ELSE /\ curTick' = when[Head(queue)]
            /\ current' = Head(queue)
            /\ UNCHANGED squashed
    /\ UNCHANGED when

Done ==
    /\ current # NoEvent
    /\ current' = NoEvent
    /\ UNCHANGED <<queue, when, squashed, curTick>>

(* Time is moved up to a point no event precedes (serviceEvents).          *)
Advance(w) ==
    /\ current = NoEvent
    /\ w >= curTick
    /\ queue # <<>> => when[Head(queue)] > w
    /\ curTick' = w
    /\ UNCHANGED <<queue, when, squashed, current>>

Next ==
    \/ \E e \in Events :
          \/ Deschedule(e)
          \/ Squash(e)
          \/ \E w \in Ticks : Schedule(e, w) \/ Reschedule(e, w)
    \/ Service
    \/ Done
    \/ \E w \in Ticks : Advance(w)

Spec == Init /\ [][Next]_vars
-----------------------------------------------------------------------------
(* The values of the variables; no event is set to a time behind MaxTick.  *)
TypeOK ==
    /\ queue \in Seq(Events)
    /\ when \in [Events -> Ticks]
    /\ squashed \subseteq Events
    /\ curTick \in Ticks
    /\ current \in Events \cup {NoEvent}

(* No event is in the queue twice, and the queue is in service order.      *)
Ordered == InOrder(queue, when)

(* No event waits in the past of its queue: servicing it never moves time  *)
(* backwards.                                                              *)
NothingInThePast == \A e \in Scheduled : when[e] >= curTick

(* Only an event that is in the queue can be squashed: a later schedule()  *)
(* of the object does not inherit a stale cancellation.                    *)
SquashedWaits == squashed \subseteq Scheduled

(* The queue's time never decreases.                                       *)
TimeMonotone == [][curTick' >= curTick]_vars
=============================================================================
