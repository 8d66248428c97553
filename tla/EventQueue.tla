----------------------------- MODULE EventQueue -----------------------------
(***************************************************************************)
(* The event queue of sim/eventq.{hh,cc} and sim/eventq_impl.hh as it is   *)
(* linked in memory.  nextBin chains the bins, one per (time, priority);   *)
(* nextInBin chains the events of a bin, most recently inserted first.     *)
(* Only the top event of a bin has a valid nextBin: the others keep        *)
(* whatever they had, and removing a top has to repair the next one.       *)
(*                                                                         *)
(* The queue is used by one thread (its own); the asserts of the code are  *)
(* what its callers guarantee and appear as guards.  process() is whatever *)
(* its handler does: the operations taken between serviceOne and           *)
(* serviceOneReturn.                                                       *)
(***************************************************************************)
EXTENDS EventTypes, FiniteSets

CONSTANT ExitEvents   \* the events with the IsExitEvent flag

VARIABLES list,        \* head, nextBin and nextInBin
          when,        \* Event::_when
          scheduled,   \* the events with the Scheduled flag
          squashed,    \* the events with the Squashed flag
          live,        \* the Event objects constructed and not yet deleted
          curTick,     \* EventQueue::_curTick
          current      \* the event whose process() is running, or NoEvent

vars == <<list, when, scheduled, squashed, live, curTick, current>>

Pointers == Events \cup {NoEvent}

Lists == [head : Pointers, nextBin : [Events -> Pointers],
          nextInBin : [Events -> Pointers]]

(* operator== *)
SameBin(w, e, f) == w[e] = w[f] /\ priority[e] = priority[f]

Init ==
    /\ list = [head |-> NoEvent,
               nextBin |-> [e \in Events |-> NoEvent],
               nextInBin |-> [e \in Events |-> NoEvent]]
    /\ when = [e \in Events |-> 0]
    /\ scheduled = {}
    /\ squashed = {}
    /\ live = Events \ Managed
    /\ curTick = 0
    /\ current = NoEvent
-----------------------------------------------------------------------------
insertBefore(l, w, e, curr) ==
    IF curr = NoEvent \/ Before(w, e, curr)
    THEN [l EXCEPT !.nextBin[e] = curr, !.nextInBin[e] = NoEvent]
    ELSE [l EXCEPT !.nextBin[e] = l.nextBin[curr], !.nextInBin[e] = curr]

(* The walk down the bins that insert and remove share: from bin, the last *)
(* one whose successor is not before e.                                    *)
LastBinBefore(l, w, e) ==
    LET prev[bin \in Events] ==
          LET next == l.nextBin[bin]
          IN  IF next # NoEvent /\ Before(w, next, e) THEN prev[next] ELSE bin
    IN  prev[l.head]

insertFIFO(l, w, e) ==
    IF l.head = NoEvent \/ Before(w, e, l.head)
    THEN [insertBefore(l, w, e, l.head) EXCEPT !.head = e]
    ELSE LET prev == LastBinBefore(l, w, e)
         IN  [insertBefore(l, w, e, l.nextBin[prev])
                 EXCEPT !.nextBin[prev] = e]

insert(l, w, e) ==
    IF l.head = NoEvent \/ ~Before(w, l.head, e)
    THEN [insertBefore(l, w, e, l.head) EXCEPT !.head = e]
    ELSE LET prev == LastBinBefore(l, w, e)
         IN  [insertBefore(l, w, e, l.nextBin[prev])
                 EXCEPT !.nextBin[prev] = e]

(* The new top of the bin of top, once e is off it. *)
newTop(l, e, top) ==
    IF e # top THEN top
    ELSE IF l.nextInBin[top] = NoEvent THEN l.nextBin[top]
    ELSE l.nextInBin[top]

removeItemStale(l, e, top) ==
    IF e = top
    THEN l
    ELSE LET pred[c \in Events] ==
               IF l.nextInBin[c] = e THEN c ELSE pred[l.nextInBin[c]]
         IN  [l EXCEPT !.nextInBin[pred[top]] = l.nextInBin[e]]

removeItem(l, e, top) ==
    IF e = top
    THEN IF l.nextInBin[top] = NoEvent
         THEN l
         ELSE [l EXCEPT !.nextBin[l.nextInBin[top]] = l.nextBin[top]]
    ELSE LET pred[c \in Events] ==
               IF l.nextInBin[c] = e THEN c ELSE pred[l.nextInBin[c]]
         IN  [l EXCEPT !.nextInBin[pred[top]] = l.nextInBin[e]]

remove(l, w, e) ==
    IF SameBin(w, l.head, e)
    THEN [removeItem(l, e, l.head) EXCEPT !.head = newTop(l, e, l.head)]
    ELSE LET prev == LastBinBefore(l, w, e)
             curr == l.nextBin[prev]
         IN  [removeItem(l, e, curr)
                 EXCEPT !.nextBin[prev] = newTop(l, e, curr)]

(* Event::release: a managed object that is not scheduled deletes itself. *)
release(e, sched) == IF e \in Managed \ sched THEN live \ {e} ELSE live
-----------------------------------------------------------------------------
(* new Event: flags cleared, pointers null; only managed events are        *)
(* created and deleted over and over, the others are members of objects.   *)
(* _when, which nothing reads before schedule() sets it, stays as it was.  *)
construct(e) ==
    /\ e \notin live
    /\ live' = live \cup {e}
    /\ list' = [list EXCEPT !.nextBin[e] = NoEvent, !.nextInBin[e] = NoEvent]
    /\ squashed' = squashed \ {e}
    /\ UNCHANGED <<when, scheduled, curTick, current>>

scheduleLate(e, w) ==
    /\ e \in live
    /\ w >= curTick
    /\ e \notin scheduled
    /\ when' = [when EXCEPT ![e] = w + 1]
    /\ list' = insert(list, when', e)
    /\ scheduled' = scheduled \cup {e}
    /\ UNCHANGED <<squashed, live, curTick, current>>

schedule(e, w) ==
    /\ e \in live
    /\ w >= curTick
    /\ e \notin scheduled
    /\ when' = [when EXCEPT ![e] = w]
    /\ list' = insert(list, when', e)
    /\ scheduled' = scheduled \cup {e}
    /\ UNCHANGED <<squashed, live, curTick, current>>

(* A handler that descheduled its own managed event would delete it while  *)
(* serviceOne still needs it: no caller does.                              *)
deschedule(e) ==
    /\ e \in scheduled
    /\ ~(e = current /\ e \in Managed)
    /\ list' = remove(list, when, e)
    /\ scheduled' = scheduled \ {e}
    /\ squashed' = squashed \ {e}
    /\ live' = release(e, scheduled')
    /\ UNCHANGED <<when, curTick, current>>

(* always = FALSE makes e \in scheduled a condition on the caller; the     *)
(* effect is the same.                                                     *)
reschedule(e, w) ==
    /\ e \in live
    /\ w >= curTick
    /\ when' = [when EXCEPT ![e] = w]
    /\ list' = insert(IF e \in scheduled THEN remove(list, when, e) ELSE list,
                      when', e)
    /\ scheduled' = scheduled \cup {e}
    /\ squashed' = squashed \ {e}
    /\ UNCHANGED <<live, curTick, current>>

(* Event::squash, called on events that are in a queue. *)
squash(e) ==
    /\ e \in scheduled
    /\ squashed' = squashed \cup {e}
    /\ UNCHANGED <<list, when, scheduled, live, curTick, current>>
-----------------------------------------------------------------------------
(* serviceOne up to the call of process(), or to its return when the event *)
(* is squashed.                                                            *)
serviceOne ==
    LET e == list.head
    IN  /\ current = NoEvent
        /\ e # NoEvent
        /\ scheduled' = scheduled \ {e}
        /\ list' = [removeItem(list, e, e) EXCEPT !.head = newTop(list, e, e)]
        /\ IF e \notin squashed
           THEN /\ curTick' = when[e]
                /\ current' = e
                /\ UNCHANGED <<squashed, live>>
           ELSE /\ squashed' = squashed \ {e}
                /\ live' = release(e, scheduled')
                /\ UNCHANGED <<curTick, current>>
        /\ UNCHANGED when

serviceOneReturnFrees ==
    /\ current # NoEvent
    /\ current' = NoEvent
    /\ live' = IF current \in ExitEvents THEN live
               ELSE live \ ({current} \cap Managed)
    /\ UNCHANGED <<list, when, scheduled, squashed, curTick>>

(* serviceOne from the return of process(); an exit event goes to the      *)
(* simulation loop instead of being released.                              *)
serviceOneReturn ==
    /\ current # NoEvent
    /\ current' = NoEvent
    /\ live' = IF current \in ExitEvents THEN live
               ELSE release(current, scheduled)
    /\ UNCHANGED <<list, when, scheduled, squashed, curTick>>

(* The end of serviceEvents(w), which the CPUs use on their instruction    *)
(* count queues with a count that never decreases: the events up to w are  *)
(* serviced, time becomes w.                                               *)
serviceEvents(w) ==
    /\ current = NoEvent
    /\ w >= curTick
    /\ list.head # NoEvent => when[list.head] > w
    /\ curTick' = w
    /\ UNCHANGED <<list, when, scheduled, squashed, live, current>>

Next ==
    \/ \E e \in Events :
          \/ construct(e)
          \/ deschedule(e)
          \/ squash(e)
          \/ \E w \in Ticks : schedule(e, w) \/ reschedule(e, w)
    \/ serviceOne
    \/ serviceOneReturn
    \/ \E w \in Ticks : serviceEvents(w)

Spec == Init /\ [][Next]_vars
-----------------------------------------------------------------------------
(* The events in the order the pointers give them: bin after bin, each     *)
(* from its top.                                                           *)
Linked ==
    LET bin[e \in Pointers] ==
          IF e = NoEvent THEN <<>> ELSE <<e>> \o bin[list.nextInBin[e]]
        from[e \in Pointers] ==
          IF e = NoEvent THEN <<>> ELSE bin[e] \o from[list.nextBin[e]]
    IN  from[list.head]

(* The values of the variables; no event is set to a time behind MaxTick.  *)
TypeOK ==
    /\ list \in Lists
    /\ when \in [Events -> Ticks]
    /\ scheduled \subseteq Events
    /\ squashed \subseteq Events
    /\ live \subseteq Events
    /\ curTick \in Ticks
    /\ current \in Pointers

(* The flag and the list agree: scheduled() answers exactly for the events *)
(* the list holds, each of them once.  It is why deschedule never ends in  *)
(* "event not found!".                                                     *)
FlagsMatchList ==
    /\ scheduled = {Linked[i] : i \in DOMAIN Linked}
    /\ Len(Linked) = Cardinality(scheduled)

(* No event is deleted while the list or serviceOne still points to it.    *)
NoDanglingEvent ==
    /\ scheduled \subseteq live
    /\ current # NoEvent => current \in live

Abstract == INSTANCE EventQueueSpec WITH queue <- Linked

(* The list of stacks behaves as the ordered queue: whatever is scheduled, *)
(* descheduled, rescheduled and squashed from handlers, stale nextBin      *)
(* pointers never lose, repeat or misplace an event.                       *)
ImplementsQueue == Abstract!Spec
=============================================================================
