------------------------- MODULE EventQueue_proofs -------------------------
(***************************************************************************)
(* The event queue keeps its events in service order and its time moves    *)
(* forward only, for any events, priorities and times.                     *)
(***************************************************************************)
EXTENDS EventQueueSpec, EventOrder_proofs

-----------------------------------------------------------------------------
(* Ticks are numbers, so service order compares numbers.                   *)
LEMMA Times == ASSUME NEW w \in [Events -> Ticks] PROVE OrderTypes(w)
  BY EventQueueAssumption DEF OrderTypes, Ticks

(***************************************************************************)
(* The four invariants are inductive together: the order of the queue is   *)
(* what keeps the events behind the one being serviced out of the past.    *)
(***************************************************************************)
IInv ==
    /\ TypeOK
    /\ Ordered
    /\ NothingInThePast
    /\ SquashedWaits

(* What is scheduled is an event.                                          *)
LEMMA ScheduledEvents == ASSUME TypeOK PROVE Scheduled \subseteq Events
  BY LenProperties, ElementOfSeq, Zenon DEF TypeOK, Scheduled, Elements

(* It holds of an empty queue.                                             *)
LEMMA InitIInv == Init => IInv
  <1> SUFFICES ASSUME Init PROVE IInv
    BY Zenon
  <1>1. TypeOK
    BY EventQueueAssumption, EmptySeq DEF Init, TypeOK, Ticks
  <1>2. DOMAIN queue = {} /\ Scheduled = {} /\ squashed = {}
    BY EmptySeq DEF Init, Scheduled, Elements
  <1> QED
    BY <1>1, <1>2, Zenon
    DEF IInv, Ordered, InOrder, NothingInThePast, SquashedWaits

(* A queue q without e, and e put into it for time w: schedule() and the   *)
(* second half of reschedule().                                            *)
LEMMA Inserted ==
    ASSUME IInv, NEW q \in Seq(Events), NEW e \in Events \ Elements(q),
           NEW w \in Ticks, InOrder(q, when), Elements(q) \subseteq Scheduled,
           w >= curTick, when' = [when EXCEPT ![e] = w],
           queue' = Insert(q, when', e), UNCHANGED <<curTick, current>>,
           squashed' \subseteq Elements(q) \cup {e}
    PROVE  IInv'
  <1>0. TypeOK /\ NothingInThePast /\ Scheduled \subseteq Events
    BY ScheduledEvents, Zenon DEF IInv
  <1>1. when' \in [Events -> Ticks] /\ when'[e] = w
    BY <1>0, Zenon DEF TypeOK
  <1>2. InOrder(q, when')
    <2>1. \A f \in Elements(q) : when'[f] = when[f]
      BY <1>0, Zenon DEF TypeOK
    <2> QED
      BY <2>1, SameTimes, Zenon
  <1>3. OrderTypes(when')
    BY <1>1, Times, Zenon
  <1>4. /\ queue' \in Seq(Events)
        /\ InOrder(queue', when')
        /\ Elements(queue') = Elements(q) \cup {e}
    BY <1>1, <1>2, <1>3, InsertInOrder, Zenon
  <1>5. Scheduled' = Elements(q) \cup {e}
    BY <1>4, Zenon DEF Scheduled
  <1>6. NothingInThePast'
    BY <1>0, <1>1, <1>5, Zenon DEF NothingInThePast, TypeOK
  <1>7. TypeOK'
    BY <1>0, <1>1, <1>4, Zenon DEF TypeOK
  <1> QED
    BY <1>4, <1>5, <1>6, <1>7, Zenon DEF IInv, Ordered, SquashedWaits

(* No operation of the queue breaks it.                                    *)
LEMMA NextIInv == IInv /\ [Next]_vars => IInv'
  <1> SUFFICES ASSUME IInv, [Next]_vars PROVE IInv'
    BY Zenon
  <1>0. /\ TypeOK /\ Ordered /\ NothingInThePast /\ SquashedWaits
        /\ Scheduled \subseteq Events /\ Scheduled = Elements(queue)
    BY ScheduledEvents, Zenon DEF IInv, Scheduled
  <1>1. ASSUME NEW e \in Events, NEW w \in Ticks, Schedule(e, w) PROVE IInv'
    <2>1. e \notin Elements(queue) /\ squashed' \subseteq Elements(queue) \cup {e}
      BY <1>0, <1>1, Zenon DEF Schedule, SquashedWaits
    <2> QED
      BY <1>0, <1>1, <2>1, Inserted, Zenon DEF Schedule, TypeOK, Ordered
  <1>2. ASSUME NEW e \in Events, NEW w \in Ticks, Reschedule(e, w) PROVE IInv'
    <2> DEFINE q == IF e \in Scheduled THEN Without(queue, e) ELSE queue
    <2>1. /\ q \in Seq(Events) /\ InOrder(q, when)
          /\ Elements(q) = Scheduled \ {e}
      BY <1>0, WithoutInOrder, Zenon DEF TypeOK, Ordered, Scheduled
    <2>2. /\ w >= curTick /\ when' = [when EXCEPT ![e] = w]
          /\ queue' = Insert(q, when', e)
          /\ squashed' = squashed \ {e} /\ UNCHANGED <<curTick, current>>
      BY <1>2, Zenon DEF Reschedule
    <2> HIDE DEF q
    <2>3. squashed' \subseteq Elements(q) \cup {e}
      BY <1>0, <2>1, <2>2, Zenon DEF SquashedWaits
    <2> QED
      BY <2>1, <2>2, <2>3, Inserted, Zenon
  <1>3. ASSUME NEW e \in Events, Deschedule(e) PROVE IInv'
    <2>1. /\ queue' = Without(queue, e) /\ squashed' = squashed \ {e}
          /\ e \in Elements(queue) /\ UNCHANGED <<when, curTick, current>>
      BY <1>0, <1>3, Zenon DEF Deschedule
    <2>2. /\ queue' \in Seq(Events) /\ InOrder(queue', when)
          /\ Scheduled' = Scheduled \ {e}
      BY <1>0, <2>1, WithoutInOrder, Zenon DEF TypeOK, Ordered, Scheduled
    <2> QED
      BY <1>0, <2>1, <2>2, Zenon
      DEF IInv, TypeOK, Ordered, NothingInThePast, SquashedWaits
  <1>4. ASSUME NEW e \in Events, Squash(e) PROVE IInv'
    <2>1. Scheduled' = Scheduled
      BY <1>4, Zenon DEF Squash, Scheduled
    <2> QED
      BY <1>0, <1>4, <2>1, Zenon
      DEF Squash, IInv, TypeOK, Ordered, NothingInThePast, SquashedWaits
  <1>5. CASE Service
    <2> DEFINE h == Head(queue)
    <2>1. /\ h \in Scheduled /\ h \in Events
          /\ queue' \in Seq(Events) /\ InOrder(queue', when)
          /\ Scheduled' = Scheduled \ {h}
          /\ \A e \in Scheduled : when[e] >= when[h]
      BY <1>0, <1>5, Times, TailInOrder, Zenon DEF Service, TypeOK, Ordered, Scheduled
    <2>2. /\ when' = when
          /\ \/ /\ squashed' = squashed \ {h} /\ curTick' = curTick
                /\ current' = current
             \/ /\ squashed' = squashed /\ h \notin squashed
                /\ curTick' = when[h] /\ current' = h
      BY <1>5, Zenon DEF Service
    <2> HIDE DEF h
    <2>3. TypeOK'
      BY <1>0, <2>1, <2>2, Zenon DEF TypeOK
    <2>4. NothingInThePast'
      BY <1>0, <2>1, <2>2, Zenon DEF NothingInThePast
    <2>5. SquashedWaits'
      BY <1>0, <2>1, <2>2, Zenon DEF SquashedWaits
    <2> QED
      BY <2>1, <2>2, <2>3, <2>4, <2>5, Zenon DEF IInv, Ordered
  <1>6. CASE Done
    <2>1. Scheduled' = Scheduled
      BY <1>6, Zenon DEF Done, Scheduled
    <2> QED
      BY <1>0, <1>6, <2>1, Zenon
      DEF Done, IInv, TypeOK, Ordered, NothingInThePast, SquashedWaits
  <1>7. ASSUME NEW w \in Ticks, Advance(w) PROVE IInv'
    <2>1. Scheduled' = Scheduled /\ UNCHANGED <<queue, when, squashed, current>>
      BY <1>7, Zenon DEF Advance, Scheduled
    <2>2. \A e \in Scheduled : when[e] >= w
      <3>1. CASE queue = <<>>
        BY <3>1, <1>0, EmptySeq DEF Elements
      <3>2. CASE queue # <<>>
        <4>1. /\ Head(queue) \in Events
              /\ \A e \in Scheduled : when[e] >= when[Head(queue)]
          BY <1>0, <3>2, Times, TailInOrder, Zenon DEF TypeOK, Ordered
        <4>2. when[Head(queue)] > w
          BY <1>7, <3>2, Zenon DEF Advance
        <4> DEFINE h == Head(queue)
        <4>3. h \in Events /\ when[h] > w /\ \A e \in Scheduled : when[e] >= when[h]
          BY <4>1, <4>2, Zenon
        <4> HIDE DEF h
        <4> QED
          BY <1>0, <4>3 DEF TypeOK, Ticks
      <3> QED
        BY <3>1, <3>2, Zenon
    <2> QED
      BY <1>0, <1>7, <2>1, <2>2, Zenon
      DEF Advance, IInv, TypeOK, Ordered, NothingInThePast, SquashedWaits
  <1>8. CASE UNCHANGED vars
    <2>1. Scheduled' = Scheduled
      BY <1>8, Zenon DEF vars, Scheduled
    <2> QED
      BY <1>0, <1>8, <2>1, Zenon
      DEF vars, IInv, TypeOK, Ordered, NothingInThePast, SquashedWaits
  <1> QED
    BY <1>1, <1>2, <1>3, <1>4, <1>5, <1>6, <1>7, <1>8, Zenon DEF Next

(* The time steps of a queue whose events are all ahead of it.             *)
LEMMA TimeStep == IInv /\ [Next]_vars => [curTick' >= curTick]_vars
  <1> SUFFICES ASSUME IInv, Next PROVE curTick' >= curTick
    BY Zenon DEF vars
  <1>0. curTick \in Nat
    BY DEF IInv, TypeOK, Ticks
  <1>1. CASE Service
    <2>1. Head(queue) \in Scheduled
      BY <1>1, Times, TailInOrder, Zenon DEF Service, IInv, TypeOK, Ordered, Scheduled
    <2>2. when[Head(queue)] >= curTick
      BY <2>1, Zenon DEF IInv, NothingInThePast
    <2>3. curTick' = curTick \/ curTick' = when[Head(queue)]
      BY <1>1, Zenon DEF Service
    <2> DEFINE h == when[Head(queue)]
    <2>4. h >= curTick /\ (curTick' = curTick \/ curTick' = h)
      BY <2>2, <2>3, Zenon
    <2> HIDE DEF h
    <2> QED
      BY <1>0, <2>4
  <1>2. CASE ~Service
    BY <1>0, <1>2 DEF Next, Schedule, Deschedule, Reschedule, Squash, Done, Advance
  <1> QED
    BY <1>1, <1>2, Zenon
-----------------------------------------------------------------------------
(***************************************************************************)
(* For any set of events, priorities and times, whatever handlers          *)
(* schedule, deschedule, reschedule and squash: the queue holds no event   *)
(* twice and is in service order (EventQueue::insert and remove).          *)
(***************************************************************************)
THEOREM OrderCorrect == Spec => []Ordered
  <1>1. IInv => Ordered
    BY Zenon DEF IInv
  <1> QED
    BY InitIInv, NextIInv, <1>1, PTL DEF Spec

(***************************************************************************)
(* The assert of doSimLoop() and serviceEvents() on the time of the next   *)
(* event: it is never in the past.                                         *)
(***************************************************************************)
THEOREM NeverLate == Spec => []NothingInThePast
  <1>1. IInv => NothingInThePast
    BY Zenon DEF IInv
  <1> QED
    BY InitIInv, NextIInv, <1>1, PTL DEF Spec

(***************************************************************************)
(* Squashed flags do not outlive the event's stay in the queue.            *)
(***************************************************************************)
THEOREM SquashCorrect == Spec => []SquashedWaits
  <1>1. IInv => SquashedWaits
    BY Zenon DEF IInv
  <1> QED
    BY InitIInv, NextIInv, <1>1, PTL DEF Spec

(* setCurTick() in serviceOne() and serviceEvents() never moves time back. *)
THEOREM TimeCorrect == Spec => TimeMonotone
  BY InitIInv, NextIInv, TimeStep, PTL DEF Spec, TimeMonotone

(* The types of the variables.                                             *)
THEOREM TypeCorrect == Spec => []TypeOK
  <1>1. IInv => TypeOK
    BY Zenon DEF IInv
  <1> QED
    BY InitIInv, NextIInv, <1>1, PTL DEF Spec
=============================================================================
