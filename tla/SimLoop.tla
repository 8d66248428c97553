------------------------------ MODULE SimLoop ------------------------------
(***************************************************************************)
(* Parallel simulation: one thread per main event queue (sim/simulate.cc), *)
(* asynchronous insertion into the queues of other threads                 *)
(* (sim/eventq_impl.hh, sim/eventq.cc) and the global events, one barrier  *)
(* event per queue, that keep the queues within a quantum of each other    *)
(* and end the simulation together (sim/global_event.cc,                   *)
(* sim/sim_events.cc, sim/stat_control.cc).                                *)
(*                                                                         *)
(* A queue is the sequence of its events (EventQueue implements it).  The  *)
(* barrier of a global event is used as BarrierSpec promises: the last     *)
(* thread to arrive processes the event while the others wait, then all go *)
(* on.  The barrier events of a global event g are g itself in each queue. *)
(* Between two steps of a thread any other thread may run; code between    *)
(* two accesses to what threads share is one step.                         *)
(***************************************************************************)
EXTENDS Integers, Sequences, FiniteSets

CONSTANTS N,             \* numMainEventQueues
          simQuantum,
          MaxTick,       \* the last tick; nothing is scheduled behind it
          LocalEvents,   \* ordinary events, default priority
          home,          \* the queue each local event belongs to
          user,          \* the thread whose handlers schedule it
          Exits,         \* the GlobalSimLoopExitEvents of exitSimLoop()
          Stats,         \* the StatEvents of schedStatEvent()
          OwnDelays,     \* how far ahead a handler schedules on its queue,
          AsyncDelays,   \* on another queue,
          StatDelays,    \* and how far ahead it asks for statistics
          StatRepeat,    \* StatEvent::repeat, 0 for none
          AvoidTies      \* the script puts no global event on the tick of
                         \* one of that priority that is not merged yet

Threads == 0 .. N - 1

ASSUME SimLoopAssumption ==
    /\ N \in Nat \ {0, 1}
    /\ simQuantum \in Nat \ {0}
    /\ MaxTick \in Nat
    /\ home \in [LocalEvents -> Threads]
    /\ user \in [LocalEvents -> Threads]
    /\ OwnDelays \subseteq Nat
    /\ StatDelays \subseteq Nat
    /\ StatRepeat \in Nat
    /\ AsyncDelays \subseteq Nat
    /\ \A d \in AsyncDelays : d >= simQuantum
    /\ AvoidTies \in BOOLEAN
    /\ LocalEvents \cap (Exits \cup Stats) = {}
    /\ Exits \cap Stats = {}
    /\ {"sync", "limit", "none"} \cap (LocalEvents \cup Exits \cup Stats) = {}

main == 0

NoThread == -1

(* quantum_event and simulate_limit_event *)
Globals == {"sync", "limit"} \cup Exits \cup Stats

ExitEvents == {"limit"} \cup Exits

AllEvents == LocalEvents \cup Globals

(* Progress_Event_Pri, Sim_Exit_Pri, Stat_Event_Pri, Default_Pri *)
Priority ==
    [e \in AllEvents |-> CASE e = "sync" -> 95
                           [] e \in ExitEvents -> 100
                           [] e \in Stats -> 90
                           [] e \in LocalEvents -> 0]

Order == INSTANCE EventOrder WITH Events <- AllEvents, priority <- Priority

VARIABLES pc,          \* where each thread is
          queue,       \* the events of each queue, in service order
          asyncq,      \* EventQueue::async_queue
          scheduled,   \* per queue, the events with the Scheduled flag
          when,        \* Event::_when
          curTick,     \* EventQueue::_curTick
          at,          \* the event each thread services
          job,         \* the schedule() call each thread is in
          mutex,       \* the thread that holds globalQMutex
          fresh        \* the exit and statistics events not created yet

vars == <<pc, queue, asyncq, scheduled, when, curTick, at, job, mutex, fresh>>

NoEvent == "none"

NoJob == [event |-> NoEvent, when |-> 0, next |-> 0]

Elements(q) == Order!Elements(q)

(* The queues an event goes to. *)
Targets(e) == IF e \in Globals THEN Threads ELSE {home[e]}

Init ==
    /\ pc = [t \in Threads |-> IF t = main THEN "python" ELSE "idle"]
    /\ queue = [t \in Threads |-> <<>>]
    /\ asyncq = [t \in Threads |-> <<>>]
    /\ scheduled = [t \in Threads |-> {}]
    /\ when = [e \in AllEvents |-> 0]
    /\ curTick = [t \in Threads |-> 0]
    /\ at = [t \in Threads |-> NoEvent]
    /\ job = [t \in Threads |-> NoJob]
    /\ mutex = NoThread
    /\ fresh = Exits \cup Stats
-----------------------------------------------------------------------------
(* Scheduling while inParallelMode is false (the main thread, between two  *)
(* calls of simulate()): the event goes straight into its queues.          *)
ScheduleSerial(q, w, e) ==
    [t \in Threads |-> IF t \in Targets(e) THEN Order!Insert(q[t], w, e) ELSE q[t]]

DescheduleSerial(q, e) ==
    [t \in Threads |-> IF e \in scheduled[t] THEN Order!Without(q[t], e) ELSE q[t]]

SetScheduled(e) ==
    scheduled' = [t \in Threads |-> IF t \in Targets(e)
                                    THEN scheduled[t] \cup {e}
                                    ELSE scheduled[t]]

NoTie(e, w) ==
    \A t \in Threads : \A g \in Elements(asyncq[t]) :
        ~(g \in Globals /\ when[g] = w /\ Priority[g] = Priority[e])

(* The configuration script or a startup() function schedules an event.    *)
PySchedule(e, w) ==
    /\ pc[main] = "python"
    /\ e \notin scheduled[home[e]]
    /\ w >= curTick[home[e]]
    /\ when' = [when EXCEPT ![e] = w]
    /\ queue' = ScheduleSerial(queue, when', e)
    /\ SetScheduled(e)
    /\ UNCHANGED <<pc, asyncq, curTick, at, job, mutex, fresh>>

(* schedStatEvent() from the script (periodicStatDump, m5.stats).          *)
PySchedStatEvent(g, w) ==
    /\ pc[main] = "python"
    /\ g \in fresh
    /\ w >= curTick[main]
    /\ w + simQuantum <= MaxTick
    /\ AvoidTies => NoTie(g, w + simQuantum)
    /\ fresh' = fresh \ {g}
    /\ when' = [when EXCEPT ![g] = w + simQuantum]
    /\ queue' = ScheduleSerial(queue, when', g)
    /\ SetScheduled(g)
    /\ UNCHANGED <<pc, asyncq, curTick, at, job, mutex>>

simulateRollsOver(n) ==
    LET limit == curTick[main] + n
    IN  /\ pc[main] = "python"
        /\ \A t \in Threads \ {main} : pc[t] = "idle"
        /\ AvoidTies => NoTie("limit", limit)
        /\ when' = [when EXCEPT !["limit"] = limit,
                                !["sync"] = curTick[main] + simQuantum]
        /\ queue' = ScheduleSerial(
                        ScheduleSerial(DescheduleSerial(queue, "limit"),
                                       when', "limit"),
                        when', "sync")
        /\ scheduled' = [t \in Threads |-> scheduled[t] \cup {"limit", "sync"}]
        /\ pc' = [t \in Threads |-> "merge"]
        /\ UNCHANGED <<asyncq, curTick, at, job, mutex, fresh>>

simulateTwoQuanta(n) ==
    LET limit == IF n < MaxTick - curTick[main]
                 THEN curTick[main] + n ELSE MaxTick
    IN  /\ pc[main] = "python"
        /\ \A t \in Threads \ {main} : pc[t] = "idle"
        /\ AvoidTies => NoTie("limit", limit)
        /\ when' = [when EXCEPT !["limit"] = limit,
                                !["sync"] = curTick[main] + 2 * simQuantum]
        /\ queue' = ScheduleSerial(
                        ScheduleSerial(DescheduleSerial(queue, "limit"),
                                       when', "limit"),
                        when', "sync")
        /\ scheduled' = [t \in Threads |-> scheduled[t] \cup {"limit", "sync"}]
        /\ pc' = [t \in Threads |-> "merge"]
        /\ UNCHANGED <<asyncq, curTick, at, job, mutex, fresh>>

(* simulate(n) up to the barrier that starts all threads: the limit event  *)
(* is rescheduled, the quantum event is created.                           *)
simulate(n) ==
    LET limit == IF n < MaxTick - curTick[main]
                 THEN curTick[main] + n ELSE MaxTick
    IN  /\ pc[main] = "python"
        /\ \A t \in Threads \ {main} : pc[t] = "idle"
        /\ AvoidTies => NoTie("limit", limit)
        /\ when' = [when EXCEPT !["limit"] = limit,
                                !["sync"] = curTick[main] + simQuantum]
        /\ queue' = ScheduleSerial(
                        ScheduleSerial(DescheduleSerial(queue, "limit"),
                                       when', "limit"),
                        when', "sync")
        /\ scheduled' = [t \in Threads |-> scheduled[t] \cup {"limit", "sync"}]
        /\ pc' = [t \in Threads |-> "merge"]
        /\ UNCHANGED <<asyncq, curTick, at, job, mutex, fresh>>

simulateReturnKeepsSync ==
    /\ pc[main] = "exited"
    /\ pc' = [pc EXCEPT ![main] = "python"]
    /\ UNCHANGED <<queue, scheduled, asyncq, when, curTick, at, job, mutex,
                   fresh>>

(* The end of simulate(): the quantum event is descheduled and deleted.    *)
simulateReturn ==
    /\ pc[main] = "exited"
    /\ pc' = [pc EXCEPT ![main] = "python"]
    /\ queue' = DescheduleSerial(queue, "sync")
    /\ scheduled' = [t \in Threads |-> scheduled[t] \ {"sync"}]
    /\ UNCHANGED <<asyncq, when, curTick, at, job, mutex, fresh>>
-----------------------------------------------------------------------------
(* handleAsyncInsertions(), on entering doSimLoop() and after a sync.      *)
handleAsyncInsertions(t) ==
    /\ pc[t] = "merge"
    /\ queue' = [queue EXCEPT ![t] = Order!Merge(@, when, asyncq[t])]
    /\ asyncq' = [asyncq EXCEPT ![t] = <<>>]
    /\ pc' = [pc EXCEPT ![t] = "loop"]
    /\ UNCHANGED <<scheduled, when, curTick, at, job, mutex, fresh>>

serviceOneKeepsFlag(t) ==
    LET e == Head(queue[t])
        last == \A u \in Threads \ {t} : pc[u] = "wait" /\ at[u] = e
    IN  /\ pc[t] = "loop"
        /\ queue[t] # <<>>
        /\ queue' = [queue EXCEPT ![t] = Tail(queue[t])]
        /\ curTick' = [curTick EXCEPT ![t] = when[e]]
        /\ at' = [at EXCEPT ![t] = e]
        /\ pc' = [pc EXCEPT ![t] = IF e \in LocalEvents THEN "handler"
                                   ELSE IF last THEN "winner" ELSE "wait"]
        /\ UNCHANGED <<scheduled, asyncq, when, job, mutex, fresh>>

(* serviceOne() up to the handler of a local event, or up to the first     *)
(* globalBarrier() of a barrier event: the last thread to get there is     *)
(* told true.                                                              *)
serviceOne(t) ==
    LET e == Head(queue[t])
        last == \A u \in Threads \ {t} : pc[u] = "wait" /\ at[u] = e
    IN  /\ pc[t] = "loop"
        /\ queue[t] # <<>>
        /\ queue' = [queue EXCEPT ![t] = Tail(queue[t])]
        /\ scheduled' = [scheduled EXCEPT ![t] = @ \ {e}]
        /\ curTick' = [curTick EXCEPT ![t] = when[e]]
        /\ at' = [at EXCEPT ![t] = e]
        /\ pc' = [pc EXCEPT ![t] = IF e \in LocalEvents THEN "handler"
                                   ELSE IF last THEN "winner" ELSE "wait"]
        /\ UNCHANGED <<asyncq, when, job, mutex, fresh>>

StartJob(t, e, w) ==
    /\ job' = [job EXCEPT ![t] = [event |-> e, when |-> w,
                                  next |-> IF e \in Globals THEN 0
                                           ELSE home[e]]]
    /\ pc' = [pc EXCEPT ![t] = "push"]

processSameTick(t) ==
    LET g == at[t]
        next == curTick[t] + (IF g \in Stats THEN StatRepeat ELSE 0)
        again == g = "sync" \/ (g \in Stats /\ StatRepeat # 0 /\ next <= MaxTick)
    IN  /\ pc[t] = "winner"
        /\ IF again THEN StartJob(t, g, next)
                    ELSE pc' = [pc EXCEPT ![t] = "second"] /\ UNCHANGED job
        /\ UNCHANGED <<queue, asyncq, scheduled, when, curTick, at, mutex, fresh>>

(* The winner calls process(): the sync event and a repeating StatEvent    *)
(* schedule their next occurrence (a new StatEvent, here the same name),   *)
(* an exit event does nothing.                                             *)
process(t) ==
    LET g == at[t]
        next == curTick[t] + simQuantum + (IF g \in Stats THEN StatRepeat ELSE 0)
        again == g = "sync" \/ (g \in Stats /\ StatRepeat # 0 /\ next <= MaxTick)
    IN  /\ pc[t] = "winner"
        /\ IF again THEN StartJob(t, g, next)
                    ELSE pc' = [pc EXCEPT ![t] = "second"] /\ UNCHANGED job
        /\ UNCHANGED <<queue, asyncq, scheduled, when, curTick, at, mutex, fresh>>

(* The second globalBarrier(), and where the barrier event takes each      *)
(* thread: a sync event merges, an exit event leaves doSimLoop().          *)
globalBarrier(t) ==
    /\ pc[t] = "second"
    /\ pc' = [u \in Threads |-> IF at[t] = "sync" THEN "merge"
                                ELSE IF at[t] \notin ExitEvents THEN "loop"
                                ELSE IF u = main THEN "exited" ELSE "idle"]
    /\ at' = [u \in Threads |-> NoEvent]
    /\ UNCHANGED <<queue, asyncq, scheduled, when, curTick, job, mutex, fresh>>
-----------------------------------------------------------------------------
asyncInsertUnlocked(t) ==
    LET e == job[t].event
        q == job[t].next
    IN  /\ pc[t] = "push"
        /\ mutex' = IF e \in Globals THEN t ELSE mutex
        /\ when' = [when EXCEPT ![e] = job[t].when]
        /\ asyncq' = [asyncq EXCEPT ![q] = Append(@, e)]
        /\ pc' = [pc EXCEPT ![t] = "flag"]
        /\ UNCHANGED <<queue, scheduled, curTick, at, job, fresh>>

(* schedule() in parallel mode, on another queue or of a global event, one *)
(* queue after the other: asyncInsert(), and after it the Scheduled flag.  *)
(* A global event's loop over the queues runs under globalQMutex.          *)
asyncInsert(t) ==
    LET e == job[t].event
        q == job[t].next
    IN  /\ pc[t] = "push"
        /\ e \in Globals => mutex \in {NoThread, t}
        /\ mutex' = IF e \in Globals THEN t ELSE mutex
        /\ when' = [when EXCEPT ![e] = job[t].when]
        /\ asyncq' = [asyncq EXCEPT ![q] = Append(@, e)]
        /\ pc' = [pc EXCEPT ![t] = "flag"]
        /\ UNCHANGED <<queue, scheduled, curTick, at, job, fresh>>

setFlag(t) ==
    LET e == job[t].event
        q == job[t].next
        more == e \in Globals /\ q < N - 1
    IN  /\ pc[t] = "flag"
        /\ scheduled' = [scheduled EXCEPT ![q] = @ \cup {e}]
        /\ job' = [job EXCEPT ![t] = IF more THEN [@ EXCEPT !.next = q + 1]
                                     ELSE NoJob]
        /\ mutex' = IF ~more /\ e \in Globals THEN NoThread ELSE mutex
        /\ pc' = [pc EXCEPT ![t] = IF more THEN "push"
                                   ELSE IF at[t] \in Globals THEN "second"
                                   ELSE "handler"]
        /\ UNCHANGED <<queue, asyncq, when, curTick, at, fresh>>
-----------------------------------------------------------------------------
(* What the handler of a local event may do, any number of times.          *)
HandlerOwn(t, e, d) ==
    /\ pc[t] = "handler"
    /\ user[e] = t
    /\ home[e] = t
    /\ e \notin scheduled[t]
    /\ curTick[t] + d <= MaxTick
    /\ when' = [when EXCEPT ![e] = curTick[t] + d]
    /\ queue' = [queue EXCEPT ![t] = Order!Insert(@, when', e)]
    /\ scheduled' = [scheduled EXCEPT ![t] = @ \cup {e}]
    /\ UNCHANGED <<pc, asyncq, curTick, at, job, mutex, fresh>>

HandlerAsyncSoon(t, e, d) ==
    /\ pc[t] = "handler"
    /\ user[e] = t
    /\ home[e] # t
    /\ e \notin scheduled[home[e]]
    /\ curTick[t] + d <= MaxTick
    /\ StartJob(t, e, curTick[t] + d - simQuantum)
    /\ UNCHANGED <<queue, asyncq, scheduled, when, curTick, at, mutex, fresh>>

HandlerAsync(t, e, d) ==
    /\ pc[t] = "handler"
    /\ user[e] = t
    /\ home[e] # t
    /\ e \notin scheduled[home[e]]
    /\ curTick[t] + d <= MaxTick
    /\ StartJob(t, e, curTick[t] + d)
    /\ UNCHANGED <<queue, asyncq, scheduled, when, curTick, at, mutex, fresh>>

exitSimLoop(t, g) ==
    /\ pc[t] = "handler"
    /\ g \in fresh
    /\ curTick[t] + simQuantum <= MaxTick
    /\ fresh' = fresh \ {g}
    /\ StartJob(t, g, curTick[t] + simQuantum)
    /\ UNCHANGED <<queue, asyncq, scheduled, when, curTick, at, mutex>>

schedStatEventNow(t, g, d) ==
    /\ pc[t] = "handler"
    /\ g \in fresh
    /\ curTick[t] + d + simQuantum <= MaxTick
    /\ fresh' = fresh \ {g}
    /\ StartJob(t, g, curTick[t] + d)
    /\ UNCHANGED <<queue, asyncq, scheduled, when, curTick, at, mutex>>

schedStatEvent(t, g, d) ==
    /\ pc[t] = "handler"
    /\ g \in fresh
    /\ curTick[t] + d + simQuantum <= MaxTick
    /\ fresh' = fresh \ {g}
    /\ StartJob(t, g, curTick[t] + d + simQuantum)
    /\ UNCHANGED <<queue, asyncq, scheduled, when, curTick, at, mutex>>

HandlerDone(t) ==
    /\ pc[t] = "handler"
    /\ pc' = [pc EXCEPT ![t] = "loop"]
    /\ at' = [at EXCEPT ![t] = NoEvent]
    /\ UNCHANGED <<queue, asyncq, scheduled, when, curTick, job, mutex, fresh>>
-----------------------------------------------------------------------------
(* The steps a thread takes on its own in doSimLoop(). *)
LoopStep(t) ==
    \/ handleAsyncInsertions(t)
    \/ serviceOne(t)
    \/ process(t)
    \/ globalBarrier(t)
    \/ asyncInsert(t)
    \/ setFlag(t)
    \/ HandlerDone(t)

HandlerStep(t) ==
    \/ \E e \in LocalEvents :
          \/ \E d \in OwnDelays : HandlerOwn(t, e, d)
          \/ \E d \in AsyncDelays : HandlerAsync(t, e, d)
    \/ \E g \in Exits : exitSimLoop(t, g)
    \/ \E g \in Stats, d \in StatDelays : schedStatEvent(t, g, d)

ScriptStep ==
    \E w \in 0 .. MaxTick :
        \/ \E e \in LocalEvents : PySchedule(e, w)
        \/ \E g \in Stats : PySchedStatEvent(g, w)
        \/ simulate(w)

Next ==
    \/ ScriptStep
    \/ simulateReturn
    \/ \E t \in Threads : LoopStep(t) \/ HandlerStep(t)

Spec == Init /\ [][Next]_vars

(* Every thread gets to run and its handlers return.  Nothing makes the    *)
(* script call simulate() again.                                           *)
Fairness ==
    /\ WF_vars(simulateReturn)
    /\ \A t \in Threads : WF_vars(LoopStep(t))

FairSpec == Spec /\ Fairness
-----------------------------------------------------------------------------
Jobs == [event : AllEvents \cup {NoEvent}, when : 0 .. MaxTick + simQuantum,
         next : Threads]

(* The values of the variables; no queue runs past MaxTick, and only the    *)
(* sync event can be scheduled behind it (by less than a quantum).         *)
TypeOK ==
    /\ pc \in [Threads -> {"python", "idle", "merge", "loop", "handler", "push",
                           "flag", "wait", "winner", "second", "exited"}]
    /\ \A t \in Threads : /\ Elements(queue[t]) \subseteq AllEvents
                          /\ Elements(asyncq[t]) \subseteq AllEvents
                          /\ scheduled[t] \subseteq AllEvents
    /\ when \in [AllEvents -> 0 .. MaxTick + simQuantum]
    /\ curTick \in [Threads -> 0 .. MaxTick]
    /\ at \in [Threads -> AllEvents \cup {NoEvent}]
    /\ job \in [Threads -> Jobs]
    /\ mutex \in Threads \cup {NoThread}
    /\ fresh \subseteq Exits \cup Stats

(***************************************************************************)
(* The asserts on time: schedule() finds the target queue not yet past the *)
(* event, whoever's queue it is, and no event waits in the past of the     *)
(* queue it is in or is about to be merged into ("event scheduled in the   *)
(* past", doSimLoop()).                                                    *)
(***************************************************************************)
NothingInThePast ==
    \A t \in Threads :
        /\ pc[t] = "push" => job[t].when >= curTick[job[t].next]
        /\ \A e \in Elements(queue[t]) \cup Elements(asyncq[t]) :
              when[e] >= curTick[t]

(***************************************************************************)
(* Inside the loop no two queues are ever more than a quantum apart.       *)
(***************************************************************************)
WithinQuantum ==
    \A t, u \in Threads : curTick[t] - curTick[u] <= simQuantum

(***************************************************************************)
(* Threads that wait at a barrier wait at the same one.  Two threads at    *)
(* the barriers of different global events would wait for each other for   *)
(* ever: the total order of global events that BaseGlobalEvent::schedule() *)
(* is there to ensure.                                                     *)
(***************************************************************************)
OneBarrierAtATime ==
    \A t, u \in Threads : pc[t] = "wait" /\ pc[u] = "wait" => at[t] = at[u]

(***************************************************************************)
(* Between two calls of simulate() every thread is out of the loop, all    *)
(* queues are at the same tick, and nothing is left of the quantum event   *)
(* that has been deleted.                                                  *)
(***************************************************************************)
StoppedTogether ==
    pc[main] = "python" =>
        \A t \in Threads : /\ curTick[t] = curTick[main]
                           /\ t # main => pc[t] = "idle"
                           /\ "sync" \notin Elements(queue[t])
                                              \cup Elements(asyncq[t])

(***************************************************************************)
(* Event::scheduled() tells the truth: the flag is set exactly for the     *)
(* events that are in the queue or on their way into it.  The thread that  *)
(* still has to set it is the one exception.                               *)
(***************************************************************************)
FlagsTruthful ==
    \A t \in Threads :
        LET setting == {job[u].event : u \in {v \in Threads :
                            pc[v] = "flag" /\ job[v].next = t}}
        IN  scheduled[t] \ setting
              = (Elements(queue[t]) \cup Elements(asyncq[t])) \ setting

(***************************************************************************)
(* A statistics event comes after the next sync: no thread waits for it    *)
(* while another one goes on without having merged it.  (An event that     *)
(* repeats is in the async queues again, at a later time.)                 *)
(***************************************************************************)
StatsAfterSync ==
    \A t, u \in Threads :
        /\ pc[t] = "wait"
        /\ at[t] \in Stats
        /\ when[at[t]] = curTick[t]
        /\ pc[u] # "merge"
        => at[t] \notin Elements(asyncq[u])

(* simulate() returns.                                                     *)
SimulateReturns == pc[main] = "merge" ~> pc[main] = "python"

(* An exit event that is in a queue while the simulation runs is serviced, *)
(* or the simulation ends before it.                                       *)
ExitHonoured ==
    \A g \in Exits : g \in scheduled[main] /\ pc[main] # "python" ~>
                        g \notin scheduled[main] \/ pc[main] = "python"
=============================================================================
