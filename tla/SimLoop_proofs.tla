--------------------------- MODULE SimLoop_proofs ---------------------------
(***************************************************************************)
(* Two inductive invariants of the parallel simulation, for any number of  *)
(* threads, any quantum and any events, and that no step breaks them.      *)
(*                                                                         *)
(* All threads are in the quantum that ends with the sync event (Window):  *)
(* the sync event stays in every queue until the thread services it        *)
(* (SyncPlace), the queues are in order (QueueInv), so no thread services  *)
(* anything later before it.  What one thread puts into the async queue of *)
(* another is not before the sync event (JobTime, AsyncLater), so it is    *)
(* not in the past of a queue that is at most a quantum away (NotPast).    *)
(*                                                                         *)
(* FarInv, when handlers schedule the events of other threads past the end *)
(* of the quantum: what waits in an async queue comes after the sync       *)
(* event, so a thread merges it before its time comes, and no thread can   *)
(* service an event before the thread that schedules it has set its flag.  *)
(***************************************************************************)
EXTENDS SimLoop, TLAPS

-----------------------------------------------------------------------------
(* What the invariant needs to know of the service order.  These laws hold *)
(* (SimLoopSafety_proofs); the lemmas below name the ones they use.        *)
Times == [AllEvents -> 0 .. MaxTick + simQuantum]

(* The event queues.                                                       *)
Queues == Seq(AllEvents)

(* The events of s differ.                                                 *)
Distinct(s) == \A i, j \in DOMAIN s : i # j => s[i] # s[j]

(* Inserting an event keeps a queue in order.                              *)
InsertLaw ==
    \A q \in Queues : \A w \in Times : \A e \in AllEvents :
        Order!InOrder(q, w) /\ e \notin Elements(q) =>
            /\ Order!Insert(q, w, e) \in Queues
            /\ Order!InOrder(Order!Insert(q, w, e), w)
            /\ Elements(Order!Insert(q, w, e)) = Elements(q) \cup {e}

(* So does removing one.                                                   *)
WithoutLaw ==
    \A q \in Queues : \A w \in Times : \A e \in Elements(q) :
        Order!InOrder(q, w) =>
            /\ Order!Without(q, e) \in Queues
            /\ Order!InOrder(Order!Without(q, e), w)
            /\ Elements(Order!Without(q, e)) = Elements(q) \ {e}

(* The first event is the earliest, and the rest is in order.              *)
HeadLaw ==
    \A q \in Queues : \A w \in Times :
        Order!InOrder(q, w) /\ q # <<>> =>
            /\ Head(q) \in AllEvents
            /\ Head(q) \in Elements(q)
            /\ \A e \in Elements(q) : w[e] >= w[Head(q)] /\ ~Order!Before(w, e, Head(q))
            /\ Tail(q) \in Queues
            /\ Order!InOrder(Tail(q), w)
            /\ Elements(Tail(q)) = Elements(q) \ {Head(q)}

(* An async queue grows by one event.                                      *)
AppendLaw ==
    \A s \in Queues : \A e \in AllEvents :
        /\ Append(s, e) \in Queues
        /\ Elements(Append(s, e)) = Elements(s) \cup {e}
        /\ Distinct(s) /\ e \notin Elements(s) => Distinct(Append(s, e))

(* Merging an async queue keeps the order and loses no event.              *)
MergeLaw ==
    \A q \in Queues : \A w \in Times : \A s \in Queues :
        /\ Order!InOrder(q, w)
        /\ Distinct(s)
        /\ \A e \in Elements(q) : e \notin Elements(s)
        =>  /\ Order!Merge(q, w, s) \in Queues
            /\ Order!InOrder(Order!Merge(q, w, s), w)
            /\ Elements(Order!Merge(q, w, s)) = Elements(q) \cup Elements(s)

(* The order depends on the times of the events in the queue alone.        *)
TimesLaw ==
    \A q \in Queues : \A v, w \in Times :
        (\A e \in Elements(q) : v[e] = w[e]) /\ Order!InOrder(q, w)
            => Order!InOrder(q, v)

-----------------------------------------------------------------------------
(* The events queue t holds, merged or not.                                *)
Inside(t) == Elements(queue[t]) \cup Elements(asyncq[t])

(* The threads are out of doSimLoop().                                     *)
Stopped == pc[main] \in {"python", "exited"}

(* t is in a schedule() that goes through the async queues.                *)
Busy(t) == pc[t] \in {"push", "flag"}

(* t was the last at the barrier of its event and processes it.            *)
Winner(t) == at[t] \in Globals /\ pc[t] # "wait"

(* The schedule() t is in has set the time of its event.                   *)
Started(t) ==
    pc[t] = "flag" \/ (pc[t] = "push" /\ job[t].event \in Globals /\ job[t].next > 0)

(* The schedule() t is in has still to put its event into the queue of u.  *)
ToDo(t, u) ==
    /\ u \in Targets(job[t].event)
    /\ job[t].next < u \/ (pc[t] = "push" /\ job[t].next = u)

(* v has put e into the async queue of t, and not yet set its flag.        *)
Setting(v, e, t) == pc[v] = "flag" /\ job[v].event = e /\ job[v].next = t

(* Where a thread may be.                                                  *)
States == {"python", "idle", "merge", "loop", "handler", "push", "flag", "wait",
           "winner", "second", "exited"}

(* The values of the variables.                                            *)
TypeInv ==
    /\ pc \in [Threads -> States]
    /\ queue \in [Threads -> Queues]
    /\ asyncq \in [Threads -> Queues]
    /\ scheduled \in [Threads -> SUBSET AllEvents]
    /\ when \in Times
    /\ curTick \in [Threads -> 0 .. MaxTick]
    /\ at \in [Threads -> AllEvents \cup {NoEvent}]
    /\ job \in [Threads -> Jobs]
    /\ mutex \in Threads \cup {NoThread}
    /\ fresh \subseteq Exits \cup Stats

(* The threads are in doSimLoop() together, and out of it together.        *)
OutTogether(t) ==
    /\ Stopped /\ t # main => pc[t] = "idle"
    /\ pc[t] = "idle" => Stopped
    /\ pc[t] \in {"python", "exited"} => t = main

(* The event a thread services fits where the thread is.                   *)
AtMatches(t) ==
    /\ pc[t] \in {"wait", "winner", "second"} => at[t] \in Globals
    /\ pc[t] = "handler" => at[t] \in LocalEvents
    /\ Busy(t) => at[t] \in LocalEvents \cup {"sync"} \cup Stats
    /\ pc[t] \in {"python", "exited", "idle", "merge", "loop"} => at[t] = NoEvent

(* The winner runs alone: all others wait at the barrier of its event.     *)
OthersWait(t) ==
    Winner(t) => \A u \in Threads \ {t} : /\ pc[u] = "wait"
                                          /\ at[u] = at[t]
                                          /\ curTick[u] = curTick[t]

(* What a schedule() through the async queues may be about.                *)
JobMatches(t) ==
    /\ ~Busy(t) => job[t] = NoJob
    /\ Busy(t) => /\ job[t].event \in AllEvents
                  /\ job[t].event \notin fresh
                  /\ job[t].event # "limit"
                  /\ job[t].next \in Targets(job[t].event)
                  /\ at[t] \in Globals => job[t].event = at[t]
                  /\ at[t] \in LocalEvents => job[t].event # "sync"
                  /\ job[t].event \in LocalEvents => user[job[t].event] = t
                  /\ job[t].event \in LocalEvents => home[job[t].event] # t

(* The queues a schedule() has still to reach do not hold its event.       *)
NotThereYet(t) ==
    Busy(t) => \A u \in Threads : ToDo(t, u) =>
        /\ job[t].event \notin Inside(u)
        /\ at[t] \in LocalEvents /\ job[t].event \in Globals => at[u] # job[t].event

(* The time of the event is the one schedule() was given.                  *)
TimeSet(t) == Busy(t) /\ Started(t) => when[job[t].event] = job[t].when

(* No two threads schedule the same event.                                 *)
OwnJob(t) ==
    Busy(t) => \A u \in Threads \ {t} : Busy(u) => job[u].event # job[t].event

(* An event that has not been created is in no queue.                      *)
FreshInv(t) == \A g \in fresh : g \notin Inside(t) /\ at[t] # g

(* The queues are in service order, and no event is in one twice.          *)
QueueInv(t) ==
    /\ "limit" \notin Elements(asyncq[t])
    /\ Order!InOrder(queue[t], when)
    /\ Distinct(asyncq[t])
    /\ \A e \in Elements(queue[t]) : e \notin Elements(asyncq[t])
    /\ \A e \in Inside(t) : e \in LocalEvents => home[e] = t

(* An event in a queue has its flag, or is about to get it.                *)
FlagInv(t) ==
    \A e \in Inside(t) : e \in scheduled[t] \/ \E v \in Threads : Setting(v, e, t)

(* simulate() finds the limit event where its flag says it is.             *)
LimitFlag(t) == "limit" \in scheduled[t] => "limit" \in Elements(queue[t])

(* Where the quantum event is.                                             *)
SyncPlace(t) ==
    /\ pc[main] = "python" => "sync" \notin Inside(t)
    /\ pc[main] = "exited" => "sync" \in Elements(queue[t])
    /\ pc[t] = "merge" => "sync" \in Inside(t)
    /\ ~Stopped /\ pc[t] # "merge" /\ at[t] # "sync" => "sync" \in Elements(queue[t])

(* Where the limit event is.                                               *)
LimitPlace(t) == ~Stopped /\ at[t] # "limit" => "limit" \in Elements(queue[t])

(* The quantum event is in the async queues only while it is scheduled     *)
(* again.                                                                  *)
SyncAgain(t) ==
    /\ "sync" \in Elements(asyncq[t]) => pc[t] = "merge" \/ at[t] = "sync"
    /\ Busy(t) /\ at[t] = "sync" =>
          \A u \in Threads : ToDo(t, u) \/ "sync" \in Elements(asyncq[u])
    /\ pc[t] = "second" /\ at[t] = "sync" =>
          \A u \in Threads : "sync" \in Elements(asyncq[u])

(* A global event has left the queues of the threads that wait for it.     *)
TakenOut(t) ==
    at[t] \in Globals /\ (\A v \in Threads : Winner(v) => pc[v] = "winner")
        => at[t] \notin Inside(t)

(* All threads are in the quantum that ends with the sync event.           *)
Window(t) ==
    /\ Stopped => curTick[t] = curTick[main]
    /\ ~Stopped => when["sync"] <= curTick[t] + simQuantum
    /\ ~Stopped => curTick[t] <= when["sync"]
    /\ pc[t] = "merge" => when["sync"] = curTick[t] + simQuantum

(* An event scheduled through the async queues is not before the sync      *)
(* event.                                                                  *)
JobTime(t) ==
    /\ Busy(t) /\ at[t] = "sync" => job[t].when = curTick[t] + simQuantum
    /\ Busy(t) /\ at[t] = "sync" /\ ~Started(t) => when["sync"] = curTick[t]
    /\ Busy(t) /\ at[t] # "sync" => job[t].when >= when["sync"]
    /\ pc[t] = "second" /\ at[t] = "sync" => when["sync"] = curTick[t] + simQuantum

(* A thread services an event at its time.                                 *)
Punctual(t) ==
    /\ pc[t] = "winner" => when[at[t]] = curTick[t]
    /\ pc[t] = "wait" /\ (\A v \in Threads : ~Winner(v)) => when[at[t]] = curTick[t]

(* No event waits in the past.                                             *)
NotPast(t) == \A e \in Inside(t) : when[e] >= curTick[t]

(* What a thread has not merged yet is not before the sync event.          *)
AsyncLater(t) ==
    ~Stopped /\ pc[t] # "merge" /\ at[t] # "sync" =>
        \A e \in Elements(asyncq[t]) : when[e] >= when["sync"]

(* Only the sync event may be behind MaxTick.                              *)
Bounded ==
    /\ \A e \in AllEvents : e # "sync" => when[e] <= MaxTick
    /\ \A t \in Threads : Busy(t) /\ job[t].event # "sync" => job[t].when <= MaxTick

(* All of this, for the queue of one thread.                               *)
ThreadInv(t) ==
    /\ OutTogether(t) /\ AtMatches(t) /\ OthersWait(t)
    /\ JobMatches(t) /\ NotThereYet(t) /\ TimeSet(t) /\ OwnJob(t)
    /\ FreshInv(t) /\ QueueInv(t) /\ FlagInv(t) /\ LimitFlag(t)
    /\ SyncPlace(t) /\ LimitPlace(t) /\ SyncAgain(t) /\ TakenOut(t)
    /\ Window(t) /\ JobTime(t) /\ Punctual(t) /\ NotPast(t) /\ AsyncLater(t)

(* The inductive invariant.                                                *)
IInv == TypeInv /\ Bounded /\ \A t \in Threads : ThreadInv(t)
-----------------------------------------------------------------------------
(* The threads are numbered from 0, the main thread; the quantum is not    *)
(* empty.                                                                  *)
LEMMA Constants ==
    /\ main \in Threads /\ main = 0
    /\ \A t \in Threads : t \in Int /\ 0 <= t /\ t <= N - 1
    /\ N \in Int /\ N > 1 /\ simQuantum \in Int /\ simQuantum > 0 /\ MaxTick \in Int
    /\ MaxTick >= 0
  BY SimLoopAssumption DEF Threads, main

(* What tells the events apart: local ones, the quantum event, exits and   *)
(* statistics.                                                             *)
LEMMA EventKinds ==
    /\ "sync" \in Globals /\ "limit" \in Globals /\ "sync" # "limit"
    /\ \A e \in Globals : e \notin LocalEvents /\ e \in AllEvents
    /\ \A e \in LocalEvents : e \notin Globals /\ e \in AllEvents
    /\ \A e \in AllEvents : e \in Globals \/ e \in LocalEvents
    /\ \A e \in Exits : /\ e \in ExitEvents /\ e \in Globals /\ e \notin Stats
                        /\ e # "sync" /\ e # "limit"
    /\ \A e \in Stats : /\ e \notin ExitEvents /\ e \in Globals /\ e \notin Exits
                        /\ e # "sync" /\ e # "limit"
    /\ "limit" \in ExitEvents /\ "sync" \notin ExitEvents
    /\ \A e \in Globals : e = "sync" \/ e \in ExitEvents \/ e \in Stats
    /\ NoEvent \notin AllEvents
  BY SimLoopAssumption, Zenon DEF AllEvents, Globals, ExitEvents, NoEvent

(* The queues at the start.                                                *)
LEMMA EmptyQueue ==
    /\ <<>> \in Queues
    /\ Elements(<<>>) = {}
    /\ Distinct(<<>>)
    /\ \A w : Order!InOrder(<<>>, w)
  BY DEF Elements, Order!Elements, Distinct, Order!InOrder, Queues

(* A queue holds events, and nothing else.                                 *)
LEMMA QueueElements ==
    ASSUME NEW q \in Queues
    PROVE  Elements(q) \subseteq AllEvents
  BY DEF Elements, Order!Elements, Queues

(* A thread inside doSimLoop() is at most a quantum before the sync event. *)
LEMMA InLoop ==
    ASSUME IInv, NEW t \in Threads, pc[t] \notin {"python", "exited", "idle"}
    PROVE  ~Stopped /\ when["sync"] <= curTick[t] + simQuantum /\ curTick[t] <= when["sync"]
  <1>1. ~Stopped
    BY Zenon DEF IInv, ThreadInv, OutTogether, Stopped
  <1> QED
    BY <1>1, Zenon DEF IInv, ThreadInv, Window

(* The times are numbers.                                                  *)
LEMMA Numbers ==
    ASSUME IInv
    PROVE  /\ \A t \in Threads : curTick[t] \in Int /\ 0 <= curTick[t] /\ curTick[t] <= MaxTick
           /\ \A e \in AllEvents : /\ when[e] \in Int /\ 0 <= when[e]
                                   /\ when[e] <= MaxTick + simQuantum
           /\ \A t \in Threads : job[t].when \in Int /\ job[t].next \in Threads
  BY Constants DEF IInv, TypeInv, Times, Jobs

(* The invariant holds before the script runs.                             *)
LEMMA InitInv == Init => IInv
  <1> SUFFICES ASSUME Init PROVE IInv
    BY Zenon
  <1> USE DEF Init
  <1>1. TypeInv
    <2>1. NoJob \in Jobs
      BY Constants, EventKinds DEF NoJob, Jobs
    <2> QED
      BY <2>1, Constants, EventKinds, EmptyQueue DEF TypeInv, States, Times
  <1>2. Bounded
    BY EventKinds, Constants, Zenon DEF Bounded, Busy
  <1>3. ASSUME NEW t \in Threads PROVE ThreadInv(t)
    <2>1. OutTogether(t) /\ AtMatches(t) /\ OthersWait(t)
      BY EventKinds, Constants, Zenon DEF OutTogether, AtMatches, OthersWait, Stopped,
         Busy, Winner
    <2>2. JobMatches(t) /\ NotThereYet(t) /\ TimeSet(t) /\ OwnJob(t)
      BY Zenon DEF JobMatches, NotThereYet, TimeSet, OwnJob, Busy
    <2>3. FreshInv(t) /\ QueueInv(t) /\ FlagInv(t) /\ LimitFlag(t)
      BY EventKinds, EmptyQueue, Zenon DEF FreshInv, QueueInv, FlagInv, LimitFlag, Inside
    <2>4. SyncPlace(t) /\ LimitPlace(t) /\ SyncAgain(t) /\ TakenOut(t)
      BY EventKinds, EmptyQueue, Constants, Zenon DEF SyncPlace, LimitPlace, SyncAgain,
         TakenOut, Inside, Stopped, Busy
    <2>5. Window(t) /\ JobTime(t) /\ Punctual(t) /\ NotPast(t) /\ AsyncLater(t)
      BY EventKinds, EmptyQueue, Constants, Zenon DEF Window, JobTime, Punctual, NotPast,
         AsyncLater, Inside, Stopped, Busy
    <2> QED
      BY <2>1, <2>2, <2>3, <2>4, <2>5, Zenon DEF ThreadInv
  <1> QED
    BY <1>1, <1>2, <1>3, Zenon DEF IInv

(* What asyncInsert() changes: t puts e, for the time w, into the async    *)
(* queue of q.                                                             *)
Pushes(t, e, q, w) ==
    /\ e = job[t].event /\ q = job[t].next /\ w = job[t].when
    /\ pc[t] = "push" /\ pc'[t] = "flag" /\ \A u \in Threads : u # t => pc'[u] = pc[u]
    /\ queue' = queue /\ curTick' = curTick /\ at' = at
    /\ job' = job /\ fresh' = fresh /\ scheduled' = scheduled
    /\ e \in Globals => mutex \in {NoThread, t} /\ mutex' = t
    /\ e \notin Globals => mutex' = mutex
    /\ when' \in Times /\ when'[e] = w /\ \A f \in AllEvents : f # e => when'[f] = when[f]
    /\ \A u \in Threads : u # q => asyncq'[u] = asyncq[u]
    /\ asyncq'[q] = Append(asyncq[q], e)
    /\ e \in AllEvents /\ e \notin fresh /\ e # "limit" /\ q \in Targets(e)
    /\ at[t] \in Globals => e = at[t]
    /\ e = "sync" <=> at[t] = "sync"
    /\ at[t] \in LocalEvents \cup {"sync"} \cup Stats
    /\ q \in Threads /\ Busy(t) /\ ~Stopped
    /\ \A u \in Threads : Busy(u)' <=> Busy(u)
    /\ \A u \in Threads : Winner(u)' <=> Winner(u)
    /\ Stopped' <=> Stopped
    /\ ToDo(t, q)
    /\ \A u \in Threads : ToDo(t, u) => u = q \/ ToDo(t, u)'
    /\ \A u \in Threads : ToDo(t, u)' => ToDo(t, u) /\ u # q
    /\ \A u \in Threads : u # t => \A v \in Threads : ToDo(u, v)' <=> ToDo(u, v)
    /\ Elements(asyncq'[q]) = Elements(asyncq[q]) \cup {e}
    /\ asyncq'[q] \in Queues /\ Distinct(asyncq'[q])
    /\ e \notin Inside(q) /\ Inside(q)' = Inside(q) \cup {e}
    /\ \A u \in Threads : u # q => Inside(u)' = Inside(u)
    /\ \A u \in Threads : \A f \in Inside(u) : when'[f] = when[f]
    /\ \A u \in Threads : at[t] \notin Globals /\ at[u] \in Globals => when'[at[u]] = when[at[u]]
    /\ e # "sync" => when'["sync"] = when["sync"]

(* asyncInsert() has that effect.                                          *)
LEMMA AsyncInsertEffect ==
    ASSUME AppendLaw, IInv, NEW t \in Threads, asyncInsert(t)
    PROVE  \E e, q, w : Pushes(t, e, q, w)
  <1> USE DEF IInv, ThreadInv
  <1>0. PICK e, q, w : e = job[t].event /\ q = job[t].next /\ w = job[t].when
    BY Zenon
  <1>1. /\ pc[t] = "push" /\ pc' = [pc EXCEPT ![t] = "flag"]
        /\ when' = [when EXCEPT ![e] = w]
        /\ asyncq' = [asyncq EXCEPT ![q] = Append(@, e)]
        /\ queue' = queue /\ curTick' = curTick /\ at' = at
        /\ job' = job /\ fresh' = fresh /\ scheduled' = scheduled
        /\ e \in Globals => mutex \in {NoThread, t} /\ mutex' = t
        /\ e \notin Globals => mutex' = mutex
    BY <1>0, Zenon DEF asyncInsert
  <1>2. /\ e \in AllEvents /\ e \notin fresh /\ e # "limit" /\ q \in Targets(e)
        /\ at[t] \in Globals => e = at[t]
        /\ at[t] \in LocalEvents => e # "sync"
        /\ at[t] \in LocalEvents \cup {"sync"} \cup Stats
        /\ q \in Threads /\ w \in Int /\ Busy(t) /\ ~Stopped
        /\ w \in 0 .. MaxTick + simQuantum
    <2>1. Busy(t) /\ ~Stopped
      BY <1>1, InLoop, Zenon DEF Busy
    <2>2. w \in 0 .. MaxTick + simQuantum
      BY <1>0, Zenon DEF TypeInv, Jobs
    <2>3. q \in Threads /\ w \in Int
      BY <1>0, Numbers, Zenon
    <2> QED
      BY <1>0, <2>1, <2>2, <2>3, Zenon DEF JobMatches, AtMatches
  <1>3. e = "sync" <=> at[t] = "sync"
    BY <1>2, EventKinds, Zenon
  <1>5. /\ pc'[t] = "flag" /\ \A u \in Threads : u # t => pc'[u] = pc[u]
        /\ when'[e] = w /\ \A f \in AllEvents : f # e => when'[f] = when[f]
        /\ \A u \in Threads : u # q => asyncq'[u] = asyncq[u]
        /\ asyncq'[q] = Append(asyncq[q], e)
        /\ when' \in Times
    BY <1>1, <1>2, Zenon DEF TypeInv, Times
  <1>6. /\ \A u \in Threads : Busy(u)' <=> Busy(u)
        /\ \A u \in Threads : Winner(u)' <=> Winner(u)
        /\ Stopped' <=> Stopped
    <2>1. /\ \A u \in Threads : Busy(u)' <=> Busy(u)
          /\ \A u \in Threads : Winner(u)' <=> Winner(u)
      BY <1>1, <1>5, Zenon DEF Busy, Winner
    <2> QED
      BY <2>1, <1>1, <1>5, Constants, Zenon DEF Stopped
  <1>7. /\ ToDo(t, q)
        /\ \A u \in Threads : ToDo(t, u) => u = q \/ ToDo(t, u)'
        /\ \A u \in Threads : ToDo(t, u)' => ToDo(t, u) /\ u # q
        /\ \A u \in Threads : u # t => \A v \in Threads : ToDo(u, v)' <=> ToDo(u, v)
    <2>1. q \in Int /\ ~(q < q)
      <3>1. q \in Int
        BY <1>2, Constants, Zenon
      <3> QED
        BY <3>1
    <2> QED
      BY <1>0, <1>1, <1>2, <1>5, <2>1, Zenon DEF ToDo
  <1>8. /\ Elements(asyncq'[q]) = Elements(asyncq[q]) \cup {e}
        /\ asyncq'[q] \in Queues
        /\ e \notin Inside(q)
        /\ Distinct(asyncq'[q])
    <2>1. e \notin Inside(q)
      BY <1>0, <1>2, <1>7, Zenon DEF NotThereYet
    <2>2. asyncq[q] \in Queues /\ Distinct(asyncq[q]) /\ e \notin Elements(asyncq[q])
      BY <1>2, <2>1, Zenon DEF TypeInv, QueueInv, Inside
    <2> QED
      BY <1>2, <1>5, <2>1, <2>2, Zenon DEF AppendLaw
  <1>9. \A u \in Threads : u # q => Inside(u)' = Inside(u)
    BY <1>1, <1>5, Zenon DEF Inside
  <1>10. Inside(q)' = Inside(q) \cup {e}
    BY <1>1, <1>8, Zenon DEF Inside
  <1>11. ASSUME NEW u \in Threads, e \in Inside(u) PROVE when[e] = w
    <2>1. CASE Started(t)
      BY <2>1, <1>0, <1>2, Zenon DEF TimeSet
    <2>2. CASE ~Started(t)
      <3>1. e \in LocalEvents => u = q
        BY <1>2, <1>11, EventKinds, Zenon DEF QueueInv, Targets
      <3>2. e \in Globals => ToDo(t, u)
        <4>1. u \in Int /\ 0 <= u /\ q \in Int /\ 0 <= q
          BY <1>2, Constants, Zenon
        <4>2. q > 0 \/ q < u \/ q = u
          BY <4>1
        <4> QED
          BY <4>2, <2>2, <1>0, <1>1, Zenon DEF ToDo, Started, Targets
      <3>3. ToDo(t, u)
        BY <1>2, <1>7, <3>1, <3>2, EventKinds, Zenon
      <3> QED
        BY <3>3, <1>0, <1>2, <1>11, Zenon DEF NotThereYet
    <2> QED
      BY <2>1, <2>2, Zenon
  <1>12. \A u \in Threads : \A f \in Inside(u) : when'[f] = when[f]
    <2> SUFFICES ASSUME NEW u \in Threads, NEW f \in Inside(u) PROVE when'[f] = when[f]
      BY Zenon
    <2>1. f \in AllEvents
      <3>1. Inside(u) \subseteq AllEvents
        BY QueueElements, Zenon DEF TypeInv, Inside
      <3> QED
        BY <3>1, Zenon
    <2> QED
      BY <2>1, <1>5, <1>11, Zenon
  <1>13. ASSUME NEW u \in Threads, at[t] \notin Globals, at[u] \in Globals
         PROVE  when'[at[u]] = when[at[u]]
    <2>1. CASE at[u] = e
      <3>1. at[t] \in LocalEvents
        BY <1>2, <1>13, EventKinds, Zenon
      <3>2. ~ToDo(t, u)
        BY <2>1, <3>1, <1>0, <1>2, <1>13, Zenon DEF NotThereYet
      <3>3. Started(t)
        <4>1. u \in Int /\ 0 <= u /\ q \in Int /\ 0 <= q
          BY <1>2, Constants, Zenon
        <4>2. q > 0 \/ q < u \/ q = u
          BY <4>1
        <4> QED
          BY <4>2, <3>2, <2>1, <1>0, <1>1, <1>13, Zenon DEF ToDo, Started, Targets
      <3>4. when[e] = w
        BY <3>3, <1>0, <1>2, Zenon DEF TimeSet
      <3> QED
        BY <2>1, <3>4, <1>5, Zenon
    <2>2. CASE at[u] # e
      BY <2>2, <1>5, <1>13, EventKinds, Zenon
    <2> QED
      BY <2>1, <2>2, Zenon
  <1>14. e # "sync" => when'["sync"] = when["sync"]
    BY <1>5, EventKinds, Zenon
  <1>15. Pushes(t, e, q, w)
    <2> HIDE DEF IInv, ThreadInv
    <2> QED
      BY <1>0, <1>1, <1>2, <1>3, <1>5, <1>6, <1>7, <1>8, <1>9, <1>10, <1>12, <1>13, <1>14,
         Zenon DEF Pushes
  <1> QED
    BY <1>15, Zenon

(* schedule() appends the event to the async queue of one thread.          *)
LEMMA AsyncInsertStep ==
    ASSUME TimesLaw, AppendLaw, IInv, NEW t \in Threads, asyncInsert(t)
    PROVE  IInv'
  <1>00. PICK e, q, w : Pushes(t, e, q, w)
    BY AsyncInsertEffect, Zenon
  <1>0. e = job[t].event /\ q = job[t].next /\ w = job[t].when
    BY <1>00, Zenon DEF Pushes
  <1> USE DEF IInv, ThreadInv
  <1>1. /\ pc[t] = "push" /\ pc' = [pc EXCEPT ![t] = "flag"]
        /\ when' = [when EXCEPT ![e] = w]
        /\ asyncq' = [asyncq EXCEPT ![q] = Append(@, e)]
        /\ queue' = queue /\ curTick' = curTick /\ at' = at
        /\ job' = job /\ fresh' = fresh /\ scheduled' = scheduled
    BY <1>0, Zenon DEF asyncInsert
  <1>2. /\ e \in AllEvents /\ e \notin fresh /\ e # "limit" /\ q \in Targets(e)
        /\ at[t] \in Globals => e = at[t]
        /\ at[t] \in LocalEvents => e # "sync"
        /\ at[t] \in LocalEvents \cup {"sync"} \cup Stats
        /\ q \in Threads /\ w \in Int /\ Busy(t) /\ ~Stopped
        /\ w \in 0 .. MaxTick + simQuantum /\ (e # "sync" => w <= MaxTick)
    <2>1. Busy(t) /\ ~Stopped
      BY <1>1, InLoop, Zenon DEF Busy
    <2>2. w \in 0 .. MaxTick + simQuantum
      BY <1>0, Zenon DEF TypeInv, Jobs
    <2>3. q \in Threads /\ w \in Int
      BY <1>0, Numbers, Zenon
    <2> QED
      BY <1>0, <2>1, <2>2, <2>3, Zenon DEF JobMatches, AtMatches, Bounded
  <1>3. e = "sync" <=> at[t] = "sync"
    BY <1>00, Zenon DEF Pushes
  <1>4. at[t] \in Globals => /\ Winner(t) /\ Winner(t)'
                             /\ \A u \in Threads : /\ u # t => pc[u] = "wait" /\ pc'[u] = "wait"
                                                   /\ at[u] = at[t]
                                                   /\ curTick[u] = curTick[t]
    <2>1. pc'[t] = "flag" /\ \A u \in Threads : u # t => pc'[u] = pc[u]
      BY <1>1, Zenon DEF TypeInv
    <2>2. at[t] \in Globals => Winner(t) /\ Winner(t)'
      BY <1>1, <2>1, Zenon DEF Winner
    <2> QED
      BY <2>1, <2>2, Zenon DEF OthersWait
  <1>5. /\ pc'[t] = "flag" /\ \A u \in Threads : u # t => pc'[u] = pc[u]
        /\ when'[e] = w /\ \A f \in AllEvents : f # e => when'[f] = when[f]
        /\ \A u \in Threads : u # q => asyncq'[u] = asyncq[u]
        /\ asyncq'[q] = Append(asyncq[q], e)
    BY <1>00, Zenon DEF Pushes
  <1>6. /\ \A u \in Threads : Busy(u)' <=> Busy(u)
        /\ \A u \in Threads : Winner(u)' <=> Winner(u)
        /\ Stopped' <=> Stopped
        /\ pc'[main] = "python" <=> pc[main] = "python"
        /\ pc'[main] = "exited" <=> pc[main] = "exited"
    <2>1. /\ \A u \in Threads : Busy(u)' <=> Busy(u)
          /\ \A u \in Threads : Winner(u)' <=> Winner(u)
      BY <1>1, <1>5, Zenon DEF Busy, Winner
    <2> QED
      BY <2>1, <1>1, <1>5, Constants, Zenon DEF Stopped
  <1>7. /\ ToDo(t, q)
        /\ \A u \in Threads : ToDo(t, u) => u = q \/ ToDo(t, u)'
        /\ \A u \in Threads : ToDo(t, u)' => ToDo(t, u) /\ u # q
        /\ \A u \in Threads : u # t => \A v \in Threads : ToDo(u, v)' <=> ToDo(u, v)
    BY <1>00, Zenon DEF Pushes
  <1>8. /\ Elements(asyncq[q])' = Elements(asyncq[q]) \cup {e}
        /\ asyncq'[q] \in Queues
        /\ e \notin Inside(q)
        /\ Distinct(asyncq'[q])
    BY <1>00, Zenon DEF Pushes
  <1>9. \A u \in Threads : /\ u # q => Inside(u)' = Inside(u)
                           /\ u # q => Elements(asyncq[u])' = Elements(asyncq[u])
    <2>1. \A u \in Threads : u # q => Inside(u)' = Inside(u) /\ asyncq'[u] = asyncq[u]
      BY <1>00, Zenon DEF Pushes
    <2> QED
      BY <2>1, Zenon
  <1>10. Inside(q)' = Inside(q) \cup {e}
    BY <1>00, Zenon DEF Pushes
  <1>12. \A u \in Threads : \A f \in Inside(u) : when'[f] = when[f]
    BY <1>00, Zenon DEF Pushes
  <1>13. ASSUME NEW u \in Threads, at[t] \notin Globals, at[u] \in Globals
         PROVE  when'[at[u]] = when[at[u]]
    BY <1>00, <1>13, Zenon DEF Pushes
  <1>14. e # "sync" => when'["sync"] = when["sync"]
    BY <1>00, Zenon DEF Pushes
  <1>15. TypeInv'
    <2>1. pc' \in [Threads -> States]
      BY <1>1, Zenon DEF TypeInv, States
    <2>2. when' \in Times
      BY <1>1, <1>2, Zenon DEF TypeInv, Times
    <2>3. asyncq' \in [Threads -> Queues]
      BY <1>1, <1>5, <1>8, Zenon DEF TypeInv
    <2>4. mutex' \in Threads \cup {NoThread}
      BY Zenon DEF asyncInsert, TypeInv
    <2> QED
      BY <1>1, <2>1, <2>2, <2>3, <2>4, Zenon DEF TypeInv
  <1>16. Bounded'
    BY <1>1, <1>2, <1>5, <1>6, Zenon DEF Bounded
  <1>17. ASSUME NEW u \in Threads
         PROVE  OutTogether(u)' /\ AtMatches(u)' /\ OthersWait(u)'
    <2>1. OutTogether(u)'
      BY <1>1, <1>5, <1>6, Zenon DEF OutTogether
    <2>2. AtMatches(u)'
      BY <1>1, <1>5, <1>6, Zenon DEF AtMatches
    <2>3. OthersWait(u)'
      <3>1. CASE Winner(u) /\ u # t
        BY <3>1, <1>1, Zenon DEF OthersWait
      <3>2. CASE u = t
        BY <3>2, <1>1, <1>4, <1>6, Zenon DEF OthersWait, Winner
      <3>3. CASE ~Winner(u)
        BY <3>3, <1>6, Zenon DEF OthersWait
      <3> QED
        BY <3>1, <3>2, <3>3, Zenon
    <2> QED
      BY <2>1, <2>2, <2>3, Zenon
  <1>18. ASSUME NEW u \in Threads
         PROVE  JobMatches(u)' /\ NotThereYet(u)' /\ TimeSet(u)' /\ OwnJob(u)'
    <2>1. JobMatches(u)' /\ OwnJob(u)'
      BY <1>1, <1>6, Zenon DEF JobMatches, OwnJob
    <2>2. u # t /\ Busy(u) => job[u].event # e
      BY <1>0, <1>2, Zenon DEF OwnJob
    <2>3. NotThereYet(u)'
      <3> SUFFICES ASSUME Busy(u), NEW v \in Threads, ToDo(u, v)'
                   PROVE  /\ job[u].event \notin Inside(v)'
                          /\ at[u] \in LocalEvents /\ job[u].event \in Globals
                                => at[v] # job[u].event
        BY <1>1, <1>6, Zenon DEF NotThereYet
      <3>1. CASE u = t
        BY <3>1, <1>7, <1>9, Zenon DEF NotThereYet
      <3>2. CASE u # t
        <4>1. /\ job[u].event \notin Inside(v) /\ job[u].event # e
              /\ at[u] \in LocalEvents /\ job[u].event \in Globals => at[v] # job[u].event
          BY <3>2, <2>2, <1>7, Zenon DEF NotThereYet
        <4>2. Inside(v)' \subseteq Inside(v) \cup {e}
          BY <1>9, <1>10, Zenon
        <4> QED
          BY <4>1, <4>2, Zenon
      <3> QED
        BY <3>1, <3>2, Zenon
    <2>4. TimeSet(u)'
      <3>1. CASE u = t
        BY <3>1, <1>0, <1>1, <1>5, Zenon DEF TimeSet
      <3>2. CASE u # t
        <4>1. /\ Busy(u)' <=> Busy(u)
              /\ Started(u)' <=> Started(u)
              /\ job'[u] = job[u]
          BY <3>2, <1>1, <1>5, <1>6, Zenon DEF Started
        <4>2. Busy(u) => when'[job[u].event] = when[job[u].event]
          BY <3>2, <2>2, <1>5, Zenon DEF JobMatches
        <4> QED
          BY <4>1, <4>2, Zenon DEF TimeSet
      <3> QED
        BY <3>1, <3>2, Zenon
    <2> QED
      BY <2>1, <2>3, <2>4, Zenon
  <1>19. ASSUME NEW u \in Threads
         PROVE  FreshInv(u)' /\ QueueInv(u)' /\ FlagInv(u)' /\ LimitFlag(u)'
    <2>1. FreshInv(u)'
      BY <1>1, <1>2, <1>9, <1>10, Zenon DEF FreshInv
    <2>2. QueueInv(u)'
      <3>1. Order!InOrder(queue[u], when')
        <4>1. \A f \in Elements(queue[u]) : when'[f] = when[f]
          BY <1>12, Zenon DEF Inside
        <4>2. queue[u] \in Queues /\ when \in Times /\ when' \in Times
              /\ Order!InOrder(queue[u], when)
          BY <1>15, Zenon DEF TypeInv, QueueInv
        <4> QED
          BY <4>1, <4>2, Zenon DEF TimesLaw
      <3>2. CASE u # q
        BY <3>1, <3>2, <1>1, <1>5, <1>9, Zenon DEF QueueInv
      <3>3. CASE u = q
        <4>1. e \in LocalEvents => home[e] = q
          BY <1>2, EventKinds, Zenon DEF Targets
        <4>2. /\ "limit" \notin Elements(asyncq[q])'
              /\ \A f \in Elements(queue[q]) : f \notin Elements(asyncq[q])'
              /\ \A f \in Inside(q)' : f \in LocalEvents => home[f] = q
          BY <4>1, <1>2, <1>8, <1>10, Zenon DEF QueueInv, Inside
        <4> QED
          BY <3>1, <3>3, <4>2, <1>1, <1>8, Zenon DEF QueueInv
      <3> QED
        BY <3>2, <3>3, Zenon
    <2>3. FlagInv(u)'
      <3>1. ASSUME NEW v \in Threads, NEW f, Setting(v, f, u) PROVE Setting(v, f, u)'
        BY <3>1, <1>1, <1>5, Zenon DEF Setting
      <3>2. Setting(t, e, q)'
        BY <1>0, <1>1, <1>5, Zenon DEF Setting
      <3> QED
        BY <3>1, <3>2, <1>1, <1>9, <1>10, Zenon DEF FlagInv
    <2>4. LimitFlag(u)'
      BY <1>1, Zenon DEF LimitFlag
    <2> QED
      BY <2>1, <2>2, <2>3, <2>4, Zenon
  <1>20. ASSUME NEW u \in Threads
         PROVE  SyncPlace(u)' /\ LimitPlace(u)' /\ SyncAgain(u)' /\ TakenOut(u)'
    <2>0. /\ Inside(u) \subseteq Inside(u)'
          /\ \A v \in Threads : Elements(asyncq[v]) \subseteq Elements(asyncq[v])'
          /\ pc'[u] = "merge" <=> pc[u] = "merge"
          /\ pc'[u] = "second" <=> pc[u] = "second"
      BY <1>1, <1>5, <1>8, <1>9, <1>10, Zenon
    <2>1. SyncPlace(u)'
      BY <2>0, <1>1, <1>2, <1>6, Zenon DEF SyncPlace, Stopped
    <2>2. LimitPlace(u)'
      BY <1>1, <1>6, Zenon DEF LimitPlace
    <2>3. SyncAgain(u)'
      <3>1. "sync" \in Elements(asyncq[u])' => pc'[u] = "merge" \/ at[u] = "sync"
        <4>1. CASE "sync" \in Elements(asyncq[u])
          BY <4>1, <2>0, Zenon DEF SyncAgain
        <4>2. CASE e = "sync"
          BY <4>2, <1>3, <1>4, EventKinds, Zenon
        <4> QED
          BY <4>1, <4>2, <1>8, <1>9, Zenon
      <3>2. ASSUME Busy(u), at[u] = "sync", NEW v \in Threads
            PROVE  ToDo(u, v)' \/ "sync" \in Elements(asyncq[v])'
        <4>1. ToDo(u, v) \/ "sync" \in Elements(asyncq[v])
          BY <3>2, Zenon DEF SyncAgain
        <4>2. CASE u = t
          BY <4>1, <4>2, <3>2, <2>0, <1>3, <1>7, <1>8, Zenon
        <4>3. CASE u # t
          BY <4>1, <4>3, <2>0, <1>7, Zenon
        <4> QED
          BY <4>2, <4>3, Zenon
      <3> QED
        BY <3>1, <3>2, <2>0, <1>1, <1>6, Zenon DEF SyncAgain
    <2>4. TakenOut(u)'
      <3> SUFFICES ASSUME at[u] \in Globals, \A v \in Threads : Winner(v)' => pc'[v] = "winner"
                   PROVE  at[u] \notin Inside(u)'
        BY <1>1, Zenon DEF TakenOut
      <3>1. at[t] \in LocalEvents /\ at[t] \notin Globals
        BY <1>2, <1>4, <1>5, EventKinds, Zenon
      <3>2. at[u] \notin Inside(u)
        BY <1>5, <1>6, <3>1, Zenon DEF TakenOut, Winner
      <3>3. u = q => at[u] # e
        BY <3>1, <1>0, <1>2, <1>7, Zenon DEF NotThereYet
      <3> QED
        BY <3>2, <3>3, <1>9, <1>10, Zenon
    <2> QED
      BY <2>1, <2>2, <2>3, <2>4, Zenon
  <1>21. ASSUME NEW u \in Threads
         PROVE  Window(u)' /\ JobTime(u)' /\ Punctual(u)' /\ NotPast(u)' /\ AsyncLater(u)'
    <2>0. /\ curTick[u] \in Int /\ simQuantum \in Int /\ simQuantum > 0
          /\ when["sync"] \in Int /\ curTick[u] <= when["sync"]
      BY <1>2, Numbers, Constants, EventKinds, Zenon DEF Window
    <2>1. Window(u)'
      <3>1. CASE e # "sync"
        BY <3>1, <1>1, <1>5, <1>6, <1>14, Zenon DEF Window
      <3>2. CASE e = "sync"
        <4>1. when'["sync"] = curTick[u] + simQuantum
          BY <3>2, <1>0, <1>2, <1>3, <1>4, <1>5, EventKinds, Zenon DEF JobTime
        <4>2. /\ when'["sync"] <= curTick[u] + simQuantum /\ curTick[u] <= when'["sync"]
          BY <4>1, <2>0
        <4> QED
          BY <4>1, <4>2, <1>1, <1>2, <1>6, Zenon DEF Window
      <3> QED
        BY <3>1, <3>2, Zenon
    <2>2. JobTime(u)'
      <3>1. CASE u = t
        <4>1. Started(t)'
          BY <1>5, Zenon DEF Started
        <4>2. /\ at[t] = "sync" => job[t].when = curTick[t] + simQuantum
              /\ at[t] # "sync" => job[t].when >= when["sync"]
          BY <1>2, Zenon DEF JobTime
        <4> QED
          BY <3>1, <4>1, <4>2, <1>1, <1>3, <1>5, <1>14, Zenon DEF JobTime
      <3>2. CASE u # t /\ e # "sync"
        BY <3>2, <1>1, <1>5, <1>6, <1>14, Zenon DEF JobTime, Started
      <3>3. CASE u # t /\ e = "sync"
        <4>1. pc'[u] = "wait"
          BY <3>3, <1>3, <1>4, EventKinds, Zenon
        <4> QED
          BY <4>1, Zenon DEF JobTime, Busy
      <3> QED
        BY <3>1, <3>2, <3>3, Zenon
    <2>3. Punctual(u)'
      <3>1. CASE at[t] \in Globals
        <4>1. pc'[u] # "winner" /\ Winner(t)'
          BY <3>1, <1>4, <1>5, Zenon
        <4> QED
          BY <4>1, Zenon DEF Punctual
      <3>2. CASE at[t] \notin Globals
        BY <3>2, <1>1, <1>5, <1>6, <1>13, Zenon DEF Punctual, AtMatches
      <3> QED
        BY <3>1, <3>2, Zenon
    <2>4. NotPast(u)'
      <3>1. w >= curTick[u]
        <4>1. CASE at[t] = "sync"
          <5>1. w = curTick[u] + simQuantum
            BY <4>1, <1>0, <1>2, <1>4, EventKinds, Zenon DEF JobTime
          <5> QED
            BY <5>1, <2>0
        <4>2. CASE at[t] # "sync"
          <5>1. w >= when["sync"]
            BY <4>2, <1>0, <1>2, Zenon DEF JobTime
          <5> QED
            BY <5>1, <2>0, <1>2
        <4> QED
          BY <4>1, <4>2, Zenon
      <3>2. ASSUME NEW f \in Inside(u)' PROVE when'[f] >= curTick[u]
        <4>1. CASE f \in Inside(u)
          BY <4>1, <1>12, Zenon DEF NotPast
        <4>2. CASE f = e
          BY <4>2, <3>1, <1>5, Zenon
        <4> QED
          BY <4>1, <4>2, <1>9, <1>10, Zenon
      <3> QED
        BY <3>2, <1>1, Zenon DEF NotPast
    <2>5. AsyncLater(u)'
      <3> SUFFICES ASSUME pc[u] # "merge", at[u] # "sync", NEW f \in Elements(asyncq[u])'
                   PROVE  when'[f] >= when'["sync"]
        <4>1. pc'[u] = "merge" <=> pc[u] = "merge"
          BY <1>1, <1>5, Zenon
        <4> QED
          BY <4>1, <1>1, Zenon DEF AsyncLater
      <3>1. at[t] # "sync" /\ e # "sync" /\ when'["sync"] = when["sync"]
        BY <1>3, <1>4, <1>14, EventKinds, Zenon
      <3>2. CASE f \in Elements(asyncq[u])
        <4>1. when'[f] = when[f]
          BY <3>2, <1>12, Zenon DEF Inside
        <4> QED
          BY <3>1, <3>2, <4>1, <1>2, Zenon DEF AsyncLater
      <3>3. CASE f = e
        BY <3>1, <3>3, <1>0, <1>2, <1>5, Zenon DEF JobTime
      <3> QED
        BY <3>2, <3>3, <1>8, <1>9, Zenon
    <2> QED
      BY <2>1, <2>2, <2>3, <2>4, <2>5, Zenon
  <1> QED
    BY <1>15, <1>16, <1>17, <1>18, <1>19, <1>20, <1>21, Zenon

(* A schedule() that goes on to the next queue keeps its event and time.   *)
LEMMA NextQueue ==
    ASSUME NEW r \in Jobs, NEW n
    PROVE  [r EXCEPT !.next = n] = [event |-> r.event, when |-> r.when, next |-> n]
  BY SMT DEF Jobs

(* A schedule() of e that is at the queue q has another queue to go to.    *)
More(e, q) == e \in Globals /\ q < N - 1

(* What setFlag() changes: t was at the queue q with the event e.          *)
SetsFlag(t, e, q) ==
    /\ e = job[t].event /\ q = job[t].next
    /\ pc[t] = "flag" /\ Busy(t)
    /\ e \in AllEvents /\ e # "limit" /\ q \in Targets(e) /\ q \in Threads
    /\ \A u \in Threads : u # t => pc'[u] = pc[u] /\ job'[u] = job[u]
    /\ More(e, q) => /\ pc'[t] = "push" /\ job'[t].event = e
                     /\ job'[t].when = job[t].when /\ job'[t].next = q + 1
    /\ ~More(e, q) => /\ pc'[t] = (IF at[t] \in Globals THEN "second" ELSE "handler")
                      /\ job'[t] = NoJob
    /\ Busy(t)' <=> More(e, q)
    /\ scheduled'[q] = scheduled[q] \cup {e}
    /\ \A u \in Threads : u # q => scheduled'[u] = scheduled[u]
    /\ queue' = queue /\ asyncq' = asyncq /\ when' = when /\ curTick' = curTick
    /\ at' = at /\ fresh' = fresh
    /\ mutex' = IF ~More(e, q) /\ e \in Globals THEN NoThread ELSE mutex
    /\ \A u \in Threads : /\ Inside(u)' = Inside(u)
                          /\ Winner(u)' <=> Winner(u)
                          /\ ToDo(t, u) <=> More(e, q) /\ ToDo(t, u)'
                          /\ Busy(u)' => Busy(u)
                          /\ u # t => /\ Busy(u)' = Busy(u)
                                      /\ \A v \in Threads : ToDo(u, v)' <=> ToDo(u, v)
    /\ Stopped' <=> Stopped

(* setFlag() has that effect.                                              *)
LEMMA SetFlagEffect ==
    ASSUME IInv, NEW t \in Threads, setFlag(t)
    PROVE  \E e, q : SetsFlag(t, e, q)
  <1> DEFINE e == job[t].event
             q == job[t].next
             more == e \in Globals /\ q < N - 1
  <1> USE DEF IInv, ThreadInv
  <1>1. /\ job[t] \in Jobs
        /\ [job[t] EXCEPT !.next = q + 1] = [event |-> e, when |-> job[t].when, next |-> q + 1]
    BY NextQueue, Zenon DEF TypeInv
  <1>2. /\ pc[t] = "flag" /\ Busy(t)
        /\ e \in AllEvents /\ e # "limit" /\ q \in Targets(e)
        /\ q \in Threads
    <2>1. pc[t] = "flag" /\ Busy(t)
      BY Zenon DEF setFlag, Busy
    <2>2. q \in Threads
      BY <1>1, Zenon DEF Jobs
    <2> QED
      BY <2>1, <2>2, Zenon DEF JobMatches
  <1>4. /\ job' = [job EXCEPT ![t] = IF more THEN [event |-> e, when |-> job[t].when,
                                                 next |-> q + 1]
                                   ELSE NoJob]
        /\ pc' = [pc EXCEPT ![t] = IF more THEN "push"
                                   ELSE IF at[t] \in Globals THEN "second"
                                   ELSE "handler"]
        /\ scheduled' = [scheduled EXCEPT ![q] = @ \cup {e}]
        /\ mutex' = IF ~more /\ e \in Globals THEN NoThread ELSE mutex
    BY <1>1, Zenon DEF setFlag
  <1>5. /\ \A u \in Threads : u # t => pc'[u] = pc[u] /\ job'[u] = job[u]
        /\ more => /\ pc'[t] = "push"
                   /\ job'[t].event = e
                   /\ job'[t].when = job[t].when
                   /\ job'[t].next = q + 1
        /\ ~more => /\ pc'[t] = (IF at[t] \in Globals THEN "second" ELSE "handler")
                    /\ job'[t] = NoJob
    BY <1>4, Zenon DEF TypeInv
  <1>6. /\ scheduled'[q] = scheduled[q] \cup {e}
        /\ \A u \in Threads : u # q => scheduled'[u] = scheduled[u]
    BY <1>2, <1>4, Zenon DEF TypeInv
  <1>7. /\ queue' = queue /\ asyncq' = asyncq /\ when' = when /\ curTick' = curTick
        /\ at' = at /\ fresh' = fresh
        /\ \A u \in Threads : Inside(u)' = Inside(u)
    BY Zenon DEF setFlag, Inside
  <1>8. ASSUME NEW u \in Threads PROVE ToDo(t, u) <=> more /\ ToDo(t, u)'
    <2>1. q \in Int /\ u \in Int /\ u <= N - 1 /\ N \in Int
      BY <1>2, Constants, Zenon
    <2>2. /\ q < u <=> (q + 1 < u \/ q + 1 = u)
          /\ q < u => q < N - 1 /\ q # u
      BY <2>1
    <2>3. CASE more
      <3>1. u \in Targets(e) /\ pc[t] # "push"
        BY <1>2, <2>3, Zenon DEF Targets
      <3> QED
        BY <1>5, <2>3, <2>2, <3>1, Zenon DEF ToDo
    <2>4. CASE ~more
      <3>1. ~(q < u) \/ u \notin Targets(e)
        BY <2>4, <2>2, <1>2, Zenon DEF Targets
      <3>2. pc[t] # "push"
        BY <1>2, Zenon
      <3> QED
        BY <2>4, <3>1, <3>2, Zenon DEF ToDo
    <2> QED
      BY <2>3, <2>4, Zenon
  <1>9. \A u \in Threads : /\ Busy(u)' => Busy(u)
                           /\ u # t => Busy(u)' = Busy(u)
                           /\ u # t => \A v \in Threads : ToDo(u, v)' <=> ToDo(u, v)
    BY <1>2, <1>5, Zenon DEF Busy, ToDo
  <1>10. Busy(t)' <=> more
    BY <1>2, <1>5, Zenon DEF Busy
  <1>12. /\ pc[t] \notin {"wait", "python", "exited", "idle", "merge", "loop", "winner"}
         /\ pc'[t] \notin {"wait", "python", "exited", "idle", "merge", "loop", "winner"}
    BY <1>2, <1>5, Zenon
  <1>13. /\ Stopped' <=> Stopped
         /\ \A u \in Threads : Winner(u)' <=> Winner(u)
    BY <1>5, <1>7, <1>12, Constants, Zenon DEF Stopped, Winner
  <1>14. PICK f, p : f = e /\ p = q
    BY Zenon
  <1>15. more <=> More(f, p)
    BY <1>14, Zenon DEF More
  <1>16. SetsFlag(t, f, p)
    <2> HIDE DEF IInv, ThreadInv, more
    <2> QED
      BY <1>2, <1>4, <1>5, <1>6, <1>7, <1>8, <1>9, <1>10, <1>13, <1>14, <1>15, Zenon
        DEF SetsFlag
  <1> QED
    BY <1>16, Zenon

(* The Scheduled flag is set after the insertion, and schedule() goes on   *)
(* to the next queue or returns.                                           *)
LEMMA SetFlagStep == ASSUME IInv, NEW t \in Threads, setFlag(t) PROVE IInv'
  <1> DEFINE e == job[t].event
             q == job[t].next
             more == e \in Globals /\ q < N - 1
  <1>0. SetsFlag(t, e, q)
    <2>1. PICK f, p : SetsFlag(t, f, p)
      BY SetFlagEffect, Zenon
    <2>2. f = e /\ p = q
      BY <2>1, Zenon DEF SetsFlag
    <2> QED
      BY <2>1, <2>2, Zenon
  <1> USE DEF IInv, ThreadInv
  <1>1. /\ job[t] \in Jobs
        /\ [job[t] EXCEPT !.next = q + 1] = [event |-> e, when |-> job[t].when, next |-> q + 1]
    BY NextQueue, Zenon DEF TypeInv
  <1>2. /\ pc[t] = "flag" /\ Busy(t)
        /\ e \in AllEvents /\ e # "limit" /\ q \in Targets(e)
        /\ q \in Threads /\ job[t].when \in 0 .. MaxTick + simQuantum
    <2>1. pc[t] = "flag" /\ Busy(t)
      BY Zenon DEF setFlag, Busy
    <2>2. q \in Threads /\ job[t].when \in 0 .. MaxTick + simQuantum
      BY <1>1, Zenon DEF Jobs
    <2> QED
      BY <2>1, <2>2, Zenon DEF JobMatches
  <1>3. more => q + 1 \in Threads
    BY <1>2, Constants DEF Threads
  <1>4. /\ job' = [job EXCEPT ![t] = IF more THEN [event |-> e, when |-> job[t].when,
                                                 next |-> q + 1]
                                   ELSE NoJob]
        /\ pc' = [pc EXCEPT ![t] = IF more THEN "push"
                                   ELSE IF at[t] \in Globals THEN "second"
                                   ELSE "handler"]
        /\ scheduled' = [scheduled EXCEPT ![q] = @ \cup {e}]
    BY <1>1, Zenon DEF setFlag
  <1>5. /\ \A u \in Threads : u # t => pc'[u] = pc[u] /\ job'[u] = job[u]
        /\ more => /\ pc'[t] = "push"
                   /\ job'[t].event = e
                   /\ job'[t].when = job[t].when
                   /\ job'[t].next = q + 1
        /\ ~more => /\ pc'[t] = (IF at[t] \in Globals THEN "second" ELSE "handler")
                    /\ job'[t] = NoJob
    BY <1>0, Zenon DEF SetsFlag, More
  <1>6. /\ scheduled'[q] = scheduled[q] \cup {e}
        /\ \A u \in Threads : u # q => scheduled'[u] = scheduled[u]
    BY <1>0, Zenon DEF SetsFlag, More
  <1>7. /\ queue' = queue /\ asyncq' = asyncq /\ when' = when /\ curTick' = curTick
        /\ at' = at /\ fresh' = fresh
        /\ \A u \in Threads : Inside(u)' = Inside(u)
    BY <1>0, Zenon DEF SetsFlag, More
  <1>8. ASSUME NEW u \in Threads PROVE ToDo(t, u) <=> more /\ ToDo(t, u)'
    BY <1>0, Zenon DEF SetsFlag, More
  <1>9. \A u \in Threads : /\ Busy(u)' => Busy(u)
                           /\ u # t => Busy(u)' = Busy(u)
                           /\ u # t => \A v \in Threads : ToDo(u, v)' <=> ToDo(u, v)
    BY <1>0, Zenon DEF SetsFlag, More
  <1>10. Busy(t)' <=> more
    BY <1>0, Zenon DEF SetsFlag, More
  <1>11. at[t] \in Globals \/ at[t] \in LocalEvents
    BY <1>2, EventKinds, Zenon DEF AtMatches
  <1>12. /\ pc[t] \notin {"wait", "python", "exited", "idle", "merge", "loop", "winner"}
         /\ pc'[t] \notin {"wait", "python", "exited", "idle", "merge", "loop", "winner"}
    BY <1>2, <1>5, Zenon
  <1>13. /\ Stopped' <=> Stopped
         /\ \A u \in Threads : Winner(u)' <=> Winner(u)
    BY <1>0, Zenon DEF SetsFlag, More
  <1>20. TypeInv'
    <2>1. /\ pc' \in [Threads -> States]
          /\ scheduled' \in [Threads -> SUBSET AllEvents]
      BY <1>2, <1>4, Zenon DEF TypeInv, States
    <2>2. IF more THEN [event |-> e, when |-> job[t].when, next |-> q + 1] \in Jobs
                  ELSE NoJob \in Jobs
      BY <1>2, <1>3, Constants DEF Jobs, NoJob, NoEvent
    <2>3. job' \in [Threads -> Jobs]
      BY <2>2, <1>4, Zenon DEF TypeInv
    <2>4. mutex' \in Threads \cup {NoThread}
      BY Zenon DEF TypeInv, setFlag
    <2> QED
      BY <2>1, <2>3, <2>4, <1>7, Zenon DEF TypeInv
  <1>21. Bounded'
    BY <1>5, <1>7, <1>9, <1>10, Zenon DEF Bounded
  <1>22. ASSUME NEW u \in Threads
         PROVE  OutTogether(u)' /\ AtMatches(u)' /\ OthersWait(u)'
    <2>1. OutTogether(u)'
      BY <1>2, <1>5, <1>12, <1>13, Zenon DEF OutTogether
    <2>2. AtMatches(u)'
      BY <1>2, <1>5, <1>7, <1>9, <1>11, Zenon DEF AtMatches
    <2>3. OthersWait(u)'
      BY <1>2, <1>5, <1>7, <1>12, <1>13, ZenonT(40) DEF OthersWait
    <2> QED
      BY <2>1, <2>2, <2>3, Zenon
  <1>23. ASSUME NEW u \in Threads
         PROVE  JobMatches(u)' /\ NotThereYet(u)' /\ TimeSet(u)' /\ OwnJob(u)'
    <2>1. JobMatches(u)'
      <3>1. CASE u = t
        <4>1. CASE more
          <5>1. q + 1 \in Targets(e)
            BY <4>1, <1>3, Zenon DEF Targets
          <5> QED
            BY <3>1, <4>1, <5>1, <1>2, <1>5, <1>7, <1>10, Zenon DEF JobMatches
        <4>2. CASE ~more
          BY <3>1, <4>2, <1>5, <1>10, Zenon DEF JobMatches
        <4> QED
          BY <4>1, <4>2, Zenon
      <3>2. CASE u # t
        BY <3>2, <1>5, <1>7, <1>9, Zenon DEF JobMatches
      <3> QED
        BY <3>1, <3>2, Zenon
    <2>2. NotThereYet(u)'
      <3>1. CASE u = t
        BY <3>1, <1>2, <1>5, <1>7, <1>8, <1>10, Zenon DEF NotThereYet
      <3>2. CASE u # t
        BY <3>2, <1>5, <1>7, <1>9, Zenon DEF NotThereYet
      <3> QED
        BY <3>1, <3>2, Zenon
    <2>3. TimeSet(u)'
      BY <1>2, <1>5, <1>7, <1>9, <1>10, ZenonT(40) DEF TimeSet, Started
    <2>4. OwnJob(u)'
      <3> SUFFICES ASSUME Busy(u)', NEW v \in Threads \ {u}, Busy(v)'
                   PROVE  job'[v].event # job'[u].event
        BY Zenon DEF OwnJob
      <3>1. Busy(u) /\ Busy(v) /\ job'[v].event = job[v].event /\ job'[u].event = job[u].event
        BY <1>5, <1>9, <1>10, Zenon
      <3> QED
        BY <3>1, Zenon DEF OwnJob
    <2> QED
      BY <2>1, <2>2, <2>3, <2>4, Zenon
  <1>24. ASSUME NEW u \in Threads
         PROVE  FreshInv(u)' /\ QueueInv(u)' /\ FlagInv(u)' /\ LimitFlag(u)'
    <2>1. FreshInv(u)'
      BY <1>7, Zenon DEF FreshInv
    <2>0. QueueInv(u)'
      BY <1>7, Zenon DEF QueueInv
    <2>2. FlagInv(u)'
      <3> SUFFICES ASSUME NEW f \in Inside(u)
                   PROVE  f \in scheduled'[u] \/ \E v \in Threads : Setting(v, f, u)'
        BY <1>7, Zenon DEF FlagInv
      <3>1. CASE f \in scheduled[u]
        BY <3>1, <1>6, Zenon
      <3>2. CASE \E v \in Threads : Setting(v, f, u)
        <4>1. PICK v \in Threads : Setting(v, f, u)
          BY <3>2, Zenon
        <4>2. CASE v = t
          BY <4>1, <4>2, <1>6, Zenon DEF Setting
        <4>3. CASE v # t
          BY <4>1, <4>3, <1>5, Zenon DEF Setting
        <4> QED
          BY <4>2, <4>3, Zenon
      <3> QED
        BY <3>1, <3>2, Zenon DEF FlagInv
    <2>3. LimitFlag(u)'
      BY <1>2, <1>6, <1>7, Zenon DEF LimitFlag
    <2> QED
      BY <2>0, <2>1, <2>2, <2>3, Zenon
  <1>25. ASSUME NEW u \in Threads
         PROVE  SyncPlace(u)' /\ LimitPlace(u)' /\ SyncAgain(u)' /\ TakenOut(u)'
    <2>1. SyncPlace(u)'
      BY <1>2, <1>5, <1>7, <1>12, <1>13, Constants, Zenon DEF SyncPlace
    <2>2. LimitPlace(u)'
      BY <1>7, <1>12, <1>13, Zenon DEF LimitPlace
    <2>3. SyncAgain(u)'
      <3>1. CASE u = t
        BY <3>1, <1>2, <1>5, <1>7, <1>8, <1>10, Zenon DEF SyncAgain
      <3>2. CASE u # t
        BY <3>2, <1>5, <1>7, <1>9, Zenon DEF SyncAgain
      <3> QED
        BY <3>1, <3>2, Zenon
    <2>4. TakenOut(u)'
      BY <1>2, <1>5, <1>7, <1>12, <1>13, Zenon DEF TakenOut
    <2> QED
      BY <2>1, <2>2, <2>3, <2>4, Zenon
  <1>26. ASSUME NEW u \in Threads
         PROVE  /\ Window(u)' /\ JobTime(u)'
                /\ Punctual(u)' /\ NotPast(u)' /\ AsyncLater(u)'
    <2>1. Window(u)'
      BY <1>2, <1>5, <1>7, <1>12, <1>13, Zenon DEF Window
    <2>2. JobTime(u)'
      <3>1. CASE u = t
        <4>1. at[t] = "sync" => e = "sync"
          BY <1>2, EventKinds, Zenon DEF JobMatches
        <4>2. /\ when[e] = job[t].when
              /\ at[t] = "sync" => job[t].when = curTick[t] + simQuantum
              /\ at[t] # "sync" => job[t].when >= when["sync"]
          BY <1>2, Zenon DEF JobTime, TimeSet, Started
        <4>3. more => Started(t)'
          <5>1. q + 1 > 0
            <6>1. q \in Int /\ 0 <= q
              BY <1>2, Constants, Zenon
            <6> QED
              BY <6>1
          <5> QED
            BY <1>5, <5>1, Zenon DEF Started
        <4>4. /\ Busy(t)' => job'[t].when = job[t].when
              /\ pc'[t] = "second" => ~Busy(t)'
          BY <1>5, <1>10, Zenon DEF Busy
        <4> QED
          BY <3>1, <4>1, <4>2, <4>3, <4>4, <1>7, <1>10, Zenon DEF JobTime
      <3>2. CASE u # t
        BY <3>2, <1>5, <1>7, <1>9, Zenon DEF JobTime, Started
      <3> QED
        BY <3>1, <3>2, Zenon
    <2>3. Punctual(u)'
      BY <1>2, <1>5, <1>7, <1>12, <1>13, Zenon DEF Punctual
    <2>4. NotPast(u)'
      BY <1>7, Zenon DEF NotPast
    <2>5. AsyncLater(u)'
      BY <1>2, <1>5, <1>7, <1>12, <1>13, Zenon DEF AsyncLater
    <2> QED
      BY <2>1, <2>2, <2>3, <2>4, <2>5, Zenon
  <1> QED
    BY <1>20, <1>21, <1>22, <1>23, <1>24, <1>25, <1>26, Zenon

(* What serviceOne() changes: t takes e, the first event of its queue.     *)
Serves(t, e) ==
    /\ e = Head(queue[t]) /\ queue[t] # <<>>
    /\ pc[t] = "loop" /\ at[t] = NoEvent /\ ~Stopped /\ ~Stopped'
    /\ "sync" \in Elements(queue[t]) /\ "limit" \in Elements(queue[t])
    /\ e \in AllEvents /\ e \in Elements(queue[t]) /\ e \in Inside(t)
    /\ e \notin Elements(asyncq[t])
    /\ pc'[t] \in {"handler", "winner", "wait"}
    /\ pc'[t] = "handler" <=> e \in LocalEvents
    /\ pc'[t] = "winner" <=> /\ e \notin LocalEvents
                             /\ \A u \in Threads \ {t} : pc[u] = "wait" /\ at[u] = e
    /\ queue'[t] = Tail(queue[t]) /\ scheduled'[t] = scheduled[t] \ {e}
    /\ curTick'[t] = when[e] /\ at'[t] = e
    /\ \A u \in Threads : u # t => /\ queue'[u] = queue[u] /\ scheduled'[u] = scheduled[u]
                                   /\ curTick'[u] = curTick[u] /\ at'[u] = at[u]
                                   /\ pc'[u] = pc[u] /\ Inside(u)' = Inside(u)
    /\ Inside(t)' = Inside(t) \ {e}
    /\ asyncq' = asyncq /\ when' = when /\ job' = job /\ fresh' = fresh /\ mutex' = mutex
    /\ ~Busy(t) /\ \A u \in Threads : Busy(u)' <=> Busy(u)
    /\ \A u \in Threads : ~Winner(u)
    /\ \A u \in Threads : u # t => ~Winner(u)'
    /\ Winner(t)' <=> pc'[t] = "winner"
    /\ \A u \in Threads : Busy(u) => /\ u # t
                                     /\ \A v \in Threads : ToDo(u, v)' <=> ToDo(u, v)
                                     /\ Started(u)' <=> Started(u)

(* serviceOne() has that effect.                                           *)
LEMMA ServiceOneEffect ==
    ASSUME HeadLaw, IInv, NEW t \in Threads, serviceOne(t)
    PROVE  \E e : Serves(t, e)
  <1> USE DEF IInv, ThreadInv
  <1>0. PICK e : e = Head(queue[t])
    BY Zenon
  <1> DEFINE last == \A u \in Threads \ {t} : pc[u] = "wait" /\ at[u] = e
  <1>1. /\ pc[t] = "loop" /\ queue[t] # <<>>
        /\ queue' = [queue EXCEPT ![t] = Tail(queue[t])]
        /\ scheduled' = [scheduled EXCEPT ![t] = @ \ {e}]
        /\ curTick' = [curTick EXCEPT ![t] = when[e]]
        /\ at' = [at EXCEPT ![t] = e]
        /\ pc' = [pc EXCEPT ![t] = IF e \in LocalEvents THEN "handler"
                                   ELSE IF last THEN "winner" ELSE "wait"]
        /\ asyncq' = asyncq /\ when' = when /\ job' = job /\ fresh' = fresh
        /\ mutex' = mutex
    BY <1>0, Zenon DEF serviceOne
  <1>2. /\ at[t] = NoEvent /\ ~Stopped
        /\ "sync" \in Elements(queue[t]) /\ "limit" \in Elements(queue[t])
        /\ NoEvent \notin Globals
    <2>1. "sync" # NoEvent /\ "limit" # NoEvent /\ NoEvent \notin Globals
      BY EventKinds, Zenon
    <2>2. at[t] = NoEvent /\ ~Stopped
      BY <1>1, InLoop, Zenon DEF AtMatches
    <2> QED
      BY <1>1, <2>1, <2>2, Zenon DEF SyncPlace, LimitPlace
  <1>3. /\ e \in AllEvents /\ e \in Elements(queue[t])
        /\ Elements(Tail(queue[t])) = Elements(queue[t]) \ {e}
    <2>1. queue[t] \in Queues /\ when \in Times /\ Order!InOrder(queue[t], when)
      BY Zenon DEF TypeInv, QueueInv
    <2> QED
      BY <1>0, <1>1, <2>1, Zenon DEF HeadLaw
  <1>4. /\ queue'[t] = Tail(queue[t]) /\ scheduled'[t] = scheduled[t] \ {e}
        /\ curTick'[t] = when[e] /\ at'[t] = e
        /\ pc'[t] = (IF e \in LocalEvents THEN "handler"
                     ELSE IF last THEN "winner" ELSE "wait")
        /\ \A u \in Threads : u # t => /\ queue'[u] = queue[u] /\ scheduled'[u] = scheduled[u]
                                       /\ curTick'[u] = curTick[u] /\ at'[u] = at[u]
                                       /\ pc'[u] = pc[u]
    BY <1>1, Zenon DEF TypeInv
  <1>5. /\ pc'[t] \in {"handler", "winner", "wait"}
        /\ pc'[t] = "handler" <=> e \in LocalEvents
        /\ pc'[t] = "winner" <=> e \notin LocalEvents /\ last
    BY <1>4, Zenon
  <1>6. /\ ~Busy(t) /\ ~Busy(t)' /\ \A u \in Threads : Busy(u)' <=> Busy(u)
        /\ ~Stopped'
    <2>1. ~Busy(t) /\ ~Busy(t)' /\ \A u \in Threads : Busy(u)' <=> Busy(u)
      BY <1>1, <1>4, <1>5, Zenon DEF Busy
    <2>2. pc'[main] # "python" /\ pc'[main] # "exited"
      BY <1>2, <1>4, <1>5, Constants, Zenon DEF Stopped
    <2> QED
      BY <2>1, <2>2, Zenon DEF Stopped
  <1>7. /\ \A u \in Threads : ~Winner(u)
        /\ \A u \in Threads : u # t => ~Winner(u)'
        /\ Winner(t)' <=> pc'[t] = "winner"
    <2>1. \A u \in Threads : ~Winner(u)
      BY <1>1, <1>2, Zenon DEF OthersWait, Winner
    <2>2. e \in LocalEvents => e \notin Globals
      BY EventKinds, Zenon
    <2> QED
      BY <2>1, <2>2, <1>3, <1>4, <1>5, EventKinds, Zenon DEF Winner
  <1>8. /\ e \notin Elements(asyncq[t])
        /\ Inside(t)' = Inside(t) \ {e}
        /\ \A u \in Threads : u # t => Inside(u)' = Inside(u)
        /\ e \in Inside(t)
    <2>1. e \notin Elements(asyncq[t])
      BY <1>3, Zenon DEF QueueInv
    <2>2. Inside(t)' = (Elements(queue[t]) \ {e}) \cup Elements(asyncq[t])
      BY <1>1, <1>3, <1>4, Zenon DEF Inside
    <2> QED
      BY <1>1, <1>3, <1>4, <2>1, <2>2, Zenon DEF Inside
  <1>9. \A u \in Threads : Busy(u) => /\ u # t
                                      /\ \A v \in Threads : ToDo(u, v)' <=> ToDo(u, v)
                                      /\ Started(u)' <=> Started(u)
    BY <1>1, <1>4, <1>6, Zenon DEF ToDo, Started
  <1>10. Serves(t, e)
    <2> HIDE DEF IInv, ThreadInv
    <2> QED
      BY <1>0, <1>1, <1>2, <1>3, <1>4, <1>5, <1>6, <1>7, <1>8, <1>9, Zenon DEF Serves
  <1> QED
    BY <1>10, Zenon

(* A thread takes the first event of its queue: nothing in its queues is   *)
(* earlier, so its time may move there.                                    *)
LEMMA ServiceOneStep ==
    ASSUME HeadLaw, IInv, NEW t \in Threads, serviceOne(t)
    PROVE  IInv'
  <1>00. PICK e : Serves(t, e)
    BY ServiceOneEffect, Zenon
  <1>0. e = Head(queue[t])
    BY <1>00, Zenon DEF Serves
  <1> USE DEF IInv, ThreadInv
  <1> DEFINE last == \A u \in Threads \ {t} : pc[u] = "wait" /\ at[u] = e
  <1>1. /\ pc[t] = "loop" /\ queue[t] # <<>>
        /\ queue' = [queue EXCEPT ![t] = Tail(queue[t])]
        /\ scheduled' = [scheduled EXCEPT ![t] = @ \ {e}]
        /\ curTick' = [curTick EXCEPT ![t] = when[e]]
        /\ at' = [at EXCEPT ![t] = e]
        /\ pc' = [pc EXCEPT ![t] = IF e \in LocalEvents THEN "handler"
                                   ELSE IF last THEN "winner" ELSE "wait"]
        /\ asyncq' = asyncq /\ when' = when /\ job' = job /\ fresh' = fresh
        /\ mutex' = mutex
    BY <1>0, Zenon DEF serviceOne
  <1>2. /\ at[t] = NoEvent /\ ~Stopped
        /\ "sync" \in Elements(queue[t]) /\ "limit" \in Elements(queue[t])
        /\ "sync" # NoEvent /\ "limit" # NoEvent /\ NoEvent \notin Globals
    <2>1. "sync" # NoEvent /\ "limit" # NoEvent /\ NoEvent \notin Globals
      BY EventKinds, Zenon
    <2>2. at[t] = NoEvent /\ ~Stopped
      BY <1>1, InLoop, Zenon DEF AtMatches
    <2> QED
      BY <1>1, <2>1, <2>2, Zenon DEF SyncPlace, LimitPlace
  <1>3. /\ e \in AllEvents /\ e \in Elements(queue[t])
        /\ \A f \in Elements(queue[t]) : when[f] >= when[e]
        /\ Tail(queue[t]) \in Queues
        /\ Order!InOrder(Tail(queue[t]), when)
        /\ Elements(Tail(queue[t])) = Elements(queue[t]) \ {e}
    <2>1. queue[t] \in Queues /\ when \in Times /\ Order!InOrder(queue[t], when)
      BY Zenon DEF TypeInv, QueueInv
    <2> QED
      BY <1>0, <1>1, <2>1, Zenon DEF HeadLaw
  <1>4. /\ queue'[t] = Tail(queue[t]) /\ scheduled'[t] = scheduled[t] \ {e}
        /\ curTick'[t] = when[e] /\ at'[t] = e
        /\ pc'[t] = (IF e \in LocalEvents THEN "handler"
                     ELSE IF last THEN "winner" ELSE "wait")
        /\ \A u \in Threads : u # t => /\ queue'[u] = queue[u] /\ scheduled'[u] = scheduled[u]
                                       /\ curTick'[u] = curTick[u] /\ at'[u] = at[u]
                                       /\ pc'[u] = pc[u]
    BY <1>1, Zenon DEF TypeInv
  <1>5. /\ pc'[t] \in {"handler", "winner", "wait"}
        /\ pc'[t] = "handler" <=> e \in LocalEvents
        /\ pc'[t] = "winner" <=> e \notin LocalEvents /\ last
    BY <1>00, Zenon DEF Serves
  <1>6. /\ ~Busy(t) /\ ~Busy(t)' /\ \A u \in Threads : Busy(u)' <=> Busy(u)
        /\ ~Stopped' /\ pc'[main] # "python" /\ pc'[main] # "exited"
    <2>1. ~Busy(t) /\ ~Busy(t)' /\ \A u \in Threads : Busy(u)' <=> Busy(u)
      BY <1>1, <1>4, <1>5, Zenon DEF Busy
    <2>2. pc'[main] # "python" /\ pc'[main] # "exited"
      BY <1>2, <1>4, <1>5, Constants, Zenon DEF Stopped
    <2> QED
      BY <2>1, <2>2, Zenon DEF Stopped
  <1>7. /\ \A u \in Threads : ~Winner(u)
        /\ \A u \in Threads : u # t => ~Winner(u)'
        /\ Winner(t)' <=> pc'[t] = "winner"
    BY <1>00, Zenon DEF Serves
  <1>8. /\ e \notin Elements(asyncq[t])
        /\ Inside(t)' = Inside(t) \ {e}
        /\ \A u \in Threads : u # t => Inside(u)' = Inside(u)
        /\ e \in Inside(t)
    BY <1>00, Zenon DEF Serves
  <1>9. \A u \in Threads : Busy(u) => /\ u # t
                                      /\ \A v \in Threads : ToDo(u, v)' <=> ToDo(u, v)
                                      /\ Started(u)' <=> Started(u)
    BY <1>00, Zenon DEF Serves
  <1>10. /\ when[e] \in Int /\ when["sync"] \in Int /\ curTick[t] \in Int
         /\ simQuantum \in Int
         /\ when[e] >= curTick[t] /\ when["sync"] >= when[e]
         /\ when["sync"] <= curTick[t] + simQuantum
         /\ 0 <= when[e] /\ when[e] <= MaxTick
    <2>1. /\ when[e] \in Int /\ when["sync"] \in Int /\ curTick[t] \in Int
          /\ when["limit"] \in Int /\ simQuantum \in Int /\ MaxTick \in Int
          /\ 0 <= when[e]
      BY <1>3, Numbers, Constants, EventKinds, Zenon
    <2>2. /\ when[e] >= curTick[t] /\ when["sync"] >= when[e]
          /\ when["sync"] <= curTick[t] + simQuantum
      BY <1>1, <1>2, <1>3, <1>8, InLoop, Zenon DEF NotPast
    <2>3. when["limit"] >= when[e] /\ when["limit"] <= MaxTick
      BY <1>2, <1>3, EventKinds, Zenon DEF Bounded
    <2>4. when[e] <= MaxTick
      BY <2>1, <2>3
    <2> QED
      BY <2>1, <2>2, <2>4, Zenon
  <1>11. TypeInv'
    <2>1. pc' \in [Threads -> States]
      BY <1>1, Zenon DEF TypeInv, States
    <2>2. /\ queue' \in [Threads -> Queues]
          /\ at' \in [Threads -> AllEvents \cup {NoEvent}]
      BY <1>1, <1>3, Zenon DEF TypeInv
    <2>3. scheduled' \in [Threads -> SUBSET AllEvents]
      BY <1>1, Zenon DEF TypeInv
    <2>4. curTick' \in [Threads -> 0 .. MaxTick]
      <3>1. when[e] \in 0 .. MaxTick
        BY <1>10, Constants
      <3> QED
        BY <1>1, <3>1, Zenon DEF TypeInv
    <2> QED
      BY <1>1, <2>1, <2>2, <2>3, <2>4, Zenon DEF TypeInv
  <1>12. Bounded'
    BY <1>1, <1>6, Zenon DEF Bounded
  <1>13. ASSUME NEW u \in Threads, u # t PROVE ThreadInv(u)'
    <2>0. /\ pc'[u] = pc[u] /\ at'[u] = at[u] /\ curTick'[u] = curTick[u] /\ queue'[u] = queue[u]
          /\ scheduled'[u] = scheduled[u] /\ ~Winner(u)' /\ ~Winner(u) /\ Inside(u)' = Inside(u)
          /\ asyncq'[u] = asyncq[u] /\ job'[u] = job[u]
      BY <1>1, <1>4, <1>7, <1>8, <1>13, Zenon
    <2>1. OutTogether(u)' /\ AtMatches(u)' /\ OthersWait(u)'
      BY <2>0, <1>2, <1>6, Zenon DEF OutTogether, AtMatches, OthersWait
    <2>2. JobMatches(u)'
      BY <2>0, <1>1, <1>6, Zenon DEF JobMatches
    <2>3. NotThereYet(u)'
      <3> SUFFICES ASSUME Busy(u), NEW v \in Threads, ToDo(u, v)
                   PROVE  /\ job[u].event \notin Inside(v)'
                          /\ at[u] \in LocalEvents /\ job[u].event \in Globals
                                => at'[v] # job[u].event
        BY <2>0, <1>6, <1>9, Zenon DEF NotThereYet
      <3>1. job[u].event \notin Inside(v)
        BY Zenon DEF NotThereYet
      <3>2. at[u] \in LocalEvents /\ job[u].event \in Globals => at[v] # job[u].event
        BY Zenon DEF NotThereYet
      <3>3. CASE v = t
        BY <3>1, <3>3, <1>4, <1>8, Zenon
      <3>4. CASE v # t
        BY <3>1, <3>2, <3>4, <1>4, <1>8, Zenon
      <3> QED
        BY <3>3, <3>4, Zenon
    <2>4. TimeSet(u)'
      BY <2>0, <1>1, <1>6, <1>9, Zenon DEF TimeSet
    <2>5. OwnJob(u)'
      BY <1>1, <1>6, Zenon DEF OwnJob
    <2>6. FreshInv(u)' /\ LimitFlag(u)' /\ NotPast(u)'
      BY <2>0, <1>1, Zenon DEF FreshInv, LimitFlag, NotPast
    <2>7. QueueInv(u)'
      BY <2>0, <1>1, Zenon DEF QueueInv
    <2>8. FlagInv(u)'
      <3>1. ASSUME NEW v \in Threads, NEW f, Setting(v, f, u) PROVE Setting(v, f, u)'
        BY <3>1, <1>1, <1>4, Zenon DEF Setting
      <3> QED
        BY <3>1, <2>0, Zenon DEF FlagInv
    <2>9. SyncPlace(u)' /\ LimitPlace(u)'
      BY <2>0, <1>2, <1>6, Zenon DEF SyncPlace, LimitPlace
    <2>10. SyncAgain(u)'
      BY <2>0, <1>1, <1>6, <1>9, Zenon DEF SyncAgain
    <2>11. TakenOut(u)'
      BY <2>0, <1>7, Zenon DEF TakenOut
    <2>12. Window(u)'
      BY <2>0, <1>1, <1>2, <1>6, Zenon DEF Window
    <2>13. JobTime(u)'
      BY <2>0, <1>1, <1>6, <1>9, Zenon DEF JobTime
    <2>14. Punctual(u)'
      BY <2>0, <1>1, <1>7, Zenon DEF Punctual
    <2>15. AsyncLater(u)'
      BY <2>0, <1>1, <1>2, Zenon DEF AsyncLater
    <2> QED
      BY <2>1, <2>2, <2>3, <2>4, <2>5, <2>6, <2>7, <2>8, <2>9, <2>10, <2>11, <2>12, <2>13,
         <2>14, <2>15, Zenon
  <1>14. ThreadInv(t)'
    <2>1. OutTogether(t)'
      BY <1>5, <1>6, Zenon DEF OutTogether
    <2>2. AtMatches(t)'
      BY <1>3, <1>4, <1>5, <1>6, EventKinds, Zenon DEF AtMatches
    <2>3. OthersWait(t)'
      <3> SUFFICES ASSUME last, NEW u \in Threads \ {t}
                   PROVE  pc'[u] = "wait" /\ at'[u] = at'[t] /\ curTick'[u] = curTick'[t]
        BY <1>5, <1>7, Zenon DEF OthersWait
      <3>1. pc[u] = "wait" /\ at[u] = e
        BY Zenon
      <3>2. when[e] = curTick[u]
        BY <3>1, <1>7, Zenon DEF Punctual
      <3> QED
        BY <3>1, <3>2, <1>4, Zenon
    <2>4. JobMatches(t)' /\ NotThereYet(t)' /\ TimeSet(t)' /\ OwnJob(t)'
      BY <1>1, <1>6, Zenon DEF JobMatches, NotThereYet, TimeSet, OwnJob
    <2>5. FreshInv(t)'
      BY <1>1, <1>4, <1>8, Zenon DEF FreshInv
    <2>6. QueueInv(t)'
      BY <1>1, <1>3, <1>4, <1>8, Zenon DEF QueueInv
    <2>7. FlagInv(t)'
      <3>1. ASSUME NEW v \in Threads, NEW f, Setting(v, f, t) PROVE Setting(v, f, t)'
        BY <3>1, <1>1, <1>4, Zenon DEF Setting
      <3> QED
        BY <3>1, <1>4, <1>8, Zenon DEF FlagInv
    <2>8. LimitFlag(t)'
      BY <1>3, <1>4, Zenon DEF LimitFlag
    <2>9. SyncPlace(t)' /\ LimitPlace(t)'
      BY <1>2, <1>3, <1>4, <1>5, <1>6, Zenon DEF SyncPlace, LimitPlace
    <2>10. SyncAgain(t)' /\ TakenOut(t)'
      <3>1. "sync" \notin Elements(asyncq[t])
        BY <1>1, <1>2, Zenon DEF SyncAgain
      <3> QED
        BY <3>1, <1>1, <1>4, <1>5, <1>6, <1>8, Zenon DEF SyncAgain, TakenOut
    <2>11. Window(t)'
      <3>1. when["sync"] <= when[e] + simQuantum /\ when[e] <= when["sync"]
        BY <1>10
      <3> QED
        BY <3>1, <1>1, <1>4, <1>5, <1>6, Zenon DEF Window
    <2>12. JobTime(t)' /\ Punctual(t)'
      BY <1>1, <1>4, <1>5, <1>6, Zenon DEF JobTime, Punctual
    <2>13. ASSUME NEW f \in Elements(asyncq[t]) PROVE when[f] >= when["sync"]
      BY <1>1, <1>2, Zenon DEF AsyncLater
    <2>14. NotPast(t)'
      <3>1. ASSUME NEW f \in Inside(t)' PROVE when[f] >= when[e]
        <4>1. CASE f \in Elements(queue[t])
          BY <4>1, <1>3, Zenon
        <4>2. CASE f \in Elements(asyncq[t])
          <5>1. when[f] >= when["sync"] /\ when["sync"] >= when[e]
            BY <4>2, <2>13, <1>10, Zenon
          <5>2. when[f] \in Int
            BY <4>2, Numbers, QueueElements, Zenon DEF TypeInv
          <5> QED
            BY <5>1, <5>2, <1>10
        <4> QED
          BY <4>1, <4>2, <1>8, Zenon DEF Inside
      <3> QED
        BY <3>1, <1>1, <1>4, Zenon DEF NotPast
    <2>15. AsyncLater(t)'
      BY <2>13, <1>1, Zenon DEF AsyncLater
    <2> QED
      BY <2>1, <2>2, <2>3, <2>4, <2>5, <2>6, <2>7, <2>8, <2>9, <2>10, <2>11, <2>12,
         <2>14, <2>15, Zenon
  <1> QED
    BY <1>11, <1>12, <1>13, <1>14, Zenon

(* What handleAsyncInsertions() changes.                                   *)
Merges(t) ==
    /\ pc[t] = "merge" /\ pc'[t] = "loop" /\ at[t] = NoEvent /\ ~Stopped /\ ~Stopped'
    /\ queue'[t] = Order!Merge(queue[t], when, asyncq[t]) /\ asyncq'[t] = <<>>
    /\ queue'[t] \in Queues /\ Order!InOrder(queue'[t], when)
    /\ Elements(queue'[t]) = Inside(t) /\ Elements(asyncq'[t]) = {}
    /\ \A u \in Threads : u # t => /\ pc'[u] = pc[u] /\ queue'[u] = queue[u]
                                   /\ asyncq'[u] = asyncq[u]
    /\ \A u \in Threads : Inside(u)' = Inside(u)
    /\ \A u \in Threads : Elements(queue[u]) \subseteq Elements(queue'[u])
    /\ when' = when /\ curTick' = curTick /\ at' = at /\ job' = job /\ fresh' = fresh
    /\ scheduled' = scheduled /\ mutex' = mutex
    /\ \A u \in Threads : ~Winner(u) /\ ~Winner(u)'
    /\ ~Busy(t) /\ ~Busy(t)' /\ \A u \in Threads : Busy(u)' <=> Busy(u)
    /\ \A u \in Threads : Busy(u) => /\ u # t
                                     /\ at[u] \notin Globals
                                     /\ \A v \in Threads : ToDo(u, v)' <=> ToDo(u, v)
                                     /\ Started(u)' <=> Started(u)

(* It has that effect: no event is lost in the merge.                      *)
LEMMA HandleAsyncInsertionsEffect ==
    ASSUME MergeLaw, IInv, NEW t \in Threads, handleAsyncInsertions(t)
    PROVE  Merges(t)
  <1> USE DEF IInv, ThreadInv
  <1>0. PICK q : q = Order!Merge(queue[t], when, asyncq[t])
    BY Zenon
  <1>1. /\ pc[t] = "merge" /\ pc' = [pc EXCEPT ![t] = "loop"]
        /\ queue' = [queue EXCEPT ![t] = q]
        /\ asyncq' = [asyncq EXCEPT ![t] = <<>>]
        /\ when' = when /\ curTick' = curTick /\ at' = at
        /\ job' = job /\ fresh' = fresh /\ scheduled' = scheduled /\ mutex' = mutex
    BY <1>0, Zenon DEF handleAsyncInsertions
  <1>2. /\ q \in Queues /\ Order!InOrder(q, when)
        /\ Elements(q) = Inside(t)
    <2>1. /\ queue[t] \in Queues /\ when \in Times /\ asyncq[t] \in Queues
          /\ Order!InOrder(queue[t], when) /\ Distinct(asyncq[t])
          /\ \A e \in Elements(queue[t]) : e \notin Elements(asyncq[t])
      BY Zenon DEF TypeInv, QueueInv
    <2> QED
      BY <1>0, <2>1, Zenon DEF MergeLaw, Inside
  <1>3. /\ pc'[t] = "loop" /\ queue'[t] = q /\ asyncq'[t] = <<>>
        /\ \A u \in Threads : u # t => /\ pc'[u] = pc[u] /\ queue'[u] = queue[u]
                                       /\ asyncq'[u] = asyncq[u]
    BY <1>1, Zenon DEF TypeInv
  <1>4. /\ Elements(queue'[t]) = Inside(t) /\ Elements(asyncq'[t]) = {}
        /\ \A u \in Threads : Inside(u)' = Inside(u)
        /\ \A u \in Threads : Elements(queue[u]) \subseteq Elements(queue'[u])
    <2>1. Elements(queue'[t]) = Inside(t) /\ Elements(asyncq'[t]) = {}
      BY <1>2, <1>3, EmptyQueue, Zenon
    <2>2. Inside(t)' = Inside(t) /\ Elements(queue[t]) \subseteq Inside(t)
      BY <2>1, Zenon DEF Inside
    <2> QED
      BY <2>1, <2>2, <1>3, Zenon DEF Inside
  <1>5. at[t] = NoEvent /\ NoEvent \notin Globals /\ ~Stopped
    BY <1>1, InLoop, EventKinds, Zenon DEF AtMatches
  <1>6. \A u \in Threads : ~Winner(u) /\ ~Winner(u)'
    <2>1. \A u \in Threads : ~Winner(u)
      BY <1>1, <1>5, Zenon DEF OthersWait, Winner
    <2> QED
      BY <2>1, <1>1, <1>3, <1>5, Zenon DEF Winner
  <1>7. /\ ~Busy(t) /\ ~Busy(t)' /\ \A u \in Threads : Busy(u)' <=> Busy(u)
        /\ ~Stopped'
        /\ \A u \in Threads : Busy(u) => /\ u # t
                                         /\ at[u] \notin Globals
                                         /\ \A v \in Threads : ToDo(u, v)' <=> ToDo(u, v)
                                         /\ Started(u)' <=> Started(u)
    <2>1. ~Busy(t) /\ ~Busy(t)' /\ \A u \in Threads : Busy(u)' <=> Busy(u)
      BY <1>1, <1>3, Zenon DEF Busy
    <2>2. pc'[main] # "python" /\ pc'[main] # "exited"
      BY <1>3, <1>5, Constants, Zenon DEF Stopped
    <2>3. \A u \in Threads : Busy(u) => /\ u # t
                                        /\ \A v \in Threads : ToDo(u, v)' <=> ToDo(u, v)
                                        /\ Started(u)' <=> Started(u)
      BY <1>1, <1>3, <2>1, Zenon DEF ToDo, Started
    <2>4. \A u \in Threads : Busy(u) => at[u] \notin Globals
      BY <1>6, Zenon DEF Winner, Busy
    <2> QED
      BY <2>1, <2>2, <2>3, <2>4, Zenon DEF Stopped
  <1> HIDE DEF IInv, ThreadInv
  <1> QED
    BY <1>0, <1>1, <1>2, <1>3, <1>4, <1>5, <1>6, <1>7, Zenon DEF Merges

(* A thread merges its async queue into its queue.                         *)
LEMMA HandleAsyncInsertionsStep ==
    ASSUME MergeLaw, IInv, NEW t \in Threads, handleAsyncInsertions(t)
    PROVE  IInv'
  <1>00. Merges(t)
    BY HandleAsyncInsertionsEffect, Zenon
  <1> USE DEF IInv, ThreadInv
  <1>0. PICK q : q = Order!Merge(queue[t], when, asyncq[t])
    BY Zenon
  <1>1. /\ pc[t] = "merge" /\ pc' = [pc EXCEPT ![t] = "loop"]
        /\ queue' = [queue EXCEPT ![t] = q]
        /\ asyncq' = [asyncq EXCEPT ![t] = <<>>]
        /\ when' = when /\ curTick' = curTick /\ at' = at
        /\ job' = job /\ fresh' = fresh /\ scheduled' = scheduled /\ mutex' = mutex
    BY <1>0, Zenon DEF handleAsyncInsertions
  <1>3. /\ pc'[t] = "loop" /\ queue'[t] = q /\ asyncq'[t] = <<>>
        /\ \A u \in Threads : u # t => /\ pc'[u] = pc[u] /\ queue'[u] = queue[u]
                                       /\ asyncq'[u] = asyncq[u]
    BY <1>0, <1>00, Zenon DEF Merges
  <1>2. /\ q \in Queues /\ Order!InOrder(q, when)
        /\ Elements(q) = Inside(t)
    BY <1>3, <1>00, Zenon DEF Merges
  <1>4. /\ Elements(queue[t])' = Inside(t) /\ Elements(asyncq[t])' = {}
        /\ \A u \in Threads : Inside(u)' = Inside(u)
        /\ \A u \in Threads : Elements(queue[u]) \subseteq Elements(queue[u])'
    BY <1>00, Zenon DEF Merges
  <1>5. at[t] = NoEvent /\ NoEvent \notin Globals /\ ~Stopped
        /\ "sync" # NoEvent /\ "limit" # NoEvent
    BY <1>1, InLoop, EventKinds, Zenon DEF AtMatches
  <1>6. \A u \in Threads : ~Winner(u) /\ ~Winner(u)'
    BY <1>00, Zenon DEF Merges
  <1>7. /\ ~Busy(t) /\ ~Busy(t)' /\ \A u \in Threads : Busy(u)' <=> Busy(u)
        /\ ~Stopped' /\ pc'[main] # "python" /\ pc'[main] # "exited"
        /\ \A u \in Threads : Busy(u) => /\ u # t
                                         /\ at[u] \notin Globals
                                         /\ \A v \in Threads : ToDo(u, v)' <=> ToDo(u, v)
                                         /\ Started(u)' <=> Started(u)
    <2>1. ~Busy(t) /\ ~Busy(t)' /\ \A u \in Threads : Busy(u)' <=> Busy(u)
      BY <1>1, <1>3, Zenon DEF Busy
    <2>2. pc'[main] # "python" /\ pc'[main] # "exited"
      BY <1>3, <1>5, Constants, Zenon DEF Stopped
    <2>3. \A u \in Threads : Busy(u) => /\ u # t
                                        /\ \A v \in Threads : ToDo(u, v)' <=> ToDo(u, v)
                                        /\ Started(u)' <=> Started(u)
      BY <1>1, <1>3, <2>1, Zenon DEF ToDo, Started
    <2>4. \A u \in Threads : Busy(u) => at[u] \notin Globals
      BY <1>6, Zenon DEF Winner, Busy
    <2> QED
      BY <2>1, <2>2, <2>3, <2>4, Zenon DEF Stopped
  <1>8. TypeInv'
    <2>1. pc' \in [Threads -> States]
      BY <1>1, Zenon DEF TypeInv, States
    <2>2. queue' \in [Threads -> Queues] /\ asyncq' \in [Threads -> Queues]
      BY <1>1, <1>2, EmptyQueue, Zenon DEF TypeInv
    <2> QED
      BY <1>1, <2>1, <2>2, Zenon DEF TypeInv
  <1>9. Bounded'
    BY <1>1, <1>7, Zenon DEF Bounded
  <1>10. ASSUME NEW u \in Threads PROVE ThreadInv(u)'
    <2>1. OutTogether(u)'
      BY <1>3, <1>5, <1>7, Zenon DEF OutTogether
    <2>2. AtMatches(u)'
      BY <1>1, <1>3, <1>5, <1>7, Zenon DEF AtMatches
    <2>3. OthersWait(u)' /\ TakenOut(u)'
      BY <1>1, <1>4, <1>6, Zenon DEF OthersWait, TakenOut
    <2>4. JobMatches(u)' /\ OwnJob(u)'
      BY <1>1, <1>7, Zenon DEF JobMatches, OwnJob
    <2>5. NotThereYet(u)'
      BY <1>1, <1>4, <1>7, Zenon DEF NotThereYet
    <2>6. TimeSet(u)'
      BY <1>1, <1>7, Zenon DEF TimeSet
    <2>7. FreshInv(u)' /\ NotPast(u)'
      BY <1>1, <1>4, Zenon DEF FreshInv, NotPast
    <2>8. QueueInv(u)'
      <3>1. CASE u = t
        <4>1. \A e \in Inside(t) : e \in LocalEvents => home[e] = t
          BY Zenon DEF QueueInv
        <4> QED
          <5>1. Elements(asyncq[t])' = {} /\ Distinct(asyncq[t])'
            BY <1>3, EmptyQueue, Zenon
          <5>2. Order!InOrder(queue'[t], when)
            BY <1>2, <1>3, Zenon
          <5> QED
            BY <3>1, <4>1, <5>1, <5>2, <1>1, <1>4, Zenon DEF QueueInv
      <3>2. CASE u # t
        BY <3>2, <1>1, <1>3, <1>4 DEF QueueInv
      <3> QED
        BY <3>1, <3>2, Zenon
    <2>9. FlagInv(u)'
      <3>1. ASSUME NEW v \in Threads, NEW f, Setting(v, f, u) PROVE Setting(v, f, u)'
        BY <3>1, <1>1, <1>3, Zenon DEF Setting
      <3> QED
        BY <3>1, <1>1, <1>4, Zenon DEF FlagInv
    <2>10. LimitFlag(u)'
      BY <1>1, <1>4, Zenon DEF LimitFlag
    <2>11. SyncPlace(u)'
      BY <1>1, <1>3, <1>4, <1>5, <1>7, ZenonT(40) DEF SyncPlace
    <2>12. LimitPlace(u)'
      BY <1>1, <1>4, <1>5, Zenon DEF LimitPlace
    <2>13. SyncAgain(u)'
      <3>1. CASE u = t
        BY <3>1, <1>3, <1>4, <1>7, Zenon DEF SyncAgain
      <3>2. CASE u # t
        <4>1. at[u] # "sync" \/ pc[u] = "wait"
          BY <1>6, EventKinds, Zenon DEF Winner
        <4> QED
          BY <3>2, <4>1, <1>1, <1>3, <1>7, Zenon DEF SyncAgain, Busy
      <3> QED
        BY <3>1, <3>2, Zenon
    <2>14. Window(u)'
      BY <1>1, <1>3, <1>5, <1>7, Zenon DEF Window
    <2>15. JobTime(u)' /\ Punctual(u)'
      <3>1. CASE u = t
        BY <3>1, <1>3, <1>7, Zenon DEF JobTime, Punctual
      <3>2. CASE u # t
        BY <3>2, <1>1, <1>3, <1>6, <1>7, ZenonT(40) DEF JobTime, Punctual
      <3> QED
        BY <3>1, <3>2, Zenon
    <2>16. AsyncLater(u)'
      BY <1>1, <1>3, <1>4, <1>5, Zenon DEF AsyncLater
    <2> QED
      BY <2>1, <2>2, <2>3, <2>4, <2>5, <2>6, <2>7, <2>8, <2>9, <2>10, <2>11, <2>12,
         <2>13, <2>14, <2>15, <2>16, Zenon
  <1> QED
    BY <1>8, <1>9, <1>10, Zenon

(* What the return of a handler changes.                                   *)
Returns(t) ==
    /\ pc[t] = "handler" /\ pc'[t] = "loop" /\ at'[t] = NoEvent /\ at[t] \notin Globals
    /\ \A u \in Threads : u # t => pc'[u] = pc[u] /\ at'[u] = at[u]
    /\ queue' = queue /\ asyncq' = asyncq /\ scheduled' = scheduled /\ when' = when
    /\ curTick' = curTick /\ job' = job /\ mutex' = mutex /\ fresh' = fresh
    /\ ~Busy(t) /\ ~Busy(t)'
    /\ \A u \in Threads : /\ Busy(u)' <=> Busy(u)
                          /\ Inside(u)' = Inside(u)
                          /\ ~Winner(u) /\ ~Winner(u)'
                          /\ Busy(u) => /\ u # t
                                        /\ Started(u)' <=> Started(u)
                                        /\ \A v \in Threads : ToDo(u, v)' <=> ToDo(u, v)
    /\ ~Stopped /\ ~Stopped'

(* It has that effect.                                                     *)
LEMMA HandlerDoneEffect ==
    ASSUME IInv, NEW t \in Threads, HandlerDone(t)
    PROVE  Returns(t)
  <1> USE DEF IInv, ThreadInv
  <1>1. /\ pc[t] = "handler" /\ pc' = [pc EXCEPT ![t] = "loop"]
        /\ at' = [at EXCEPT ![t] = NoEvent]
        /\ queue' = queue /\ asyncq' = asyncq /\ scheduled' = scheduled /\ when' = when
        /\ curTick' = curTick /\ job' = job /\ mutex' = mutex /\ fresh' = fresh
    BY Zenon DEF HandlerDone
  <1>2. at[t] \notin Globals /\ NoEvent \notin Globals /\ ~Stopped
    BY <1>1, InLoop, EventKinds, Zenon DEF AtMatches
  <1>3. /\ pc'[t] = "loop" /\ at'[t] = NoEvent
        /\ \A u \in Threads : u # t => pc'[u] = pc[u] /\ at'[u] = at[u]
    BY <1>1, Zenon DEF TypeInv
  <1>4. /\ ~Busy(t) /\ ~Busy(t)' /\ \A u \in Threads : Busy(u)' <=> Busy(u)
        /\ ~Stopped'
    <2>1. ~Busy(t) /\ ~Busy(t)' /\ \A u \in Threads : Busy(u)' <=> Busy(u)
      BY <1>1, <1>3, Zenon DEF Busy
    <2>2. pc'[main] # "python" /\ pc'[main] # "exited"
      BY <1>2, <1>3, Constants, Zenon DEF Stopped
    <2> QED
      BY <2>1, <2>2, Zenon DEF Stopped
  <1>5. \A u \in Threads : ~Winner(u) /\ ~Winner(u)'
    <2>1. \A u \in Threads : ~Winner(u)
      BY <1>1, <1>2, Zenon DEF OthersWait, Winner
    <2> QED
      BY <2>1, <1>2, <1>3, Zenon DEF Winner
  <1>6. \A u \in Threads : /\ Inside(u)' = Inside(u)
                           /\ Busy(u) => /\ u # t
                                         /\ Started(u)' <=> Started(u)
                                         /\ \A v \in Threads : ToDo(u, v)' <=> ToDo(u, v)
    BY <1>1, <1>3, <1>4, Zenon DEF Inside, Started, ToDo
  <1> HIDE DEF IInv, ThreadInv
  <1> QED
    BY <1>1, <1>2, <1>3, <1>4, <1>5, <1>6, Zenon DEF Returns

(* The handler of a local event returns.                                   *)
LEMMA HandlerDoneStep == ASSUME IInv, NEW t \in Threads, HandlerDone(t) PROVE IInv'
  <1>0. Returns(t)
    BY HandlerDoneEffect, Zenon
  <1> USE DEF IInv, ThreadInv
  <1>1. /\ pc[t] = "handler" /\ pc' = [pc EXCEPT ![t] = "loop"]
        /\ at' = [at EXCEPT ![t] = NoEvent]
        /\ queue' = queue /\ asyncq' = asyncq /\ when' = when /\ curTick' = curTick
        /\ job' = job /\ fresh' = fresh /\ scheduled' = scheduled /\ mutex' = mutex
    BY Zenon DEF HandlerDone
  <1>2. /\ pc'[t] = "loop" /\ at'[t] = NoEvent
        /\ \A u \in Threads : u # t => pc'[u] = pc[u] /\ at'[u] = at[u]
    BY <1>0, Zenon DEF Returns
  <1>3. /\ at[t] \in LocalEvents /\ at[t] \notin Globals /\ NoEvent \notin AllEvents
        /\ NoEvent \notin Globals /\ NoEvent \notin fresh
        /\ "sync" \in Globals /\ "limit" \in Globals
    <2>1. at[t] \in LocalEvents
      BY <1>1, Zenon DEF AtMatches
    <2> QED
      BY <2>1, EventKinds, Zenon DEF TypeInv
  <1>4. /\ \A u \in Threads : Inside(u)' = Inside(u)
        /\ \A u \in Threads : Busy(u)' <=> Busy(u)
        /\ \A u \in Threads : Winner(u)' <=> Winner(u)
    BY <1>0, Zenon DEF Returns
  <1>5. /\ Stopped' <=> Stopped
        /\ pc'[main] = "python" <=> pc[main] = "python"
        /\ pc'[main] = "exited" <=> pc[main] = "exited"
    BY <1>1, <1>2, Constants, Zenon DEF Stopped
  <1>6. \A u \in Threads : Busy(u) => /\ u # t
                                      /\ \A v \in Threads : ToDo(u, v)' <=> ToDo(u, v)
                                      /\ Started(u)' <=> Started(u)
    BY <1>0, Zenon DEF Returns
  <1>7. TypeInv'
    <2>1. pc' \in [Threads -> States] /\ at' \in [Threads -> AllEvents \cup {NoEvent}]
      BY <1>1, Zenon DEF TypeInv, States
    <2> QED
      BY <1>1, <2>1, Zenon DEF TypeInv
  <1>8. Bounded'
    BY <1>1, <1>4, Zenon DEF Bounded
  <1>9. ASSUME NEW u \in Threads PROVE ThreadInv(u)'
    <2>1. OutTogether(u)'
      BY <1>1, <1>2, <1>5, Zenon DEF OutTogether
    <2>2. AtMatches(u)'
      BY <1>1, <1>2, <1>4, <1>6, Zenon DEF AtMatches
    <2>3. OthersWait(u)'
      <3>1. ~Winner(u)
        BY <1>1, <1>3, Zenon DEF OthersWait, Winner
      <3> QED
        BY <3>1, <1>4, Zenon DEF OthersWait
    <2>4. JobMatches(u)'
      BY <1>1, <1>2, <1>4, <1>6, Zenon DEF JobMatches
    <2>5. NotThereYet(u)'
      <3> SUFFICES ASSUME Busy(u), NEW v \in Threads, ToDo(u, v)
                   PROVE  /\ job[u].event \notin Inside(v)
                          /\ at[u] \in LocalEvents /\ job[u].event \in Globals
                                => at'[v] # job[u].event
        BY <1>1, <1>2, <1>4, <1>6, Zenon DEF NotThereYet
      <3> QED
        BY <1>2, <1>3, Zenon DEF NotThereYet
    <2>6. TimeSet(u)' /\ OwnJob(u)'
      BY <1>1, <1>4, <1>6, Zenon DEF TimeSet, OwnJob
    <2>7. FreshInv(u)'
      BY <1>1, <1>2, <1>3, <1>4, Zenon DEF FreshInv
    <2>8. QueueInv(u)'
      BY <1>1, <1>4, Zenon DEF QueueInv
    <2>9. FlagInv(u)'
      <3>1. ASSUME NEW v \in Threads, NEW f, Setting(v, f, u) PROVE Setting(v, f, u)'
        BY <3>1, <1>1, <1>2, Zenon DEF Setting
      <3> QED
        BY <3>1, <1>1, <1>4, Zenon DEF FlagInv
    <2>10. LimitFlag(u)' /\ NotPast(u)'
      BY <1>1, <1>4, Zenon DEF LimitFlag, NotPast
    <2>11. SyncPlace(u)'
      BY <1>1, <1>2, <1>3, <1>4, <1>5, Zenon DEF SyncPlace
    <2>12. LimitPlace(u)'
      BY <1>1, <1>2, <1>3, <1>5, Zenon DEF LimitPlace
    <2>13. SyncAgain(u)'
      BY <1>1, <1>2, <1>3, <1>4, <1>6, Zenon DEF SyncAgain
    <2>14. TakenOut(u)'
      <3>1. (\A v \in Threads : Winner(v)' => pc'[v] = "winner")
              => \A v \in Threads : Winner(v) => pc[v] = "winner"
        BY <1>2, <1>3, <1>4, Zenon DEF Winner
      <3> QED
        BY <3>1, <1>2, <1>3, <1>4, Zenon DEF TakenOut
    <2>15. Window(u)'
      BY <1>1, <1>2, <1>5, Zenon DEF Window
    <2>16. JobTime(u)'
      BY <1>1, <1>2, <1>4, <1>6, Zenon DEF JobTime
    <2>17. Punctual(u)'
      BY <1>1, <1>2, <1>4, Zenon DEF Punctual
    <2>18. AsyncLater(u)'
      BY <1>1, <1>2, <1>3, <1>5, Zenon DEF AsyncLater
    <2> QED
      BY <2>1, <2>2, <2>3, <2>4, <2>5, <2>6, <2>7, <2>8, <2>9, <2>10, <2>11, <2>12, <2>13,
         <2>14, <2>15, <2>16, <2>17, <2>18, Zenon
  <1> QED
    BY <1>7, <1>8, <1>9, Zenon

(* e may be put into the queues of the threads S, for the time w.          *)
MayPut(e, w, S) ==
    /\ e # "sync" /\ e # "limit"
    /\ w \in 0 .. MaxTick
    /\ \A u \in Threads : /\ e \notin Inside(u)
                          /\ Busy(u) => job[u].event # e
                          /\ at[u] \in Globals => at[u] # e
    /\ \A u \in S : u \in Threads /\ curTick[u] <= w /\ (e \in LocalEvents => home[e] = u)

(* It is put there.                                                        *)
Puts(e, w, S) ==
    /\ when' = [when EXCEPT ![e] = w]
    /\ queue' = [u \in Threads |-> IF u \in S THEN Order!Insert(queue[u], when', e)
                                            ELSE queue[u]]
    /\ scheduled' = [u \in Threads |-> IF u \in S THEN scheduled[u] \cup {e}
                                                ELSE scheduled[u]]
    /\ fresh' \subseteq fresh /\ e \notin fresh'
    /\ UNCHANGED <<pc, asyncq, curTick, at, job, mutex>>

(* What an insertion of e, for the time w, into the queues of S changes.   *)
PutsAside(e, w, S) ==
    /\ pc' = pc /\ asyncq' = asyncq /\ curTick' = curTick /\ at' = at
    /\ job' = job /\ mutex' = mutex /\ fresh' \subseteq fresh /\ e \notin fresh'
    /\ when' \in Times /\ when'[e] = w /\ \A f \in AllEvents : f # e => when'[f] = when[f]
    /\ when'["sync"] = when["sync"] /\ e # "sync" /\ e # "limit"
    /\ \A u \in Threads : u \in S => /\ queue'[u] = Order!Insert(queue[u], when', e)
                                     /\ scheduled'[u] = scheduled[u] \cup {e}
                                     /\ Elements(queue'[u]) = Elements(queue[u]) \cup {e}
                                     /\ Inside(u)' = Inside(u) \cup {e}
    /\ \A u \in Threads : u \notin S => /\ queue'[u] = queue[u] /\ scheduled'[u] = scheduled[u]
                                        /\ Inside(u)' = Inside(u)
    /\ \A u \in Threads : /\ Busy(u)' <=> Busy(u)
                          /\ Winner(u)' <=> Winner(u)
                          /\ Started(u)' <=> Started(u)
                          /\ \A v \in Threads : ToDo(u, v)' <=> ToDo(u, v)
    /\ Stopped' <=> Stopped
    /\ \A u \in Threads : \A f \in Inside(u) : f # e /\ when'[f] = when[f]
    /\ \A u \in Threads : queue'[u] \in Queues /\ Order!InOrder(queue'[u], when')
    /\ \A u \in Threads : at[u] \in Globals => at[u] # e /\ when'[at[u]] = when[at[u]]
    /\ \A u \in Threads : Busy(u) => job[u].event # e

(* schedule() on the own queue, or by the script, has that effect.         *)
LEMMA PutEffect ==
    ASSUME InsertLaw, TimesLaw, IInv, NEW e \in AllEvents, NEW w, NEW S,
           MayPut(e, w, S), Puts(e, w, S)
    PROVE  PutsAside(e, w, S)
  <1> USE DEF IInv, ThreadInv
  <1>1. /\ pc' = pc /\ asyncq' = asyncq /\ curTick' = curTick /\ at' = at
        /\ job' = job /\ mutex' = mutex /\ fresh' \subseteq fresh /\ e \notin fresh'
    BY Zenon DEF Puts
  <1>2. /\ when'[e] = w /\ \A f \in AllEvents : f # e => when'[f] = when[f]
        /\ \A u \in Threads : u \in S => /\ queue'[u] = Order!Insert(queue[u], when', e)
                                         /\ scheduled'[u] = scheduled[u] \cup {e}
        /\ \A u \in Threads : u \notin S => queue'[u] = queue[u] /\ scheduled'[u] = scheduled[u]
    <2>1. when'[e] = w /\ \A f \in AllEvents : f # e => when'[f] = when[f]
      BY Zenon DEF Puts, TypeInv, Times
    <2> QED
      BY <2>1, Zenon DEF Puts
  <1>3. /\ \A u \in Threads : Busy(u)' <=> Busy(u)
        /\ \A u \in Threads : Winner(u)' <=> Winner(u)
        /\ \A u \in Threads : Started(u)' <=> Started(u)
        /\ \A u, v \in Threads : ToDo(u, v)' <=> ToDo(u, v)
        /\ Stopped' <=> Stopped
    BY <1>1, Zenon DEF Busy, Winner, Started, ToDo, Stopped
  <1>4. when' \in Times
    <2>1. w \in 0 .. MaxTick + simQuantum
      BY Constants DEF MayPut
    <2> QED
      BY <2>1, Zenon DEF Puts, TypeInv, Times
  <1>5. ASSUME NEW u \in Threads PROVE \A f \in Inside(u) : f # e /\ when'[f] = when[f]
    <2>1. Inside(u) \subseteq AllEvents
      BY QueueElements, Zenon DEF TypeInv, Inside
    <2> QED
      BY <2>1, <1>2, Zenon DEF MayPut
  <1>6. ASSUME NEW u \in Threads
        PROVE  /\ queue'[u] \in Queues /\ Order!InOrder(queue'[u], when')
               /\ u \in S => Elements(queue'[u]) = Elements(queue[u]) \cup {e}
    <2>1. queue[u] \in Queues /\ when \in Times /\ Order!InOrder(queue[u], when)
      BY Zenon DEF TypeInv, QueueInv
    <2>2. \A f \in Elements(queue[u]) : f # e /\ when'[f] = when[f]
      BY <1>5, Zenon DEF Inside
    <2>3. Order!InOrder(queue[u], when')
      BY <2>1, <2>2, <1>4, Zenon DEF TimesLaw
    <2>4. ASSUME u \in S
          PROVE  /\ queue'[u] \in Queues /\ Order!InOrder(queue'[u], when')
                 /\ Elements(queue'[u]) = Elements(queue[u]) \cup {e}
      <3>1. e \notin Elements(queue[u]) /\ queue'[u] = Order!Insert(queue[u], when', e)
        BY <2>2, <2>4, <1>2, Zenon
      <3>2. /\ Order!Insert(queue[u], when', e) \in Queues
            /\ Order!InOrder(Order!Insert(queue[u], when', e), when')
            /\ Elements(Order!Insert(queue[u], when', e)) = Elements(queue[u]) \cup {e}
        BY <2>1, <2>3, <3>1, <1>4, Zenon DEF InsertLaw
      <3> QED
        BY <3>1, <3>2, Zenon
    <2>6. CASE u \in S
      BY <2>4, <2>6, Zenon
    <2>7. CASE u \notin S
      BY <2>1, <2>3, <2>7, <1>2, Zenon
    <2> QED
      BY <2>6, <2>7, Zenon
  <1>7. ASSUME NEW u \in Threads
        PROVE  /\ u \in S => Inside(u)' = Inside(u) \cup {e}
               /\ u \notin S => Inside(u)' = Inside(u)
    BY <1>1, <1>2, <1>6, Zenon DEF Inside
  <1>8. /\ when'["sync"] = when["sync"] /\ e # "sync" /\ e # "limit"
        /\ \A u \in Threads : at[u] \in Globals => at[u] # e /\ when'[at[u]] = when[at[u]]
        /\ \A u \in Threads : Busy(u) => job[u].event # e
    BY <1>2, EventKinds, Zenon DEF MayPut
  <1> HIDE DEF IInv, ThreadInv
  <1> QED
    BY <1>1, <1>2, <1>3, <1>4, <1>5, <1>6, <1>7, <1>8, Zenon DEF PutsAside

(* An event goes straight into the queues of S.                            *)
LEMMA PutStep ==
    ASSUME InsertLaw, TimesLaw, IInv, NEW e \in AllEvents, NEW w, NEW S,
           MayPut(e, w, S), Puts(e, w, S)
    PROVE  IInv'
  <1>0. PutsAside(e, w, S)
    BY PutEffect, Zenon
  <1> USE DEF IInv, ThreadInv
  <1>1. /\ pc' = pc /\ asyncq' = asyncq /\ curTick' = curTick /\ at' = at
        /\ job' = job /\ mutex' = mutex /\ fresh' \subseteq fresh /\ e \notin fresh'
    BY <1>0, Zenon DEF PutsAside
  <1>2. /\ when'[e] = w /\ \A f \in AllEvents : f # e => when'[f] = when[f]
        /\ \A u \in Threads : u \in S => /\ queue'[u] = Order!Insert(queue[u], when', e)
                                         /\ scheduled'[u] = scheduled[u] \cup {e}
        /\ \A u \in Threads : u \notin S => queue'[u] = queue[u] /\ scheduled'[u] = scheduled[u]
    BY <1>0, Zenon DEF PutsAside
  <1>3. /\ \A u \in Threads : Busy(u)' <=> Busy(u)
        /\ \A u \in Threads : Winner(u)' <=> Winner(u)
        /\ \A u \in Threads : Started(u)' <=> Started(u)
        /\ \A u, v \in Threads : ToDo(u, v)' <=> ToDo(u, v)
        /\ Stopped' <=> Stopped
    BY <1>0, Zenon DEF PutsAside
  <1>4. when' \in Times
    BY <1>0, Zenon DEF PutsAside
  <1>5. ASSUME NEW u \in Threads PROVE \A f \in Inside(u) : f # e /\ when'[f] = when[f]
    BY <1>0, Zenon DEF PutsAside
  <1>6. ASSUME NEW u \in Threads
        PROVE  /\ queue'[u] \in Queues /\ Order!InOrder(queue'[u], when')
               /\ u \in S => Elements(queue[u])' = Elements(queue[u]) \cup {e}
               /\ u \notin S => Elements(queue[u])' = Elements(queue[u])
               /\ e \notin Elements(asyncq[u])
    <2>1. e \notin Elements(asyncq[u])
      BY <1>5, Zenon DEF Inside
    <2> QED
      BY <1>0, <2>1, Zenon DEF PutsAside
  <1>7. ASSUME NEW u \in Threads
        PROVE  /\ Inside(u)' \subseteq Inside(u) \cup {e}
               /\ Inside(u) \subseteq Inside(u)'
               /\ u \notin S => Inside(u)' = Inside(u)
               /\ Elements(queue[u]) \subseteq Elements(queue[u])'
    BY <1>1, <1>6, Zenon DEF Inside
  <1>8. /\ when'["sync"] = when["sync"] /\ e # "sync" /\ e # "limit"
        /\ \A u \in Threads : at[u] \in Globals => at[u] # e /\ when'[at[u]] = when[at[u]]
        /\ \A u \in Threads : Busy(u) => job[u].event # e
    BY <1>0, Zenon DEF PutsAside
  <1>9. TypeInv'
    <2>1. queue' \in [Threads -> Queues]
      <3>1. queue' = [u \in Threads |-> queue'[u]]
        BY Zenon DEF Puts
      <3> QED
        BY <3>1, <1>6, Zenon
    <2>2. scheduled' \in [Threads -> SUBSET AllEvents]
      BY Zenon DEF Puts, TypeInv
    <2> QED
      BY <1>1, <1>4, <2>1, <2>2, Zenon DEF TypeInv
  <1>10. Bounded'
    <2>1. w <= MaxTick
      BY Constants DEF MayPut
    <2> QED
      BY <2>1, <1>1, <1>2, <1>3, Zenon DEF Bounded
  <1>11. ASSUME NEW u \in Threads PROVE ThreadInv(u)'
    <2>1. OutTogether(u)' /\ AtMatches(u)' /\ OthersWait(u)'
      BY <1>1, <1>3, Zenon DEF OutTogether, AtMatches, OthersWait
    <2>2. JobMatches(u)' /\ OwnJob(u)'
      BY <1>1, <1>3, Zenon DEF JobMatches, OwnJob
    <2>3. NotThereYet(u)'
      <3> SUFFICES ASSUME Busy(u), NEW v \in Threads, ToDo(u, v)
                   PROVE  /\ job[u].event \notin Inside(v)'
                          /\ at[u] \in LocalEvents /\ job[u].event \in Globals
                                => at[v] # job[u].event
        BY <1>1, <1>3, Zenon DEF NotThereYet
      <3>1. job[u].event \notin Inside(v) /\ job[u].event # e
        BY <1>8, Zenon DEF NotThereYet
      <3>2. job[u].event \notin Inside(v)'
        BY <3>1, <1>7, Zenon
      <3> QED
        BY <3>2, Zenon DEF NotThereYet
    <2>4. TimeSet(u)'
      BY <1>1, <1>2, <1>3, <1>8, Zenon DEF TimeSet, JobMatches
    <2>5. FreshInv(u)'
      BY <1>1, <1>7, Zenon DEF FreshInv
    <2>6. QueueInv(u)'
      <3>1. \A f \in Inside(u)' : f \in LocalEvents => home[f] = u
        <4>1. u \in S /\ e \in LocalEvents => home[e] = u
          BY Zenon DEF MayPut
        <4>2. \A f \in Inside(u) : f \in LocalEvents => home[f] = u
          BY Zenon DEF QueueInv
        <4> QED
          BY <4>1, <4>2, <1>7, Zenon
      <3>2. \A f \in Elements(queue[u])' : f \notin Elements(asyncq[u])
        <4>1. Elements(queue[u])' \subseteq Elements(queue[u]) \cup {e}
          BY <1>6, Zenon
        <4>2. e \notin Elements(asyncq[u])
          BY <1>6, Zenon
        <4> QED
          BY <4>1, <4>2, Zenon DEF QueueInv
      <3> QED
        BY <3>1, <3>2, <1>1, <1>6, Zenon DEF QueueInv
    <2>7. FlagInv(u)'
      <3>1. ASSUME NEW v \in Threads, NEW f, Setting(v, f, u) PROVE Setting(v, f, u)'
        BY <3>1, <1>1, Zenon DEF Setting
      <3>2. ASSUME NEW f \in Inside(u)
            PROVE  f \in scheduled'[u] \/ \E v \in Threads : Setting(v, f, u)'
        BY <3>1, <1>2, Zenon DEF FlagInv
      <3> QED
        BY <3>2, <1>2, <1>7, Zenon DEF FlagInv
    <2>8. LimitFlag(u)'
      <3>1. "limit" \in scheduled'[u] => "limit" \in scheduled[u]
        <4>1. scheduled'[u] \subseteq scheduled[u] \cup {e}
          BY <1>2, Zenon
        <4> QED
          BY <4>1, <1>8, Zenon
      <3> QED
        BY <3>1, <1>7, Zenon DEF LimitFlag
    <2>9. SyncPlace(u)'
      <3>1. "sync" \in Inside(u)' <=> "sync" \in Inside(u)
        BY <1>7, <1>8, Zenon
      <3> QED
        BY <3>1, <1>1, <1>3, <1>7, Zenon DEF SyncPlace
    <2>10. LimitPlace(u)'
      BY <1>1, <1>3, <1>7, Zenon DEF LimitPlace
    <2>11. SyncAgain(u)'
      BY <1>1, <1>3, Zenon DEF SyncAgain
    <2>12. TakenOut(u)'
      BY <1>1, <1>3, <1>7, <1>8, Zenon DEF TakenOut
    <2>13. Window(u)'
      BY <1>1, <1>3, <1>8, Zenon DEF Window
    <2>14. JobTime(u)'
      BY <1>1, <1>3, <1>8, Zenon DEF JobTime
    <2>15. Punctual(u)'
      BY <1>1, <1>3, <1>8, Zenon DEF Punctual, AtMatches
    <2>16. NotPast(u)'
      <3>1. ASSUME NEW f \in Inside(u)' PROVE when'[f] >= curTick[u]
        <4>1. CASE f \in Inside(u)
          BY <4>1, <1>5, Zenon DEF NotPast
        <4>2. CASE u \in S /\ f = e
          <5>1. curTick[u] <= w /\ w \in Int
            BY <4>2 DEF MayPut
          <5>2. curTick[u] \in Int
            BY Numbers, Zenon
          <5> QED
            BY <4>2, <5>1, <5>2, <1>2, Zenon
        <4>3. f \in Inside(u) \/ (u \in S /\ f = e)
          BY <1>7, Zenon
        <4> QED
          BY <4>1, <4>2, <4>3, Zenon
      <3> QED
        BY <3>1, <1>1, Zenon DEF NotPast
    <2>17. AsyncLater(u)'
      <3>1. \A f \in Elements(asyncq[u]) : when'[f] = when[f]
        BY <1>5, Zenon DEF Inside
      <3> QED
        BY <3>1, <1>1, <1>3, <1>8, Zenon DEF AsyncLater
    <2> QED
      BY <2>1, <2>2, <2>3, <2>4, <2>5, <2>6, <2>7, <2>8, <2>9, <2>10, <2>11, <2>12,
         <2>13, <2>14, <2>15, <2>16, <2>17, Zenon
  <1> QED
    BY <1>9, <1>10, <1>11, Zenon

(* A local event without its flag, that no other thread schedules now, is  *)
(* in no queue.                                                            *)
LEMMA LocalOut ==
    ASSUME IInv, NEW e \in LocalEvents, e \notin scheduled[home[e]],
           \A u \in Threads : Busy(u) => job[u].event # e
    PROVE  \A u \in Threads : e \notin Inside(u)
  <1> USE DEF IInv, ThreadInv
  <1> SUFFICES ASSUME NEW u \in Threads, e \in Inside(u) PROVE FALSE
    BY Zenon
  <1>1. u = home[e]
    BY Zenon DEF QueueInv
  <1>2. PICK v \in Threads : Setting(v, e, u)
    BY <1>1, Zenon DEF FlagInv
  <1> QED
    BY <1>2, Zenon DEF Setting, Busy

(* A handler schedules an event of its own queue.                          *)
LEMMA HandlerOwnPuts ==
    ASSUME IInv, NEW t \in Threads, NEW e \in LocalEvents,
           NEW d \in OwnDelays, HandlerOwn(t, e, d)
    PROVE  /\ e \in AllEvents /\ MayPut(e, curTick[t] + d, {t})
           /\ Puts(e, curTick[t] + d, {t})
  <1> USE DEF IInv, ThreadInv
  <1>0. PICK w : w = curTick[t] + d
    BY Zenon
  <1>1. /\ pc[t] = "handler" /\ user[e] = t /\ home[e] = t /\ e \notin scheduled[home[e]]
        /\ w <= MaxTick
        /\ when' = [when EXCEPT ![e] = w]
        /\ queue' = [queue EXCEPT ![t] = Order!Insert(@, when', e)]
        /\ scheduled' = [scheduled EXCEPT ![t] = @ \cup {e}]
        /\ UNCHANGED <<pc, asyncq, curTick, at, job, mutex, fresh>>
    BY <1>0, Zenon DEF HandlerOwn
  <1>2. e \in AllEvents /\ e \notin Globals /\ e # "sync" /\ e # "limit" /\ e \notin fresh
    BY EventKinds, Zenon DEF TypeInv
  <1>3. ASSUME NEW u \in Threads, Busy(u) PROVE job[u].event # e
    BY <1>1, <1>3, Zenon DEF JobMatches
  <1>4. \A u \in Threads : e \notin Inside(u)
    BY <1>1, <1>3, LocalOut, Zenon
  <1>5. w \in 0 .. MaxTick /\ curTick[t] <= w
    <2>1. curTick[t] \in Int /\ 0 <= curTick[t] /\ MaxTick \in Int
      BY Numbers, Constants, Zenon
    <2>2. d \in Int /\ 0 <= d
      BY SimLoopAssumption
    <2> QED
      BY <1>0, <1>1, <2>1, <2>2
  <1>6. MayPut(e, w, {t})
    BY <1>1, <1>2, <1>3, <1>4, <1>5, Zenon DEF MayPut
  <1>7. Puts(e, w, {t})
    <2>1. queue' = [u \in Threads |-> IF u \in {t} THEN Order!Insert(queue[u], when', e)
                                                   ELSE queue[u]]
      BY <1>1, Zenon DEF TypeInv
    <2>2. scheduled' = [u \in Threads |-> IF u \in {t} THEN scheduled[u] \cup {e}
                                                       ELSE scheduled[u]]
      BY <1>1, Zenon DEF TypeInv
    <2> QED
      BY <1>1, <1>2, <2>1, <2>2, Zenon DEF Puts
  <1> QED
    BY <1>0, <1>2, <1>6, <1>7, Zenon

(* A handler schedules an event of its own queue.                          *)
LEMMA HandlerOwnStep ==
    ASSUME InsertLaw, TimesLaw, IInv, NEW t \in Threads, NEW e \in LocalEvents,
           NEW d \in OwnDelays, HandlerOwn(t, e, d)
    PROVE  IInv'
  BY HandlerOwnPuts, PutStep, Zenon

(* Between two calls of simulate() every thread is idle.                   *)
LEMMA AllIdle ==
    ASSUME IInv, Stopped
    PROVE  \A u \in Threads : /\ pc[u] \in {"python", "exited", "idle"}
                              /\ ~Busy(u) /\ job[u] = NoJob
                              /\ at[u] = NoEvent /\ at[u] \notin Globals
                              /\ curTick[u] = curTick[main]
  <1> USE DEF IInv, ThreadInv
  <1> SUFFICES ASSUME NEW u \in Threads
               PROVE  /\ pc[u] \in {"python", "exited", "idle"}
                      /\ ~Busy(u) /\ job[u] = NoJob
                      /\ at[u] = NoEvent /\ at[u] \notin Globals
                      /\ curTick[u] = curTick[main]
    BY Zenon
  <1>1. pc[u] \in {"python", "exited", "idle"}
    BY Zenon DEF OutTogether, Stopped
  <1>2. ~Busy(u) /\ at[u] = NoEvent /\ curTick[u] = curTick[main]
    BY <1>1, Zenon DEF Busy, AtMatches, Window
  <1> QED
    BY <1>1, <1>2, EventKinds, Zenon DEF JobMatches

(* The script schedules a local event.                                     *)
LEMMA PySchedulePuts ==
    ASSUME IInv, NEW w \in 0 .. MaxTick, NEW e \in LocalEvents,
           PySchedule(e, w)
    PROVE  e \in AllEvents /\ MayPut(e, w, Targets(e)) /\ Puts(e, w, Targets(e))
  <1> USE DEF IInv, ThreadInv
  <1>1. /\ pc[main] = "python" /\ e \notin scheduled[home[e]] /\ w >= curTick[home[e]]
        /\ when' = [when EXCEPT ![e] = w]
        /\ queue' = ScheduleSerial(queue, when', e)
        /\ SetScheduled(e)
        /\ UNCHANGED <<pc, asyncq, curTick, at, job, mutex, fresh>>
    BY Zenon DEF PySchedule
  <1>2. /\ e \in AllEvents /\ e \notin Globals /\ e # "sync" /\ e # "limit" /\ e \notin fresh
        /\ home[e] \in Threads /\ Targets(e) = {home[e]}
    BY EventKinds, SimLoopAssumption, Zenon DEF TypeInv, Targets
  <1>3. \A u \in Threads : ~Busy(u) /\ at[u] \notin Globals
    BY <1>1, AllIdle, Zenon DEF Stopped
  <1>4. \A u \in Threads : e \notin Inside(u)
    BY <1>1, <1>3, LocalOut, Zenon
  <1>5. curTick[home[e]] <= w
    <2>1. curTick[home[e]] \in Int
      BY <1>2, Numbers, Zenon
    <2> QED
      BY <1>1, <2>1, Zenon
  <1>6. MayPut(e, w, Targets(e))
    BY <1>2, <1>3, <1>4, <1>5, Zenon DEF MayPut
  <1>7. Puts(e, w, Targets(e))
    BY <1>1, <1>2, Zenon DEF Puts, ScheduleSerial, SetScheduled
  <1> QED
    BY <1>2, <1>6, <1>7, Zenon

(* The script schedules a local event.                                     *)
LEMMA PyScheduleStep ==
    ASSUME InsertLaw, TimesLaw, IInv, NEW w \in 0 .. MaxTick, NEW e \in LocalEvents,
           PySchedule(e, w)
    PROVE  IInv'
  BY PySchedulePuts, PutStep, Zenon

(* The script schedules a statistics event.                                *)
LEMMA PySchedStatEventPuts ==
    ASSUME IInv, NEW w \in 0 .. MaxTick, NEW g \in Stats,
           PySchedStatEvent(g, w)
    PROVE  /\ g \in AllEvents /\ MayPut(g, w + simQuantum, Threads)
           /\ Puts(g, w + simQuantum, Threads)
  <1> USE DEF IInv, ThreadInv
  <1>0. PICK x : x = w + simQuantum
    BY Zenon
  <1>1. /\ pc[main] = "python" /\ g \in fresh /\ w >= curTick[main] /\ x <= MaxTick
        /\ when' = [when EXCEPT ![g] = x]
        /\ queue' = ScheduleSerial(queue, when', g)
        /\ SetScheduled(g) /\ fresh' = fresh \ {g}
        /\ UNCHANGED <<pc, asyncq, curTick, at, job, mutex>>
    BY <1>0, Zenon DEF PySchedStatEvent
  <1>2. /\ g \in AllEvents /\ g \in Globals /\ g # "sync" /\ g # "limit"
        /\ g \notin LocalEvents /\ Targets(g) = Threads
    BY EventKinds, Zenon DEF Targets
  <1>3. \A u \in Threads : ~Busy(u) /\ at[u] \notin Globals /\ curTick[u] = curTick[main]
    BY <1>1, AllIdle, Zenon DEF Stopped
  <1>4. \A u \in Threads : g \notin Inside(u)
    BY <1>1, Zenon DEF FreshInv
  <1>5. x \in 0 .. MaxTick /\ \A u \in Threads : curTick[u] <= x
    <2>1. x \in 0 .. MaxTick /\ curTick[main] <= x
      <3>1. curTick[main] \in Int /\ w \in Int /\ 0 <= w
        BY Numbers, Constants
      <3> QED
        BY <1>0, <1>1, <3>1, Constants
    <2> QED
      BY <1>3, <2>1, Zenon
  <1>6. MayPut(g, x, Targets(g))
    BY <1>2, <1>3, <1>4, <1>5, Zenon DEF MayPut
  <1>7. Puts(g, x, Targets(g))
    BY <1>1, <1>2, Zenon DEF Puts, ScheduleSerial, SetScheduled
  <1> QED
    BY <1>0, <1>2, <1>6, <1>7, Zenon

(* The script schedules a statistics event.                                *)
LEMMA PySchedStatEventStep ==
    ASSUME InsertLaw, TimesLaw, IInv, NEW w \in 0 .. MaxTick, NEW g \in Stats,
           PySchedStatEvent(g, w)
    PROVE  IInv'
  BY PySchedStatEventPuts, PutStep, Zenon

(* The limit event leaves the queue of u and goes in again, and the        *)
(* quantum event goes in.                                                  *)
Moves(u) ==
    \E p : /\ \/ p = queue[u] /\ "limit" \notin Elements(queue[u])
              \/ p = Order!Without(queue[u], "limit") /\ "limit" \in Elements(queue[u])
           /\ p \in Queues /\ Order!InOrder(p, when')
           /\ Elements(p) = Elements(queue[u]) \ {"limit"}
           /\ queue'[u] = Order!Insert(Order!Insert(p, when', "limit"), when', "sync")

(* What simulate() changes: the limit event moves, the quantum event comes *)
(* into the queues, and all threads enter the loop.                        *)
Starts ==
    /\ pc[main] = "python" /\ Stopped /\ ~Stopped'
    /\ asyncq' = asyncq /\ curTick' = curTick /\ at' = at /\ job' = job
    /\ mutex' = mutex /\ fresh' = fresh
    /\ when' \in Times
    /\ \A f \in AllEvents : f # "limit" /\ f # "sync" => when'[f] = when[f]
    /\ \A u \in Threads :
          /\ ~Busy(u) /\ ~Busy(u)' /\ pc'[u] = "merge"
          /\ at[u] = NoEvent /\ at[u] \notin Globals
          /\ scheduled'[u] = scheduled[u] \cup {"limit", "sync"}
          /\ when'["sync"] = curTick[u] + simQuantum
          /\ "sync" \notin Inside(u)
          /\ Inside(u)' = Inside(u) \cup {"limit", "sync"}
          /\ queue'[u] \in Queues /\ Order!InOrder(queue'[u], when')
          /\ Elements(queue[u])' = Elements(queue[u]) \cup {"limit", "sync"}
          /\ Moves(u)
    /\ AvoidTies => NoTie("limit", when'["limit"])

(* simulate() has that effect.                                             *)
LEMMA SimulateEffect ==
    ASSUME InsertLaw, WithoutLaw, TimesLaw, IInv, NEW n \in 0 .. MaxTick, simulate(n)
    PROVE  Starts
  <1> USE DEF IInv, ThreadInv
  <1>0. PICK x, y : /\ x = IF n < MaxTick - curTick[main] THEN curTick[main] + n ELSE MaxTick
                    /\ y = curTick[main] + simQuantum
    BY Zenon
  <1>1. /\ pc[main] = "python"
        /\ when' = [when EXCEPT !["limit"] = x, !["sync"] = y]
        /\ queue' = ScheduleSerial(
                        ScheduleSerial(DescheduleSerial(queue, "limit"), when', "limit"),
                        when', "sync")
        /\ scheduled' = [u \in Threads |-> scheduled[u] \cup {"limit", "sync"}]
        /\ pc' = [u \in Threads |-> "merge"]
        /\ asyncq' = asyncq /\ curTick' = curTick /\ at' = at /\ job' = job
        /\ mutex' = mutex /\ fresh' = fresh
        /\ AvoidTies => NoTie("limit", x)
    BY <1>0, Zenon DEF simulate
  <1>2. Stopped /\ \A u \in Threads : /\ ~Busy(u) /\ job[u] = NoJob
                                      /\ at[u] = NoEvent /\ at[u] \notin Globals
                                      /\ curTick[u] = curTick[main]
    BY <1>1, AllIdle, Zenon DEF Stopped
  <1>3. /\ x \in Int /\ x <= MaxTick /\ x \in 0 .. MaxTick + simQuantum
        /\ y \in Int /\ y \in 0 .. MaxTick + simQuantum
        /\ \A u \in Threads : y = curTick[u] + simQuantum
        /\ \A u \in Threads : x >= curTick[u] /\ y >= curTick[u]
    <2>1. /\ curTick[main] \in Int /\ 0 <= curTick[main] /\ curTick[main] <= MaxTick
          /\ n \in Int /\ 0 <= n
      BY Numbers, Constants
    <2>2. /\ x \in Int /\ x <= MaxTick /\ x \in 0 .. MaxTick + simQuantum
          /\ y \in Int /\ y \in 0 .. MaxTick + simQuantum
          /\ x >= curTick[main] /\ y >= curTick[main]
      BY <1>0, <2>1, Constants
    <2> QED
      BY <1>0, <1>2, <2>2, Zenon
  <1>4. /\ when'["limit"] = x /\ when'["sync"] = y
        /\ \A f \in AllEvents : f # "limit" /\ f # "sync" => when'[f] = when[f]
        /\ when' \in Times
    <2>1. "limit" \in AllEvents /\ "sync" \in AllEvents /\ "sync" # "limit"
      BY EventKinds, Zenon
    <2> QED
      BY <1>1, <1>3, <2>1, Zenon DEF TypeInv, Times
  <1>5. ASSUME NEW u \in Threads
        PROVE  /\ pc'[u] = "merge" /\ ~Busy(u)' /\ "sync" \notin Inside(u)
               /\ scheduled'[u] = scheduled[u] \cup {"limit", "sync"}
               /\ "limit" \in scheduled[u] <=> "limit" \in Elements(queue[u])
    <2>1. pc'[u] = "merge" /\ scheduled'[u] = scheduled[u] \cup {"limit", "sync"}
      BY <1>1, Zenon
    <2>2. "sync" \notin Inside(u)
      BY <1>1, Zenon DEF SyncPlace
    <2>3. ASSUME NEW v \in Threads, NEW f PROVE ~Setting(v, f, u)
      BY <1>2, Zenon DEF Setting, Busy
    <2>4. "limit" \in scheduled[u] <=> "limit" \in Elements(queue[u])
      BY <2>3, Zenon DEF LimitFlag, FlagInv, Inside
    <2>5. ~Busy(u)'
      BY <2>1, Zenon DEF Busy
    <2> QED
      BY <2>1, <2>2, <2>4, <2>5, Zenon
  <1>6. ASSUME NEW u \in Threads
        PROVE  /\ queue'[u] \in Queues /\ Order!InOrder(queue'[u], when')
               /\ Elements(queue[u])' = Elements(queue[u]) \cup {"limit", "sync"}
               /\ Moves(u)
    <2>0. PICK p : p = IF "limit" \in scheduled[u] THEN Order!Without(queue[u], "limit")
                                                  ELSE queue[u]
      BY Zenon
    <2>1. queue'[u] = Order!Insert(Order!Insert(p, when', "limit"), when', "sync")
      <3>1. u \in Targets("limit") /\ u \in Targets("sync")
        BY EventKinds, Zenon DEF Targets
      <3> QED
        BY <1>1, <2>0, <3>1, Zenon DEF ScheduleSerial, DescheduleSerial
    <2>2. queue[u] \in Queues /\ when \in Times /\ Order!InOrder(queue[u], when)
      BY Zenon DEF TypeInv, QueueInv
    <2>3. /\ p \in Queues /\ Order!InOrder(p, when)
          /\ Elements(p) = Elements(queue[u]) \ {"limit"}
      <3>1. CASE "limit" \in scheduled[u]
        BY <3>1, <2>0, <2>2, <1>5, Zenon DEF WithoutLaw
      <3>2. CASE "limit" \notin scheduled[u]
        BY <3>2, <2>0, <2>2, <1>5, Zenon
      <3> QED
        BY <3>1, <3>2, Zenon
    <2>4. "sync" \notin Elements(p) /\ "limit" \notin Elements(p)
      BY <2>3, <1>5, Zenon DEF Inside
    <2>5. Order!InOrder(p, when')
      <3>1. Elements(p) \subseteq AllEvents
        BY <2>3, QueueElements, Zenon
      <3>2. \A f \in Elements(p) : when'[f] = when[f]
        BY <3>1, <2>4, <1>4, Zenon
      <3> QED
        BY <3>2, <2>2, <2>3, <1>4, Zenon DEF TimesLaw
    <2>6. PICK r : r = Order!Insert(p, when', "limit")
      BY Zenon
    <2>7. r \in Queues /\ Order!InOrder(r, when') /\ Elements(r) = Elements(p) \cup {"limit"}
      BY <2>3, <2>4, <2>5, <2>6, <1>4, EventKinds, Zenon DEF InsertLaw
    <2>8. "sync" \notin Elements(r)
      BY <2>4, <2>7, EventKinds, Zenon
    <2>9. /\ queue'[u] \in Queues /\ Order!InOrder(queue'[u], when')
          /\ Elements(queue'[u]) = Elements(r) \cup {"sync"}
      <3>1. queue'[u] = Order!Insert(r, when', "sync")
        BY <2>1, <2>6, Zenon
      <3>2. /\ Order!Insert(r, when', "sync") \in Queues
            /\ Order!InOrder(Order!Insert(r, when', "sync"), when')
            /\ Elements(Order!Insert(r, when', "sync")) = Elements(r) \cup {"sync"}
        BY <2>7, <2>8, <1>4, EventKinds, Zenon DEF InsertLaw
      <3> QED
        BY <3>1, <3>2, Zenon
    <2>10. Elements(queue'[u]) = Elements(queue[u]) \cup {"limit", "sync"}
      BY <2>3, <2>7, <2>9, Zenon
    <2>11. Moves(u)
      <3>1. \/ p = queue[u] /\ "limit" \notin Elements(queue[u])
            \/ p = Order!Without(queue[u], "limit") /\ "limit" \in Elements(queue[u])
        BY <2>0, <1>5, Zenon
      <3> QED
        BY <3>1, <2>1, <2>3, <2>5, Zenon DEF Moves
    <2> QED
      BY <2>9, <2>10, <2>11, Zenon
  <1>7. ASSUME NEW u \in Threads
        PROVE  /\ Inside(u)' = Inside(u) \cup {"limit", "sync"}
               /\ "sync" \in Inside(u)'
    <2>1. Elements(asyncq[u])' = Elements(asyncq[u])
      BY <1>1, Zenon
    <2>2. Elements(queue[u])' = Elements(queue[u]) \cup {"limit", "sync"}
      BY <1>6, Zenon
    <2> QED
      BY <2>1, <2>2, Zenon DEF Inside
  <1>8. ~Stopped' /\ pc'[main] # "python" /\ pc'[main] # "exited"
    BY <1>5, Constants, Zenon DEF Stopped
  <1> HIDE DEF IInv, ThreadInv
  <1> QED
    BY <1>1, <1>2, <1>3, <1>4, <1>5, <1>6, <1>7, <1>8, Zenon DEF Starts

(* simulate() moves the limit event, creates the quantum event and starts  *)
(* all threads.                                                            *)
LEMMA SimulateStep ==
    ASSUME InsertLaw, WithoutLaw, TimesLaw, IInv, NEW n \in 0 .. MaxTick, simulate(n)
    PROVE  IInv'
  <1>00. Starts
    BY SimulateEffect, Zenon
  <1> USE DEF IInv, ThreadInv
  <1>0. PICK x, y : /\ x = IF n < MaxTick - curTick[main] THEN curTick[main] + n ELSE MaxTick
                    /\ y = curTick[main] + simQuantum
    BY Zenon
  <1>1. /\ pc[main] = "python"
        /\ when' = [when EXCEPT !["limit"] = x, !["sync"] = y]
        /\ queue' = ScheduleSerial(
                        ScheduleSerial(DescheduleSerial(queue, "limit"), when', "limit"),
                        when', "sync")
        /\ scheduled' = [u \in Threads |-> scheduled[u] \cup {"limit", "sync"}]
        /\ pc' = [u \in Threads |-> "merge"]
        /\ asyncq' = asyncq /\ curTick' = curTick /\ at' = at /\ job' = job
        /\ mutex' = mutex /\ fresh' = fresh
    BY <1>0, Zenon DEF simulate
  <1>2. Stopped /\ \A u \in Threads : /\ ~Busy(u) /\ job[u] = NoJob
                                      /\ at[u] = NoEvent /\ at[u] \notin Globals
                                      /\ curTick[u] = curTick[main]
    BY <1>1, AllIdle, Zenon DEF Stopped
  <1>3. /\ x \in Int /\ x <= MaxTick /\ x \in 0 .. MaxTick + simQuantum
        /\ y \in Int /\ y \in 0 .. MaxTick + simQuantum
        /\ \A u \in Threads : y = curTick[u] + simQuantum
        /\ \A u \in Threads : x >= curTick[u] /\ y >= curTick[u]
    <2>1. /\ curTick[main] \in Int /\ 0 <= curTick[main] /\ curTick[main] <= MaxTick
          /\ n \in Int /\ 0 <= n
      BY Numbers, Constants
    <2>2. /\ x \in Int /\ x <= MaxTick /\ x \in 0 .. MaxTick + simQuantum
          /\ y \in Int /\ y \in 0 .. MaxTick + simQuantum
          /\ x >= curTick[main] /\ y >= curTick[main]
      BY <1>0, <2>1, Constants
    <2> QED
      BY <1>0, <1>2, <2>2, Zenon
  <1>4. /\ when'["limit"] = x /\ when'["sync"] = y
        /\ \A f \in AllEvents : f # "limit" /\ f # "sync" => when'[f] = when[f]
        /\ when' \in Times
    <2>1. "limit" \in AllEvents /\ "sync" \in AllEvents /\ "sync" # "limit"
      BY EventKinds, Zenon
    <2> QED
      BY <1>1, <1>3, <2>1, Zenon DEF TypeInv, Times
  <1>5. ASSUME NEW u \in Threads
        PROVE  /\ pc'[u] = "merge" /\ ~Busy(u)' /\ "sync" \notin Inside(u)
               /\ scheduled'[u] = scheduled[u] \cup {"limit", "sync"}
               /\ "limit" \in scheduled[u] <=> "limit" \in Elements(queue[u])
    <2>1. pc'[u] = "merge" /\ scheduled'[u] = scheduled[u] \cup {"limit", "sync"}
      BY <1>1, Zenon
    <2>2. "sync" \notin Inside(u)
      BY <1>1, Zenon DEF SyncPlace
    <2>3. ASSUME NEW v \in Threads, NEW f PROVE ~Setting(v, f, u)
      BY <1>2, Zenon DEF Setting, Busy
    <2>4. "limit" \in scheduled[u] <=> "limit" \in Elements(queue[u])
      BY <2>3, Zenon DEF LimitFlag, FlagInv, Inside
    <2>5. ~Busy(u)'
      BY <2>1, Zenon DEF Busy
    <2> QED
      BY <2>1, <2>2, <2>4, <2>5, Zenon
  <1>6. ASSUME NEW u \in Threads
        PROVE  /\ queue'[u] \in Queues /\ Order!InOrder(queue'[u], when')
               /\ Elements(queue[u])' = Elements(queue[u]) \cup {"limit", "sync"}
    BY <1>00, Zenon DEF Starts
  <1>7. ASSUME NEW u \in Threads
        PROVE  /\ Inside(u)' = Inside(u) \cup {"limit", "sync"}
               /\ "sync" \in Inside(u)'
    BY <1>00, Zenon DEF Starts
  <1>8. ~Stopped' /\ pc'[main] # "python" /\ pc'[main] # "exited"
    BY <1>5, Constants, Zenon DEF Stopped
  <1>9. TypeInv'
    <2>1. queue' \in [Threads -> Queues]
      <3>1. queue' = [u \in Threads |-> queue'[u]]
        BY <1>1, Zenon DEF ScheduleSerial
      <3> QED
        BY <3>1, <1>6, Zenon
    <2>2. pc' \in [Threads -> States]
      BY <1>1, Zenon DEF States
    <2>3. scheduled' \in [Threads -> SUBSET AllEvents]
      BY <1>1, EventKinds, Zenon DEF TypeInv
    <2> QED
      BY <1>1, <1>4, <2>1, <2>2, <2>3, Zenon DEF TypeInv
  <1>10. Bounded'
    BY <1>3, <1>4, <1>5, Zenon DEF Bounded
  <1>11. ASSUME NEW u \in Threads PROVE ThreadInv(u)'
    <2>0. at'[u] = NoEvent /\ at'[u] \notin Globals /\ NoEvent # "limit" /\ NoEvent # "sync"
          /\ NoEvent \notin fresh
      BY <1>1, <1>2, EventKinds, Zenon DEF TypeInv
    <2>1. OutTogether(u)' /\ AtMatches(u)'
      BY <2>0, <1>5, <1>8, Zenon DEF OutTogether, AtMatches
    <2>2. OthersWait(u)' /\ TakenOut(u)'
      BY <2>0, Zenon DEF OthersWait, TakenOut, Winner
    <2>3. JobMatches(u)' /\ NotThereYet(u)' /\ TimeSet(u)' /\ OwnJob(u)'
      BY <1>1, <1>2, <1>5, Zenon DEF JobMatches, NotThereYet, TimeSet, OwnJob
    <2>4. FreshInv(u)'
      <3>1. "limit" \notin fresh /\ "sync" \notin fresh
        BY EventKinds, Zenon DEF TypeInv
      <3> QED
        BY <2>0, <3>1, <1>1, <1>7, Zenon DEF FreshInv
    <2>5. QueueInv(u)'
      <3>1. "limit" \notin Elements(asyncq[u]) /\ "sync" \notin Elements(asyncq[u])
        BY <1>5, Zenon DEF QueueInv, Inside
      <3>2. \A f \in Elements(queue[u])' : f \notin Elements(asyncq[u])
        BY <3>1, <1>6, ZenonT(40) DEF QueueInv
      <3>3. \A f \in Inside(u)' : f \in LocalEvents => home[f] = u
        BY <1>7, EventKinds, Zenon DEF QueueInv
      <3> QED
        BY <3>1, <3>2, <3>3, <1>1, <1>6, Zenon DEF QueueInv
    <2>6. FlagInv(u)'
      <3>1. ASSUME NEW v \in Threads, NEW f PROVE ~Setting(v, f, u)
        BY <1>2, Zenon DEF Setting, Busy
      <3> QED
        BY <3>1, <1>5, <1>7, Zenon DEF FlagInv
    <2>7. LimitFlag(u)' /\ LimitPlace(u)'
      BY <1>6, Zenon DEF LimitFlag, LimitPlace
    <2>8. SyncPlace(u)' /\ SyncAgain(u)'
      BY <1>5, <1>7, <1>8, Zenon DEF SyncPlace, SyncAgain
    <2>9. Window(u)'
      <3>1. y <= curTick[u] + simQuantum /\ curTick[u] <= y
        <4>1. curTick[u] \in Int
          BY Numbers, Zenon
        <4> QED
          BY <4>1, <1>3, Constants
      <3> QED
        BY <3>1, <1>1, <1>3, <1>4, <1>8, Zenon DEF Window
    <2>10. JobTime(u)' /\ Punctual(u)' /\ AsyncLater(u)'
      BY <1>5, Zenon DEF JobTime, Punctual, AsyncLater
    <2>11. NotPast(u)'
      <3>1. ASSUME NEW f \in Inside(u)' PROVE when'[f] >= curTick[u]
        <4>1. CASE f = "limit" \/ f = "sync"
          BY <4>1, <1>3, <1>4, Zenon
        <4>2. CASE f # "limit" /\ f # "sync"
          <5>1. f \in Inside(u)
            BY <4>2, <1>7, Zenon
          <5>2. Inside(u) \subseteq AllEvents
            BY QueueElements, Zenon DEF TypeInv, Inside
          <5> QED
            BY <4>2, <5>1, <5>2, <1>4, Zenon DEF NotPast
        <4> QED
          BY <4>1, <4>2, Zenon
      <3> QED
        BY <3>1, <1>1, Zenon DEF NotPast
    <2> QED
      BY <2>1, <2>2, <2>3, <2>4, <2>5, <2>6, <2>7, <2>8, <2>9, <2>10, <2>11, Zenon
  <1> QED
    BY <1>9, <1>10, <1>11, Zenon

(* What the return of simulate() changes: the quantum event is gone.       *)
Stops ==
    /\ pc[main] = "exited" /\ pc'[main] = "python" /\ Stopped /\ Stopped'
    /\ asyncq' = asyncq /\ when' = when /\ curTick' = curTick /\ at' = at
    /\ job' = job /\ mutex' = mutex /\ fresh' = fresh
    /\ \A u \in Threads :
          /\ ~Busy(u) /\ ~Busy(u)' /\ pc'[u] \in {"python", "idle"}
          /\ at[u] = NoEvent /\ at[u] \notin Globals
          /\ scheduled'[u] = scheduled[u] \ {"sync"}
          /\ queue'[u] = Order!Without(queue[u], "sync")
          /\ "sync" \in Elements(queue[u])
          /\ Elements(queue[u])' = Elements(queue[u]) \ {"sync"}
          /\ Inside(u)' = Inside(u) \ {"sync"}
          /\ "sync" \notin Elements(asyncq[u])

(* The return of simulate() has that effect.                               *)
LEMMA SimulateReturnEffect ==
    ASSUME WithoutLaw, IInv, simulateReturn
    PROVE  Stops
  <1> USE DEF IInv, ThreadInv
  <1>1. /\ pc[main] = "exited" /\ pc' = [pc EXCEPT ![main] = "python"]
        /\ queue' = DescheduleSerial(queue, "sync")
        /\ scheduled' = [t \in Threads |-> scheduled[t] \ {"sync"}]
        /\ asyncq' = asyncq /\ when' = when /\ curTick' = curTick /\ at' = at
        /\ job' = job /\ mutex' = mutex /\ fresh' = fresh
    BY Zenon DEF simulateReturn
  <1>2. Stopped /\ \A u \in Threads : /\ pc[u] \in {"python", "exited", "idle"}
                                      /\ ~Busy(u) /\ job[u] = NoJob
                                      /\ at[u] = NoEvent /\ at[u] \notin Globals
                                      /\ curTick[u] = curTick[main]
    BY <1>1, AllIdle, Zenon DEF Stopped
  <1>3. /\ pc'[main] = "python" /\ \A u \in Threads : u # main => pc'[u] = pc[u]
        /\ Stopped'
    BY <1>1, Constants, Zenon DEF TypeInv, Stopped
  <1>4. ASSUME NEW u \in Threads
        PROVE  /\ pc'[u] \in {"python", "idle"} /\ (pc'[u] = "python" <=> u = main)
               /\ ~Busy(u)' /\ scheduled'[u] = scheduled[u] \ {"sync"}
               /\ "sync" \in Elements(queue[u]) /\ "sync" \in scheduled[u]
    <2>1. pc'[u] \in {"python", "idle"} /\ (pc'[u] = "python" <=> u = main)
      BY <1>2, <1>3, Zenon DEF OutTogether
    <2>2. ~Busy(u)' /\ scheduled'[u] = scheduled[u] \ {"sync"}
      BY <2>1, <1>1, Zenon DEF Busy
    <2>3. "sync" \in Elements(queue[u])
      BY <1>1, Zenon DEF SyncPlace
    <2>4. ASSUME NEW v \in Threads, NEW f PROVE ~Setting(v, f, u)
      BY <1>2, Zenon DEF Setting, Busy
    <2>5. "sync" \in scheduled[u]
      BY <2>3, <2>4, Zenon DEF FlagInv, Inside
    <2> QED
      BY <2>1, <2>2, <2>3, <2>5, Zenon
  <1>5. ASSUME NEW u \in Threads
        PROVE  /\ queue'[u] \in Queues /\ Order!InOrder(queue'[u], when)
               /\ queue'[u] = Order!Without(queue[u], "sync")
               /\ Elements(queue[u])' = Elements(queue[u]) \ {"sync"}
               /\ Inside(u)' = Inside(u) \ {"sync"}
               /\ "sync" \notin Elements(asyncq[u])
    <2>1. queue'[u] = Order!Without(queue[u], "sync")
      BY <1>1, <1>4, Zenon DEF DescheduleSerial
    <2>2. queue[u] \in Queues /\ when \in Times /\ Order!InOrder(queue[u], when)
      BY Zenon DEF TypeInv, QueueInv
    <2>3. /\ queue'[u] \in Queues /\ Order!InOrder(queue'[u], when)
          /\ Elements(queue[u])' = Elements(queue[u]) \ {"sync"}
      <3>1. /\ Order!Without(queue[u], "sync") \in Queues
            /\ Order!InOrder(Order!Without(queue[u], "sync"), when)
            /\ Elements(Order!Without(queue[u], "sync")) = Elements(queue[u]) \ {"sync"}
        BY <1>4, <2>2, Zenon DEF WithoutLaw
      <3> QED
        BY <2>1, <3>1, Zenon
    <2>4. "sync" \notin Elements(asyncq[u])
      BY <1>4, Zenon DEF QueueInv
    <2>5. Inside(u)' = Inside(u) \ {"sync"}
      BY <1>1, <2>3, <2>4, Zenon DEF Inside
    <2> QED
      BY <2>1, <2>3, <2>4, <2>5, Zenon
  <1> HIDE DEF IInv, ThreadInv
  <1> QED
    BY <1>1, <1>2, <1>3, <1>4, <1>5, Zenon DEF Stops

(* simulate() returns: the quantum event is deleted.                       *)
LEMMA SimulateReturnStep ==
    ASSUME WithoutLaw, IInv, simulateReturn
    PROVE  IInv'
  <1>00. Stops
    BY SimulateReturnEffect, Zenon
  <1> USE DEF IInv, ThreadInv
  <1>1. /\ pc[main] = "exited" /\ pc' = [pc EXCEPT ![main] = "python"]
        /\ queue' = DescheduleSerial(queue, "sync")
        /\ scheduled' = [t \in Threads |-> scheduled[t] \ {"sync"}]
        /\ asyncq' = asyncq /\ when' = when /\ curTick' = curTick /\ at' = at
        /\ job' = job /\ mutex' = mutex /\ fresh' = fresh
    BY Zenon DEF simulateReturn
  <1>2. Stopped /\ \A u \in Threads : /\ pc[u] \in {"python", "exited", "idle"}
                                      /\ ~Busy(u) /\ job[u] = NoJob
                                      /\ at[u] = NoEvent /\ at[u] \notin Globals
                                      /\ curTick[u] = curTick[main]
    BY <1>1, AllIdle, Zenon DEF Stopped
  <1>3. /\ pc'[main] = "python" /\ \A u \in Threads : u # main => pc'[u] = pc[u]
        /\ Stopped'
    BY <1>1, Constants, Zenon DEF TypeInv, Stopped
  <1>4. ASSUME NEW u \in Threads
        PROVE  /\ pc'[u] \in {"python", "idle"} /\ (pc'[u] = "python" <=> u = main)
               /\ ~Busy(u)' /\ scheduled'[u] = scheduled[u] \ {"sync"}
               /\ "sync" \in Elements(queue[u]) /\ "sync" \in scheduled[u]
    <2>1. pc'[u] \in {"python", "idle"} /\ (pc'[u] = "python" <=> u = main)
      BY <1>2, <1>3, Zenon DEF OutTogether
    <2>2. ~Busy(u)' /\ scheduled'[u] = scheduled[u] \ {"sync"}
      BY <2>1, <1>1, Zenon DEF Busy
    <2>3. "sync" \in Elements(queue[u])
      BY <1>1, Zenon DEF SyncPlace
    <2>4. ASSUME NEW v \in Threads, NEW f PROVE ~Setting(v, f, u)
      BY <1>2, Zenon DEF Setting, Busy
    <2>5. "sync" \in scheduled[u]
      BY <2>3, <2>4, Zenon DEF FlagInv, Inside
    <2> QED
      BY <2>1, <2>2, <2>3, <2>5, Zenon
  <1>5. ASSUME NEW u \in Threads
        PROVE  /\ queue'[u] \in Queues /\ Order!InOrder(queue'[u], when)
               /\ Elements(queue[u])' = Elements(queue[u]) \ {"sync"}
               /\ Inside(u)' = Inside(u) \ {"sync"}
               /\ "sync" \notin Elements(asyncq[u])
    <2>1. queue'[u] = Order!Without(queue[u], "sync")
      BY <1>1, <1>4, Zenon DEF DescheduleSerial
    <2>2. queue[u] \in Queues /\ when \in Times /\ Order!InOrder(queue[u], when)
      BY Zenon DEF TypeInv, QueueInv
    <2>3. /\ queue'[u] \in Queues /\ Order!InOrder(queue'[u], when)
          /\ Elements(queue[u])' = Elements(queue[u]) \ {"sync"}
      <3>1. /\ Order!Without(queue[u], "sync") \in Queues
            /\ Order!InOrder(Order!Without(queue[u], "sync"), when)
            /\ Elements(Order!Without(queue[u], "sync")) = Elements(queue[u]) \ {"sync"}
        BY <1>4, <2>2, Zenon DEF WithoutLaw
      <3> QED
        BY <2>1, <3>1, Zenon
    <2>4. "sync" \notin Elements(asyncq[u])
      BY <1>4, Zenon DEF QueueInv
    <2>5. Inside(u)' = Inside(u) \ {"sync"}
      BY <1>1, <2>3, <2>4, Zenon DEF Inside
    <2> QED
      BY <2>3, <2>4, <2>5, Zenon
  <1>6. TypeInv'
    <2>1. queue' \in [Threads -> Queues]
      <3>1. queue' = [u \in Threads |-> queue'[u]]
        BY <1>1, Zenon DEF DescheduleSerial
      <3> QED
        BY <3>1, <1>5, Zenon
    <2>2. pc' \in [Threads -> States]
      <3>1. "python" \in States
        BY Zenon DEF States
      <3> QED
        BY <1>1, <3>1, Zenon DEF TypeInv
    <2>3. scheduled' \in [Threads -> SUBSET AllEvents]
      BY <1>1, EventKinds, Zenon DEF TypeInv
    <2> QED
      BY <1>1, <2>1, <2>2, <2>3, Zenon DEF TypeInv
  <1>7. Bounded'
    BY <1>1, <1>4, Zenon DEF Bounded
  <1>8. ASSUME NEW u \in Threads PROVE ThreadInv(u)'
    <2>1. OutTogether(u)' /\ AtMatches(u)'
      BY <1>1, <1>2, <1>3, <1>4, Zenon DEF OutTogether, AtMatches
    <2>2. OthersWait(u)' /\ TakenOut(u)'
      BY <1>1, <1>2, Zenon DEF OthersWait, TakenOut, Winner
    <2>3. JobMatches(u)' /\ NotThereYet(u)' /\ TimeSet(u)' /\ OwnJob(u)'
      BY <1>1, <1>2, <1>4, Zenon DEF JobMatches, NotThereYet, TimeSet, OwnJob
    <2>4. FreshInv(u)' /\ NotPast(u)'
      BY <1>1, <1>5, Zenon DEF FreshInv, NotPast
    <2>5. QueueInv(u)'
      BY <1>1, <1>5, Zenon DEF QueueInv
    <2>6. FlagInv(u)'
      <3>1. ASSUME NEW v \in Threads, NEW f PROVE ~Setting(v, f, u)
        BY <1>2, Zenon DEF Setting, Busy
      <3> QED
        BY <3>1, <1>4, <1>5, Zenon DEF FlagInv
    <2>7. LimitFlag(u)' /\ LimitPlace(u)'
      BY <1>3, <1>4, <1>5, EventKinds, Zenon DEF LimitFlag, LimitPlace
    <2>8. SyncPlace(u)' /\ SyncAgain(u)'
      BY <1>1, <1>3, <1>4, <1>5, ZenonT(40) DEF SyncPlace, SyncAgain
    <2>9. Window(u)'
      BY <1>1, <1>2, <1>3, <1>4, Zenon DEF Window
    <2>10. JobTime(u)' /\ Punctual(u)' /\ AsyncLater(u)'
      BY <1>3, <1>4, Zenon DEF JobTime, Punctual, AsyncLater
    <2> QED
      BY <2>1, <2>2, <2>3, <2>4, <2>5, <2>6, <2>7, <2>8, <2>9, <2>10, Zenon
  <1> QED
    BY <1>6, <1>7, <1>8, Zenon

(* t may begin a schedule() of e for w that goes through the async queues. *)
MayStart(t, e, w) ==
    /\ pc[t] \in {"handler", "winner"}
    /\ e # "limit"
    /\ at[t] \in LocalEvents \cup {"sync"} \cup Stats
    /\ at[t] \in Globals => e = at[t]
    /\ at[t] \in LocalEvents => e # "sync"
    /\ e \in LocalEvents => user[e] = t /\ home[e] # t
    /\ \A u \in Targets(e) : e \notin Inside(u)
    /\ at[t] \in LocalEvents /\ e \in Globals => \A u \in Threads : at[u] # e
    /\ \A u \in Threads : Busy(u) => job[u].event # e
    /\ w \in 0 .. MaxTick + simQuantum
    /\ e # "sync" => w <= MaxTick
    /\ at[t] = "sync" => w = curTick[t] + simQuantum
    /\ at[t] = "sync" => when["sync"] = curTick[t]
    /\ at[t] # "sync" => w >= when["sync"]

(* That schedule() is called.                                              *)
StartsJob(t, e, w) ==
    /\ StartJob(t, e, w)
    /\ fresh' \subseteq fresh /\ e \notin fresh'
    /\ UNCHANGED <<queue, asyncq, scheduled, when, curTick, at, mutex>>

(* What the beginning of a schedule() of e for w changes.                  *)
Begins(t, e, w) ==
    /\ pc[t] \in {"handler", "winner"} /\ ~Busy(t) /\ Busy(t)'
    /\ \A u \in Threads : u # t => pc'[u] = pc[u] /\ job'[u] = job[u]
    /\ pc'[t] = "push"
    /\ job'[t].event = e /\ job'[t].when = w
    /\ job'[t].next = IF e \in Globals THEN 0 ELSE home[e]
    /\ job'[t].next \in Threads /\ job'[t].next \in Targets(e)
    /\ queue' = queue /\ asyncq' = asyncq /\ when' = when /\ curTick' = curTick
    /\ at' = at /\ scheduled' = scheduled /\ mutex' = mutex
    /\ fresh' \subseteq fresh /\ e \notin fresh'
    /\ \A u \in Threads : Inside(u)' = Inside(u)
    /\ \A u \in Threads : u # t => (Busy(u)' <=> Busy(u))
    /\ \A u \in Threads : ToDo(t, u)' <=> u \in Targets(e)
    /\ \A u \in Threads : u # t => \A v \in Threads : ToDo(u, v)' <=> ToDo(u, v)
    /\ ~Started(t)'
    /\ Stopped' <=> Stopped
    /\ \A u \in Threads : Winner(u)' <=> Winner(u)

(* The call of schedule() has that effect.                                 *)
LEMMA StartJobEffect ==
    ASSUME IInv, NEW t \in Threads, NEW e \in AllEvents, NEW w,
           MayStart(t, e, w), StartsJob(t, e, w)
    PROVE  Begins(t, e, w)
  <1> DEFINE first == IF e \in Globals THEN 0 ELSE home[e]
  <1> USE DEF IInv, ThreadInv
  <1>1. /\ job' = [job EXCEPT ![t] = [event |-> e, when |-> w, next |-> first]]
        /\ pc' = [pc EXCEPT ![t] = "push"]
        /\ queue' = queue /\ asyncq' = asyncq /\ when' = when /\ curTick' = curTick
        /\ at' = at /\ scheduled' = scheduled /\ mutex' = mutex
        /\ fresh' \subseteq fresh /\ e \notin fresh'
    BY Zenon DEF StartsJob, StartJob
  <1>2. /\ \A u \in Threads : u # t => pc'[u] = pc[u] /\ job'[u] = job[u]
        /\ pc'[t] = "push"
        /\ job'[t].event = e /\ job'[t].when = w /\ job'[t].next = first
    BY <1>1, Zenon DEF TypeInv
  <1>3. \A u \in Threads : Inside(u)' = Inside(u)
    BY <1>1, Zenon DEF Inside
  <1>4. first \in Threads /\ first \in Targets(e)
    BY Constants, EventKinds, SimLoopAssumption, Zenon DEF Targets, main
  <1>5. /\ Busy(t)' /\ ~Busy(t) /\ pc[t] \in {"handler", "winner"}
        /\ \A u \in Threads : u # t => (Busy(u)' <=> Busy(u))
    BY <1>2, Zenon DEF Busy, MayStart
  <1>6. ASSUME NEW u \in Threads PROVE ToDo(t, u)' <=> u \in Targets(e)
    <2>1. u \in Targets(e) => first < u \/ first = u
      <3>1. u \in Int /\ 0 <= u
        BY Constants, Zenon
      <3>2. 0 < u \/ 0 = u
        BY <3>1
      <3> QED
        BY <3>2, Zenon DEF Targets
    <2> QED
      BY <1>2, <2>1, Zenon DEF ToDo
  <1>7. \A u \in Threads : u # t => \A v \in Threads : ToDo(u, v)' <=> ToDo(u, v)
    BY <1>2, Zenon DEF ToDo
  <1>8. ~Started(t)'
    <2>1. e \in Globals => ~(first > 0)
      BY DEF first
    <2> QED
      BY <1>2, <2>1, Zenon DEF Started
  <1>9. /\ pc[t] \notin {"wait", "python", "exited"}
        /\ pc'[t] \notin {"wait", "python", "exited"}
    BY <1>2, Zenon DEF MayStart
  <1>10. /\ Stopped' <=> Stopped
         /\ \A u \in Threads : Winner(u)' <=> Winner(u)
    BY <1>1, <1>2, <1>9, Constants, Zenon DEF Stopped, Winner
  <1> HIDE DEF IInv, ThreadInv
  <1> QED
    BY <1>1, <1>2, <1>3, <1>4, <1>5, <1>6, <1>7, <1>8, <1>10, Zenon DEF Begins

(* A schedule() that goes through the async queues begins.                 *)
LEMMA StartJobStep ==
    ASSUME IInv, NEW t \in Threads, NEW e \in AllEvents, NEW w,
           MayStart(t, e, w), StartsJob(t, e, w)
    PROVE  IInv'
  <1> DEFINE first == IF e \in Globals THEN 0 ELSE home[e]
  <1>0. Begins(t, e, w)
    BY StartJobEffect, Zenon
  <1> USE DEF IInv, ThreadInv
  <1>1. /\ job' = [job EXCEPT ![t] = [event |-> e, when |-> w, next |-> first]]
        /\ pc' = [pc EXCEPT ![t] = "push"]
        /\ queue' = queue /\ asyncq' = asyncq /\ when' = when /\ curTick' = curTick
        /\ at' = at /\ scheduled' = scheduled /\ mutex' = mutex
        /\ fresh' \subseteq fresh /\ e \notin fresh'
    BY Zenon DEF StartsJob, StartJob
  <1>2. /\ \A u \in Threads : u # t => pc'[u] = pc[u] /\ job'[u] = job[u]
        /\ pc'[t] = "push"
        /\ job'[t].event = e /\ job'[t].when = w /\ job'[t].next = first
    BY <1>0, Zenon DEF Begins
  <1>3. \A u \in Threads : Inside(u)' = Inside(u)
    BY <1>0, Zenon DEF Begins
  <1>4. first \in Threads /\ first \in Targets(e)
    BY <1>0, Zenon DEF Begins
  <1>5. /\ Busy(t)' /\ ~Busy(t)
        /\ \A u \in Threads : u # t => (Busy(u)' <=> Busy(u))
    BY <1>0, Zenon DEF Begins
  <1>6. ASSUME NEW u \in Threads PROVE ToDo(t, u)' <=> u \in Targets(e)
    BY <1>0, Zenon DEF Begins
  <1>7. \A u \in Threads : u # t => \A v \in Threads : ToDo(u, v)' <=> ToDo(u, v)
    BY <1>0, Zenon DEF Begins
  <1>8. ~Started(t)'
    BY <1>0, Zenon DEF Begins
  <1>9. /\ pc[t] \notin {"wait", "python", "exited", "idle", "merge", "loop", "second", "flag"}
        /\ pc'[t] \notin {"wait", "python", "exited", "idle", "merge", "loop", "second", "flag",
                          "winner", "handler"}
    BY <1>2, Zenon DEF MayStart
  <1>10. /\ Stopped' <=> Stopped
         /\ \A u \in Threads : Winner(u)' <=> Winner(u)
    BY <1>0, Zenon DEF Begins
  <1>11. TypeInv'
    <2>1. /\ pc' \in [Threads -> States]
      BY <1>1, Zenon DEF TypeInv, States
    <2>2. [event |-> e, when |-> w, next |-> first] \in Jobs
      BY <1>4, Constants, Zenon DEF Jobs, MayStart
    <2>3. job' \in [Threads -> Jobs]
      BY <2>2, <1>1, Zenon DEF TypeInv
    <2> QED
      BY <2>1, <2>3, <1>1, Zenon DEF TypeInv
  <1>12. Bounded'
    BY <1>1, <1>2, <1>5, ZenonT(40) DEF Bounded, MayStart
  <1>13. ASSUME NEW u \in Threads
         PROVE  OutTogether(u)' /\ AtMatches(u)' /\ OthersWait(u)'
    <2>1. OutTogether(u)'
      BY <1>2, <1>9, <1>10, Zenon DEF OutTogether
    <2>2. AtMatches(u)'
      BY <1>1, <1>2, <1>5, <1>9, Zenon DEF AtMatches, MayStart
    <2>3. OthersWait(u)'
      BY <1>1, <1>2, <1>9, <1>10, Zenon DEF OthersWait
    <2> QED
      BY <2>1, <2>2, <2>3, Zenon
  <1>14. ASSUME NEW u \in Threads
         PROVE  JobMatches(u)' /\ NotThereYet(u)' /\ TimeSet(u)' /\ OwnJob(u)'
    <2>1. CASE u = t
      <3>1. JobMatches(t)'
        BY <1>1, <1>2, <1>4, <1>5, Zenon DEF JobMatches, MayStart
      <3>2. NotThereYet(t)'
        <4> SUFFICES ASSUME NEW v \in Threads, v \in Targets(e)
                     PROVE  /\ e \notin Inside(v)
                            /\ at[t] \in LocalEvents /\ e \in Globals => at[v] # e
          BY <1>1, <1>2, <1>3, <1>6, Zenon DEF NotThereYet
        <4> QED
          BY Zenon DEF MayStart
      <3>3. TimeSet(t)'
        BY <1>8, Zenon DEF TimeSet
      <3>4. OwnJob(t)'
        BY <1>2, <1>5, Zenon DEF OwnJob, MayStart
      <3> QED
        BY <2>1, <3>1, <3>2, <3>3, <3>4, Zenon
    <2>2. CASE u # t
      <3>1. JobMatches(u)'
        BY <2>2, <1>1, <1>2, <1>5, ZenonT(40) DEF JobMatches
      <3>2. NotThereYet(u)'
        <4> SUFFICES ASSUME Busy(u)', NEW v \in Threads, ToDo(u, v)'
                     PROVE  /\ job[u].event \notin Inside(v)
                            /\ at[u] \in LocalEvents /\ job[u].event \in Globals
                                  => at[v] # job[u].event
          BY <2>2, <1>1, <1>2, <1>3, Zenon DEF NotThereYet
        <4> QED
          BY <2>2, <1>5, <1>7, Zenon DEF NotThereYet
      <3>3. TimeSet(u)'
        BY <2>2, <1>1, <1>2, <1>5, ZenonT(40) DEF TimeSet, Started
      <3>4. OwnJob(u)'
        <4> SUFFICES ASSUME Busy(u)', NEW v \in Threads \ {u}, Busy(v)'
                     PROVE  job'[v].event # job'[u].event
          BY Zenon DEF OwnJob
        <4>1. job'[u].event = job[u].event /\ job[u].event # e /\ Busy(u)
          BY <2>2, <1>2, <1>5, Zenon DEF MayStart
        <4>2. v # t => Busy(v) /\ job'[v].event = job[v].event
          BY <1>2, <1>5, Zenon
        <4> QED
          BY <4>1, <4>2, <1>2, Zenon DEF OwnJob
      <3> QED
        BY <3>1, <3>2, <3>3, <3>4, Zenon
    <2> QED
      BY <2>1, <2>2, Zenon
  <1>15. ASSUME NEW u \in Threads
         PROVE  FreshInv(u)' /\ QueueInv(u)' /\ FlagInv(u)' /\ LimitFlag(u)'
    <2>1. FreshInv(u)'
      BY <1>1, <1>3, Zenon DEF FreshInv
    <2>2. QueueInv(u)'
      BY <1>1, <1>3, Zenon DEF QueueInv
    <2>3. FlagInv(u)'
      <3>1. ASSUME NEW v \in Threads, NEW f, Setting(v, f, u) PROVE Setting(v, f, u)'
        BY <3>1, <1>2, <1>9, Zenon DEF Setting
      <3> QED
        BY <3>1, <1>1, <1>3, Zenon DEF FlagInv
    <2>4. LimitFlag(u)'
      BY <1>1, Zenon DEF LimitFlag
    <2> QED
      BY <2>1, <2>2, <2>3, <2>4, Zenon
  <1>16. ASSUME NEW u \in Threads
         PROVE  SyncPlace(u)' /\ LimitPlace(u)' /\ SyncAgain(u)' /\ TakenOut(u)'
    <2>1. SyncPlace(u)'
      BY <1>1, <1>2, <1>3, <1>9, <1>10, Constants, Zenon DEF SyncPlace
    <2>2. LimitPlace(u)'
      BY <1>1, <1>10, Zenon DEF LimitPlace
    <2>3. SyncAgain(u)'
      <3>1. CASE u = t
        <4>1. at[t] = "sync" => \A v \in Threads : v \in Targets(e)
          BY EventKinds, Zenon DEF Targets, MayStart
        <4> QED
          BY <3>1, <4>1, <1>1, <1>6, <1>9, Zenon DEF SyncAgain
      <3>2. CASE u # t
        BY <3>2, <1>1, <1>2, <1>5, <1>7, Zenon DEF SyncAgain
      <3> QED
        BY <3>1, <3>2, Zenon
    <2>4. TakenOut(u)'
      BY <1>1, <1>2, <1>3, <1>9, <1>10, Zenon DEF TakenOut
    <2> QED
      BY <2>1, <2>2, <2>3, <2>4, Zenon
  <1>17. ASSUME NEW u \in Threads
         PROVE  Window(u)' /\ JobTime(u)' /\ Punctual(u)' /\ NotPast(u)' /\ AsyncLater(u)'
    <2>1. Window(u)'
      BY <1>1, <1>2, <1>9, <1>10, Zenon DEF Window
    <2>2. JobTime(u)'
      <3>1. CASE u = t
        BY <3>1, <1>1, <1>2, <1>5, <1>9, ZenonT(40) DEF JobTime, MayStart
      <3>2. CASE u # t
        BY <3>2, <1>1, <1>2, <1>5, Zenon DEF JobTime, Started
      <3> QED
        BY <3>1, <3>2, Zenon
    <2>3. Punctual(u)'
      BY <1>1, <1>2, <1>9, <1>10, Zenon DEF Punctual
    <2>4. NotPast(u)'
      BY <1>1, <1>3, Zenon DEF NotPast
    <2>5. AsyncLater(u)'
      BY <1>1, <1>2, <1>9, <1>10, Zenon DEF AsyncLater
    <2> QED
      BY <2>1, <2>2, <2>3, <2>4, <2>5, Zenon
  <1> QED
    BY <1>11, <1>12, <1>13, <1>14, <1>15, <1>16, <1>17, Zenon

(* A handler schedules an event of another queue.                          *)
LEMMA HandlerAsyncStarts ==
    ASSUME IInv, NEW t \in Threads, NEW e \in LocalEvents, NEW d \in AsyncDelays,
           HandlerAsync(t, e, d)
    PROVE  /\ e \in AllEvents /\ MayStart(t, e, curTick[t] + d)
           /\ StartsJob(t, e, curTick[t] + d)
  <1> DEFINE w == curTick[t] + d
  <1> USE DEF IInv, ThreadInv
  <1>1. /\ pc[t] = "handler" /\ user[e] = t /\ home[e] # t /\ e \notin scheduled[home[e]]
        /\ w <= MaxTick /\ StartJob(t, e, w)
        /\ UNCHANGED <<queue, asyncq, scheduled, when, curTick, at, mutex, fresh>>
    BY Zenon DEF HandlerAsync
  <1>2. /\ at[t] \in LocalEvents /\ e \in AllEvents /\ home[e] \in Threads
        /\ e \notin Globals /\ at[t] \notin Globals
        /\ e # "limit" /\ e # "sync" /\ at[t] # "sync" /\ e \notin fresh
    <2>1. at[t] \in LocalEvents
      BY <1>1, Zenon DEF AtMatches
    <2> QED
      BY <2>1, EventKinds, SimLoopAssumption, Zenon DEF TypeInv
  <1>3. ASSUME NEW u \in Threads, Busy(u) PROVE job[u].event # e
    BY <1>1, <1>3, Zenon DEF JobMatches, Busy
  <1>4. ASSUME NEW u \in Targets(e) PROVE e \notin Inside(u)
    <2>1. u = home[e]
      BY <1>2, Zenon DEF Targets
    <2>2. ASSUME NEW v \in Threads, Setting(v, e, home[e]) PROVE FALSE
      BY <2>2, <1>3, Zenon DEF Setting, Busy
    <2> QED
      BY <2>1, <2>2, <1>1, <1>2, Zenon DEF FlagInv
  <1>5. w \in 0 .. MaxTick + simQuantum /\ w >= when["sync"]
    <2>1. when["sync"] <= curTick[t] + simQuantum /\ when["sync"] \in Int
      BY <1>1, InLoop, Numbers, EventKinds, Zenon
    <2>2. curTick[t] \in Int /\ 0 <= curTick[t]
      BY Numbers, Zenon
    <2>3. d \in Int /\ d >= simQuantum
      BY SimLoopAssumption
    <2> QED
      BY <1>1, <2>1, <2>2, <2>3, Constants
  <1>6. MayStart(t, e, w)
    BY <1>1, <1>2, <1>3, <1>4, <1>5, Zenon DEF MayStart
  <1>7. StartsJob(t, e, w)
    BY <1>1, <1>2, Zenon DEF StartsJob
  <1> QED
    BY <1>2, <1>6, <1>7, Zenon

(* A handler schedules an event of another queue.                          *)
LEMMA HandlerAsyncStep ==
    ASSUME IInv, NEW t \in Threads, NEW e \in LocalEvents, NEW d \in AsyncDelays,
           HandlerAsync(t, e, d)
    PROVE  IInv'
  BY HandlerAsyncStarts, StartJobStep, Zenon

(* A handler schedules a new exit or statistics event.                     *)
LEMMA NewGlobalStarts ==
    ASSUME IInv, NEW t \in Threads, NEW g \in fresh, NEW w \in Int,
           pc[t] = "handler", w >= curTick[t] + simQuantum, w <= MaxTick,
           StartJob(t, g, w), fresh' = fresh \ {g},
           UNCHANGED <<queue, asyncq, scheduled, when, curTick, at, mutex>>
    PROVE  g \in AllEvents /\ MayStart(t, g, w) /\ StartsJob(t, g, w)
  <1> USE DEF IInv, ThreadInv
  <1>1. at[t] \in LocalEvents
    BY Zenon DEF AtMatches
  <1>2. /\ g \in AllEvents /\ g \in Globals /\ g # "limit" /\ g # "sync"
        /\ at[t] \notin Globals /\ at[t] # "sync" /\ g \notin LocalEvents
    <2>1. g \in Exits \/ g \in Stats
      BY Zenon DEF TypeInv
    <2> QED
      BY <1>1, <2>1, EventKinds, Zenon
  <1>3. ASSUME NEW u \in Threads PROVE /\ Busy(u) => job[u].event # g
                                      /\ g \notin Inside(u)
                                      /\ at[u] # g
    BY Zenon DEF JobMatches, FreshInv
  <1>4. \A u \in Targets(g) : g \notin Inside(u)
    BY <1>2, <1>3, Zenon DEF Targets
  <1>5. w \in 0 .. MaxTick + simQuantum /\ w >= when["sync"]
    <2>1. when["sync"] <= curTick[t] + simQuantum /\ when["sync"] \in Int
      BY InLoop, Numbers, EventKinds, Zenon
    <2>2. curTick[t] \in Int /\ 0 <= curTick[t]
      BY Numbers, Zenon
    <2> QED
      BY <2>1, <2>2, Constants
  <1>6. MayStart(t, g, w)
    BY <1>1, <1>2, <1>3, <1>4, <1>5, Zenon DEF MayStart
  <1>7. StartsJob(t, g, w)
    BY Zenon DEF StartsJob
  <1> QED
    BY <1>2, <1>6, <1>7, Zenon

(* A handler calls exitSimLoop().                                          *)
LEMMA ExitSimLoopStarts ==
    ASSUME IInv, NEW t \in Threads, NEW g \in Exits, exitSimLoop(t, g)
    PROVE  /\ g \in AllEvents /\ MayStart(t, g, curTick[t] + simQuantum)
           /\ StartsJob(t, g, curTick[t] + simQuantum) /\ pc[t] = "handler"
  <1>1. curTick[t] + simQuantum \in Int
        /\ curTick[t] + simQuantum >= curTick[t] + simQuantum
    <2>1. curTick[t] \in Int
      BY Numbers, Zenon
    <2> QED
      BY <2>1, Constants
  <1> QED
    BY <1>1, NewGlobalStarts, Zenon DEF exitSimLoop

(* A handler calls exitSimLoop().                                          *)
LEMMA ExitSimLoopStep ==
    ASSUME IInv, NEW t \in Threads, NEW g \in Exits, exitSimLoop(t, g)
    PROVE  IInv'
  BY ExitSimLoopStarts, StartJobStep, Zenon

(* A handler calls schedStatEvent().                                       *)
LEMMA SchedStatEventStarts ==
    ASSUME IInv, NEW t \in Threads, NEW g \in Stats, NEW d \in StatDelays,
           schedStatEvent(t, g, d)
    PROVE  /\ g \in AllEvents /\ MayStart(t, g, curTick[t] + d + simQuantum)
           /\ StartsJob(t, g, curTick[t] + d + simQuantum) /\ pc[t] = "handler"
  <1>1. /\ curTick[t] + d + simQuantum \in Int
        /\ curTick[t] + d + simQuantum >= curTick[t] + simQuantum
    <2>1. d \in Int /\ d >= 0
      BY SimLoopAssumption
    <2>2. curTick[t] \in Int
      BY Numbers, Zenon
    <2> QED
      BY <2>1, <2>2, Constants
  <1> QED
    BY <1>1, NewGlobalStarts, Zenon DEF schedStatEvent

(* A handler calls schedStatEvent().                                       *)
LEMMA SchedStatEventStep ==
    ASSUME IInv, NEW t \in Threads, NEW g \in Stats, NEW d \in StatDelays,
           schedStatEvent(t, g, d)
    PROVE  IInv'
  BY SchedStatEventStarts, StartJobStep, Zenon

(* The winner at a barrier is alone, and the event it processes has left   *)
(* every queue.                                                            *)
LEMMA AtWinner ==
    ASSUME IInv, NEW t \in Threads, pc[t] = "winner"
    PROVE  /\ at[t] \in Globals /\ at[t] \notin fresh /\ when[at[t]] = curTick[t]
           /\ \A u \in Threads : /\ u # t => pc[u] = "wait"
                                 /\ at[u] = at[t]
                                 /\ ~Busy(u)
                                 /\ at[t] \notin Inside(u)
  <1> USE DEF IInv, ThreadInv
  <1>1. at[t] \in Globals /\ when[at[t]] = curTick[t] /\ Winner(t)
    BY Zenon DEF AtMatches, Punctual, Winner
  <1>2. at[t] \notin fresh
    BY Zenon DEF FreshInv
  <1>3. \A u \in Threads : u # t => pc[u] = "wait" /\ at[u] = at[t]
    BY <1>1, Zenon DEF OthersWait
  <1>4. \A u \in Threads : ~Busy(u) /\ at[u] = at[t] /\ (Winner(u) => pc[u] = "winner")
    BY <1>3, Zenon DEF Busy, Winner
  <1>5. \A u \in Threads : at[t] \notin Inside(u)
    BY <1>1, <1>4, Zenon DEF TakenOut
  <1> QED
    BY <1>1, <1>2, <1>3, <1>4, <1>5, Zenon

(* What the winner changes when its event does not come again.             *)
Finishes(t) ==
    /\ pc[t] = "winner" /\ pc'[t] = "second" /\ at[t] \in Globals /\ at[t] # "sync"
    /\ \A u \in Threads : /\ at[u] = at[t] /\ at[t] \notin Inside(u)
                          /\ u # t => pc[u] = "wait" /\ pc'[u] = "wait" /\ ~Winner(u)'
                          /\ ~Busy(u) /\ ~Busy(u)'
                          /\ Inside(u)' = Inside(u)
    /\ ~Stopped /\ ~Stopped' /\ Winner(t) /\ Winner(t)'
    /\ job' = job /\ queue' = queue /\ asyncq' = asyncq /\ when' = when /\ curTick' = curTick
    /\ at' = at /\ fresh' = fresh /\ scheduled' = scheduled /\ mutex' = mutex

(* When it does, the winner begins a schedule() for w.                     *)
Repeats(t, e, w) ==
    /\ e = at[t] /\ e \in AllEvents
    /\ pc[t] = "winner"
    /\ MayStart(t, e, w)
    /\ StartsJob(t, e, w)
    /\ e \in Stats => w > curTick[t] + simQuantum

(* process() does one or the other.                                        *)
LEMMA ProcessEffect ==
    ASSUME IInv, NEW t \in Threads, process(t)
    PROVE  Finishes(t) \/ \E e, w : Repeats(t, e, w)
  <1> DEFINE g == at[t]
             next == curTick[t] + simQuantum + (IF g \in Stats THEN StatRepeat ELSE 0)
             again == g = "sync" \/ (g \in Stats /\ StatRepeat # 0 /\ next <= MaxTick)
  <1> USE DEF IInv, ThreadInv
  <1>1. /\ pc[t] = "winner"
        /\ IF again THEN StartJob(t, g, next)
                    ELSE pc' = [pc EXCEPT ![t] = "second"] /\ UNCHANGED job
        /\ UNCHANGED <<queue, asyncq, scheduled, when, curTick, at, mutex, fresh>>
    BY Zenon DEF process
  <1>2. /\ g \in Globals /\ g \notin fresh /\ when[g] = curTick[t]
        /\ g \in AllEvents /\ g \notin LocalEvents
        /\ \A u \in Threads : /\ u # t => pc[u] = "wait"
                              /\ at[u] = g
                              /\ ~Busy(u)
                              /\ g \notin Inside(u)
    BY <1>1, AtWinner, EventKinds, Zenon
  <1>3. CASE again
    <2>1. g # "limit" /\ g \in LocalEvents \cup {"sync"} \cup Stats
      BY <1>3, EventKinds, Zenon
    <2>2. curTick[t] \in Int /\ 0 <= curTick[t] /\ curTick[t] <= MaxTick
          /\ simQuantum \in Int /\ simQuantum > 0 /\ MaxTick \in Int
      BY Numbers, Constants, Zenon
    <2>3. StatRepeat \in Int /\ 0 <= StatRepeat
      BY SimLoopAssumption
    <2>4. when["sync"] <= curTick[t] + simQuantum /\ when["sync"] \in Int
      BY <1>1, InLoop, Numbers, EventKinds, Zenon
    <2>5. /\ next \in 0 .. MaxTick + simQuantum
          /\ g = "sync" => next = curTick[t] + simQuantum
          /\ g # "sync" => next <= MaxTick /\ next >= when["sync"]
          /\ g # "sync" => next > curTick[t] + simQuantum
      <3>1. CASE g = "sync"
        <4>1. next = curTick[t] + simQuantum
          BY <3>1, <2>2, EventKinds
        <4> QED
          BY <3>1, <4>1, <2>2
      <3>2. CASE g # "sync"
        <4>1. next = curTick[t] + simQuantum + StatRepeat /\ next <= MaxTick
              /\ StatRepeat # 0
          BY <3>2, <1>3, Zenon
        <4> QED
          BY <3>2, <4>1, <2>2, <2>3, <2>4
      <3> QED
        BY <3>1, <3>2, Zenon
    <2>6. pc[t] \in {"handler", "winner"}
      BY <1>1, Zenon
    <2>7. \A u \in Targets(g) : g \notin Inside(u)
      BY <1>2, Zenon DEF Targets
    <2>8. MayStart(t, g, next)
      BY <1>2, <2>1, <2>5, <2>6, <2>7, Zenon DEF MayStart
    <2>9. StartsJob(t, g, next)
      BY <1>1, <1>2, <1>3, Zenon DEF StartsJob
    <2>10. g \in Stats => g # "sync"
      BY EventKinds, Zenon
    <2>11. PICK e, w : e = g /\ w = next
      BY Zenon
    <2>12. Repeats(t, e, w)
      BY <1>1, <1>2, <2>5, <2>8, <2>9, <2>10, <2>11, Zenon DEF Repeats
    <2> QED
      BY <2>12, Zenon
  <1>4. CASE ~again
    <2>1. g # "sync" /\ pc' = [pc EXCEPT ![t] = "second"] /\ job' = job
          /\ queue' = queue /\ asyncq' = asyncq /\ when' = when /\ curTick' = curTick
          /\ at' = at /\ fresh' = fresh /\ scheduled' = scheduled /\ mutex' = mutex
      BY <1>1, <1>4, Zenon
    <2>2. /\ pc'[t] = "second"
          /\ \A u \in Threads : u # t => pc'[u] = "wait" /\ pc[u] = "wait"
      BY <1>2, <2>1, Zenon DEF TypeInv
    <2>3. /\ ~Stopped /\ ~Stopped'
          /\ Winner(t)' /\ Winner(t)
          /\ \A u \in Threads : ~Busy(u)' /\ (u # t => ~Winner(u)')
          /\ \A u \in Threads : Inside(u)' = Inside(u)
      <3>1. pc[main] \in {"wait", "winner"} /\ pc'[main] \in {"wait", "second"}
        BY <1>1, <2>2, Constants, Zenon
      <3> QED
        BY <3>1, <1>1, <1>2, <2>1, <2>2, Zenon DEF Stopped, Winner, Busy, Inside
    <2> HIDE DEF IInv, ThreadInv
    <2> QED
      BY <1>1, <1>2, <2>1, <2>2, <2>3, Zenon DEF Finishes
  <1> QED
    BY <1>3, <1>4, Zenon

(* The winner at the barrier calls process() of the global event.          *)
LEMMA ProcessStep == ASSUME IInv, NEW t \in Threads, process(t) PROVE IInv'
  <1>1. ASSUME NEW e, NEW w, Repeats(t, e, w) PROVE IInv'
    BY <1>1, StartJobStep, Zenon DEF Repeats
  <1>2. ASSUME Finishes(t) PROVE IInv'
    <2> DEFINE g == at[t]
    <2> USE DEF IInv, ThreadInv
    <2>1. /\ g # "sync" /\ job' = job /\ pc[t] = "winner" /\ g \in Globals
          /\ queue' = queue /\ asyncq' = asyncq /\ when' = when /\ curTick' = curTick
          /\ at' = at /\ fresh' = fresh /\ scheduled' = scheduled /\ mutex' = mutex
          /\ \A u \in Threads : at[u] = g /\ ~Busy(u) /\ g \notin Inside(u)
      BY <1>2, Zenon DEF Finishes
    <2>2. /\ pc'[t] = "second"
          /\ \A u \in Threads : u # t => pc'[u] = "wait" /\ pc[u] = "wait"
      BY <1>2, Zenon DEF Finishes
    <2>3. /\ ~Stopped /\ ~Stopped' /\ Winner(t)
          /\ Winner(t)'
          /\ \A u \in Threads : ~Busy(u)' /\ (u # t => ~Winner(u)')
          /\ \A u \in Threads : Inside(u)' = Inside(u)
      BY <1>2, Zenon DEF Finishes
    <2>4. TypeInv' /\ Bounded'
      <3>1. pc' \in [Threads -> States]
        <4>1. \/ pc' = [pc EXCEPT ![t] = "push"]
              \/ pc' = [pc EXCEPT ![t] = "second"]
          BY Zenon DEF process, StartJob
        <4> QED
          BY <4>1, Zenon DEF TypeInv, States
      <3>2. TypeInv'
        BY <3>1, <2>1, Zenon DEF TypeInv
      <3>3. Bounded'
        BY <2>1, <2>3, Zenon DEF Bounded
      <3> QED
        BY <3>2, <3>3, Zenon
    <2>5. ASSUME NEW u \in Threads PROVE ThreadInv(u)'
      <3>0. pc'[u] \in {"wait", "second"} /\ pc[u] \in {"wait", "winner"} /\ ~Busy(u)' /\ at'[u] = g
            /\ at[u] = g
        BY <2>1, <2>2, Zenon DEF Busy
      <3>1. OutTogether(u)' /\ AtMatches(u)' /\ OthersWait(u)'
        <4>1. OthersWait(u)'
          <5>1. Winner(t)
            BY <2>1, Zenon DEF Winner
          <5> QED
            BY <5>1, <2>1, <2>2, <2>3, Zenon DEF OthersWait
        <4> QED
          BY <4>1, <3>0, <2>3, <2>1, Zenon DEF OutTogether, AtMatches
      <3>2. JobMatches(u)' /\ NotThereYet(u)' /\ TimeSet(u)' /\ OwnJob(u)'
        BY <3>0, <2>1, Zenon DEF JobMatches, NotThereYet, TimeSet, OwnJob
      <3>3. FreshInv(u)' /\ LimitFlag(u)' /\ NotPast(u)'
        BY <2>1, <2>3, Zenon DEF FreshInv, LimitFlag, NotPast
      <3>4. QueueInv(u)'
        BY <2>1, <2>3, Zenon DEF QueueInv
      <3>5. FlagInv(u)'
        <4>1. ASSUME NEW v \in Threads, NEW f PROVE ~Setting(v, f, u)
          BY <2>1, Zenon DEF Setting, Busy
        <4> QED
          BY <2>1, <2>3, <4>1, Zenon DEF FlagInv
      <3>6. SyncPlace(u)' /\ LimitPlace(u)'
        <4>1. SyncPlace(u)'
          BY <3>0, <2>1, <2>3, Zenon DEF SyncPlace, Stopped
        <4> QED
          BY <4>1, <3>0, <2>1, <2>3, Zenon DEF LimitPlace
      <3>7. SyncAgain(u)' /\ TakenOut(u)'
        BY <3>0, <2>1, <2>2, <2>3, Zenon DEF SyncAgain, TakenOut
      <3>8. Window(u)' /\ JobTime(u)' /\ Punctual(u)' /\ AsyncLater(u)'
        BY <3>0, <2>1, <2>3, Zenon DEF Window, JobTime, Punctual, AsyncLater
      <3> QED
        BY <3>1, <3>2, <3>3, <3>4, <3>5, <3>6, <3>7, <3>8, Zenon
    <2> QED
      BY <2>4, <2>5, Zenon
  <1> QED
    BY <1>1, <1>2, ProcessEffect, Zenon

(* What the second barrier of the event g changes.                         *)
Releases(t, g) ==
    /\ g = at[t] /\ pc[t] = "second" /\ g \in Globals /\ Winner(t) /\ ~Stopped
    /\ g = "sync" \/ g \in Stats \/ g \in ExitEvents
    /\ Stopped' <=> g \in ExitEvents
    /\ \A u \in Threads :
          /\ at[u] = g /\ at'[u] = NoEvent /\ NoEvent \notin Globals
          /\ u # t => pc[u] = "wait" /\ ~Winner(u)
          /\ ~Busy(u) /\ ~Busy(u)' /\ ~Winner(u)'
          /\ curTick[u] = curTick[t] /\ job[u] = NoJob
          /\ Inside(u)' = Inside(u)
          /\ g = "sync" => pc'[u] = "merge"
          /\ g \in Stats => pc'[u] = "loop" /\ g # "sync" /\ g # "limit"
          /\ g \in ExitEvents => /\ pc'[u] = (IF u = main THEN "exited" ELSE "idle")
                                 /\ g # "sync"
          /\ pc'[u] \in {"merge", "loop", "exited", "idle"}
    /\ queue' = queue /\ asyncq' = asyncq /\ when' = when /\ curTick' = curTick
    /\ job' = job /\ fresh' = fresh /\ scheduled' = scheduled /\ mutex' = mutex

(* The second globalBarrier() has that effect.                             *)
LEMMA GlobalBarrierEffect ==
    ASSUME IInv, NEW t \in Threads, globalBarrier(t)
    PROVE  \E g : Releases(t, g)
  <1> USE DEF IInv, ThreadInv
  <1>0. PICK g : g = at[t]
    BY Zenon
  <1>1. /\ pc[t] = "second"
        /\ pc' = [u \in Threads |-> IF g = "sync" THEN "merge"
                                    ELSE IF g \notin ExitEvents THEN "loop"
                                    ELSE IF u = main THEN "exited" ELSE "idle"]
        /\ at' = [u \in Threads |-> NoEvent]
        /\ queue' = queue /\ asyncq' = asyncq /\ when' = when /\ curTick' = curTick
        /\ job' = job /\ fresh' = fresh /\ scheduled' = scheduled /\ mutex' = mutex
    BY <1>0, Zenon DEF globalBarrier
  <1>2. g \in Globals /\ Winner(t) /\ ~Stopped
    BY <1>0, <1>1, InLoop, Zenon DEF AtMatches, Winner
  <1>3. ASSUME NEW u \in Threads
        PROVE  /\ at[u] = g /\ at'[u] = NoEvent /\ NoEvent \notin Globals
               /\ u # t => pc[u] = "wait" /\ ~Winner(u)
               /\ ~Busy(u) /\ ~Busy(u)' /\ ~Winner(u)'
               /\ curTick[u] = curTick[t] /\ job[u] = NoJob
               /\ Inside(u)' = Inside(u)
               /\ g = "sync" => pc'[u] = "merge"
               /\ g \in Stats => pc'[u] = "loop" /\ g # "sync" /\ g # "limit"
               /\ g \in ExitEvents => /\ pc'[u] = (IF u = main THEN "exited" ELSE "idle")
                                      /\ g # "sync"
               /\ pc'[u] \in {"merge", "loop", "exited", "idle"}
    <2>1. /\ at[u] = g /\ curTick[u] = curTick[t]
          /\ pc[u] \in {"wait", "second"}
          /\ u # t => pc[u] = "wait"
      <3>1. CASE u = t
        BY <3>1, <1>0, <1>1, Zenon
      <3>2. CASE u # t
        <4>1. pc[u] = "wait" /\ at[u] = at[t] /\ curTick[u] = curTick[t]
          BY <3>2, <1>2, Zenon DEF OthersWait
        <4> QED
          BY <4>1, <3>2, <1>0, Zenon
      <3> QED
        BY <3>1, <3>2, Zenon
    <2>2. ~Busy(u) /\ (u # t => ~Winner(u))
      BY <2>1, Zenon DEF Busy, Winner
    <2>3. at'[u] = NoEvent /\ NoEvent \notin Globals
      BY <1>1, EventKinds, Zenon
    <2>4. /\ g = "sync" => pc'[u] = "merge"
          /\ g \in Stats => pc'[u] = "loop" /\ g # "sync" /\ g # "limit"
          /\ g \in ExitEvents => /\ pc'[u] = (IF u = main THEN "exited" ELSE "idle")
                                 /\ g # "sync"
      BY <1>1, EventKinds, Zenon
    <2>5. pc'[u] \in {"merge", "loop", "exited", "idle"}
      BY <1>1, Zenon
    <2>6. ~Busy(u)' /\ ~Winner(u)'
      BY <2>3, <2>5, Zenon DEF Busy, Winner
    <2> QED
      BY <1>1, <2>1, <2>2, <2>3, <2>4, <2>5, <2>6, Zenon DEF JobMatches, Inside
  <1>4. g = "sync" \/ g \in Stats \/ g \in ExitEvents
    BY <1>2, EventKinds, Zenon
  <1>5. Stopped' <=> g \in ExitEvents
    <2>1. g \in ExitEvents => pc'[main] = "exited"
      BY <1>3, Constants, Zenon
    <2>2. g \notin ExitEvents => pc'[main] \in {"merge", "loop"}
      BY <1>3, <1>4, Constants, Zenon
    <2> QED
      BY <2>1, <2>2, Zenon DEF Stopped
  <1>6. Releases(t, g)
    <2> HIDE DEF IInv, ThreadInv
    <2> QED
      BY <1>0, <1>1, <1>2, <1>3, <1>4, <1>5, Zenon DEF Releases
  <1> QED
    BY <1>6, Zenon

(* The second barrier lets all threads go: into the merge of the async     *)
(* queues, on, or out of the loop.                                         *)
LEMMA GlobalBarrierStep == ASSUME IInv, NEW t \in Threads, globalBarrier(t) PROVE IInv'
  <1> DEFINE g == at[t]
  <1>0. Releases(t, g)
    <2>1. PICK f : Releases(t, f)
      BY GlobalBarrierEffect, Zenon
    <2>2. f = g
      BY <2>1, Zenon DEF Releases
    <2> QED
      BY <2>1, <2>2, Zenon
  <1> USE DEF IInv, ThreadInv
  <1>1. /\ pc[t] = "second"
        /\ pc' = [u \in Threads |-> IF g = "sync" THEN "merge"
                                    ELSE IF g \notin ExitEvents THEN "loop"
                                    ELSE IF u = main THEN "exited" ELSE "idle"]
        /\ at' = [u \in Threads |-> NoEvent]
        /\ queue' = queue /\ asyncq' = asyncq /\ when' = when /\ curTick' = curTick
        /\ job' = job /\ fresh' = fresh /\ scheduled' = scheduled /\ mutex' = mutex
    BY Zenon DEF globalBarrier
  <1>2. g \in Globals /\ Winner(t) /\ ~Stopped
    BY <1>0, Zenon DEF Releases
  <1>3. ASSUME NEW u \in Threads
        PROVE  /\ at[u] = g /\ at'[u] = NoEvent /\ NoEvent \notin Globals
               /\ pc[u] # "merge" /\ ~Busy(u) /\ ~Busy(u)'
               /\ curTick[u] = curTick[t] /\ job[u] = NoJob
               /\ Inside(u)' = Inside(u)
               /\ g = "sync" => pc'[u] = "merge"
               /\ g \in Stats => pc'[u] = "loop" /\ g # "sync" /\ g # "limit"
               /\ g \in ExitEvents => /\ pc'[u] = (IF u = main THEN "exited" ELSE "idle")
                                      /\ g # "sync"
    <2>1. pc[u] # "merge"
      BY <1>0, Zenon DEF Releases
    <2> QED
      BY <1>0, <2>1, Zenon DEF Releases
  <1>4. g = "sync" \/ g \in Stats \/ g \in ExitEvents
    BY <1>0, Zenon DEF Releases
  <1>5. Stopped' <=> g \in ExitEvents
    BY <1>0, Zenon DEF Releases
  <1>6. TypeInv'
    <2>1. pc' \in [Threads -> States] /\ at' \in [Threads -> AllEvents \cup {NoEvent}]
      BY <1>1, Zenon DEF States
    <2> QED
      BY <1>1, <2>1, Zenon DEF TypeInv
  <1>7. Bounded'
    BY <1>1, <1>3, Zenon DEF Bounded
  <1>8. ASSUME NEW u \in Threads PROVE ThreadInv(u)'
    <2>1. OutTogether(u)'
      <3>1. CASE g \in ExitEvents
        BY <3>1, <1>3, <1>5, Zenon DEF OutTogether
      <3>2. CASE g \notin ExitEvents
        <4>1. pc'[u] \notin {"idle", "python", "exited"}
          BY <3>2, <1>3, <1>4, Zenon
        <4> QED
          BY <3>2, <4>1, <1>5, Zenon DEF OutTogether
      <3> QED
        BY <3>1, <3>2, Zenon
    <2>2. AtMatches(u)'
      <3>1. pc'[u] \in {"merge", "loop", "exited", "idle"}
        BY <1>1, Zenon
      <3> QED
        BY <3>1, <1>3, Zenon DEF AtMatches
    <2>3. OthersWait(u)' /\ TakenOut(u)' /\ JobMatches(u)' /\ NotThereYet(u)' /\ TimeSet(u)' /\ OwnJob(u)'
      BY <1>1, <1>3, Zenon DEF OthersWait, TakenOut, Winner, JobMatches, NotThereYet, TimeSet, OwnJob
    <2>4. FreshInv(u)'
      <3>1. NoEvent \notin fresh
        BY EventKinds, Zenon DEF TypeInv
      <3> QED
        BY <1>1, <1>3, <3>1, Zenon DEF FreshInv
    <2>5. QueueInv(u)'
      BY <1>1, <1>3, Zenon DEF QueueInv
    <2>6. FlagInv(u)' /\ LimitFlag(u)' /\ NotPast(u)'
      <3>1. ASSUME NEW v \in Threads, NEW f PROVE ~Setting(v, f, u)
        BY <1>3, Zenon DEF Setting, Busy
      <3> QED
        <4>1. FlagInv(u)'
          BY <1>1, <1>3, <3>1, Zenon DEF FlagInv
        <4>2. LimitFlag(u)' /\ NotPast(u)'
          BY <1>1, <1>3, Zenon DEF LimitFlag, NotPast
        <4> QED
          BY <4>1, <4>2, Zenon
    <2>7. pc'[main] # "python" /\ (pc'[main] = "exited" => g # "sync")
      BY <1>1, <1>3, Constants, Zenon
    <2>8. pc'[u] = "merge" <=> g = "sync"
      BY <1>3, <1>4, Zenon
    <2>9. SyncPlace(u)'
      <3>1. g = "sync" => "sync" \in Elements(asyncq[u])
        BY <1>1, Zenon DEF SyncAgain
      <3>2. g # "sync" => "sync" \in Elements(queue[u])
        BY <1>2, <1>3, Zenon DEF SyncPlace
      <3> QED
        BY <1>1, <1>3, <2>7, <2>8, <3>1, <3>2, Zenon DEF SyncPlace, Inside
    <2>10. LimitPlace(u)'
      BY <1>1, <1>2, <1>3, <1>5, EventKinds, Zenon DEF LimitPlace
    <2>11. pc'[u] # "second" /\ pc'[u] # "winner" /\ pc'[u] # "wait"
      BY <1>1, Zenon
    <2>12. SyncAgain(u)'
      BY <1>1, <1>3, <2>8, <2>11, Zenon DEF SyncAgain
    <2>13. Window(u)'
      <3>1. g = "sync" => when["sync"] = curTick[u] + simQuantum
        BY <1>1, <1>3, Zenon DEF JobTime
      <3> QED
        BY <1>1, <1>2, <1>3, <2>8, <3>1, Constants, Zenon DEF Window
    <2>14. JobTime(u)' /\ Punctual(u)'
      BY <1>3, <2>11, Zenon DEF JobTime, Punctual
    <2>15. AsyncLater(u)'
      BY <1>1, <1>2, <1>3, <2>8, Zenon DEF AsyncLater
    <2> QED
      BY <2>1, <2>2, <2>3, <2>4, <2>5, <2>6, <2>9, <2>10, <2>12, <2>13, <2>14, <2>15, Zenon
  <1> QED
    BY <1>6, <1>7, <1>8, Zenon

(* All the invariant needs of the service order.                           *)
Laws ==
    InsertLaw /\ WithoutLaw /\ HeadLaw /\ AppendLaw /\ MergeLaw /\ TimesLaw

(* A step that changes nothing.                                            *)
LEMMA StutterStep == ASSUME IInv, UNCHANGED vars PROVE IInv'
  <1>1. /\ pc' = pc /\ queue' = queue /\ asyncq' = asyncq /\ scheduled' = scheduled
        /\ when' = when /\ curTick' = curTick /\ at' = at /\ job' = job
        /\ mutex' = mutex /\ fresh' = fresh
    BY Zenon DEF vars
  <1>2. TypeInv' /\ Bounded'
    BY <1>1, Zenon DEF IInv, TypeInv, Bounded, Busy
  <1>3. ASSUME NEW t \in Threads PROVE ThreadInv(t)'
    <2> USE <1>1 DEF IInv, ThreadInv
    <2>1. OutTogether(t)' /\ AtMatches(t)' /\ OthersWait(t)'
      BY Zenon DEF OutTogether, AtMatches, OthersWait, Stopped, Busy, Winner
    <2>2. JobMatches(t)' /\ NotThereYet(t)' /\ TimeSet(t)' /\ OwnJob(t)'
      BY Zenon DEF JobMatches, NotThereYet, TimeSet, OwnJob, Busy, Started, ToDo, Inside
    <2>3. FreshInv(t)' /\ QueueInv(t)' /\ FlagInv(t)' /\ LimitFlag(t)'
      <3>1. FreshInv(t)' /\ LimitFlag(t)'
        BY Zenon DEF FreshInv, LimitFlag, Inside
      <3>2. QueueInv(t)'
        BY Zenon DEF QueueInv, Inside
      <3>3. FlagInv(t)'
        <4>1. scheduled'[t] = scheduled[t] /\ Inside(t)' = Inside(t)
          BY Zenon DEF Inside
        <4>2. ASSUME NEW v \in Threads, NEW f PROVE Setting(v, f, t)' <=> Setting(v, f, t)
          BY Zenon DEF Setting
        <4> QED
          BY <4>1, <4>2, Zenon DEF FlagInv
      <3> QED
        BY <3>1, <3>2, <3>3, Zenon
    <2>4. SyncPlace(t)' /\ LimitPlace(t)' /\ SyncAgain(t)' /\ TakenOut(t)'
      BY Zenon DEF SyncPlace, LimitPlace, SyncAgain, TakenOut, Inside, Stopped, Busy,
                   ToDo, Winner
    <2>5. Window(t)' /\ JobTime(t)' /\ Punctual(t)' /\ NotPast(t)' /\ AsyncLater(t)'
      BY Zenon DEF Window, JobTime, Punctual, NotPast, AsyncLater, Inside, Stopped,
                   Busy, Started, Winner
    <2> QED
      BY <2>1, <2>2, <2>3, <2>4, <2>5, Zenon
  <1> QED
    BY <1>2, <1>3, Zenon DEF IInv

(* No step of the simulation breaks the invariant, given the laws of the   *)
(* service order.                                                          *)
LEMMA NextInv == ASSUME Laws, IInv, [Next]_vars PROVE IInv'
  <1> USE DEF Laws
  <1>1. CASE ScriptStep
    BY <1>1, PyScheduleStep, PySchedStatEventStep, SimulateStep, Zenon DEF ScriptStep
  <1>2. CASE simulateReturn
    BY <1>2, SimulateReturnStep, Zenon
  <1>3. ASSUME NEW t \in Threads, LoopStep(t) PROVE IInv'
    BY <1>3, HandleAsyncInsertionsStep, ServiceOneStep, HandlerDoneStep, AsyncInsertStep,
       SetFlagStep, ProcessStep, GlobalBarrierStep, Zenon DEF LoopStep
  <1>4. ASSUME NEW t \in Threads, HandlerStep(t) PROVE IInv'
    BY <1>4, HandlerOwnStep, HandlerAsyncStep, ExitSimLoopStep, SchedStatEventStep, Zenon
       DEF HandlerStep
  <1>5. CASE UNCHANGED vars
    BY <1>5, StutterStep, Zenon
  <1> QED
    BY <1>1, <1>2, <1>3, <1>4, <1>5, Zenon DEF Next

(* What the invariant says of the properties.                              *)
LEMMA InvImplies ==
    ASSUME IInv
    PROVE  /\ TypeOK /\ NothingInThePast /\ WithinQuantum /\ StoppedTogether
  <1> USE DEF IInv, ThreadInv
  <1>1. TypeOK
    <2>2. ASSUME NEW t \in Threads
          PROVE  /\ Elements(queue[t]) \subseteq AllEvents
                 /\ Elements(asyncq[t]) \subseteq AllEvents
                 /\ scheduled[t] \subseteq AllEvents
      <3>1. queue[t] \in Queues /\ asyncq[t] \in Queues
        BY Zenon DEF TypeInv
      <3>2. scheduled[t] \in SUBSET AllEvents
        BY Zenon DEF TypeInv
      <3> QED
        BY QueueElements, <3>1, <3>2, Zenon
    <2> QED
      BY <2>2, Zenon DEF TypeInv, TypeOK, States, Times
  <1>2. NothingInThePast
    <2>1. ASSUME NEW t \in Threads, pc[t] = "push"
          PROVE  job[t].when >= curTick[job[t].next]
      <3>1. Busy(t) /\ job[t].next \in Threads /\ ~Stopped
        BY <2>1, Numbers, InLoop, Zenon DEF Busy
      <3>2. /\ curTick[job[t].next] \in Int /\ curTick[t] \in Int /\ job[t].when \in Int
            /\ when["sync"] \in Int
        BY <3>1, Numbers, EventKinds, Zenon
      <3>3. curTick[job[t].next] <= when["sync"]
        BY <3>1, Zenon DEF Window
      <3>4. CASE at[t] # "sync"
        <4>1. job[t].when >= when["sync"]
          BY <3>1, <3>4, Zenon DEF JobTime
        <4> QED
          BY <4>1, <3>2, <3>3
      <3>5. CASE at[t] = "sync"
        <4>1. job[t].when = curTick[t] + simQuantum
          BY <3>1, <3>5, Zenon DEF JobTime
        <4>2. Winner(t)
          BY <3>1, <3>5, EventKinds, Zenon DEF Winner, Busy
        <4>3. curTick[job[t].next] = curTick[t]
          BY <3>1, <4>2, Zenon DEF OthersWait
        <4> QED
          BY <4>1, <4>3, <3>2, Constants
      <3> QED
        BY <3>4, <3>5, Zenon
    <2>2. ASSUME NEW t \in Threads, NEW e \in Elements(queue[t]) \cup Elements(asyncq[t])
          PROVE  when[e] >= curTick[t]
      BY Zenon DEF NotPast, Inside
    <2> QED
      BY <2>1, <2>2, Zenon DEF NothingInThePast
  <1>3. WithinQuantum
    <2>1. ASSUME NEW t \in Threads, NEW u \in Threads
          PROVE  curTick[t] - curTick[u] <= simQuantum
      <3>1. curTick[t] \in Int /\ curTick[u] \in Int /\ when["sync"] \in Int
        BY Numbers, EventKinds, Zenon
      <3>2. CASE Stopped
        <4>1. curTick[t] = curTick[u]
          BY <3>2, Zenon DEF Window
        <4> QED
          BY <4>1, <3>1, Constants
      <3>3. CASE ~Stopped
        <4>1. when["sync"] <= curTick[u] + simQuantum /\ curTick[t] <= when["sync"]
          BY <3>3, Zenon DEF Window
        <4> QED
          BY <4>1, <3>1, Constants
      <3> QED
        BY <3>2, <3>3, Zenon
    <2> QED
      BY <2>1, Zenon DEF WithinQuantum
  <1>4. StoppedTogether
    <2>1. ASSUME pc[main] = "python", NEW t \in Threads
          PROVE  /\ curTick[t] = curTick[main]
                 /\ t # main => pc[t] = "idle"
                 /\ "sync" \notin Inside(t)
      <3>1. Stopped
        BY <2>1, Zenon DEF Stopped
      <3> QED
        BY <2>1, <3>1, Zenon DEF Window, OutTogether, SyncPlace
    <2> QED
      BY <2>1, Zenon DEF StoppedTogether, Inside
  <1> QED
    BY <1>1, <1>2, <1>3, <1>4, Zenon
-----------------------------------------------------------------------------
(* The priorities of the kinds of events.                                  *)
LEMMA Priorities ==
    /\ Priority["sync"] = 95
    /\ \A e \in ExitEvents : Priority[e] = 100
    /\ \A e \in Stats : Priority[e] = 90
    /\ \A e \in LocalEvents : Priority[e] = 0
  <1>1. /\ \A e \in ExitEvents : e # "sync" /\ e \in AllEvents
        /\ \A e \in Stats : e # "sync" /\ e \notin ExitEvents /\ e \in AllEvents
        /\ \A e \in LocalEvents : /\ e # "sync" /\ e \notin ExitEvents
                                  /\ e \notin Stats /\ e \in AllEvents
        /\ "sync" \in AllEvents
    BY SimLoopAssumption DEF AllEvents, Globals, ExitEvents
  <1>2. Priority["sync"] = 95
    BY <1>1, ZenonT(40) DEF Priority
  <1>3. ASSUME NEW e \in ExitEvents PROVE Priority[e] = 100
    BY <1>1, ZenonT(40) DEF Priority
  <1>4. ASSUME NEW e \in Stats PROVE Priority[e] = 90
    BY <1>1, ZenonT(40) DEF Priority
  <1>5. ASSUME NEW e \in LocalEvents PROVE Priority[e] = 0
    BY <1>1, ZenonT(40) DEF Priority
  <1> QED
    BY <1>2, <1>3, <1>4, <1>5

-----------------------------------------------------------------------------
(* Handlers schedule events of other threads, and statistics events, past  *)
(* the end of the quantum they run in.                                     *)
FarAhead == 0 \notin StatDelays /\ \A d \in AsyncDelays : d > simQuantum

(* An event e at the time w is serviced after the sync event.              *)
Later(e, w) == w > when["sync"] \/ (w = when["sync"] /\ e \in ExitEvents)

(* What a schedule() through the async queues is about comes after the     *)
(* sync event.                                                             *)
LaterJob(t) == Busy(t) /\ at[t] # "sync" => Later(job[t].event, job[t].when)

(* So does what it puts into an async queue.                               *)
LaterAsync(t) ==
    ~Stopped /\ pc[t] # "merge" /\ (\A v \in Threads : Winner(v) => at[v] # "sync") =>
        \A e \in Elements(asyncq[t]) : e # "sync" => Later(e, when[e])

(* The events threads wait for do not.                                     *)
DueWait(t) ==
    pc[t] = "wait" /\ (\A v \in Threads : ~Winner(v)) => ~Later(at[t], when[at[t]])

(* An event that has its flag is in the queue, or about to get it again.   *)
Exact(t) ==
    \A e \in scheduled[t] : e \in Inside(t) \/ \E v \in Threads : Setting(v, e, t)

(* An event that is about to get its flag is in the queue.                 *)
InPlace(t) ==
    \A v \in Threads : pc[v] = "flag" /\ job[v].next = t => job[v].event \in Inside(t)

(* A statistics event repeats at a later time.                             *)
StatJob(t) == Busy(t) /\ at[t] \in Stats => job[t].when > curTick[t]

(* And is in the queues again for that time only.                          *)
StatDone(t) ==
    pc[t] = "second" /\ at[t] \in Stats =>
        \A u \in Threads : at[t] \in Inside(u) => when[at[t]] > curTick[t]

(* All of this.                                                            *)
FarInv(t) ==
    /\ LaterJob(t) /\ LaterAsync(t) /\ DueWait(t)
    /\ Exact(t) /\ InPlace(t) /\ StatJob(t) /\ StatDone(t)

(* t begins a schedule() of e, for a time w past the sync event.           *)
BeginsLater(t, e, w) ==
    /\ Begins(t, e, w)
    /\ at[t] # "sync" => Later(e, w)
    /\ at[t] \in Stats => w > curTick[t]

(* The first event of a queue is not after the sync event.                 *)
LEMMA HeadNotLater ==
    ASSUME HeadLaw, IInv, NEW t \in Threads, NEW e, Serves(t, e)
    PROVE  ~Later(e, when[e])
  <1>1. /\ e = Head(queue[t]) /\ queue[t] # <<>> /\ "sync" \in Elements(queue[t])
        /\ e \in AllEvents
    BY Zenon DEF Serves
  <1>2. queue[t] \in Queues /\ when \in Times /\ Order!InOrder(queue[t], when)
    BY Zenon DEF IInv, ThreadInv, TypeInv, QueueInv
  <1>3. ~Order!Before(when, "sync", e)
    BY <1>1, <1>2, Zenon DEF HeadLaw
  <1>4. ~(when["sync"] < when[e]) /\ (when["sync"] = when[e] => ~(Priority["sync"] < Priority[e]))
    BY <1>3, Zenon DEF Order!Before
  <1>5. when["sync"] \in Int /\ when[e] \in Int
    BY <1>1, Numbers, EventKinds, Zenon
  <1>6. ~(when[e] > when["sync"])
    BY <1>4, <1>5
  <1>7. ASSUME e \in ExitEvents PROVE when[e] # when["sync"]
    <2>1. Priority[e] = 100 /\ Priority["sync"] = 95
      BY <1>7, Priorities, Zenon
    <2>2. Priority["sync"] < Priority[e]
      BY <2>1
    <2> QED
      BY <2>2, <1>4, Zenon
  <1> QED
    BY <1>6, <1>7, Zenon DEF Later

(* The Scheduled flag is set.                                              *)
LEMMA SetFlagFar ==
    ASSUME IInv, \A u \in Threads : FarInv(u), NEW t \in Threads, NEW e, NEW q, SetsFlag(t, e, q)
    PROVE  \A u \in Threads : FarInv(u)'
  <1> USE DEF FarInv
  <1>1. /\ e = job[t].event /\ q = job[t].next /\ pc[t] = "flag" /\ Busy(t)
        /\ \A u \in Threads : u # t => pc'[u] = pc[u] /\ job'[u] = job[u]
        /\ Busy(t)' <=> More(e, q)
        /\ when' = when /\ curTick' = curTick /\ at' = at /\ asyncq' = asyncq
        /\ \A u \in Threads : /\ Inside(u)' = Inside(u)
                              /\ Winner(u)' <=> Winner(u)
                              /\ Busy(u)' => Busy(u)
        /\ Stopped' <=> Stopped
    BY Zenon DEF SetsFlag
  <1>2. /\ Busy(t)' => job'[t].event = job[t].event /\ job'[t].when = job[t].when
        /\ pc'[t] \in {"push", "second", "handler"}
        /\ pc'[t] = "second" => at[t] \in Globals
    BY Zenon DEF SetsFlag
  <1>3. ASSUME NEW u \in Threads, NEW v \in Threads, NEW f, v # t
        PROVE  Setting(v, f, u)' <=> Setting(v, f, u)
    BY <1>1, <1>3, Zenon DEF Setting
  <1>4. ASSUME NEW u \in Threads PROVE LaterJob(u)' /\ StatJob(u)'
    <2>1. Busy(u)' => job'[u].event = job[u].event /\ job'[u].when = job[u].when
      BY <1>1, <1>2, Zenon
    <2> QED
      BY <2>1, <1>1, Zenon DEF LaterJob, StatJob, Later
  <1>5. ASSUME NEW u \in Threads PROVE LaterAsync(u)'
    <2>1. pc'[u] # "merge" => pc[u] # "merge"
      BY <1>1, Zenon
    <2> QED
      BY <2>1, <1>1, Zenon DEF LaterAsync, Later
  <1>6. ASSUME NEW u \in Threads PROVE DueWait(u)'
    <2>1. pc'[u] = "wait" => pc[u] = "wait"
      BY <1>1, <1>2, Zenon
    <2> QED
      BY <2>1, <1>1, Zenon DEF DueWait, Later
  <1>7. ASSUME NEW u \in Threads PROVE Exact(u)'
    <2>1. ASSUME NEW f \in scheduled'[u], f \notin Inside(u)
          PROVE  \E v \in Threads : Setting(v, f, u)'
      <3>1. f \in scheduled[u]
        <4>1. u = q => f # e
          BY <2>1, <1>1, Zenon DEF InPlace
        <4> QED
          BY <4>1, <2>1, Zenon DEF SetsFlag
      <3>2. PICK v \in Threads : Setting(v, f, u)
        BY <3>1, <2>1, Zenon DEF Exact
      <3>3. v # t
        BY <3>2, <2>1, <1>1, Zenon DEF Setting, InPlace
      <3> QED
        BY <3>2, <3>3, <1>3, Zenon
    <2> QED
      BY <2>1, <1>1, Zenon DEF Exact
  <1>8. ASSUME NEW u \in Threads PROVE InPlace(u)'
    <2>1. ASSUME NEW v \in Threads, pc'[v] = "flag", job'[v].next = u
          PROVE  job'[v].event \in Inside(u)
      <3>1. v # t /\ pc[v] = "flag" /\ job'[v] = job[v]
        BY <2>1, <1>1, <1>2, Zenon
      <3> QED
        BY <2>1, <3>1, Zenon DEF InPlace
    <2> QED
      BY <2>1, <1>1, Zenon DEF InPlace
  <1>9. ASSUME NEW u \in Threads PROVE StatDone(u)'
    <2>1. CASE u = t
      <3>1. ASSUME pc'[t] = "second", at[t] \in Stats PROVE when[at[t]] > curTick[t]
        <4>1. at[t] = e /\ when[e] = job[t].when
          BY <3>1, <1>1, EventKinds, Zenon DEF IInv, ThreadInv, JobMatches, TimeSet, Started
        <4>2. job[t].when > curTick[t]
          BY <3>1, <1>1, Zenon DEF StatJob
        <4> QED
          BY <4>1, <4>2, Zenon
      <3> QED
        BY <2>1, <3>1, <1>1, Zenon DEF StatDone
    <2>2. CASE u # t
      BY <2>2, <1>1, Zenon DEF StatDone
    <2> QED
      BY <2>1, <2>2, Zenon
  <1> QED
    BY <1>4, <1>5, <1>6, <1>7, <1>8, <1>9, Zenon

(* The event goes into an async queue.                                     *)
LEMMA AsyncInsertFar ==
    ASSUME IInv, \A u \in Threads : FarInv(u), NEW t \in Threads, NEW e, NEW q, NEW w,
           Pushes(t, e, q, w)
    PROVE  \A u \in Threads : FarInv(u)'
  <1> USE DEF FarInv
  <1>1. /\ e = job[t].event /\ q = job[t].next /\ w = job[t].when
        /\ pc[t] = "push" /\ pc'[t] = "flag" /\ \A u \in Threads : u # t => pc'[u] = pc[u]
        /\ curTick' = curTick /\ at' = at /\ job' = job /\ scheduled' = scheduled
        /\ when'[e] = w /\ Busy(t)
        /\ \A u \in Threads : /\ Busy(u)' <=> Busy(u)
                              /\ Winner(u)' <=> Winner(u)
                              /\ Inside(u) \subseteq Inside(u)'
        /\ Stopped' <=> Stopped
        /\ e \in Inside(q)' /\ q \in Threads
    BY Zenon DEF Pushes
  <1>2. /\ Winner(t) => \A u \in Threads : u # t => pc[u] = "wait"
        /\ at[t] \in Globals => Winner(t)
        /\ e = "sync" => at[t] = "sync" /\ Winner(t)
        /\ e # "sync" => when'["sync"] = when["sync"] /\ at[t] # "sync"
    <2>1. e = "sync" <=> at[t] = "sync"
      BY Zenon DEF Pushes
    <2>2. at[t] \in Globals => Winner(t)
      BY <1>1, Zenon DEF Winner
    <2>3. e # "sync" => when'["sync"] = when["sync"]
      BY Zenon DEF Pushes
    <2>4. Winner(t) => \A u \in Threads : u # t => pc[u] = "wait"
      BY Zenon DEF IInv, ThreadInv, OthersWait
    <2> QED
      BY <2>1, <2>2, <2>3, <2>4, EventKinds, Zenon
  <1>3. ASSUME NEW u \in Threads, NEW v \in Threads, NEW f, Setting(v, f, u)
        PROVE  Setting(v, f, u)'
    BY <1>1, <1>3, Zenon DEF Setting
  <1>4. ASSUME NEW u \in Threads PROVE LaterJob(u)'
    <2>1. CASE e = "sync"
      <3>1. u # t => ~Busy(u)
        BY <2>1, <1>2, Zenon DEF Busy
      <3> QED
        BY <3>1, <2>1, <1>1, <1>2, Zenon DEF LaterJob
    <2>2. CASE e # "sync"
      BY <2>2, <1>1, <1>2, Zenon DEF LaterJob, Later
    <2> QED
      BY <2>1, <2>2, Zenon
  <1>5. ASSUME NEW u \in Threads PROVE LaterAsync(u)'
    <2>1. CASE e = "sync"
      BY <2>1, <1>1, <1>2, Zenon DEF LaterAsync
    <2>2. CASE e # "sync"
      <3>1. ASSUME NEW f \in Elements(asyncq[u])', f \notin Elements(asyncq[u])
            PROVE  f = e
        BY <3>1, Zenon DEF Pushes
      <3>2. Later(e, when[e])'
        BY <2>2, <1>1, <1>2, Zenon DEF LaterJob, Later
      <3>3. ASSUME NEW f \in Elements(asyncq[u]), Later(f, when[f]) PROVE Later(f, when[f])'
        <4>1. when'[f] = when[f]
          BY Zenon DEF Pushes, Inside
        <4> QED
          BY <4>1, <3>3, <2>2, <1>2, Zenon DEF Later
      <3>4. pc'[u] # "merge" => pc[u] # "merge"
        BY <1>1, Zenon
      <3> QED
        BY <3>1, <3>2, <3>3, <3>4, <1>1, Zenon DEF LaterAsync
    <2> QED
      BY <2>1, <2>2, Zenon
  <1>6. ASSUME NEW u \in Threads PROVE DueWait(u)'
    <2> SUFFICES ASSUME pc'[u] = "wait", \A v \in Threads : ~Winner(v)'
                 PROVE  ~Later(at[u], when[at[u]])'
      BY Zenon DEF DueWait
    <2>1. pc[u] = "wait" /\ \A v \in Threads : ~Winner(v)
      BY <1>1, Zenon
    <2>2. at[t] \notin Globals /\ e # "sync" /\ at[u] \in Globals
      BY <2>1, <1>2, Zenon DEF IInv, ThreadInv, AtMatches
    <2>3. when'[at[u]] = when[at[u]]
      BY <2>2, Zenon DEF Pushes
    <2>4. ~Later(at[u], when[at[u]])
      BY <2>1, Zenon DEF DueWait
    <2> QED
      BY <2>2, <2>3, <2>4, <1>1, <1>2, Zenon DEF Later
  <1>7. ASSUME NEW u \in Threads PROVE Exact(u)'
    <2>1. ASSUME NEW f \in scheduled[u], f \notin Inside(u)'
          PROVE  \E v \in Threads : Setting(v, f, u)'
      <3>1. PICK v \in Threads : Setting(v, f, u)
        BY <2>1, <1>1, Zenon DEF Exact
      <3> QED
        BY <3>1, <1>3, Zenon
    <2> QED
      BY <2>1, <1>1, Zenon DEF Exact
  <1>8. ASSUME NEW u \in Threads PROVE InPlace(u)'
    <2>1. ASSUME NEW v \in Threads, pc'[v] = "flag", job[v].next = u
          PROVE  job[v].event \in Inside(u)'
      <3>1. CASE v = t
        BY <3>1, <2>1, <1>1, Zenon
      <3>2. CASE v # t
        BY <3>2, <2>1, <1>1, Zenon DEF InPlace
      <3> QED
        BY <3>1, <3>2, Zenon
    <2> QED
      BY <2>1, <1>1, Zenon DEF InPlace
  <1>9. ASSUME NEW u \in Threads PROVE StatJob(u)' /\ StatDone(u)'
    <2>1. pc'[u] # "second"
      <3>1. CASE u = t
        BY <3>1, <1>1, Zenon
      <3>2. ASSUME u # t, pc[u] = "second" PROVE FALSE
        <4>1. Winner(u)
          BY <3>2, Zenon DEF IInv, ThreadInv, AtMatches, Winner
        <4> QED
          BY <4>1, <3>2, <1>1, Zenon DEF IInv, ThreadInv, OthersWait
      <3> QED
        BY <3>1, <3>2, <1>1, Zenon
    <2> QED
      BY <2>1, <1>1, Zenon DEF StatJob, StatDone
  <1> QED
    BY <1>4, <1>5, <1>6, <1>7, <1>8, <1>9, Zenon

(* A thread takes the first event of its queue: no thread is about to set  *)
(* its flag, which is only for events past the sync event.                 *)
LEMMA ServiceOneFar ==
    ASSUME HeadLaw, IInv, \A u \in Threads : FarInv(u), NEW t \in Threads, NEW e, Serves(t, e)
    PROVE  \A u \in Threads : FarInv(u)'
  <1> USE DEF FarInv
  <1>1. /\ pc[t] = "loop" /\ pc'[t] \in {"handler", "winner", "wait"} /\ at'[t] = e
        /\ \A u \in Threads : u # t => /\ scheduled'[u] = scheduled[u] /\ curTick'[u] = curTick[u]
                                       /\ at'[u] = at[u] /\ pc'[u] = pc[u]
                                       /\ Inside(u)' = Inside(u)
        /\ Inside(t)' = Inside(t) \ {e} /\ scheduled'[t] = scheduled[t] \ {e}
        /\ asyncq' = asyncq /\ when' = when /\ job' = job
        /\ \A u \in Threads : /\ Busy(u)' <=> Busy(u)
                              /\ ~Winner(u)
                              /\ Busy(u) => u # t
        /\ ~Stopped /\ ~Stopped'
    BY Zenon DEF Serves
  <1>2. ~Later(e, when[e])
    BY HeadNotLater, Zenon
  <1>3. ASSUME NEW u \in Threads, NEW v \in Threads, NEW f
        PROVE  Setting(v, f, u)' <=> Setting(v, f, u)
    BY <1>1, Zenon DEF Setting
  <1>4. ASSUME NEW u \in Threads PROVE LaterJob(u)' /\ StatJob(u)'
    <2>1. Busy(u)' => Busy(u) /\ at'[u] = at[u] /\ curTick'[u] = curTick[u]
      BY <1>1, Zenon
    <2> QED
      BY <2>1, <1>1, Zenon DEF LaterJob, StatJob, Later
  <1>5. ASSUME NEW u \in Threads PROVE LaterAsync(u)'
    <2>1. pc[u] # "merge" \/ pc'[u] = "merge"
      BY <1>1, Zenon
    <2> QED
      BY <2>1, <1>1, Zenon DEF LaterAsync, Later
  <1>6. ASSUME NEW u \in Threads PROVE DueWait(u)'
    <2>1. CASE u = t
      BY <2>1, <1>1, <1>2, Zenon DEF DueWait, Later
    <2>2. CASE u # t
      BY <2>2, <1>1, Zenon DEF DueWait, Later
    <2> QED
      BY <2>1, <2>2, Zenon
  <1>7. ASSUME NEW u \in Threads PROVE Exact(u)'
    <2>1. ASSUME NEW f \in scheduled'[u], f \notin Inside(u)'
          PROVE  \E v \in Threads : Setting(v, f, u)'
      <3>1. f \in scheduled[u] /\ f \notin Inside(u)
        BY <2>1, <1>1, Zenon
      <3>2. PICK v \in Threads : Setting(v, f, u)
        BY <3>1, Zenon DEF Exact
      <3> QED
        BY <3>2, <1>3, Zenon
    <2> QED
      BY <2>1, Zenon DEF Exact
  <1>8. ASSUME NEW u \in Threads PROVE InPlace(u)'
    <2>1. ASSUME NEW v \in Threads, pc'[v] = "flag", job[v].next = u
          PROVE  job[v].event \in Inside(u)'
      <3>1. v # t /\ pc[v] = "flag" /\ job[v].event \in Inside(u)
        BY <2>1, <1>1, Zenon DEF InPlace
      <3>2. job[v].event # e
        <4>1. Busy(v) /\ Started(v) /\ at[v] # "sync"
          BY <3>1, <1>1, EventKinds, Zenon DEF Busy, Started, Winner
        <4>2. when[job[v].event] = job[v].when /\ Later(job[v].event, job[v].when)
          BY <4>1, Zenon DEF LaterJob, IInv, ThreadInv, TimeSet
        <4> QED
          BY <4>2, <1>2, Zenon
      <3> QED
        BY <3>1, <3>2, <1>1, Zenon
    <2> QED
      BY <2>1, <1>1, Zenon DEF InPlace
  <1>9. ASSUME NEW u \in Threads PROVE StatDone(u)'
    <2>1. pc'[u] # "second"
      <3>1. ASSUME pc[u] = "second" PROVE FALSE
        BY <3>1, <1>1, Zenon DEF IInv, ThreadInv, AtMatches, Winner
      <3> QED
        BY <3>1, <1>1, Zenon
    <2> QED
      BY <2>1, Zenon DEF StatDone
  <1> QED
    BY <1>4, <1>5, <1>6, <1>7, <1>8, <1>9, Zenon

(* A thread merges its async queue.                                        *)
LEMMA MergeFar ==
    ASSUME IInv, \A u \in Threads : FarInv(u), NEW t \in Threads, Merges(t)
    PROVE  \A u \in Threads : FarInv(u)'
  <1> USE DEF FarInv
  <1>1. /\ pc[t] = "merge" /\ pc'[t] = "loop" /\ Elements(asyncq'[t]) = {}
        /\ \A u \in Threads : u # t => pc'[u] = pc[u] /\ asyncq'[u] = asyncq[u]
        /\ \A u \in Threads : /\ Inside(u)' = Inside(u)
                              /\ ~Winner(u) /\ ~Winner(u)'
                              /\ Busy(u)' <=> Busy(u)
        /\ when' = when /\ curTick' = curTick /\ at' = at /\ job' = job
        /\ scheduled' = scheduled /\ ~Stopped
    BY Zenon DEF Merges
  <1>2. ASSUME NEW u \in Threads, NEW v \in Threads, NEW f
        PROVE  Setting(v, f, u)' <=> Setting(v, f, u)
    BY <1>1, Zenon DEF Setting
  <1>3. ASSUME NEW u \in Threads PROVE FarInv(u)'
    <2>1. LaterJob(u)' /\ StatJob(u)'
      BY <1>1, Zenon DEF LaterJob, StatJob, Later
    <2>2. LaterAsync(u)'
      <3>1. CASE u = t
        BY <3>1, <1>1, Zenon DEF LaterAsync
      <3>2. CASE u # t
        BY <3>2, <1>1, Zenon DEF LaterAsync, Later
      <3> QED
        BY <3>1, <3>2, Zenon
    <2>3. DueWait(u)'
      BY <1>1, Zenon DEF DueWait, Later
    <2>4. Exact(u)'
      BY <1>1, <1>2, Zenon DEF Exact
    <2>5. InPlace(u)'
      BY <1>1, Zenon DEF InPlace
    <2>6. StatDone(u)'
      BY <1>1, Zenon DEF StatDone
    <2> QED
      BY <2>1, <2>2, <2>3, <2>4, <2>5, <2>6, Zenon
  <1> QED
    BY <1>3, Zenon

(* The winner is done with its event.                                      *)
LEMMA FinishFar ==
    ASSUME IInv, \A u \in Threads : FarInv(u), NEW t \in Threads, Finishes(t)
    PROVE  \A u \in Threads : FarInv(u)'
  <1> USE DEF FarInv
  <1>1. /\ pc[t] = "winner" /\ pc'[t] = "second" /\ at[t] # "sync"
        /\ \A u \in Threads : /\ at[u] = at[t] /\ at[t] \notin Inside(u)
                              /\ u # t => pc[u] = "wait" /\ pc'[u] = "wait"
                              /\ ~Busy(u) /\ ~Busy(u)'
                              /\ Inside(u)' = Inside(u)
        /\ Winner(t)' /\ ~Stopped
        /\ job' = job /\ asyncq' = asyncq /\ when' = when /\ curTick' = curTick
        /\ at' = at /\ scheduled' = scheduled
    BY Zenon DEF Finishes
  <1>2. ASSUME NEW u \in Threads, NEW v \in Threads, NEW f
        PROVE  ~Setting(v, f, u)
    BY <1>1, Zenon DEF Setting, Busy
  <1>3. ASSUME NEW u \in Threads PROVE FarInv(u)'
    <2>0. pc[u] # "merge" /\ pc'[u] # "flag"
      BY <1>1, Zenon
    <2>1. LaterJob(u)' /\ StatJob(u)' /\ DueWait(u)'
      BY <1>1, Zenon DEF LaterJob, StatJob, DueWait
    <2>2. LaterAsync(u)'
      BY <1>1, <2>0, Zenon DEF LaterAsync, Later
    <2>4. Exact(u)'
      BY <1>1, <1>2, Zenon DEF Exact
    <2>5. InPlace(u)'
      BY <1>1, Zenon DEF InPlace
    <2>6. StatDone(u)'
      BY <1>1, Zenon DEF StatDone
    <2> QED
      BY <2>1, <2>2, <2>4, <2>5, <2>6, Zenon
  <1> QED
    BY <1>3, Zenon

(* A schedule() begins, for a time past the sync event.                    *)
LEMMA BeginFar ==
    ASSUME IInv, \A u \in Threads : FarInv(u), NEW t \in Threads, NEW e, NEW w,
           BeginsLater(t, e, w)
    PROVE  \A u \in Threads : FarInv(u)'
  <1> USE DEF FarInv
  <1>1. /\ pc[t] \in {"handler", "winner"} /\ pc'[t] = "push"
        /\ \A u \in Threads : u # t => pc'[u] = pc[u] /\ job'[u] = job[u]
        /\ job'[t].event = e /\ job'[t].when = w
        /\ asyncq' = asyncq /\ when' = when /\ curTick' = curTick
        /\ at' = at /\ scheduled' = scheduled
        /\ \A u \in Threads : /\ Inside(u)' = Inside(u)
                              /\ u # t => (Busy(u)' <=> Busy(u))
                              /\ Winner(u)' <=> Winner(u)
        /\ Stopped' <=> Stopped
        /\ at[t] # "sync" => Later(e, w)
        /\ at[t] \in Stats => w > curTick[t]
    BY Zenon DEF BeginsLater, Begins
  <1>2. ASSUME NEW u \in Threads, NEW v \in Threads, NEW f
        PROVE  Setting(v, f, u)' <=> Setting(v, f, u)
    BY <1>1, Zenon DEF Setting
  <1>3. ASSUME NEW u \in Threads PROVE FarInv(u)'
    <2>1. LaterJob(u)' /\ StatJob(u)'
      <3>1. CASE u = t
        BY <3>1, <1>1, Zenon DEF LaterJob, StatJob, Later
      <3>2. CASE u # t
        BY <3>2, <1>1, Zenon DEF LaterJob, StatJob, Later
      <3> QED
        BY <3>1, <3>2, Zenon
    <2>2. LaterAsync(u)'
      <3>1. pc[u] # "merge" \/ pc'[u] = "merge"
        BY <1>1, Zenon
      <3> QED
        BY <3>1, <1>1, Zenon DEF LaterAsync, Later
    <2>3. DueWait(u)'
      BY <1>1, Zenon DEF DueWait, Later
    <2>4. Exact(u)'
      BY <1>1, <1>2, Zenon DEF Exact
    <2>5. InPlace(u)'
      BY <1>1, Zenon DEF InPlace
    <2>6. StatDone(u)'
      BY <1>1, Zenon DEF StatDone
    <2> QED
      BY <2>1, <2>2, <2>3, <2>4, <2>5, <2>6, Zenon
  <1> QED
    BY <1>3, Zenon

(* The second barrier lets all threads go.                                 *)
LEMMA ReleaseFar ==
    ASSUME IInv, \A u \in Threads : FarInv(u), NEW t \in Threads, NEW g, Releases(t, g)
    PROVE  \A u \in Threads : FarInv(u)'
  <1> USE DEF FarInv
  <1>1. /\ g = at[t] /\ pc[t] = "second" /\ ~Stopped
        /\ g = "sync" \/ g \in Stats \/ g \in ExitEvents
        /\ Stopped' <=> g \in ExitEvents
        /\ \A u \in Threads :
              /\ at[u] = g /\ at'[u] = NoEvent
              /\ u # t => pc[u] = "wait"
              /\ ~Busy(u) /\ ~Busy(u)'
              /\ Inside(u)' = Inside(u)
              /\ g = "sync" => pc'[u] = "merge"
              /\ g \in Stats => g # "sync"
              /\ pc'[u] \in {"merge", "loop", "exited", "idle"}
        /\ asyncq' = asyncq /\ when' = when /\ scheduled' = scheduled
    BY Zenon DEF Releases
  <1>2. ASSUME NEW u \in Threads, NEW v \in Threads, NEW f
        PROVE  ~Setting(v, f, u)
    BY <1>1, Zenon DEF Setting, Busy
  <1>3. ASSUME NEW u \in Threads PROVE FarInv(u)'
    <2>0. pc[u] # "merge"
      BY <1>1, Zenon
    <2>1. LaterJob(u)' /\ StatJob(u)' /\ DueWait(u)' /\ StatDone(u)'
      BY <1>1, Zenon DEF LaterJob, StatJob, DueWait, StatDone
    <2>2. LaterAsync(u)'
      BY <1>1, <2>0, Zenon DEF LaterAsync, Later
    <2>4. Exact(u)'
      BY <1>1, <1>2, Zenon DEF Exact
    <2>5. InPlace(u)'
      BY <1>1, Zenon DEF InPlace
    <2> QED
      BY <2>1, <2>2, <2>4, <2>5, Zenon
  <1> QED
    BY <1>3, Zenon

(* A handler returns.                                                      *)
LEMMA ReturnFar ==
    ASSUME IInv, \A u \in Threads : FarInv(u), NEW t \in Threads, Returns(t)
    PROVE  \A u \in Threads : FarInv(u)'
  <1> USE DEF FarInv
  <1>1. /\ pc[t] = "handler" /\ pc'[t] = "loop"
        /\ \A u \in Threads : u # t => pc'[u] = pc[u] /\ at'[u] = at[u]
        /\ asyncq' = asyncq /\ scheduled' = scheduled /\ when' = when
        /\ curTick' = curTick /\ job' = job
        /\ \A u \in Threads : /\ Busy(u)' <=> Busy(u)
                              /\ Inside(u)' = Inside(u)
                              /\ ~Winner(u) /\ ~Winner(u)'
                              /\ Busy(u) => u # t
        /\ ~Stopped
    BY Zenon DEF Returns
  <1>2. ASSUME NEW u \in Threads, NEW v \in Threads, NEW f
        PROVE  Setting(v, f, u)' <=> Setting(v, f, u)
    BY <1>1, Zenon DEF Setting
  <1>3. ASSUME NEW u \in Threads PROVE FarInv(u)'
    <2>1. LaterJob(u)' /\ StatJob(u)'
      BY <1>1, Zenon DEF LaterJob, StatJob, Later
    <2>2. LaterAsync(u)'
      <3>1. pc[u] # "merge" \/ pc'[u] = "merge"
        BY <1>1, Zenon
      <3> QED
        BY <3>1, <1>1, Zenon DEF LaterAsync, Later
    <2>3. DueWait(u)' /\ StatDone(u)'
      <3>1. pc'[u] \in {"wait", "second"} => pc[u] = pc'[u] /\ at'[u] = at[u]
        BY <1>1, Zenon
      <3> QED
        BY <3>1, <1>1, Zenon DEF DueWait, StatDone, Later
    <2>4. Exact(u)'
      BY <1>1, <1>2, Zenon DEF Exact
    <2>5. InPlace(u)'
      BY <1>1, Zenon DEF InPlace
    <2> QED
      BY <2>1, <2>2, <2>3, <2>4, <2>5, Zenon
  <1> QED
    BY <1>3, Zenon

(* An event goes straight into the queues of S.                            *)
LEMMA PutFar ==
    ASSUME IInv, \A u \in Threads : FarInv(u), NEW e, NEW w, NEW S, PutsAside(e, w, S)
    PROVE  \A u \in Threads : FarInv(u)'
  <1> USE DEF FarInv
  <1>1. /\ pc' = pc /\ asyncq' = asyncq /\ curTick' = curTick /\ at' = at /\ job' = job
        /\ when'["sync"] = when["sync"]
        /\ \A u \in Threads : /\ Busy(u)' <=> Busy(u)
                              /\ Winner(u)' <=> Winner(u)
                              /\ Inside(u) \subseteq Inside(u)'
                              /\ Inside(u)' \subseteq Inside(u) \cup {e}
                              /\ \A f \in scheduled'[u] : f \in scheduled[u] \/ f \in Inside(u)'
        /\ Stopped' <=> Stopped
    BY Zenon DEF PutsAside
  <1>2. /\ \A u \in Threads : at[u] \in Globals => at[u] # e /\ when'[at[u]] = when[at[u]]
        /\ \A u \in Threads : \A f \in Inside(u) : when'[f] = when[f]
    BY Zenon DEF PutsAside
  <1>3. ASSUME NEW u \in Threads, NEW v \in Threads, NEW f
        PROVE  Setting(v, f, u)' <=> Setting(v, f, u)
    BY <1>1, Zenon DEF Setting
  <1>4. ASSUME NEW u \in Threads PROVE FarInv(u)'
    <2>0. pc[u] \in {"wait", "second"} => at[u] \in Globals
      BY Zenon DEF IInv, ThreadInv, AtMatches
    <2>1. LaterJob(u)' /\ StatJob(u)'
      BY <1>1, Zenon DEF LaterJob, StatJob, Later
    <2>2. LaterAsync(u)'
      <3>1. ASSUME NEW f \in Elements(asyncq[u]) PROVE when'[f] = when[f]
        BY <1>2, Zenon DEF Inside
      <3> QED
        BY <3>1, <1>1, Zenon DEF LaterAsync, Later
    <2>3. DueWait(u)'
      BY <2>0, <1>1, <1>2, Zenon DEF DueWait, Later
    <2>4. StatDone(u)'
      BY <2>0, <1>1, <1>2, Zenon DEF StatDone
    <2>5. Exact(u)'
      <3>1. ASSUME NEW f \in scheduled'[u], f \notin Inside(u)'
            PROVE  \E v \in Threads : Setting(v, f, u)'
        <4>1. f \in scheduled[u] /\ f \notin Inside(u)
          BY <3>1, <1>1, Zenon
        <4>2. PICK v \in Threads : Setting(v, f, u)
          BY <4>1, Zenon DEF Exact
        <4> QED
          BY <4>2, <1>3, Zenon
      <3> QED
        BY <3>1, Zenon DEF Exact
    <2>6. InPlace(u)'
      BY <1>1, Zenon DEF InPlace
    <2> QED
      BY <2>1, <2>2, <2>3, <2>4, <2>5, <2>6, Zenon
  <1> QED
    BY <1>4, Zenon

(* simulate() starts the threads.                                          *)
LEMMA SimulateFar ==
    ASSUME IInv, \A u \in Threads : FarInv(u), Starts
    PROVE  \A u \in Threads : FarInv(u)'
  <1> USE DEF FarInv
  <1>1. \A u \in Threads : /\ ~Busy(u) /\ ~Busy(u)' /\ pc'[u] = "merge"
                           /\ scheduled'[u] = scheduled[u] \cup {"limit", "sync"}
                           /\ Inside(u)' = Inside(u) \cup {"limit", "sync"}
    BY Zenon DEF Starts
  <1>2. ASSUME NEW u \in Threads PROVE FarInv(u)'
    <2>1. Exact(u)'
      <3>1. ASSUME NEW v \in Threads, NEW f PROVE ~Setting(v, f, u)
        BY <1>1, Zenon DEF Setting, Busy
      <3> QED
        BY <3>1, <1>1, Zenon DEF Exact
    <2>2. /\ LaterJob(u)' /\ LaterAsync(u)' /\ DueWait(u)'
          /\ InPlace(u)' /\ StatJob(u)' /\ StatDone(u)'
      BY <1>1, Zenon DEF LaterJob, LaterAsync, DueWait, InPlace, StatJob, StatDone
    <2> QED
      BY <2>1, <2>2, Zenon
  <1> QED
    BY <1>2, Zenon

(* simulate() returns.                                                     *)
LEMMA SimulateReturnFar ==
    ASSUME IInv, \A u \in Threads : FarInv(u), Stops
    PROVE  \A u \in Threads : FarInv(u)'
  <1> USE DEF FarInv
  <1>1. /\ \A u \in Threads : /\ ~Busy(u) /\ ~Busy(u)' /\ pc'[u] \in {"python", "idle"}
                              /\ scheduled'[u] = scheduled[u] \ {"sync"}
                              /\ Inside(u)' = Inside(u) \ {"sync"}
        /\ Stopped'
    BY Zenon DEF Stops
  <1>2. ASSUME NEW u \in Threads PROVE FarInv(u)'
    <2>1. Exact(u)'
      <3>1. ASSUME NEW v \in Threads, NEW f PROVE ~Setting(v, f, u)
        BY <1>1, Zenon DEF Setting, Busy
      <3> QED
        BY <3>1, <1>1, Zenon DEF Exact
    <2>2. /\ LaterJob(u)' /\ LaterAsync(u)' /\ DueWait(u)'
          /\ InPlace(u)' /\ StatJob(u)' /\ StatDone(u)'
      BY <1>1, Zenon DEF LaterJob, LaterAsync, DueWait, InPlace, StatJob, StatDone
    <2> QED
      BY <2>1, <2>2, Zenon
  <1> QED
    BY <1>2, Zenon

(* A step that changes nothing.                                            *)
LEMMA StutterFar ==
    ASSUME \A u \in Threads : FarInv(u), UNCHANGED vars
    PROVE  \A u \in Threads : FarInv(u)'
  <1> USE DEF FarInv
  <1>1. /\ pc' = pc /\ queue' = queue /\ asyncq' = asyncq /\ scheduled' = scheduled
        /\ when' = when /\ curTick' = curTick /\ at' = at /\ job' = job
    BY Zenon DEF vars
  <1>2. ASSUME NEW u \in Threads PROVE FarInv(u)'
    <2>1. /\ Inside(u)' = Inside(u)
          /\ \A v \in Threads : /\ Busy(v)' <=> Busy(v)
                                /\ Winner(v)' <=> Winner(v)
                                /\ Inside(v)' = Inside(v)
          /\ Stopped' <=> Stopped
      BY <1>1, Zenon DEF Inside, Busy, Winner, Stopped
    <2>2. ASSUME NEW v \in Threads, NEW f PROVE Setting(v, f, u)' <=> Setting(v, f, u)
      BY <1>1, Zenon DEF Setting
    <2>3. LaterJob(u)' /\ StatJob(u)' /\ DueWait(u)' /\ StatDone(u)' /\ LaterAsync(u)'
      BY <1>1, <2>1, Zenon DEF LaterJob, StatJob, DueWait, StatDone, LaterAsync, Later
    <2>4. Exact(u)' /\ InPlace(u)'
      BY <1>1, <2>1, <2>2, Zenon DEF Exact, InPlace
    <2> QED
      BY <2>3, <2>4, Zenon
  <1> QED
    BY <1>2, Zenon

(* At the start there is nothing in the queues.                            *)
LEMMA InitFar == Init => \A t \in Threads : FarInv(t)
  <1> SUFFICES ASSUME Init, NEW t \in Threads PROVE FarInv(t)
    BY Zenon
  <1>1. /\ \A u \in Threads : pc[u] \in {"python", "idle"} /\ ~Busy(u)
        /\ scheduled[t] = {} /\ pc[main] = "python"
    BY Constants, Zenon DEF Init, Busy
  <1> QED
    BY <1>1, Zenon DEF FarInv, LaterJob, LaterAsync, DueWait, Exact, InPlace, StatJob, StatDone,
                       Stopped

(* Handlers and the winner schedule past the sync event.                   *)
LEMMA HandlerAsyncBegins ==
    ASSUME FarAhead, IInv, NEW t \in Threads, NEW e \in LocalEvents, NEW d \in AsyncDelays,
           HandlerAsync(t, e, d)
    PROVE  \E f, w : BeginsLater(t, f, w)
  <1>0. PICK w : w = curTick[t] + d
    BY Zenon
  <1>1. Begins(t, e, w)
    BY <1>0, HandlerAsyncStarts, StartJobEffect, Zenon
  <1>2. pc[t] = "handler"
    BY Zenon DEF HandlerAsync
  <1>3. when["sync"] <= curTick[t] + simQuantum /\ when["sync"] \in Int /\ curTick[t] \in Int
    BY <1>2, InLoop, Numbers, EventKinds, Zenon
  <1>4. d \in Int /\ d > simQuantum
    BY SimLoopAssumption DEF FarAhead
  <1>5. w > when["sync"]
    BY <1>0, <1>3, <1>4, Constants
  <1>6. at[t] \notin Stats
    BY <1>2, EventKinds, Zenon DEF IInv, ThreadInv, AtMatches
  <1> QED
    BY <1>1, <1>5, <1>6, Zenon DEF BeginsLater, Later

(* exitSimLoop() schedules the exit event behind the sync event.           *)
LEMMA ExitSimLoopBegins ==
    ASSUME IInv, NEW t \in Threads, NEW g \in Exits, exitSimLoop(t, g)
    PROVE  \E f, w : BeginsLater(t, f, w)
  <1>0. PICK w : w = curTick[t] + simQuantum
    BY Zenon
  <1>1. Begins(t, g, w) /\ pc[t] = "handler"
    BY <1>0, ExitSimLoopStarts, StartJobEffect, Zenon
  <1>2. when["sync"] <= curTick[t] + simQuantum /\ when["sync"] \in Int /\ curTick[t] \in Int
    BY <1>1, InLoop, Numbers, EventKinds, Zenon
  <1>3. w > when["sync"] \/ w = when["sync"]
    BY <1>0, <1>2, Constants
  <1>4. at[t] \notin Stats /\ g \in ExitEvents
    BY <1>1, EventKinds, Zenon DEF IInv, ThreadInv, AtMatches
  <1> QED
    BY <1>1, <1>3, <1>4, Zenon DEF BeginsLater, Later

(* schedStatEvent() schedules the statistics behind the sync event.        *)
LEMMA SchedStatEventBegins ==
    ASSUME FarAhead, IInv, NEW t \in Threads, NEW g \in Stats, NEW d \in StatDelays,
           schedStatEvent(t, g, d)
    PROVE  \E f, w : BeginsLater(t, f, w)
  <1>0. PICK w : w = curTick[t] + d + simQuantum
    BY Zenon
  <1>1. Begins(t, g, w) /\ pc[t] = "handler"
    BY <1>0, SchedStatEventStarts, StartJobEffect, Zenon
  <1>2. when["sync"] <= curTick[t] + simQuantum /\ when["sync"] \in Int /\ curTick[t] \in Int
    BY <1>1, InLoop, Numbers, EventKinds, Zenon
  <1>3. d \in Int /\ d > 0
    BY SimLoopAssumption DEF FarAhead
  <1>4. w > when["sync"]
    BY <1>0, <1>2, <1>3, Constants
  <1>5. at[t] \notin Stats
    BY <1>1, EventKinds, Zenon DEF IInv, ThreadInv, AtMatches
  <1> QED
    BY <1>1, <1>4, <1>5, Zenon DEF BeginsLater, Later

(* So does process() when its event repeats.                               *)
LEMMA RepeatBegins ==
    ASSUME IInv, NEW t \in Threads, NEW e, NEW w, Repeats(t, e, w)
    PROVE  BeginsLater(t, e, w)
  <1>1. /\ e = at[t] /\ pc[t] = "winner" /\ Begins(t, e, w)
        /\ e \in Stats => w > curTick[t] + simQuantum
        /\ at[t] \in LocalEvents \cup {"sync"} \cup Stats
        /\ w \in 0 .. MaxTick + simQuantum
    BY StartJobEffect, Zenon DEF Repeats, MayStart
  <1>2. when["sync"] <= curTick[t] + simQuantum /\ when["sync"] \in Int /\ curTick[t] \in Int
    BY <1>1, InLoop, Numbers, EventKinds, Zenon
  <1>3. w \in Int
    BY <1>1, Constants
  <1>4. e = "sync" \/ e \in Stats
    BY <1>1, EventKinds, Zenon DEF IInv, ThreadInv, AtMatches
  <1>5. e \in Stats => w > when["sync"] /\ w > curTick[t]
    BY <1>1, <1>2, <1>3, Constants
  <1> QED
    BY <1>1, <1>4, <1>5, Zenon DEF BeginsLater, Later

(* No step breaks this.                                                    *)
LEMMA NextFar ==
    ASSUME Laws, FarAhead, IInv, \A t \in Threads : FarInv(t), [Next]_vars
    PROVE  \A t \in Threads : FarInv(t)'
  <1> USE DEF Laws
  <1>1. CASE ScriptStep
    <2>1. PICK w \in 0 .. MaxTick : \/ \E e \in LocalEvents : PySchedule(e, w)
                                    \/ \E g \in Stats : PySchedStatEvent(g, w)
                                    \/ simulate(w)
      BY <1>1, Zenon DEF ScriptStep
    <2>2. ASSUME NEW e \in LocalEvents, PySchedule(e, w) PROVE \A t \in Threads : FarInv(t)'
      BY <2>2, PySchedulePuts, PutEffect, PutFar, Zenon
    <2>3. ASSUME NEW g \in Stats, PySchedStatEvent(g, w) PROVE \A t \in Threads : FarInv(t)'
      BY <2>3, PySchedStatEventPuts, PutEffect, PutFar, Zenon
    <2>4. ASSUME simulate(w) PROVE \A t \in Threads : FarInv(t)'
      BY <2>4, SimulateEffect, SimulateFar, Zenon
    <2> QED
      BY <2>1, <2>2, <2>3, <2>4, Zenon
  <1>2. CASE simulateReturn
    BY <1>2, SimulateReturnEffect, SimulateReturnFar, Zenon
  <1>3. ASSUME NEW t \in Threads, LoopStep(t) PROVE \A u \in Threads : FarInv(u)'
    <2>1. CASE handleAsyncInsertions(t)
      BY <2>1, HandleAsyncInsertionsEffect, MergeFar, Zenon
    <2>2. CASE serviceOne(t)
      BY <2>2, ServiceOneEffect, ServiceOneFar, Zenon
    <2>3. CASE process(t)
      BY <2>3, ProcessEffect, FinishFar, RepeatBegins, BeginFar, Zenon
    <2>4. CASE globalBarrier(t)
      BY <2>4, GlobalBarrierEffect, ReleaseFar, Zenon
    <2>5. CASE asyncInsert(t)
      BY <2>5, AsyncInsertEffect, AsyncInsertFar, Zenon
    <2>6. CASE setFlag(t)
      BY <2>6, SetFlagEffect, SetFlagFar, Zenon
    <2>7. CASE HandlerDone(t)
      BY <2>7, HandlerDoneEffect, ReturnFar, Zenon
    <2> QED
      BY <1>3, <2>1, <2>2, <2>3, <2>4, <2>5, <2>6, <2>7, Zenon DEF LoopStep
  <1>4. ASSUME NEW t \in Threads, HandlerStep(t) PROVE \A u \in Threads : FarInv(u)'
    <2>1. ASSUME NEW e \in LocalEvents, NEW d \in OwnDelays, HandlerOwn(t, e, d)
          PROVE  \A u \in Threads : FarInv(u)'
      BY <2>1, HandlerOwnPuts, PutEffect, PutFar, Zenon
    <2>2. ASSUME NEW e \in LocalEvents, NEW d \in AsyncDelays, HandlerAsync(t, e, d)
          PROVE  \A u \in Threads : FarInv(u)'
      BY <2>2, HandlerAsyncBegins, BeginFar, Zenon
    <2>3. ASSUME NEW g \in Exits, exitSimLoop(t, g) PROVE \A u \in Threads : FarInv(u)'
      BY <2>3, ExitSimLoopBegins, BeginFar, Zenon
    <2>4. ASSUME NEW g \in Stats, NEW d \in StatDelays, schedStatEvent(t, g, d)
          PROVE  \A u \in Threads : FarInv(u)'
      BY <2>4, SchedStatEventBegins, BeginFar, Zenon
    <2> QED
      BY <1>4, <2>1, <2>2, <2>3, <2>4, Zenon DEF HandlerStep
  <1>5. CASE UNCHANGED vars
    BY <1>5, StutterFar, Zenon
  <1> QED
    BY <1>1, <1>2, <1>3, <1>4, <1>5, Zenon DEF Next

(* What this says of the properties.                                       *)
LEMMA FarImplies ==
    ASSUME IInv, \A t \in Threads : FarInv(t)
    PROVE  FlagsTruthful /\ StatsAfterSync
  <1> USE DEF IInv, ThreadInv, FarInv
  <1>1. FlagsTruthful
    <2> DEFINE setting(t) == {job[u].event : u \in {v \in Threads :
                                  pc[v] = "flag" /\ job[v].next = t}}
    <2>1. ASSUME NEW t \in Threads
          PROVE  scheduled[t] \ setting(t)
                   = (Elements(queue[t]) \cup Elements(asyncq[t])) \ setting(t)
      <3>1. \A v \in Threads : \A e : Setting(v, e, t) => e \in setting(t)
        BY Zenon DEF Setting
      <3> HIDE DEF setting
      <3>2. ASSUME NEW e, e \notin setting(t) PROVE e \in scheduled[t] <=> e \in Inside(t)
        BY <3>1, <3>2, Zenon DEF FlagInv, Exact
      <3> QED
        BY <3>2, Zenon DEF Inside
    <2> QED
      BY <2>1, Zenon DEF FlagsTruthful
  <1>2. StatsAfterSync
    <2> SUFFICES ASSUME NEW t \in Threads, NEW u \in Threads, pc[t] = "wait", at[t] \in Stats,
                        when[at[t]] = curTick[t], pc[u] # "merge",
                        at[t] \in Elements(asyncq[u])
                 PROVE  FALSE
      BY Zenon DEF StatsAfterSync
    <2>1. at[t] # "sync" /\ at[t] \in Globals /\ at[t] \in Inside(u) /\ at[t] \in AllEvents
      BY EventKinds, Zenon DEF Inside
    <2>2. ~Stopped
      BY InLoop, Zenon
    <2>3. CASE \A v \in Threads : ~Winner(v)
      <3>1. ~Later(at[t], when[at[t]])
        BY <2>3, Zenon DEF DueWait
      <3>2. Later(at[t], when[at[t]])
        BY <2>1, <2>2, <2>3, Zenon DEF LaterAsync
      <3> QED
        BY <3>1, <3>2, Zenon
    <2>4. ASSUME NEW v \in Threads, Winner(v) PROVE FALSE
      <3>1. v # t /\ at[v] = at[t] /\ curTick[v] = curTick[t]
        <4>1. v # t
          BY <2>4, Zenon DEF Winner
        <4>2. OthersWait(v)
          BY Zenon
        <4> HIDE DEF IInv, ThreadInv, FarInv
        <4> QED
          BY <4>1, <4>2, <2>4, Zenon DEF OthersWait
      <3>2. at[t] \in Inside(u) /\ when[at[v]] = curTick[v] /\ at[v] \in Stats
        BY <2>1, <3>1, Zenon
      <3>3. curTick[v] \in Int /\ ~(curTick[v] > curTick[v])
        <4>1. curTick[v] \in Int
          BY Numbers, Zenon
        <4> QED
          BY <4>1
      <3>4. pc[v] \in {"winner", "second"} \/ Busy(v)
        <4>1. pc[v] \in States /\ at[v] # NoEvent /\ at[v] \notin LocalEvents
          BY <2>1, <3>1, EventKinds, Zenon DEF TypeInv
        <4>2. pc[v] # "wait"
          BY <2>4, Zenon DEF Winner
        <4> QED
          BY <4>1, <4>2, Zenon DEF AtMatches, States, Busy
      <3>5. CASE pc[v] = "winner"
        BY <3>5, <3>1, <2>1, AtWinner, Zenon
      <3>6. CASE pc[v] = "second"
        BY <3>6, <3>1, <3>2, <3>3, Zenon DEF StatDone
      <3>7. CASE Busy(v)
        <4>1. job[v].when > curTick[v] /\ job[v].event = at[v]
          BY <3>7, <3>2, <2>1, <3>1, Zenon DEF StatJob, JobMatches
        <4>2. Started(v)
          <5>1. ASSUME ~Started(v) PROVE ToDo(v, u)
            <6>1. pc[v] = "push" /\ job[v].next \in Threads /\ ~(job[v].next > 0)
              BY <5>1, <3>7, <4>1, <3>1, <2>1, Numbers, Zenon DEF Started, Busy
            <6>2. job[v].next < u \/ job[v].next = u
              <7>1. u \in Int /\ 0 <= u /\ job[v].next \in Int /\ 0 <= job[v].next
                BY <6>1, Constants, Zenon
              <7> QED
                BY <7>1, <6>1
            <6> QED
              BY <6>1, <6>2, <4>1, <3>1, <2>1, Zenon DEF ToDo, Targets
          <5> QED
            BY <5>1, <3>7, <4>1, <3>1, <3>2, Zenon DEF NotThereYet
        <4>3. when[at[v]] = job[v].when
          BY <4>1, <4>2, <3>7, Zenon DEF TimeSet
        <4> QED
          BY <4>1, <4>3, <3>2, <3>3, Zenon
      <3> QED
        BY <3>4, <3>5, <3>6, <3>7, Zenon
    <2> QED
      BY <2>3, <2>4, Zenon
  <1> QED
    BY <1>1, <1>2, Zenon
=============================================================================
