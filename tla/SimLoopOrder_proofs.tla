------------------------ MODULE SimLoopOrder_proofs ------------------------
(***************************************************************************)
(* The threads of the parallel simulation meet at one barrier at a time,   *)
(* and the simulation is safe.                                             *)
(*                                                                         *)
(* OrderInv: two global events have the same order in the queues of all    *)
(* threads, merged or not (SameOrder).  asyncq_mutex lets one schedule()   *)
(* of a global event at a time go through the queues, so that the event is *)
(* the newest in each of them (JobFirst) and every thread gets it          *)
(* (Everywhere).  So all threads come to the same event next (MeetInv).    *)
(*                                                                         *)
(* The last part shows that the service order obeys the laws that the      *)
(* invariants ask for, so that they hold.                                  *)
(***************************************************************************)
EXTENDS SimLoop_proofs

(* e comes before f in the sequence q.                                     *)
Ahead(q, e, f) == \E i, j \in DOMAIN q : i < j /\ q[i] = e /\ q[j] = f

(* In a sequence of different events one of two is ahead of the other.     *)
AheadLaw ==
    \A q \in Queues : Distinct(q) => \A e, f :
        /\ e \in Elements(q) /\ f \in Elements(q) /\ e # f => Ahead(q, e, f) \/ Ahead(q, f, e)
        /\ Ahead(q, e, f) => e \in Elements(q) /\ f \in Elements(q) /\ ~Ahead(q, f, e)

(* What is ahead in a queue in order is not later.                         *)
OrderedLaw ==
    \A q \in Queues : \A w \in Times : Order!InOrder(q, w) =>
        Distinct(q) /\ \A e, f : Ahead(q, e, f) => ~Order!Before(w, f, e)

(* The service order is asymmetric.                                        *)
BeforeLaw ==
    \A w \in Times : \A e, f \in AllEvents : Order!Before(w, e, f) => ~Order!Before(w, f, e)

(* Insertion keeps the order of the events in a queue, and puts the new    *)
(* one ahead of its equals.                                                *)
InsertAheadLaw ==
    \A q \in Queues : \A w \in Times : \A e \in AllEvents : Order!InOrder(q, w) =>
        /\ \A f, g : Ahead(q, f, g) => Ahead(Order!Insert(q, w, e), f, g)
        /\ \A f \in Elements(q) : ~Order!Before(w, f, e) => Ahead(Order!Insert(q, w, e), e, f)

(* Removal keeps the order of the others.                                  *)
WithoutAheadLaw ==
    \A q \in Queues : \A e \in Elements(q) : \A f, g :
        Ahead(q, f, g) /\ f # e /\ g # e => Ahead(Order!Without(q, e), f, g)

(* So does taking the first event, which is ahead of all others.           *)
TailAheadLaw ==
    \A q \in Queues : q # <<>> => \A f, g :
        /\ f \in Elements(q) => f = Head(q) \/ Ahead(q, Head(q), f)
        /\ Ahead(q, f, g) /\ f # Head(q) => Ahead(Tail(q), f, g)

(* An async queue grows at its end.                                        *)
AppendAheadLaw ==
    \A s \in Queues : \A e \in AllEvents :
        /\ \A f, g : Ahead(s, f, g) => Ahead(Append(s, e), f, g)
        /\ \A f \in Elements(s) : Ahead(Append(s, e), f, e)

(* Merging inserts one event after the other.                              *)
MergeAheadLaw ==
    \A q \in Queues : \A w \in Times : \A s \in Queues :
        /\ Order!InOrder(q, w)
        /\ Distinct(s)
        /\ \A e \in Elements(q) : e \notin Elements(s)
        =>  /\ \A f, g : Ahead(q, f, g) => Ahead(Order!Merge(q, w, s), f, g)
            /\ \A f \in Elements(q), g \in Elements(s) :
                  IF Order!Before(w, f, g) THEN Ahead(Order!Merge(q, w, s), f, g)
                                           ELSE Ahead(Order!Merge(q, w, s), g, f)
            /\ \A f, g : Ahead(s, f, g) =>
                  IF Order!Before(w, f, g) THEN Ahead(Order!Merge(q, w, s), f, g)
                                           ELSE Ahead(Order!Merge(q, w, s), g, f)

(* All of these.                                                           *)
OrderLaws ==
    /\ AheadLaw /\ OrderedLaw /\ BeforeLaw /\ InsertAheadLaw /\ WithoutAheadLaw
    /\ TailAheadLaw /\ AppendAheadLaw /\ MergeAheadLaw

-----------------------------------------------------------------------------
(* f is ahead of g when the async queue s has been merged into q.          *)
FirstIn(q, s, w, f, g) ==
    \/ Ahead(q, f, g)
    \/ f \in Elements(s) /\ g \in Elements(q) /\ ~Order!Before(w, g, f)
    \/ f \in Elements(q) /\ g \in Elements(s) /\ Order!Before(w, f, g)
    \/ Ahead(s, f, g) /\ Order!Before(w, f, g)
    \/ Ahead(s, g, f) /\ ~Order!Before(w, g, f)

(* f will be serviced before g by the thread u.                            *)
First(u, f, g) == FirstIn(queue[u], asyncq[u], when, f, g)

(* A queue and its async queue as the invariant has them.                  *)
Sound(q, s, w) ==
    /\ q \in Queues /\ s \in Queues /\ w \in Times
    /\ Order!InOrder(q, w) /\ Distinct(s)
    /\ \A e \in Elements(q) : e \notin Elements(s)

(* Of two events one is first; it is the one that is before the other.     *)
LEMMA FirstTotal ==
    ASSUME OrderLaws, NEW q, NEW s, NEW w, Sound(q, s, w),
           NEW f \in Elements(q) \cup Elements(s), NEW g \in Elements(q) \cup Elements(s), f # g
    PROVE  /\ FirstIn(q, s, w, f, g) <=> ~FirstIn(q, s, w, g, f)
           /\ Order!Before(w, f, g) => FirstIn(q, s, w, f, g)
  <1>1. /\ Distinct(q) /\ Distinct(s) /\ q \in Queues /\ s \in Queues /\ w \in Times
        /\ \A x, y : Ahead(q, x, y) => ~Order!Before(w, y, x)
    BY Zenon DEF OrderLaws, Sound, OrderedLaw
  <1>2. f \in AllEvents /\ g \in AllEvents
    BY <1>1, QueueElements, Zenon
  <1>3. /\ Order!Before(w, f, g) => ~Order!Before(w, g, f)
    BY <1>1, <1>2, Zenon DEF OrderLaws, BeforeLaw
  <1>4. ASSUME NEW r \in {q, s}
        PROVE  /\ f \in Elements(r) /\ g \in Elements(r) => Ahead(r, f, g) \/ Ahead(r, g, f)
               /\ Ahead(r, f, g) => f \in Elements(r) /\ g \in Elements(r) /\ ~Ahead(r, g, f)
               /\ Ahead(r, g, f) => f \in Elements(r) /\ g \in Elements(r) /\ ~Ahead(r, f, g)
    <2>1. r \in Queues /\ Distinct(r)
      BY <1>1, Zenon
    <2> QED
      BY <2>1, Zenon DEF OrderLaws, AheadLaw
  <1>5. \A e : e \in Elements(q) => e \notin Elements(s)
    BY Zenon DEF Sound
  <1>6. CASE f \in Elements(q) /\ g \in Elements(q)
    BY <1>1, <1>3, <1>4, <1>5, <1>6, Zenon DEF FirstIn
  <1>7. CASE f \in Elements(s) /\ g \in Elements(s)
    BY <1>1, <1>3, <1>4, <1>5, <1>7, Zenon DEF FirstIn
  <1>8. CASE f \in Elements(q) /\ g \in Elements(s)
    BY <1>1, <1>3, <1>4, <1>5, <1>8, Zenon DEF FirstIn
  <1>9. CASE f \in Elements(s) /\ g \in Elements(q)
    BY <1>1, <1>3, <1>4, <1>5, <1>9, Zenon DEF FirstIn
  <1> QED
    BY <1>6, <1>7, <1>8, <1>9, Zenon

(* The order of two events is kept where theirs in both queues is.         *)
LEMMA FirstKept ==
    ASSUME NEW q, NEW s, NEW w, NEW r, NEW z, NEW v, NEW f, NEW g,
           Ahead(q, f, g) => Ahead(r, f, g),
           Ahead(s, f, g) => Ahead(z, f, g), Ahead(s, g, f) => Ahead(z, g, f),
           f \in Elements(q) => f \in Elements(r), g \in Elements(q) => g \in Elements(r),
           f \in Elements(s) => f \in Elements(z), g \in Elements(s) => g \in Elements(z),
           v[f] = w[f], v[g] = w[g], FirstIn(q, s, w, f, g)
    PROVE  FirstIn(r, z, v, f, g)
  <1>1. /\ Order!Before(v, f, g) <=> Order!Before(w, f, g)
        /\ Order!Before(v, g, f) <=> Order!Before(w, g, f)
    BY Zenon DEF Order!Before
  <1> QED
    BY <1>1, Zenon DEF FirstIn

(* The invariant makes the queues sound.                                   *)
LEMMA QueuesSound ==
    /\ IInv => \A u \in Threads : Sound(queue[u], asyncq[u], when)
    /\ IInv' => \A u \in Threads : Sound(queue'[u], asyncq'[u], when')
  <1> USE DEF IInv, ThreadInv
  <1>1. ASSUME IInv, NEW u \in Threads PROVE Sound(queue[u], asyncq[u], when)
    BY <1>1, Zenon DEF TypeInv, QueueInv, Sound
  <1>2. ASSUME IInv', NEW u \in Threads PROVE Sound(queue'[u], asyncq'[u], when')
    BY <1>2, Zenon DEF TypeInv, QueueInv, Sound
  <1> QED
    BY <1>1, <1>2, Zenon

(* In every queue, of two events one is first.                             *)
LEMMA InsideTotal ==
    ASSUME OrderLaws, NEW u \in Threads, NEW f, NEW g, f # g
    PROVE  /\ IInv /\ f \in Inside(u) /\ g \in Inside(u) =>
                 /\ First(u, f, g) <=> ~First(u, g, f)
                 /\ Order!Before(when, f, g) => First(u, f, g)
           /\ IInv' /\ f \in Inside(u)' /\ g \in Inside(u)' =>
                 /\ First(u, f, g)' <=> ~First(u, g, f)'
                 /\ Order!Before(when', f, g) => First(u, f, g)'
  <1>1. ASSUME IInv, f \in Inside(u), g \in Inside(u)
        PROVE  /\ First(u, f, g) <=> ~First(u, g, f)
               /\ Order!Before(when, f, g) => First(u, f, g)
    <2>1. Sound(queue[u], asyncq[u], when)
      BY <1>1, QueuesSound, Zenon
    <2>2. /\ f \in Elements(queue[u]) \cup Elements(asyncq[u])
          /\ g \in Elements(queue[u]) \cup Elements(asyncq[u])
      BY <1>1, Zenon DEF Inside
    <2>3. /\ FirstIn(queue[u], asyncq[u], when, f, g) <=> ~FirstIn(queue[u], asyncq[u], when, g, f)
          /\ Order!Before(when, f, g) => FirstIn(queue[u], asyncq[u], when, f, g)
      BY <2>1, <2>2, FirstTotal, Zenon
    <2> QED
      BY <1>1, <2>3, Zenon DEF First
  <1>2. ASSUME IInv', f \in Inside(u)', g \in Inside(u)'
        PROVE  /\ First(u, f, g)' <=> ~First(u, g, f)'
               /\ Order!Before(when', f, g) => First(u, f, g)'
    <2>1. Sound(queue'[u], asyncq'[u], when')
      BY <1>2, QueuesSound, Zenon
    <2>2. /\ f \in Elements(queue'[u]) \cup Elements(asyncq'[u])
          /\ g \in Elements(queue'[u]) \cup Elements(asyncq'[u])
      BY <1>2, Zenon DEF Inside
    <2>3. /\ FirstIn(queue'[u], asyncq'[u], when', f, g)
                <=> ~FirstIn(queue'[u], asyncq'[u], when', g, f)
          /\ Order!Before(when', f, g) => FirstIn(queue'[u], asyncq'[u], when', f, g)
      BY <2>1, <2>2, FirstTotal, Zenon
    <2> QED
      BY <1>2, <2>3, Zenon DEF First
  <1> QED
    BY <1>1, <1>2, Zenon

(* The step keeps the order of the global events, those of X aside.        *)
Keeps(X) ==
    \A u \in Threads : \A f, g \in Globals :
        /\ f # g /\ f \notin X /\ g \notin X
        /\ f \in Inside(u) /\ g \in Inside(u) /\ f \in Inside(u)' /\ g \in Inside(u)'
        => /\ First(u, f, g) <=> First(u, f, g)'
           /\ when'[f] = when[f] /\ when'[g] = when[g]

(* It does if it keeps it one way.                                         *)
LEMMA KeepsOneWay ==
    ASSUME OrderLaws, IInv, IInv', NEW X,
           \A u \in Threads : \A f, g \in Globals :
             /\ f # g /\ f \notin X /\ g \notin X
             /\ f \in Inside(u) /\ g \in Inside(u) /\ f \in Inside(u)' /\ g \in Inside(u)'
             => /\ First(u, f, g) => First(u, f, g)'
                /\ when'[f] = when[f] /\ when'[g] = when[g]
    PROVE  Keeps(X)
  <1> SUFFICES ASSUME NEW u \in Threads, NEW f \in Globals, NEW g \in Globals,
                      f # g, f \notin X, g \notin X,
                      f \in Inside(u), g \in Inside(u), f \in Inside(u)', g \in Inside(u)'
               PROVE  First(u, f, g)' => First(u, f, g)
    BY Zenon DEF Keeps
  <1>1. First(u, g, f) => First(u, g, f)'
    BY Zenon
  <1>2. First(u, g, f) <=> ~First(u, f, g)
    BY InsideTotal, Zenon
  <1>3. First(u, g, f)' <=> ~First(u, f, g)'
    BY InsideTotal, Zenon
  <1> QED
    BY <1>1, <1>2, <1>3, Zenon

(* A step that leaves the queues alone.                                    *)
LEMMA SameKeeps ==
    ASSUME queue' = queue, asyncq' = asyncq, when' = when
    PROVE  Keeps({}) /\ \A u \in Threads : Inside(u)' = Inside(u)
  <1>1. \A u \in Threads : \A f, g : First(u, f, g)' <=> First(u, f, g)
    BY Zenon DEF First
  <1> QED
    BY <1>1, Zenon DEF Keeps, Inside

(* serviceOne() keeps the order of the others.                             *)
LEMMA ServesKeeps ==
    ASSUME OrderLaws, HeadLaw, IInv, IInv', NEW t \in Threads, NEW e, Serves(t, e)
    PROVE  Keeps({})
  <1>1. ASSUME NEW u \in Threads, NEW f \in Globals, NEW g \in Globals, f # g,
               f \in Inside(u), g \in Inside(u), f \in Inside(u)', g \in Inside(u)',
               First(u, f, g)
        PROVE  First(u, f, g)'
    <2>1. CASE u # t
      <3>1. queue'[u] = queue[u] /\ asyncq' = asyncq /\ when' = when
        BY <2>1, Zenon DEF Serves
      <3> QED
        BY <1>1, <3>1, Zenon DEF First
    <2>2. CASE u = t
      <3>1. /\ queue'[t] = Tail(queue[t]) /\ asyncq'[t] = asyncq[t] /\ when' = when
            /\ queue[t] # <<>> /\ e = Head(queue[t]) /\ f # e /\ g # e
        BY <1>1, <2>2, Zenon DEF Serves
      <3>2. queue[t] \in Queues /\ Order!InOrder(queue[t], when) /\ when \in Times
        BY QueuesSound, Zenon DEF Sound
      <3>3. Ahead(queue[t], f, g) => Ahead(queue'[t], f, g)
        BY <3>1, <3>2, Zenon DEF OrderLaws, TailAheadLaw
      <3>4. Elements(queue'[t]) = Elements(queue[t]) \ {e}
        BY <3>1, <3>2, Zenon DEF HeadLaw
      <3>5. /\ f \in Elements(queue[t]) => f \in Elements(queue'[t])
            /\ g \in Elements(queue[t]) => g \in Elements(queue'[t])
        BY <3>1, <3>4, Zenon
      <3> QED
        BY <1>1, <2>2, <3>1, <3>3, <3>5, FirstKept, Zenon DEF First
    <2> QED
      BY <2>1, <2>2, Zenon
  <1>2. when' = when
    BY Zenon DEF Serves
  <1> QED
    BY <1>1, <1>2, KeepsOneWay, Zenon

(* handleAsyncInsertions() does what First says.                           *)
LEMMA MergesKeeps ==
    ASSUME OrderLaws, IInv, IInv', NEW t \in Threads, Merges(t)
    PROVE  Keeps({})
  <1>1. ASSUME NEW u \in Threads, NEW f \in Globals, NEW g \in Globals, f # g,
               f \in Inside(u), g \in Inside(u), f \in Inside(u)', g \in Inside(u)',
               First(u, f, g)
        PROVE  First(u, f, g)'
    <2>1. CASE u # t
      <3>1. queue'[u] = queue[u] /\ asyncq'[u] = asyncq[u] /\ when' = when
        BY <2>1, Zenon DEF Merges
      <3> QED
        BY <1>1, <3>1, Zenon DEF First
    <2>2. CASE u = t
      <3>1. PICK q, s, w, m : /\ q = queue[t] /\ s = asyncq[t] /\ w = when /\ m = queue'[t]
                              /\ m = Order!Merge(q, w, s)
        BY Zenon DEF Merges
      <3>2. Sound(q, s, w)
        BY <3>1, QueuesSound, Zenon
      <3>3. /\ Ahead(q, f, g) => Ahead(m, f, g)
            /\ f \in Elements(q) /\ g \in Elements(s) /\ Order!Before(w, f, g) => Ahead(m, f, g)
            /\ g \in Elements(q) /\ f \in Elements(s) /\ ~Order!Before(w, g, f) => Ahead(m, f, g)
            /\ Ahead(s, f, g) /\ Order!Before(w, f, g) => Ahead(m, f, g)
            /\ Ahead(s, g, f) /\ ~Order!Before(w, g, f) => Ahead(m, f, g)
        BY <3>1, <3>2, Zenon DEF OrderLaws, MergeAheadLaw, Sound
      <3>4. FirstIn(q, s, w, f, g)
        BY <1>1, <2>2, <3>1, Zenon DEF First
      <3>5. Ahead(m, f, g)
        BY <3>3, <3>4, Zenon DEF FirstIn
      <3> QED
        BY <2>2, <3>1, <3>5, Zenon DEF First, FirstIn
    <2> QED
      BY <2>1, <2>2, Zenon
  <1>2. when' = when
    BY Zenon DEF Merges
  <1> QED
    BY <1>1, <1>2, KeepsOneWay, Zenon

(* e is ahead of the events it is not after, as what was inserted last is. *)
Newest(e) ==
    \A u \in Threads : \A h \in Globals :
        /\ e \in Inside(u) /\ h \in Inside(u) /\ h # e
        /\ ~Order!Before(when, h, e)
        => First(u, e, h)

(* Of two events that are not tied one is before the other.                *)
LEMMA Untied ==
    ASSUME NEW w \in Times, NEW e \in AllEvents, NEW f \in AllEvents,
           ~Order!Before(w, f, e), ~(w[f] = w[e] /\ Priority[f] = Priority[e])
    PROVE  Order!Before(w, e, f)
  <1>1. w[e] \in Int /\ w[f] \in Int
    <2>1. w[e] \in 0 .. MaxTick + simQuantum /\ w[f] \in 0 .. MaxTick + simQuantum
      BY Zenon DEF Times
    <2> QED
      BY <2>1, Constants
  <1>2. \A g \in AllEvents : Priority[g] \in Int
    <2>1. \A g \in AllEvents : Priority[g] \in {0, 90, 95, 100}
      BY Priorities, EventKinds, Zenon
    <2> QED
      BY <2>1
  <1>3. Priority[e] \in Int /\ Priority[f] \in Int
    BY <1>2, Zenon
  <1>4. PICK a, b, c, d : a = w[e] /\ b = w[f] /\ c = Priority[e] /\ d = Priority[f]
    BY Zenon
  <1>5. ~(b < a \/ (b = a /\ d < c)) /\ ~(b = a /\ d = c)
    BY <1>4, Zenon DEF Order!Before
  <1>6. a < b \/ (a = b /\ c < d)
    <2>1. a \in Int /\ b \in Int /\ c \in Int /\ d \in Int
      BY <1>1, <1>3, <1>4, Zenon
    <2> QED
      BY <2>1, <1>5
  <1> QED
    BY <1>4, <1>6, Zenon DEF Order!Before

(* asyncInsert() puts the event behind what is in the async queue, which   *)
(* will be in front of its equals.                                         *)
LEMMA PushesKeeps ==
    ASSUME OrderLaws, IInv, IInv', NEW t \in Threads, NEW e, NEW q, NEW w, Pushes(t, e, q, w)
    PROVE  /\ Keeps({})
           /\ \A h \in Globals : h \in Inside(q) /\ ~Order!Before(when', h, e) => First(q, e, h)'
  <1>0. PICK s, z : s = asyncq[q] /\ z = asyncq'[q]
    BY Zenon
  <1>1. /\ queue' = queue /\ z = Append(s, e) /\ e \in AllEvents /\ q \in Threads
        /\ Elements(z) = Elements(s) \cup {e}
    BY <1>0, Zenon DEF Pushes
  <1>2. s \in Queues
    BY <1>0, <1>1, QueuesSound, Zenon DEF Sound
  <1>3. /\ \A f, g : Ahead(s, f, g) => Ahead(z, f, g)
        /\ \A f \in Elements(s) : Ahead(z, f, e)
    BY <1>1, <1>2, Zenon DEF OrderLaws, AppendAheadLaw
  <1>4. ASSUME NEW u \in Threads, NEW f \in Globals, NEW g \in Globals,
               f \in Inside(u), g \in Inside(u)
        PROVE  when'[f] = when[f] /\ when'[g] = when[g]
    BY <1>4, Zenon DEF Pushes
  <1>5. ASSUME NEW u \in Threads, NEW f \in Globals, NEW g \in Globals,
               f \in Inside(u), g \in Inside(u), First(u, f, g)
        PROVE  First(u, f, g)'
    <2>1. when'[f] = when[f] /\ when'[g] = when[g] /\ queue'[u] = queue[u]
      BY <1>1, <1>4, <1>5, Zenon
    <2>2. CASE u # q
      <3>1. asyncq'[u] = asyncq[u]
        BY <2>2, Zenon DEF Pushes
      <3> QED
        BY <1>5, <2>1, <3>1, FirstKept, Zenon DEF First
    <2>3. CASE u = q
      <3>1. /\ f \in Elements(s) => f \in Elements(z)
            /\ g \in Elements(s) => g \in Elements(z)
        BY <1>1, Zenon
      <3>2. FirstIn(queue[u], s, when, f, g)
        BY <1>0, <1>5, <2>3, Zenon DEF First
      <3>3. FirstIn(queue[u], z, when', f, g)
        BY <1>3, <2>1, <3>1, <3>2, FirstKept, Zenon
      <3> QED
        BY <1>0, <2>1, <2>3, <3>3, Zenon DEF First
    <2> QED
      BY <2>2, <2>3, Zenon
  <1>6. ASSUME NEW h \in Globals, h \in Inside(q), ~Order!Before(when', h, e)
        PROVE  First(q, e, h)'
    <2>1. e \in Elements(z)
      BY <1>1, Zenon
    <2>2. CASE h \in Elements(queue[q])
      BY <1>0, <1>1, <1>6, <2>1, <2>2, Zenon DEF First, FirstIn
    <2>3. CASE h \in Elements(s)
      BY <1>0, <1>3, <1>6, <2>3, Zenon DEF First, FirstIn
    <2> QED
      BY <1>0, <1>6, <2>2, <2>3, Zenon DEF Inside
  <1>7. Keeps({})
    BY <1>4, <1>5, KeepsOneWay, Zenon
  <1> QED
    BY <1>6, <1>7, Zenon

(* A direct insertion puts the event in front of its equals in the queue.  *)
LEMMA PutsKeeps ==
    ASSUME OrderLaws, TimesLaw, IInv, IInv', NEW e \in AllEvents, NEW w, NEW S, PutsAside(e, w, S)
    PROVE  /\ Keeps({})
           /\ \A u \in Threads : u \in S =>
                \A h \in Elements(queue[u]) : ~Order!Before(when', h, e) => First(u, e, h)'
  <1>1. ASSUME NEW u \in Threads, u \in S
        PROVE  /\ \A f, g : Ahead(queue[u], f, g) => Ahead(queue'[u], f, g)
               /\ \A h \in Elements(queue[u]) :
                    ~Order!Before(when', h, e) => Ahead(queue'[u], e, h)
    <2>1. PICK q, r, x : /\ q = queue[u] /\ r = queue'[u] /\ x = when' /\ r = Order!Insert(q, x, e)
                         /\ x \in Times
      BY <1>1, Zenon DEF PutsAside
    <2>2. q \in Queues /\ Order!InOrder(q, when) /\ when \in Times
      BY <2>1, QueuesSound, Zenon DEF Sound
    <2>3. \A f \in Elements(q) : x[f] = when[f]
      BY <2>1, Zenon DEF PutsAside, Inside
    <2>4. Order!InOrder(q, x)
      BY <2>1, <2>2, <2>3, Zenon DEF TimesLaw
    <2>5. /\ \A f, g : Ahead(q, f, g) => Ahead(r, f, g)
          /\ \A h \in Elements(q) : ~Order!Before(x, h, e) => Ahead(r, e, h)
      BY <2>1, <2>2, <2>4, Zenon DEF OrderLaws, InsertAheadLaw
    <2> QED
      BY <2>1, <2>5, Zenon
  <1>2. ASSUME NEW u \in Threads, NEW f \in Globals, NEW g \in Globals,
               f \in Inside(u), g \in Inside(u)
        PROVE  when'[f] = when[f] /\ when'[g] = when[g]
    BY <1>2, Zenon DEF PutsAside
  <1>3. ASSUME NEW u \in Threads, NEW f \in Globals, NEW g \in Globals,
               f \in Inside(u), g \in Inside(u), First(u, f, g)
        PROVE  First(u, f, g)'
    <2>1. when'[f] = when[f] /\ when'[g] = when[g] /\ asyncq' = asyncq
      BY <1>2, <1>3, Zenon DEF PutsAside
    <2>2. CASE u \notin S
      <3>1. queue'[u] = queue[u]
        BY <2>2, Zenon DEF PutsAside
      <3> QED
        BY <1>3, <2>1, <3>1, FirstKept, Zenon DEF First
    <2>3. CASE u \in S
      <3>1. Elements(queue'[u]) = Elements(queue[u]) \cup {e}
        BY <2>3, Zenon DEF PutsAside
      <3>2. /\ f \in Elements(queue[u]) => f \in Elements(queue'[u])
            /\ g \in Elements(queue[u]) => g \in Elements(queue'[u])
        BY <3>1, Zenon
      <3> QED
        BY <1>1, <1>3, <2>1, <2>3, <3>2, FirstKept, Zenon DEF First
    <2> QED
      BY <2>2, <2>3, Zenon
  <1>4. Keeps({})
    BY <1>2, <1>3, KeepsOneWay, Zenon
  <1> QED
    BY <1>1, <1>4, Zenon DEF First, FirstIn

(* simulate() returns: the quantum event leaves the queues.                *)
LEMMA StopsKeeps ==
    ASSUME OrderLaws, IInv, IInv', Stops
    PROVE  Keeps({})
  <1>1. ASSUME NEW u \in Threads, NEW f \in Globals, NEW g \in Globals,
               f \in Inside(u)', g \in Inside(u)', First(u, f, g)
        PROVE  First(u, f, g)'
    <2>1. /\ queue'[u] = Order!Without(queue[u], "sync") /\ asyncq' = asyncq /\ when' = when
          /\ "sync" \in Elements(queue[u])
          /\ Elements(queue'[u]) = Elements(queue[u]) \ {"sync"}
          /\ f # "sync" /\ g # "sync"
      BY <1>1, Zenon DEF Stops
    <2>2. queue[u] \in Queues
      BY QueuesSound, Zenon DEF Sound
    <2>3. Ahead(queue[u], f, g) => Ahead(queue'[u], f, g)
      BY <2>1, <2>2, Zenon DEF OrderLaws, WithoutAheadLaw
    <2>4. /\ f \in Elements(queue[u]) => f \in Elements(queue'[u])
          /\ g \in Elements(queue[u]) => g \in Elements(queue'[u])
      BY <2>1, Zenon
    <2> QED
      BY <1>1, <2>1, <2>3, <2>4, FirstKept, Zenon DEF First
  <1>2. when' = when
    BY Zenon DEF Stops
  <1> QED
    BY <1>1, <1>2, KeepsOneWay, Zenon

(* simulate(): the limit event is in front of its equals.                  *)
LEMMA StartsKeeps ==
    ASSUME OrderLaws, InsertLaw, IInv, IInv', Starts
    PROVE  /\ Keeps({"limit"})
           /\ \A u \in Threads : \A h \in Elements(queue[u]) :
                h # "limit" /\ ~Order!Before(when', h, "limit") => First(u, "limit", h)'
  <1>1. ASSUME NEW u \in Threads
        PROVE  /\ \A f, g : f # "limit" /\ g # "limit" /\ Ahead(queue[u], f, g)
                               => Ahead(queue'[u], f, g)
               /\ \A h \in Elements(queue[u]) :
                    h # "limit" /\ ~Order!Before(when', h, "limit")
                        => Ahead(queue'[u], "limit", h)
    <2>1. Moves(u) /\ when' \in Times /\ "sync" \notin Elements(queue[u])
      BY Zenon DEF Starts, Inside
    <2>2. PICK q, p, r, x, m :
             /\ q = queue[u] /\ x = when' /\ m = queue'[u]
             /\ \/ p = q /\ "limit" \notin Elements(q)
                \/ p = Order!Without(q, "limit") /\ "limit" \in Elements(q)
             /\ p \in Queues /\ Order!InOrder(p, x)
             /\ Elements(p) = Elements(q) \ {"limit"}
             /\ r = Order!Insert(p, x, "limit")
             /\ m = Order!Insert(r, x, "sync")
      BY <2>1, Zenon DEF Moves
    <2>3. q \in Queues /\ x \in Times /\ "limit" \in AllEvents /\ "sync" \in AllEvents
      BY <2>1, <2>2, QueuesSound, EventKinds, Zenon DEF Sound
    <2>4. ASSUME NEW f, NEW g, f # "limit", g # "limit", Ahead(q, f, g)
          PROVE  Ahead(p, f, g)
      <3>1. CASE p = q
        BY <2>4, <3>1, Zenon
      <3>2. CASE p = Order!Without(q, "limit") /\ "limit" \in Elements(q)
        BY <2>3, <2>4, <3>2, Zenon DEF OrderLaws, WithoutAheadLaw
      <3> QED
        BY <2>2, <3>1, <3>2, Zenon
    <2>5. /\ \A f, g : Ahead(p, f, g) => Ahead(r, f, g)
          /\ \A h \in Elements(p) : ~Order!Before(x, h, "limit") => Ahead(r, "limit", h)
      BY <2>2, <2>3, Zenon DEF OrderLaws, InsertAheadLaw
    <2>6. r \in Queues /\ Order!InOrder(r, x)
      <3>1. "limit" \notin Elements(p)
        BY <2>2, Zenon
      <3> QED
        BY <2>2, <2>3, <3>1, Zenon DEF InsertLaw
    <2>7. \A f, g : Ahead(r, f, g) => Ahead(m, f, g)
      <3>1. m = Order!Insert(r, x, "sync")
        BY <2>2, Zenon
      <3> QED
        BY <3>1, <2>3, <2>6, Zenon DEF OrderLaws, InsertAheadLaw
    <2>8. \A h \in Elements(q) : h # "limit" => h \in Elements(p)
      BY <2>2, Zenon
    <2>9. /\ \A f, g : f # "limit" /\ g # "limit" /\ Ahead(q, f, g) => Ahead(m, f, g)
          /\ \A h \in Elements(q) : h # "limit" /\ ~Order!Before(x, h, "limit")
                => Ahead(m, "limit", h)
      BY <2>4, <2>5, <2>7, <2>8, Zenon
    <2> QED
      BY <2>2, <2>9, Zenon
  <1>2. ASSUME NEW u \in Threads, NEW f \in Globals, NEW g \in Globals,
               f \in Inside(u), g \in Inside(u), f # "limit", g # "limit"
        PROVE  when'[f] = when[f] /\ when'[g] = when[g]
    <2>1. f # "sync" /\ g # "sync" /\ f \in AllEvents /\ g \in AllEvents
      BY <1>2, EventKinds, Zenon DEF Starts
    <2> QED
      BY <1>2, <2>1, Zenon DEF Starts
  <1>3. ASSUME NEW u \in Threads, NEW f \in Globals, NEW g \in Globals,
               f \in Inside(u), g \in Inside(u), f # "limit", g # "limit", First(u, f, g)
        PROVE  First(u, f, g)'
    <2>1. when'[f] = when[f] /\ when'[g] = when[g] /\ asyncq' = asyncq
      BY <1>2, <1>3, Zenon DEF Starts
    <2>2. Elements(queue'[u]) = Elements(queue[u]) \cup {"limit", "sync"}
      BY Zenon DEF Starts
    <2>3. /\ f \in Elements(queue[u]) => f \in Elements(queue'[u])
          /\ g \in Elements(queue[u]) => g \in Elements(queue'[u])
      BY <2>2, Zenon
    <2>4. Ahead(queue[u], f, g) => Ahead(queue'[u], f, g)
      BY <1>1, <1>3, Zenon
    <2> QED
      BY <1>3, <2>1, <2>3, <2>4, FirstKept, Zenon DEF First
  <1>4. Keeps({"limit"})
    BY <1>2, <1>3, KeepsOneWay, Zenon
  <1> QED
    BY <1>1, <1>4, Zenon DEF First, FirstIn

(* All threads service two global events in the same order.                *)
SameOrder ==
    \A t, u \in Threads : \A g, h \in Globals :
        /\ g # h /\ g \in Inside(t) /\ h \in Inside(t) /\ g \in Inside(u) /\ h \in Inside(u)
        /\ First(t, g, h)
        => First(u, g, h)

(* The thread u services g before any other global event.                  *)
Foremost(u, g) ==
    g \in Inside(u) /\ \A h \in Globals : h \in Inside(u) /\ h # g => First(u, g, h)

(* g is in the queue of u, or u waits at its barrier.                      *)
Has(u, g) == g \in Inside(u) \/ at[u] = g

(* A global event that is not being scheduled is with all threads or none. *)
Everywhere ==
    \A g \in Globals : (\A v \in Threads : Busy(v) => job[v].event # g) =>
        \A t, u \in Threads : Has(t, g) => Has(u, g)

(* Only one thread at a time is between the first and the last queue of a  *)
(* global event.                                                           *)
MutexHeld(t) == Busy(t) /\ job[t].event \in Globals /\ Started(t) => mutex = t

(* That event is the newest one in the queues.                             *)
JobFirst(t) == \A e \in Globals : Busy(t) /\ job[t].event = e => Newest(e)

(* And it is in all the queues that are not still to come.                 *)
JobReach(t) ==
    \A e \in Globals : Busy(t) /\ job[t].event = e =>
        \A u \in Threads : ToDo(t, u) \/ e \in Inside(u)

(* Threads that wait are at the same barrier, and it is the first the      *)
(* others come to.                                                         *)
WaitFirst(t) ==
    \A g \in Globals : pc[t] = "wait" /\ at[t] = g /\ (\A v \in Threads : ~Winner(v)) =>
        \A u \in Threads : /\ at[u] \in Globals => at[u] = g
                           /\ at[u] # g => Foremost(u, g)

(* When an event has been processed it is in all the queues or in none.    *)
AllOrNone(t) ==
    \A g \in Globals : pc[t] = "second" /\ at[t] = g =>
        (\A u \in Threads : g \in Inside(u)) \/ (\A u \in Threads : g \notin Inside(u))

(* What is said of each thread.                                            *)
MeetInv(t) == MutexHeld(t) /\ JobFirst(t) /\ JobReach(t) /\ WaitFirst(t) /\ AllOrNone(t)

(* All of this.                                                            *)
OrderInv == SameOrder /\ Everywhere /\ \A t \in Threads : MeetInv(t)

(* A step that keeps the order of the old events, and puts the new ones    *)
(* where the newest belong, keeps it the same for all threads.             *)
LEMMA SameOrderStep ==
    ASSUME OrderLaws, IInv', SameOrder, NEW X, Keeps(X), NEW Y,
           \A e : e \in X => e \in Y,
           \A e \in Globals : e \in Y => Newest(e)',
           \A u \in Threads : \A g \in Globals : g \in Inside(u)' => g \in Inside(u) \/ g \in Y
    PROVE  SameOrder'
  <1> SUFFICES ASSUME NEW t \in Threads, NEW u \in Threads, NEW g \in Globals, NEW h \in Globals,
                      g # h, g \in Inside(t)', h \in Inside(t)', g \in Inside(u)', h \in Inside(u)',
                      First(t, g, h)'
               PROVE  First(u, g, h)'
    BY Zenon DEF SameOrder
  <1>1. /\ First(t, g, h)' <=> ~First(t, h, g)'
        /\ Order!Before(when', h, g) => First(t, h, g)'
        /\ Order!Before(when', g, h) => First(u, g, h)'
    BY InsideTotal, Zenon
  <1>2. CASE g \in Y
    <2>1. Newest(g)'
      BY <1>2, Zenon
    <2> QED
      BY <1>1, <2>1, Zenon DEF Newest
  <1>3. CASE h \in Y
    <2>1. Newest(h)'
      BY <1>3, Zenon
    <2>2. ~Order!Before(when', g, h) => First(t, h, g)'
      BY <2>1, Zenon DEF Newest
    <2> QED
      BY <1>1, <2>2, Zenon
  <1>4. CASE g \notin Y /\ h \notin Y
    <2>1. /\ g \in Inside(t) /\ h \in Inside(t) /\ g \in Inside(u) /\ h \in Inside(u)
          /\ g \notin X /\ h \notin X
      BY <1>4, Zenon
    <2>2. First(t, g, h) <=> First(t, g, h)'
      BY <2>1, Zenon DEF Keeps
    <2>3. First(u, g, h) <=> First(u, g, h)'
      BY <2>1, Zenon DEF Keeps
    <2>4. First(t, g, h) => First(u, g, h)
      BY <2>1, Zenon DEF SameOrder
    <2> QED
      BY <2>2, <2>3, <2>4, Zenon
  <1> QED
    BY <1>2, <1>3, <1>4, Zenon

(* A step that inserts no global event.                                    *)
LEMMA NothingNew ==
    ASSUME OrderLaws, IInv', SameOrder, Keeps({}),
           \A u \in Threads : \A g \in Globals : g \in Inside(u)' => g \in Inside(u)
    PROVE  /\ SameOrder'
           /\ \A e \in Globals : Newest(e) => Newest(e)'
           /\ \A u \in Threads : \A g \in Globals :
                Foremost(u, g) /\ g \in Inside(u)' => Foremost(u, g)'
  <1>1. SameOrder'
    <2> DEFINE X == {}
    <2>1. Keeps(X) /\ \A e : e \notin X
      BY Zenon
    <2> HIDE DEF X
    <2>2. /\ \A e : e \in X => e \in X
          /\ \A e \in Globals : e \in X => Newest(e)'
          /\ \A u \in Threads : \A g \in Globals :
                g \in Inside(u)' => g \in Inside(u) \/ g \in X
      BY <2>1, Zenon
    <2> QED
      BY <2>1, <2>2, SameOrderStep, Zenon
  <1>2. ASSUME NEW e \in Globals, Newest(e) PROVE Newest(e)'
    <2> SUFFICES ASSUME NEW u \in Threads, NEW h \in Globals, e \in Inside(u)', h \in Inside(u)',
                        h # e, ~Order!Before(when', h, e)
                 PROVE  First(u, e, h)'
      BY Zenon DEF Newest
    <2>1. e \in Inside(u) /\ h \in Inside(u)
      BY Zenon
    <2>2. (First(u, e, h) <=> First(u, e, h)') /\ when'[e] = when[e] /\ when'[h] = when[h]
      BY <2>1, Zenon DEF Keeps
    <2>3. ~Order!Before(when, h, e)
      BY <2>2, Zenon DEF Order!Before
    <2> QED
      BY <1>2, <2>1, <2>2, <2>3, Zenon DEF Newest
  <1>3. ASSUME NEW u \in Threads, NEW g \in Globals, Foremost(u, g), g \in Inside(u)'
        PROVE  Foremost(u, g)'
    <2>1. ASSUME NEW h \in Globals, h \in Inside(u)', h # g PROVE First(u, g, h)'
      <3>1. g \in Inside(u) /\ h \in Inside(u)
        BY <1>3, <2>1, Zenon
      <3>2. First(u, g, h) <=> First(u, g, h)'
        BY <3>1, <1>3, <2>1, Zenon DEF Keeps
      <3> QED
        BY <1>3, <2>1, <3>1, <3>2, Zenon DEF Foremost
    <2> QED
      BY <1>3, <2>1, Zenon DEF Foremost
  <1> QED
    BY <1>1, <1>2, <1>3, Zenon

(* An event that is being scheduled and is in a queue has its time.        *)
LEMMA InsideJob ==
    ASSUME IInv, NEW v \in Threads, NEW u \in Threads, NEW e \in Globals, Busy(v),
           job[v].event = e, e \in Inside(u)
    PROVE  Started(v) /\ when[e] = job[v].when
  <1> USE DEF IInv, ThreadInv
  <1>1. ASSUME ~Started(v) PROVE ToDo(v, u)
    <2>1. pc[v] = "push" /\ job[v].next \in Threads /\ ~(job[v].next > 0)
      BY <1>1, Numbers, Zenon DEF Started, Busy
    <2>2. job[v].next < u \/ job[v].next = u
      <3>1. u \in Int /\ 0 <= u /\ job[v].next \in Int /\ 0 <= job[v].next
        BY <2>1, Constants, Zenon
      <3> QED
        BY <3>1, <2>1
    <2> QED
      BY <2>1, <2>2, Zenon DEF ToDo, Targets
  <1>2. Started(v)
    BY <1>1, Zenon DEF NotThereYet
  <1> QED
    BY <1>2, Zenon DEF TimeSet

(* What this says of the property.                                         *)
LEMMA OrderImplies == ASSUME IInv, OrderInv PROVE OneBarrierAtATime
  <1> USE DEF IInv, ThreadInv
  <1> SUFFICES ASSUME NEW t \in Threads, NEW u \in Threads, pc[t] = "wait", pc[u] = "wait"
               PROVE  at[t] = at[u]
    BY Zenon DEF OneBarrierAtATime
  <1>1. at[t] \in Globals /\ at[u] \in Globals
    BY Zenon DEF AtMatches
  <1>2. CASE \A v \in Threads : ~Winner(v)
    BY <1>1, <1>2, Zenon DEF OrderInv, MeetInv, WaitFirst
  <1>3. ASSUME NEW v \in Threads, Winner(v) PROVE at[t] = at[u]
    <2>1. v # t /\ v # u /\ OthersWait(v)
      BY <1>3, Zenon DEF Winner
    <2> HIDE DEF IInv, ThreadInv
    <2> QED
      BY <1>3, <2>1, Zenon DEF OthersWait
  <1> QED
    BY <1>2, <1>3, Zenon

(* The global events and the threads that wait for them are left alone.    *)
Unmoved ==
    /\ Keeps({})
    /\ \A v \in Threads : \A g \in Globals : /\ g \in Inside(v)' <=> g \in Inside(v)
                                             /\ at'[v] = g <=> at[v] = g
    /\ \A v \in Threads : Winner(v)' <=> Winner(v)

(* The schedule() u is in, and the barrier it is at, are left alone.       *)
Settled(u) ==
    /\ Busy(u)' => /\ Busy(u) /\ job'[u].event = job[u].event
                   /\ Started(u)' => Started(u)
                   /\ \A v \in Threads : ToDo(u, v) => ToDo(u, v)'
                   /\ mutex = u => mutex' = u
    /\ pc'[u] = "wait" => pc[u] = "wait"
    /\ pc'[u] = "second" => pc[u] = "second"

(* Such a step keeps the order of the global events.                       *)
LEMMA UnmovedOrder ==
    ASSUME OrderLaws, IInv', OrderInv, Unmoved
    PROVE  /\ SameOrder'
           /\ \A u \in Threads : Settled(u) => MeetInv(u)'
           /\ (\A v \in Threads : Busy(v) => Busy(v)' /\ job'[v].event = job[v].event)
                => Everywhere'
  <1>0. /\ \A v \in Threads : \A g \in Globals : /\ g \in Inside(v)' <=> g \in Inside(v)
                                                 /\ at'[v] = g <=> at[v] = g
        /\ \A v \in Threads : Winner(v)' <=> Winner(v)
    BY Zenon DEF Unmoved
  <1>1. /\ SameOrder'
        /\ \A e \in Globals : Newest(e) => Newest(e)'
        /\ \A u \in Threads : \A g \in Globals : Foremost(u, g) => Foremost(u, g)'
    <2>1. \A u \in Threads : \A g \in Globals : g \in Inside(u)' => g \in Inside(u)
      BY <1>0, Zenon
    <2>2. /\ SameOrder'
          /\ \A e \in Globals : Newest(e) => Newest(e)'
          /\ \A u \in Threads : \A g \in Globals :
                Foremost(u, g) /\ g \in Inside(u)' => Foremost(u, g)'
      BY <2>1, NothingNew, Zenon DEF Unmoved, OrderInv
    <2>3. ASSUME NEW u \in Threads, NEW g \in Globals, Foremost(u, g) PROVE g \in Inside(u)'
      BY <1>0, <2>3, Zenon DEF Foremost
    <2> QED
      BY <2>2, <2>3, Zenon
  <1>2. ASSUME NEW u \in Threads, Settled(u) PROVE MeetInv(u)'
    <2>0. MeetInv(u)
      BY Zenon DEF OrderInv
    <2>1. MutexHeld(u)'
      BY <1>2, <2>0, Zenon DEF MutexHeld, MeetInv, Settled
    <2>2. JobFirst(u)' /\ JobReach(u)'
      <3>1. ASSUME NEW f \in Globals, Busy(u)', job'[u].event = f
            PROVE  Newest(f)' /\ \A v \in Threads : ToDo(u, v)' \/ f \in Inside(v)'
        <4>1. Busy(u) /\ job[u].event = f /\ \A v \in Threads : ToDo(u, v) => ToDo(u, v)'
          BY <1>2, <3>1, Zenon DEF Settled
        <4>2. Newest(f) /\ \A v \in Threads : ToDo(u, v) \/ f \in Inside(v)
          BY <2>0, <4>1, Zenon DEF MeetInv, JobFirst, JobReach
        <4> QED
          BY <1>0, <1>1, <4>1, <4>2, Zenon
      <3> QED
        BY <3>1, Zenon DEF JobFirst, JobReach
    <2>3. WaitFirst(u)'
      <3> SUFFICES ASSUME NEW g \in Globals, pc'[u] = "wait", at'[u] = g,
                          \A v \in Threads : ~Winner(v)', NEW v \in Threads
                   PROVE  (at'[v] \in Globals => at'[v] = g) /\ (at'[v] # g => Foremost(v, g)')
        BY Zenon DEF WaitFirst
      <3>1. pc[u] = "wait" /\ at[u] = g /\ \A x \in Threads : ~Winner(x)
        BY <1>0, <1>2, Zenon DEF Settled
      <3>2. (at[v] \in Globals => at[v] = g) /\ (at[v] # g => Foremost(v, g))
        BY <2>0, <3>1, Zenon DEF MeetInv, WaitFirst
      <3> QED
        BY <1>0, <1>1, <3>2, Zenon
    <2>4. AllOrNone(u)'
      BY <1>0, <1>2, <2>0, Zenon DEF AllOrNone, MeetInv, Settled
    <2> QED
      BY <2>1, <2>2, <2>3, <2>4, Zenon DEF MeetInv
  <1>3. ASSUME \A v \in Threads : Busy(v) => Busy(v)' /\ job'[v].event = job[v].event
        PROVE  Everywhere'
    <2> SUFFICES ASSUME NEW g \in Globals, \A v \in Threads : Busy(v)' => job'[v].event # g,
                        NEW v \in Threads, NEW u \in Threads, Has(v, g)'
                 PROVE  Has(u, g)'
      BY Zenon DEF Everywhere
    <2>1. \A x \in Threads : Busy(x) => job[x].event # g
      BY <1>3, Zenon
    <2>2. Has(v, g) => Has(u, g)
      BY <2>1, Zenon DEF OrderInv, Everywhere
    <2> QED
      BY <1>0, <2>2, Zenon DEF Has
  <1> QED
    BY <1>1, <1>2, <1>3, Zenon

(* A step that leaves the queues and the barriers alone.                   *)
LEMMA QuietUnmoved ==
    ASSUME queue' = queue, asyncq' = asyncq, when' = when, at' = at,
           \A v \in Threads : Winner(v)' <=> Winner(v)
    PROVE  Unmoved /\ \A u \in Threads : Inside(u)' = Inside(u)
  <1>1. Keeps({}) /\ \A u \in Threads : Inside(u)' = Inside(u)
    BY SameKeeps, Zenon
  <1> QED
    BY <1>1, Zenon DEF Unmoved

(* The Scheduled flag is set; after the last queue the event is in all.    *)
LEMMA SetFlagOrder ==
    ASSUME OrderLaws, IInv, IInv', OrderInv, NEW t \in Threads, NEW e, NEW q, SetsFlag(t, e, q)
    PROVE  OrderInv'
  <1>0. /\ e = job[t].event /\ q = job[t].next /\ Busy(t) /\ pc[t] = "flag" /\ at' = at
        /\ Busy(t)' <=> More(e, q)
        /\ More(e, q) => job'[t].event = e /\ pc'[t] = "push"
        /\ ~More(e, q) => pc'[t] \in {"second", "handler"}
        /\ \A u \in Threads : u # t => /\ pc'[u] = pc[u] /\ job'[u] = job[u]
                                       /\ Busy(u)' = Busy(u)
        /\ \A u \in Threads : ToDo(t, u) <=> More(e, q) /\ ToDo(t, u)'
        /\ \A u \in Threads : u # t => \A v \in Threads : ToDo(u, v)' <=> ToDo(u, v)
        /\ mutex' = IF ~More(e, q) /\ e \in Globals THEN NoThread ELSE mutex
    BY Zenon DEF SetsFlag
  <1>1. Unmoved /\ \A u \in Threads : Inside(u)' = Inside(u)
    BY QuietUnmoved, Zenon DEF SetsFlag
  <1>2. /\ ~More(e, q) /\ e \in Globals => \A u \in Threads : e \in Inside(u)
        /\ e \in Globals => mutex = t
    BY <1>0, Zenon DEF OrderInv, MeetInv, JobReach, MutexHeld, Started
  <1>3. SameOrder' /\ \A u \in Threads : Settled(u) => MeetInv(u)'
    BY <1>1, UnmovedOrder, Zenon
  <1>4. ASSUME NEW u \in Threads, u # t \/ More(e, q) PROVE MeetInv(u)'
    <2>1. CASE u = t
      <3>1. Started(t)
        BY <1>0, Zenon DEF Started
      <3> QED
        BY <1>0, <1>3, <1>4, <2>1, <3>1, Zenon DEF Settled
    <2>2. CASE u # t
      <3>1. Started(u)' => Started(u)
        BY <1>0, <2>2, Zenon DEF Started
      <3>2. mutex = u => mutex' = u
        BY <1>0, <1>2, <2>2, Zenon
      <3> QED
        BY <1>0, <1>3, <2>2, <3>1, <3>2, Zenon DEF Settled
    <2> QED
      BY <2>1, <2>2, Zenon
  <1>5. ASSUME ~More(e, q) PROVE MeetInv(t)'
    <2>1. pc'[t] # "wait" /\ ~Busy(t)'
      BY <1>0, <1>5, Zenon
    <2>2. MutexHeld(t)' /\ JobFirst(t)' /\ JobReach(t)' /\ WaitFirst(t)'
      BY <2>1, Zenon DEF MutexHeld, JobFirst, JobReach, WaitFirst
    <2>3. AllOrNone(t)'
      <3>1. at[t] \in Globals => e = at[t]
        BY <1>0, Zenon DEF IInv, ThreadInv, JobMatches
      <3> QED
        BY <1>0, <1>1, <1>2, <1>5, <3>1, Zenon DEF AllOrNone
    <2> QED
      BY <2>2, <2>3, Zenon DEF MeetInv
  <1>6. Everywhere'
    <2> SUFFICES ASSUME NEW g \in Globals, \A v \in Threads : Busy(v)' => job'[v].event # g,
                        NEW v \in Threads, NEW u \in Threads, Has(v, g)'
                 PROVE  Has(u, g)'
      BY Zenon DEF Everywhere
    <2>1. CASE g = e
      <3>1. ~More(e, q)
        BY <1>0, <2>1, Zenon
      <3> QED
        BY <1>1, <1>2, <2>1, <3>1, Zenon DEF Has
    <2>2. CASE g # e
      <3>1. \A x \in Threads : Busy(x) => job[x].event # g
        BY <1>0, <2>2, Zenon
      <3>2. Has(v, g) => Has(u, g)
        BY <3>1, Zenon DEF OrderInv, Everywhere
      <3> QED
        BY <1>0, <1>1, <3>2, Zenon DEF Has
    <2> QED
      BY <2>1, <2>2, Zenon
  <1> QED
    BY <1>3, <1>4, <1>5, <1>6, Zenon DEF OrderInv

(* A schedule() begins: its event is in none of the queues.                *)
LEMMA BeginOrder ==
    ASSUME OrderLaws, IInv, IInv', OrderInv, NEW t \in Threads, NEW e, NEW w, Begins(t, e, w)
    PROVE  OrderInv'
  <1>0. /\ mutex' = mutex
        /\ ~Busy(t) /\ Busy(t)' /\ pc'[t] = "push" /\ job'[t].event = e /\ ~Started(t)'
        /\ \A u \in Threads : u # t => /\ pc'[u] = pc[u] /\ job'[u] = job[u]
                                       /\ Busy(u)' <=> Busy(u)
        /\ \A u \in Threads : ToDo(t, u)' <=> u \in Targets(e)
        /\ \A u \in Threads : u # t => \A v \in Threads : ToDo(u, v)' <=> ToDo(u, v)
    BY Zenon DEF Begins
  <1>1. Unmoved
    BY QuietUnmoved, Zenon DEF Begins
  <1>2. e \in Globals => \A u \in Threads : ToDo(t, u)' /\ e \notin Inside(u)'
    <2>1. e \in Globals => \A u \in Threads : ToDo(t, u)'
      BY <1>0, Zenon DEF Targets
    <2>2. NotThereYet(t)'
      BY Zenon DEF IInv, ThreadInv
    <2> QED
      BY <1>0, <2>1, <2>2, Zenon DEF NotThereYet
  <1>3. /\ SameOrder' /\ Everywhere'
        /\ \A u \in Threads : Settled(u) => MeetInv(u)'
    <2>1. \A v \in Threads : Busy(v) => Busy(v)' /\ job'[v].event = job[v].event
      BY <1>0, Zenon
    <2> QED
      BY <1>1, <2>1, UnmovedOrder, Zenon
  <1>4. ASSUME NEW u \in Threads, u # t PROVE MeetInv(u)'
    <2>1. Started(u)' => Started(u)
      BY <1>0, <1>4, Zenon DEF Started
    <2> QED
      BY <1>0, <1>3, <1>4, <2>1, Zenon DEF Settled
  <1>5. MeetInv(t)'
    <2>1. MutexHeld(t)' /\ WaitFirst(t)' /\ AllOrNone(t)'
      BY <1>0, Zenon DEF MutexHeld, WaitFirst, AllOrNone
    <2>2. JobFirst(t)' /\ JobReach(t)'
      BY <1>0, <1>2, Zenon DEF JobFirst, JobReach, Newest
    <2> QED
      BY <2>1, <2>2, Zenon DEF MeetInv
  <1> QED
    BY <1>3, <1>4, <1>5, Zenon DEF OrderInv

(* A handler returns.                                                      *)
LEMMA ReturnOrder ==
    ASSUME OrderLaws, IInv', OrderInv, NEW t \in Threads, Returns(t)
    PROVE  OrderInv'
  <1>1. Unmoved
    <2>1. Keeps({}) /\ \A u \in Threads : Inside(u)' = Inside(u)
      BY SameKeeps, Zenon DEF Returns
    <2>2. ASSUME NEW v \in Threads, NEW g \in Globals PROVE at'[v] = g <=> at[v] = g
      <3>1. NoEvent \notin Globals
        BY EventKinds, Zenon
      <3> QED
        BY <3>1, Zenon DEF Returns
    <2>3. \A v \in Threads : Winner(v)' <=> Winner(v)
      BY Zenon DEF Returns
    <2> QED
      BY <2>1, <2>2, <2>3, Zenon DEF Unmoved
  <1>2. ASSUME NEW u \in Threads PROVE Settled(u)
    <2>1. pc'[u] # "wait" \/ pc'[u] = pc[u]
      BY Zenon DEF Returns
    <2>2. pc'[u] # "second" \/ pc'[u] = pc[u]
      BY Zenon DEF Returns
    <2> QED
      BY <2>1, <2>2, Zenon DEF Settled, Returns
  <1>3. \A v \in Threads : Busy(v) => Busy(v)' /\ job'[v].event = job[v].event
    BY Zenon DEF Returns
  <1> QED
    BY <1>1, <1>2, <1>3, UnmovedOrder, Zenon DEF OrderInv

(* A thread merges its async queue.                                        *)
LEMMA MergeOrder ==
    ASSUME OrderLaws, IInv, IInv', OrderInv, NEW t \in Threads, Merges(t)
    PROVE  OrderInv'
  <1>1. Unmoved
    <2>1. Keeps({})
      BY MergesKeeps, Zenon
    <2>2. /\ \A u \in Threads : Inside(u)' = Inside(u)
          /\ at' = at
          /\ \A v \in Threads : Winner(v)' <=> Winner(v)
      BY Zenon DEF Merges
    <2> QED
      BY <2>1, <2>2, Zenon DEF Unmoved
  <1>2. ASSUME NEW u \in Threads PROVE Settled(u)
    <2>1. pc'[u] # "wait" \/ pc'[u] = pc[u]
      BY Zenon DEF Merges
    <2>2. pc'[u] # "second" \/ pc'[u] = pc[u]
      BY Zenon DEF Merges
    <2> QED
      BY <2>1, <2>2, Zenon DEF Settled, Merges
  <1>3. \A v \in Threads : Busy(v) => Busy(v)' /\ job'[v].event = job[v].event
    BY Zenon DEF Merges
  <1> QED
    BY <1>1, <1>2, <1>3, UnmovedOrder, Zenon DEF OrderInv

(* A step that changes nothing.                                            *)
LEMMA StutterOrder == ASSUME OrderLaws, IInv', OrderInv, UNCHANGED vars PROVE OrderInv'
  <1>0. /\ queue' = queue /\ asyncq' = asyncq /\ when' = when /\ at' = at /\ pc' = pc
        /\ job' = job /\ mutex' = mutex
    BY Zenon DEF vars
  <1>1. \A v \in Threads : /\ Winner(v)' <=> Winner(v)
                           /\ Busy(v)' <=> Busy(v)
                           /\ Started(v)' <=> Started(v)
                           /\ \A u \in Threads : ToDo(v, u)' <=> ToDo(v, u)
    BY <1>0, Zenon DEF Winner, Busy, Started, ToDo
  <1>2. Unmoved
    BY <1>0, <1>1, QuietUnmoved, Zenon
  <1>3. \A u \in Threads : Settled(u)
    BY <1>0, <1>1, Zenon DEF Settled
  <1>4. \A v \in Threads : Busy(v) => Busy(v)' /\ job'[v].event = job[v].event
    BY <1>0, <1>1, Zenon
  <1> QED
    BY <1>2, <1>3, <1>4, UnmovedOrder, Zenon DEF OrderInv

(* A local event goes straight into a queue.                               *)
LEMMA PutLocalOrder ==
    ASSUME OrderLaws, TimesLaw, IInv, IInv', OrderInv, NEW e \in LocalEvents, NEW w, NEW S,
           PutsAside(e, w, S)
    PROVE  OrderInv'
  <1>0. e \in AllEvents /\ e \notin Globals
    BY EventKinds, Zenon
  <1>1. Unmoved
    <2>1. Keeps({})
      BY <1>0, PutsKeeps, Zenon
    <2>2. ASSUME NEW v \in Threads, NEW g \in Globals PROVE g \in Inside(v)' <=> g \in Inside(v)
      <3>1. g # e
        BY <1>0, Zenon
      <3>2. CASE v \in S
        <4>1. Inside(v)' = Inside(v) \cup {e}
          BY <3>2, Zenon DEF PutsAside
        <4> QED
          BY <3>1, <4>1, Zenon
      <3>3. CASE v \notin S
        BY <3>3, Zenon DEF PutsAside
      <3> QED
        BY <3>2, <3>3, Zenon
    <2>3. at' = at /\ \A v \in Threads : Winner(v)' <=> Winner(v)
      BY Zenon DEF PutsAside
    <2> QED
      BY <2>1, <2>2, <2>3, Zenon DEF Unmoved
  <1>2. \A u \in Threads : Settled(u)
    BY Zenon DEF Settled, PutsAside
  <1>3. \A v \in Threads : Busy(v) => Busy(v)' /\ job'[v].event = job[v].event
    BY Zenon DEF PutsAside
  <1> QED
    BY <1>1, <1>2, <1>3, UnmovedOrder, Zenon DEF OrderInv

(* The winner is done with its event, which is in none of the queues.      *)
LEMMA FinishOrder ==
    ASSUME OrderLaws, IInv, IInv', OrderInv, NEW t \in Threads, Finishes(t)
    PROVE  OrderInv'
  <1>0. /\ queue' = queue /\ asyncq' = asyncq /\ when' = when /\ at' = at
        /\ Winner(t) /\ Winner(t)' /\ pc'[t] = "second"
        /\ \A u \in Threads : /\ u # t => pc[u] = "wait" /\ pc'[u] = "wait" /\ ~Winner(u)'
                              /\ ~Busy(u) /\ ~Busy(u)' /\ Inside(u)' = Inside(u)
                              /\ at[t] \notin Inside(u)
    BY Zenon DEF Finishes
  <1>1. \A u \in Threads : Winner(u)' <=> Winner(u)
    BY <1>0, Zenon DEF Winner
  <1>2. Unmoved
    BY <1>0, <1>1, QuietUnmoved, Zenon
  <1>3. SameOrder' /\ Everywhere'
    BY <1>0, <1>2, UnmovedOrder, Zenon
  <1>4. ASSUME NEW u \in Threads PROVE MeetInv(u)'
    <2>1. MutexHeld(u)' /\ JobFirst(u)' /\ JobReach(u)' /\ WaitFirst(u)'
      BY <1>0, Zenon DEF MutexHeld, JobFirst, JobReach, WaitFirst
    <2>2. AllOrNone(u)'
      <3>1. pc'[u] = "second" => u = t
        BY <1>0, Zenon
      <3> QED
        BY <1>0, <3>1, Zenon DEF AllOrNone
    <2> QED
      BY <2>1, <2>2, Zenon DEF MeetInv
  <1> QED
    BY <1>3, <1>4, Zenon DEF OrderInv

(* The second barrier lets all threads go.                                 *)
LEMMA ReleaseOrder ==
    ASSUME OrderLaws, IInv, IInv', OrderInv, NEW t \in Threads, NEW g, Releases(t, g)
    PROVE  OrderInv'
  <1>0. /\ queue' = queue /\ asyncq' = asyncq /\ when' = when
        /\ g = at[t] /\ pc[t] = "second" /\ g \in Globals
        /\ \A u \in Threads : /\ ~Busy(u) /\ ~Busy(u)' /\ Inside(u)' = Inside(u)
                              /\ at[u] = g /\ at'[u] = NoEvent
                              /\ pc'[u] \in {"merge", "loop", "exited", "idle"}
        /\ NoEvent \notin Globals
    BY EventKinds, Zenon DEF Releases
  <1>1. SameOrder'
    <2>1. Keeps({})
      BY <1>0, SameKeeps, Zenon
    <2>2. \A u \in Threads : \A h \in Globals : h \in Inside(u)' => h \in Inside(u)
      BY <1>0, Zenon
    <2> QED
      BY <2>1, <2>2, NothingNew, Zenon DEF OrderInv
  <1>2. Everywhere'
    <2> SUFFICES ASSUME NEW h \in Globals, NEW v \in Threads, NEW u \in Threads, h \in Inside(v)
                 PROVE  h \in Inside(u)
      BY <1>0, Zenon DEF Everywhere, Has
    <2>1. CASE h = g
      BY <1>0, <2>1, Zenon DEF OrderInv, MeetInv, AllOrNone
    <2>2. CASE h # g
      BY <1>0, <2>2, Zenon DEF OrderInv, Everywhere, Has
    <2> QED
      BY <2>1, <2>2, Zenon
  <1>3. ASSUME NEW u \in Threads PROVE MeetInv(u)'
    <2>1. pc'[u] # "wait" /\ pc'[u] # "second" /\ ~Busy(u)'
      BY <1>0, Zenon
    <2> QED
      BY <2>1, Zenon DEF MeetInv, MutexHeld, JobFirst, JobReach, WaitFirst, AllOrNone
  <1> QED
    BY <1>1, <1>2, <1>3, Zenon DEF OrderInv

(* What is due in this quantum is before what comes after it.              *)
LEMMA DueBefore ==
    ASSUME IInv, NEW g \in Globals, NEW e \in Globals, NEW x \in Int, NEW w \in Int,
           ~Later(g, x), Later(e, w)
    PROVE  x < w \/ (x = w /\ Priority[g] < Priority[e])
  <1>1. PICK s : s = when["sync"] /\ s \in Int
    BY Numbers, EventKinds, Zenon
  <1>2. CASE x < w
    BY <1>2, Zenon
  <1>3. CASE ~(x < w)
    <2>1. /\ ~(x > s) /\ (w > s \/ w = s) /\ (x = s => g \notin ExitEvents)
          /\ w > s \/ e \in ExitEvents
      BY <1>1, Zenon DEF Later
    <2>2. x = s /\ w = s /\ ~(w > s)
      BY <1>1, <1>3, <2>1
    <2>3. g \notin ExitEvents /\ e \in ExitEvents
      BY <2>1, <2>2, Zenon
    <2>4. Priority[g] \in {90, 95} /\ Priority[e] = 100
      BY <2>3, Priorities, EventKinds, Zenon
    <2>5. Priority[g] < Priority[e]
      BY <2>4
    <2> QED
      BY <2>2, <2>5, Zenon
  <1> QED
    BY <1>2, <1>3, Zenon

(* A local event goes into an async queue.                                 *)
LEMMA PushLocalOrder ==
    ASSUME OrderLaws, IInv, IInv', OrderInv, NEW t \in Threads, NEW e, NEW q, NEW w,
           Pushes(t, e, q, w), e \notin Globals
    PROVE  OrderInv'
  <1>0. /\ e = job[t].event /\ job' = job /\ at' = at /\ mutex' = mutex /\ q \in Threads
        /\ pc'[t] = "flag" /\ \A u \in Threads : u # t => pc'[u] = pc[u]
        /\ \A u \in Threads : (Busy(u)' <=> Busy(u)) /\ (Winner(u)' <=> Winner(u))
        /\ \A u \in Threads : u # t => \A v \in Threads : ToDo(u, v)' <=> ToDo(u, v)
        /\ Inside(q)' = Inside(q) \cup {e}
        /\ \A u \in Threads : u # q => Inside(u)' = Inside(u)
    BY Zenon DEF Pushes
  <1>1. Unmoved
    <2>1. Keeps({})
      BY PushesKeeps, Zenon
    <2>2. ASSUME NEW v \in Threads, NEW g \in Globals PROVE g \in Inside(v)' <=> g \in Inside(v)
      BY <1>0, Zenon
    <2> QED
      BY <1>0, <2>1, <2>2, Zenon DEF Unmoved
  <1>2. /\ SameOrder' /\ Everywhere'
        /\ \A u \in Threads : Settled(u) => MeetInv(u)'
    <2>1. \A v \in Threads : Busy(v) => Busy(v)' /\ job'[v].event = job[v].event
      BY <1>0, Zenon
    <2> QED
      BY <1>1, <2>1, UnmovedOrder, Zenon
  <1>3. ASSUME NEW u \in Threads, u # t PROVE MeetInv(u)'
    <2>1. Started(u)' => Started(u)
      BY <1>0, <1>3, Zenon DEF Started
    <2> QED
      BY <1>0, <1>2, <1>3, <2>1, Zenon DEF Settled
  <1>4. MeetInv(t)'
    <2>1. job'[t].event \notin Globals /\ pc'[t] = "flag"
      BY <1>0, Zenon
    <2> QED
      BY <2>1, Zenon DEF MeetInv, MutexHeld, JobFirst, JobReach, WaitFirst, AllOrNone
  <1> QED
    BY <1>2, <1>3, <1>4, Zenon DEF OrderInv

(* A global event goes into an async queue: no other thread has begun to   *)
(* insert one, and the threads that wait do so for an earlier one.         *)
LEMMA PushGlobalOrder ==
    ASSUME OrderLaws, IInv, IInv', OrderInv, \A u \in Threads : FarInv(u),
           NEW t \in Threads, NEW e \in Globals, NEW q, NEW w, Pushes(t, e, q, w)
    PROVE  OrderInv'
  <1>0. /\ e = job[t].event /\ w = job[t].when /\ job' = job /\ at' = at /\ mutex' = t
        /\ q \in Threads /\ Busy(t) /\ pc[t] = "push"
        /\ pc'[t] = "flag" /\ \A u \in Threads : u # t => pc'[u] = pc[u]
        /\ \A u \in Threads : (Busy(u)' <=> Busy(u)) /\ (Winner(u)' <=> Winner(u))
        /\ \A u \in Threads : u # t => \A v \in Threads : ToDo(u, v)' <=> ToDo(u, v)
        /\ \A u \in Threads : ToDo(t, u) => u = q \/ ToDo(t, u)'
        /\ e \notin Inside(q) /\ Inside(q)' = Inside(q) \cup {e}
        /\ \A u \in Threads : u # q => Inside(u)' = Inside(u)
        /\ \A u \in Threads : \A f \in Inside(u) : when'[f] = when[f]
        /\ when'[e] = w
        /\ mutex \in {NoThread, t}
    BY Zenon DEF Pushes
  <1>1. /\ Keeps({})
        /\ \A h \in Globals : h \in Inside(q) /\ ~Order!Before(when', h, e) => First(q, e, h)'
    BY PushesKeeps, Zenon
  <1>2. ASSUME NEW u \in Threads, u # t, Busy(u), job[u].event \in Globals PROVE ~Started(u)
    <2>1. NoThread \notin Threads
      BY Constants DEF NoThread, Threads
    <2>2. mutex # u
      BY <1>0, <1>2, <2>1, Zenon
    <2> QED
      BY <1>2, <2>2, Zenon DEF OrderInv, MeetInv, MutexHeld
  <1>3. Newest(e)'
    <2> SUFFICES ASSUME NEW u \in Threads, NEW h \in Globals, e \in Inside(u)', h \in Inside(u)',
                        h # e, ~Order!Before(when', h, e)
                 PROVE  First(u, e, h)'
      BY Zenon DEF Newest
    <2>1. CASE u = q
      <3>1. h \in Inside(q)
        BY <1>0, <2>1, Zenon
      <3> QED
        BY <1>1, <2>1, <3>1, Zenon
    <2>2. CASE u # q
      <3>1. e \in Inside(u) /\ h \in Inside(u)
        BY <1>0, <2>2, Zenon
      <3>2. when'[e] = when[e] /\ when'[h] = when[h]
        BY <1>0, <3>1, Zenon
      <3>3. ~Order!Before(when, h, e)
        BY <3>2, Zenon DEF Order!Before
      <3>4. Newest(e)
        BY <1>0, Zenon DEF OrderInv, MeetInv, JobFirst
      <3>5. First(u, e, h)
        BY <3>1, <3>3, <3>4, Zenon DEF Newest
      <3> QED
        BY <1>1, <3>1, <3>5, Zenon DEF Keeps
    <2> QED
      BY <2>1, <2>2, Zenon
  <1>4. SameOrder'
    <2> DEFINE X == {}
    <2> DEFINE Y == {e}
    <2>1. Keeps(X) /\ \A f : f \in X => f \in Y
      BY <1>1, Zenon
    <2>2. /\ \A f \in Globals : f \in Y => Newest(f)'
          /\ \A u \in Threads : \A g \in Globals : g \in Inside(u)' => g \in Inside(u) \/ g \in Y
      <3>1. ASSUME NEW f \in Globals, f \in Y PROVE Newest(f)'
        <4>1. f = e
          BY <3>1, Zenon
        <4> QED
          BY <4>1, <1>3, Zenon
      <3> QED
        BY <3>1, <1>0, Zenon
    <2> HIDE DEF X, Y
    <2> QED
      BY <2>1, <2>2, SameOrderStep, Zenon DEF OrderInv
  <1>5. Everywhere'
    <2> SUFFICES ASSUME NEW g \in Globals, \A v \in Threads : Busy(v)' => job'[v].event # g,
                        NEW v \in Threads, NEW u \in Threads, Has(v, g)'
                 PROVE  Has(u, g)'
      BY Zenon DEF Everywhere
    <2>1. g # e /\ \A x \in Threads : Busy(x) => job[x].event # g
      BY <1>0, Zenon
    <2>2. \A x \in Threads : g \in Inside(x)' <=> g \in Inside(x)
      BY <1>0, <2>1, Zenon
    <2>3. Has(v, g) => Has(u, g)
      BY <2>1, Zenon DEF OrderInv, Everywhere
    <2> QED
      BY <1>0, <2>2, <2>3, Zenon DEF Has
  <1>6. ASSUME NEW u \in Threads PROVE MutexHeld(u)'
    <2>1. CASE u = t
      BY <1>0, <2>1, Zenon DEF MutexHeld
    <2>2. CASE u # t
      <3>1. Started(u)' => Started(u)
        BY <1>0, <2>2, Zenon DEF Started
      <3> QED
        BY <1>0, <1>2, <2>2, <3>1, Zenon DEF MutexHeld
    <2> QED
      BY <2>1, <2>2, Zenon
  <1>7. ASSUME NEW u \in Threads PROVE JobFirst(u)'
    <2> SUFFICES ASSUME NEW f \in Globals, Busy(u)', job'[u].event = f PROVE Newest(f)'
      BY Zenon DEF JobFirst
    <2>1. CASE u = t
      <3>1. f = e
        BY <1>0, <2>1, Zenon
      <3> QED
        BY <1>3, <3>1, Zenon
    <2>2. CASE u # t
      <3>1. Busy(u) /\ job[u].event = f /\ ~Started(u)
        BY <1>0, <1>2, <2>2, Zenon
      <3>2. \A v \in Threads : f \notin Inside(v)
        BY <3>1, InsideJob, Zenon
      <3>3. f # e
        BY <1>0, <2>2, <3>1, Zenon DEF IInv, ThreadInv, OwnJob
      <3>4. \A v \in Threads : f \notin Inside(v)'
        BY <1>0, <3>2, <3>3, Zenon
      <3> QED
        BY <3>4, Zenon DEF Newest
    <2> QED
      BY <2>1, <2>2, Zenon
  <1>8. ASSUME NEW u \in Threads PROVE JobReach(u)'
    <2> SUFFICES ASSUME NEW f \in Globals, Busy(u)', job'[u].event = f, NEW v \in Threads
                 PROVE  ToDo(u, v)' \/ f \in Inside(v)'
      BY Zenon DEF JobReach
    <2>1. ToDo(u, v) \/ f \in Inside(v)
      BY <1>0, Zenon DEF OrderInv, MeetInv, JobReach
    <2>2. f \in Inside(v) => f \in Inside(v)'
      BY <1>0, Zenon
    <2>3. CASE u = t
      <3>1. f = e /\ e \in Inside(q)'
        BY <1>0, <2>3, Zenon
      <3> QED
        BY <1>0, <2>1, <2>2, <2>3, <3>1, Zenon
    <2>4. CASE u # t
      BY <1>0, <2>1, <2>2, <2>4, Zenon
    <2> QED
      BY <2>3, <2>4, Zenon
  <1>9. ASSUME NEW u \in Threads PROVE WaitFirst(u)'
    <2> SUFFICES ASSUME NEW g \in Globals, pc'[u] = "wait", at'[u] = g,
                        \A v \in Threads : ~Winner(v)', NEW v \in Threads
                 PROVE  (at'[v] \in Globals => at'[v] = g) /\ (at'[v] # g => Foremost(v, g)')
      BY Zenon DEF WaitFirst
    <2>1. pc[u] = "wait" /\ at[u] = g /\ \A x \in Threads : ~Winner(x)
      BY <1>0, Zenon
    <2>2. (at[v] \in Globals => at[v] = g) /\ (at[v] # g => Foremost(v, g))
      BY <2>1, Zenon DEF OrderInv, MeetInv, WaitFirst
    <2>3. ASSUME Foremost(v, g) PROVE Foremost(v, g)'
      <3>0. /\ g \in Inside(v) /\ g \in Inside(v)'
            /\ \A h \in Globals : h \in Inside(v) /\ h # g => First(v, g, h)
        <4>1. g \in Inside(v) /\ \A h \in Globals : h \in Inside(v) /\ h # g => First(v, g, h)
          BY <2>3, Zenon DEF Foremost
        <4> QED
          BY <4>1, <1>0, Zenon
      <3>1. ASSUME NEW h \in Globals, h \in Inside(v)', h # g PROVE First(v, g, h)'
        <4>1. CASE h \in Inside(v)
          BY <1>1, <3>0, <3>1, <4>1, Zenon DEF Keeps
        <4>2. CASE h \notin Inside(v)
          <5>1. h = e
            BY <1>0, <3>1, <4>2, Zenon
          <5>2. ~Later(g, when[g])
            BY <2>1, Zenon DEF FarInv, DueWait
          <5>3. Later(e, w)
            <6>1. at[t] # "sync"
              BY <1>0, <2>1, EventKinds, Zenon DEF Winner
            <6> QED
              BY <1>0, <6>1, Zenon DEF FarInv, LaterJob
          <5>4. when[g] \in Int /\ w \in Int
            <6>1. \A f \in AllEvents : when[f] \in Int
              BY Numbers, Zenon
            <6>2. job[t].when \in Int
              BY Numbers, Zenon
            <6> QED
              BY <1>0, <6>1, <6>2, EventKinds, Zenon
          <5>5. when[g] < w \/ (when[g] = w /\ Priority[g] < Priority[e])
            BY <5>2, <5>3, <5>4, DueBefore, Zenon
          <5>6. Order!Before(when', g, e)
            <6>1. when'[g] = when[g] /\ when'[e] = w
              BY <1>0, <3>0, Zenon
            <6> QED
              BY <5>5, <6>1, Zenon DEF Order!Before
          <5> QED
            BY <3>0, <3>1, <5>1, <5>6, InsideTotal, Zenon
        <4> QED
          BY <4>1, <4>2, Zenon
      <3> QED
        BY <3>0, <3>1, Zenon DEF Foremost
    <2> QED
      BY <1>0, <2>2, <2>3, Zenon
  <1>10. ASSUME NEW u \in Threads PROVE AllOrNone(u)'
    <2>1. pc'[u] # "second"
      <3>1. ASSUME pc'[u] = "second" PROVE FALSE
        <4>1. u # t /\ pc[u] = "second"
          BY <1>0, <3>1, Zenon
        <4>2. Winner(u)
          BY <4>1, Zenon DEF IInv, ThreadInv, AtMatches, Winner
        <4>3. pc[t] = "wait"
          BY <4>1, <4>2, Zenon DEF IInv, ThreadInv, OthersWait
        <4> QED
          BY <1>0, <4>3, Zenon
      <3> QED
        BY <3>1, Zenon
    <2> QED
      BY <2>1, Zenon DEF AllOrNone
  <1> QED
    BY <1>4, <1>5, <1>6, <1>7, <1>8, <1>9, <1>10, Zenon DEF OrderInv, MeetInv

(* The first event of a queue, when it is global, is ahead of all other    *)
(* global events: those not merged yet come after the sync event.          *)
LEMMA HeadFirst ==
    ASSUME OrderLaws, HeadLaw, IInv, \A u \in Threads : FarInv(u), NEW t \in Threads,
           NEW e \in Globals, Serves(t, e), NEW h \in Globals, h \in Inside(t), h # e
    PROVE  First(t, e, h)
  <1>0. /\ e = Head(queue[t]) /\ queue[t] # <<>> /\ pc[t] = "loop" /\ ~Stopped
        /\ "sync" \in Elements(queue[t]) /\ e \in Inside(t)
        /\ \A u \in Threads : ~Winner(u)
    BY Zenon DEF Serves
  <1>1. Sound(queue[t], asyncq[t], when)
    BY QueuesSound, Zenon
  <1>2. CASE h \in Elements(queue[t])
    <2>1. Ahead(queue[t], e, h)
      BY <1>0, <1>1, <1>2, Zenon DEF OrderLaws, TailAheadLaw, Sound
    <2> QED
      BY <2>1, Zenon DEF First, FirstIn
  <1>3. CASE h \in Elements(asyncq[t])
    <2>1. h # "sync"
      BY <1>0, <1>1, <1>3, Zenon DEF Sound
    <2>2. Later(h, when[h])
      BY <1>0, <1>3, <2>1, Zenon DEF FarInv, LaterAsync
    <2>3. ~Later(e, when[e])
      BY HeadNotLater, Zenon
    <2>4. when[e] \in Int /\ when[h] \in Int
      BY Numbers, EventKinds, Zenon
    <2>5. when[e] < when[h] \/ (when[e] = when[h] /\ Priority[e] < Priority[h])
      BY <2>2, <2>3, <2>4, DueBefore, Zenon
    <2>6. Order!Before(when, e, h)
      BY <2>5, Zenon DEF Order!Before
    <2> QED
      BY <1>0, <2>6, InsideTotal, Zenon
  <1> QED
    BY <1>2, <1>3, Zenon DEF Inside

(* Nobody is scheduling the event that is serviced.                        *)
LEMMA HeadIdle ==
    ASSUME HeadLaw, IInv, \A u \in Threads : FarInv(u), NEW t \in Threads, NEW e \in Globals,
           Serves(t, e), NEW v \in Threads, Busy(v)
    PROVE  /\ job[v].event # e
           /\ \A f \in Globals : \A u \in Threads :
                job[v].event = f /\ f \in Inside(u) => Later(f, when[f])
  <1>1. ASSUME NEW f \in Globals, NEW u \in Threads, job[v].event = f, f \in Inside(u)
        PROVE  Later(f, when[f])
    <2>1. when[f] = job[v].when
      BY <1>1, InsideJob, Zenon
    <2>2. pc[v] # "wait"
      BY Zenon DEF Busy
    <2>3. at[v] # "sync"
      BY <2>2, EventKinds, Zenon DEF Serves, Winner
    <2> QED
      BY <1>1, <2>1, <2>3, Zenon DEF FarInv, LaterJob
  <1>2. ~Later(e, when[e]) /\ e \in Inside(t)
    BY HeadNotLater, Zenon DEF Serves
  <1> QED
    BY <1>1, <1>2, Zenon

(* A thread takes a local event.                                           *)
LEMMA ServeLocalOrder ==
    ASSUME OrderLaws, HeadLaw, IInv, IInv', OrderInv, NEW t \in Threads, NEW e \in LocalEvents,
           Serves(t, e)
    PROVE  OrderInv'
  <1>0. /\ pc'[t] = "handler" /\ at[t] = NoEvent /\ at'[t] = e
        /\ \A u \in Threads : u # t => pc'[u] = pc[u] /\ at'[u] = at[u] /\ Inside(u)' = Inside(u)
        /\ Inside(t)' = Inside(t) \ {e}
        /\ job' = job /\ mutex' = mutex
        /\ ~Busy(t) /\ \A u \in Threads : Busy(u)' <=> Busy(u)
        /\ \A u \in Threads : ~Winner(u)
        /\ \A u \in Threads : u # t => ~Winner(u)'
        /\ Winner(t)' <=> pc'[t] = "winner"
        /\ \A u \in Threads : Busy(u) => /\ u # t
                                         /\ \A v \in Threads : ToDo(u, v)' <=> ToDo(u, v)
                                         /\ Started(u)' <=> Started(u)
    BY Zenon DEF Serves
  <1>1. e \notin Globals /\ NoEvent \notin Globals
    BY EventKinds, Zenon
  <1>2. Unmoved
    <2>1. Keeps({})
      BY ServesKeeps, Zenon
    <2>2. ASSUME NEW v \in Threads, NEW g \in Globals
          PROVE  (g \in Inside(v)' <=> g \in Inside(v)) /\ (at'[v] = g <=> at[v] = g)
      <3>1. g # e /\ g # NoEvent
        BY <1>1, Zenon
      <3>2. CASE v = t
        BY <1>0, <3>1, <3>2, Zenon
      <3>3. CASE v # t
        BY <1>0, <3>3, Zenon
      <3> QED
        BY <3>2, <3>3, Zenon
    <2>3. ASSUME NEW v \in Threads PROVE ~Winner(v)' /\ ~Winner(v)
      <3>1. pc'[t] # "winner"
        BY <1>0, Zenon
      <3> QED
        BY <1>0, <3>1, Zenon
    <2> QED
      BY <2>1, <2>2, <2>3, Zenon DEF Unmoved
  <1>3. ASSUME NEW u \in Threads PROVE Settled(u)
    <2>1. CASE u = t
      BY <1>0, <2>1, Zenon DEF Settled
    <2>2. CASE u # t
      BY <1>0, <2>2, Zenon DEF Settled
    <2> QED
      BY <2>1, <2>2, Zenon
  <1>4. \A v \in Threads : Busy(v) => Busy(v)' /\ job'[v].event = job[v].event
    BY <1>0, Zenon
  <1> QED
    BY <1>2, <1>3, <1>4, UnmovedOrder, Zenon DEF OrderInv

(* A thread takes a global event: the one the others wait for, if any do.  *)
LEMMA ServeGlobalOrder ==
    ASSUME OrderLaws, HeadLaw, IInv, IInv', OrderInv, \A u \in Threads : FarInv(u),
           NEW t \in Threads, NEW e \in Globals, Serves(t, e)
    PROVE  OrderInv'
  <1>0. /\ pc[t] = "loop" /\ at[t] = NoEvent /\ at'[t] = e /\ e \in Inside(t)
        /\ pc'[t] \in {"handler", "winner", "wait"}
        /\ \A u \in Threads : u # t => pc'[u] = pc[u] /\ at'[u] = at[u] /\ Inside(u)' = Inside(u)
        /\ Inside(t)' = Inside(t) \ {e}
        /\ job' = job /\ mutex' = mutex
        /\ ~Busy(t) /\ \A u \in Threads : Busy(u)' <=> Busy(u)
        /\ \A u \in Threads : ~Winner(u)
        /\ \A u \in Threads : Busy(u) => /\ u # t
                                         /\ \A v \in Threads : ToDo(u, v)' <=> ToDo(u, v)
                                         /\ Started(u)' <=> Started(u)
    BY Zenon DEF Serves
  <1>1. NoEvent \notin Globals /\ e # NoEvent
    BY EventKinds, Zenon
  <1>2. \A v \in Threads : Busy(v) => job[v].event # e
    BY HeadIdle, Zenon
  <1>3. /\ SameOrder'
        /\ \A f \in Globals : Newest(f) => Newest(f)'
        /\ \A u \in Threads : \A g \in Globals :
             Foremost(u, g) /\ g \in Inside(u)' => Foremost(u, g)'
    <2>1. Keeps({})
      BY ServesKeeps, Zenon
    <2>2. ASSUME NEW u \in Threads, NEW g \in Globals, g \in Inside(u)' PROVE g \in Inside(u)
      BY <1>0, <2>2, Zenon
    <2> QED
      BY <2>1, <2>2, NothingNew, Zenon DEF OrderInv
  <1>4. Everywhere'
    <2> SUFFICES ASSUME NEW g \in Globals, \A v \in Threads : Busy(v)' => job'[v].event # g,
                        NEW v \in Threads, NEW u \in Threads, Has(v, g)'
                 PROVE  Has(u, g)'
      BY Zenon DEF Everywhere
    <2>1. ASSUME NEW x \in Threads PROVE Has(x, g)' <=> Has(x, g)
      <3>1. CASE x = t
        BY <1>0, <1>1, <3>1, Zenon DEF Has
      <3>2. CASE x # t
        BY <1>0, <3>2, Zenon DEF Has
      <3> QED
        BY <3>1, <3>2, Zenon
    <2>2. \A x \in Threads : Busy(x) => job[x].event # g
      BY <1>0, Zenon
    <2> QED
      BY <2>1, <2>2, Zenon DEF OrderInv, Everywhere
  <1>5. ASSUME NEW u \in Threads PROVE MutexHeld(u)' /\ JobFirst(u)' /\ JobReach(u)'
    <2>0. MeetInv(u)
      BY Zenon DEF OrderInv
    <2>1. MutexHeld(u)'
      BY <1>0, <2>0, Zenon DEF MeetInv, MutexHeld
    <2>2. ASSUME NEW f \in Globals, Busy(u)', job'[u].event = f
          PROVE  Newest(f)' /\ \A v \in Threads : ToDo(u, v)' \/ f \in Inside(v)'
      <3>1. Busy(u) /\ job[u].event = f
        BY <1>0, <2>2, Zenon
      <3>2. Newest(f) /\ \A v \in Threads : ToDo(u, v) \/ f \in Inside(v)
        BY <2>0, <3>1, Zenon DEF MeetInv, JobFirst, JobReach
      <3>3. f # e
        BY <1>2, <3>1, Zenon
      <3>4. \A v \in Threads : f \in Inside(v) => f \in Inside(v)'
        BY <1>0, <3>3, Zenon
      <3> QED
        BY <1>0, <1>3, <3>1, <3>2, <3>4, Zenon
    <2>3. JobFirst(u)' /\ JobReach(u)'
      BY <2>2, Zenon DEF JobFirst, JobReach
    <2> QED
      BY <2>1, <2>3, Zenon
  <1>6. ASSUME NEW v \in Threads
        PROVE  /\ at'[v] \in Globals => at'[v] = e
               /\ at'[v] # e => Foremost(v, e)'
    <2>1. ASSUME NEW x \in Threads, pc[x] = "wait" PROVE at[x] = e /\ WaitFirst(x)
      <3>1. PICK g \in Globals : at[x] = g
        BY <2>1, Zenon DEF IInv, ThreadInv, AtMatches
      <3>2. WaitFirst(x)
        BY Zenon DEF OrderInv, MeetInv
      <3>3. Foremost(t, g)
        <4>1. at[t] # g
          BY <1>0, <1>1, Zenon
        <4> QED
          BY <1>0, <2>1, <3>1, <3>2, <4>1, Zenon DEF WaitFirst
      <3>4. ASSUME g # e PROVE FALSE
        <4>1. g \in Inside(t) /\ First(t, g, e)
          BY <1>0, <3>3, <3>4, Zenon DEF Foremost
        <4>2. First(t, e, g)
          BY <3>4, <4>1, HeadFirst, Zenon
        <4> QED
          BY <1>0, <3>4, <4>1, <4>2, InsideTotal, Zenon
      <3> QED
        BY <3>1, <3>2, <3>4, Zenon
    <2>2. CASE v = t
      BY <1>0, <2>2, Zenon
    <2>3. CASE v # t /\ \E x \in Threads : pc[x] = "wait"
      <3>1. PICK x \in Threads : pc[x] = "wait" /\ at[x] = e /\ WaitFirst(x)
        BY <2>1, <2>3, Zenon
      <3>2. (at[v] \in Globals => at[v] = e) /\ (at[v] # e => Foremost(v, e))
        BY <1>0, <3>1, Zenon DEF WaitFirst
      <3>3. Foremost(v, e) => Foremost(v, e)'
        <4>1. Foremost(v, e) => e \in Inside(v)'
          BY <1>0, <2>3, Zenon DEF Foremost
        <4> QED
          BY <1>3, <4>1, Zenon
      <3> QED
        BY <1>0, <2>3, <3>2, <3>3, Zenon
    <2>4. CASE v # t /\ \A x \in Threads : pc[x] # "wait"
      <3>1. \A x \in Threads : at[x] \notin Globals
        BY <1>0, <2>4, Zenon DEF Winner
      <3>2. ASSUME NEW g \in Globals, \A x \in Threads : Busy(x) => job[x].event # g,
                   NEW x \in Threads, NEW u \in Threads, g \in Inside(x)
            PROVE  g \in Inside(u)
        <4>1. Has(x, g) => Has(u, g)
          BY <3>2, Zenon DEF OrderInv, Everywhere
        <4> QED
          BY <3>1, <3>2, <4>1, Zenon DEF Has
      <3>3. e \in Inside(v)
        BY <1>0, <1>2, <3>2, Zenon
      <3>4. ASSUME NEW h \in Globals, h \in Inside(v), h # e PROVE First(v, e, h)
        <4>1. CASE \A x \in Threads : Busy(x) => job[x].event # h
          <5>1. h \in Inside(t)
            BY <3>2, <3>4, <4>1, Zenon
          <5>2. First(t, e, h)
            BY <3>4, <5>1, HeadFirst, Zenon
          <5> QED
            BY <1>0, <3>3, <3>4, <5>1, <5>2, Zenon DEF OrderInv, SameOrder
        <4>2. ASSUME NEW x \in Threads, Busy(x), job[x].event = h PROVE First(v, e, h)
          <5>1. Later(h, when[h])
            BY <3>4, <4>2, HeadIdle, Zenon
          <5>2. ~Later(e, when[e])
            BY HeadNotLater, Zenon
          <5>3. when[e] \in Int /\ when[h] \in Int
            BY Numbers, EventKinds, Zenon
          <5>4. when[e] < when[h] \/ (when[e] = when[h] /\ Priority[e] < Priority[h])
            BY <5>1, <5>2, <5>3, DueBefore, Zenon
          <5>5. Order!Before(when, e, h)
            BY <5>4, Zenon DEF Order!Before
          <5> QED
            BY <3>3, <3>4, <5>5, InsideTotal, Zenon
        <4> QED
          BY <4>1, <4>2, Zenon
      <3>5. Foremost(v, e) /\ e \in Inside(v)'
        BY <1>0, <2>4, <3>3, <3>4, Zenon DEF Foremost
      <3>6. Foremost(v, e)'
        BY <1>3, <3>5, Zenon
      <3> QED
        BY <1>0, <2>4, <3>1, <3>6, Zenon
    <2> QED
      BY <2>2, <2>3, <2>4, Zenon
  <1>7. ASSUME NEW u \in Threads PROVE WaitFirst(u)'
    <2> SUFFICES ASSUME NEW g \in Globals, at'[u] = g, NEW v \in Threads
                 PROVE  (at'[v] \in Globals => at'[v] = g) /\ (at'[v] # g => Foremost(v, g)')
      BY Zenon DEF WaitFirst
    <2>1. g = e
      BY <1>6, Zenon
    <2> QED
      BY <1>6, <2>1, Zenon
  <1>8. ASSUME NEW u \in Threads PROVE AllOrNone(u)'
    <2>1. pc'[u] # "second"
      <3>1. pc[u] # "second"
        BY <1>0, Zenon DEF IInv, ThreadInv, AtMatches, Winner
      <3> QED
        BY <1>0, <3>1, Zenon
    <2> QED
      BY <2>1, Zenon DEF AllOrNone
  <1> QED
    BY <1>3, <1>4, <1>5, <1>7, <1>8, Zenon DEF OrderInv, MeetInv

(* An event the script puts into all queues is the newest there, if it is  *)
(* not tied with one that has not been merged yet.                         *)
LEMMA PutGlobalOrder ==
    ASSUME OrderLaws, TimesLaw, AvoidTies, IInv, IInv', OrderInv, Stopped,
           NEW e \in Globals, NEW w, PutsAside(e, w, Threads), NoTie(e, w)
    PROVE  OrderInv'
  <1>0. /\ pc' = pc /\ at' = at /\ asyncq' = asyncq /\ when'[e] = w /\ when' \in Times
        /\ \A u \in Threads : /\ Inside(u)' = Inside(u) \cup {e}
                              /\ Busy(u)' <=> Busy(u)
                              /\ \A f \in Inside(u) : f # e /\ when'[f] = when[f]
    BY Zenon DEF PutsAside
  <1>1. \A u \in Threads : /\ ~Busy(u) /\ at[u] \notin Globals
                           /\ pc[u] \in {"python", "exited", "idle"}
    BY AllIdle, Zenon
  <1>2. /\ e \in AllEvents /\ Keeps({})
        /\ \A u \in Threads : \A h \in Elements(queue[u]) :
              ~Order!Before(when', h, e) => First(u, e, h)'
    <2>1. e \in AllEvents
      BY EventKinds, Zenon
    <2> QED
      BY <2>1, PutsKeeps, Zenon
  <1>3. Newest(e)'
    <2> SUFFICES ASSUME NEW u \in Threads, NEW h \in Globals, e \in Inside(u)', h \in Inside(u)',
                        h # e, ~Order!Before(when', h, e)
                 PROVE  First(u, e, h)'
      BY Zenon DEF Newest
    <2>1. h \in Inside(u) /\ when'[h] = when[h] /\ h \in AllEvents
      BY <1>0, EventKinds, Zenon
    <2>2. CASE h \in Elements(queue[u])
      BY <1>2, <2>2, Zenon
    <2>3. CASE h \in Elements(asyncq[u])
      <3>1. ~(when'[h] = when'[e] /\ Priority[h] = Priority[e])
        BY <1>0, <2>1, <2>3, Zenon DEF NoTie
      <3>2. Order!Before(when', e, h)
        BY <1>0, <1>2, <2>1, <3>1, Untied, Zenon
      <3> QED
        BY <3>2, InsideTotal, Zenon
    <2> QED
      BY <2>1, <2>2, <2>3, Zenon DEF Inside
  <1>4. SameOrder'
    <2> DEFINE X == {}
    <2> DEFINE Y == {e}
    <2>1. Keeps(X) /\ \A f : f \in X => f \in Y
      BY <1>2, Zenon
    <2>2. ASSUME NEW f \in Globals, f \in Y PROVE Newest(f)'
      <3>1. f = e
        BY <2>2, Zenon
      <3> QED
        BY <1>3, <3>1, Zenon
    <2>3. \A u \in Threads : \A g \in Globals : g \in Inside(u)' => g \in Inside(u) \/ g \in Y
      BY <1>0, Zenon
    <2> HIDE DEF X, Y
    <2> QED
      BY <2>1, <2>2, <2>3, SameOrderStep, Zenon DEF OrderInv
  <1>5. Everywhere'
    <2> SUFFICES ASSUME NEW g \in Globals, NEW v \in Threads, NEW u \in Threads, g \in Inside(v)'
                 PROVE  g \in Inside(u)'
      BY <1>0, <1>1, Zenon DEF Everywhere, Has
    <2>1. CASE g = e
      BY <1>0, <2>1, Zenon
    <2>2. CASE g # e
      <3>1. g \in Inside(v)
        BY <1>0, <2>2, Zenon
      <3>2. g \in Inside(u)
        BY <1>1, <3>1, Zenon DEF OrderInv, Everywhere, Has
      <3> QED
        BY <1>0, <3>2, Zenon
    <2> QED
      BY <2>1, <2>2, Zenon
  <1>6. ASSUME NEW u \in Threads PROVE MeetInv(u)'
    <2>1. pc'[u] # "wait" /\ pc'[u] # "second" /\ ~Busy(u)'
      BY <1>0, <1>1, Zenon
    <2> QED
      BY <2>1, Zenon DEF MeetInv, MutexHeld, JobFirst, JobReach, WaitFirst, AllOrNone
  <1> QED
    BY <1>4, <1>5, <1>6, Zenon DEF OrderInv

(* simulate() puts the limit event and the quantum event into all queues.  *)
LEMMA SimulateOrder ==
    ASSUME OrderLaws, InsertLaw, AvoidTies, IInv, IInv', OrderInv, Starts
    PROVE  OrderInv'
  <1>0. /\ at' = at /\ asyncq' = asyncq /\ when' \in Times /\ NoTie("limit", when'["limit"])
        /\ \A f \in AllEvents : f # "limit" /\ f # "sync" => when'[f] = when[f]
        /\ \A u \in Threads : /\ Inside(u)' = Inside(u) \cup {"limit", "sync"}
                              /\ ~Busy(u) /\ ~Busy(u)' /\ pc'[u] = "merge"
                              /\ at[u] \notin Globals
    BY Zenon DEF Starts
  <1>1. /\ Keeps({"limit"})
        /\ \A u \in Threads : \A h \in Elements(queue[u]) :
              h # "limit" /\ ~Order!Before(when', h, "limit") => First(u, "limit", h)'
    BY StartsKeeps, Zenon
  <1>2. /\ "limit" \in AllEvents /\ "sync" \in AllEvents /\ "limit" # "sync"
        /\ \A h \in Globals : h # "sync" => Priority[h] # Priority["sync"]
    <2>1. \A h \in Globals : h # "sync" => Priority[h] \in {90, 100} /\ Priority["sync"] = 95
      BY Priorities, EventKinds, Zenon
    <2>2. \A h \in Globals : h # "sync" => Priority[h] # Priority["sync"]
      BY <2>1
    <2> QED
      BY <2>2, EventKinds, Zenon
  <1>3. Newest("sync")'
    <2> SUFFICES ASSUME NEW u \in Threads, NEW h \in Globals,
                        "sync" \in Inside(u)', h \in Inside(u)',
                        h # "sync", ~Order!Before(when', h, "sync")
                 PROVE  First(u, "sync", h)'
      BY Zenon DEF Newest
    <2>1. Order!Before(when', "sync", h)
      BY <1>0, <1>2, Untied, EventKinds, Zenon
    <2> QED
      BY <2>1, InsideTotal, Zenon
  <1>4. Newest("limit")'
    <2> SUFFICES ASSUME NEW u \in Threads, NEW h \in Globals,
                        "limit" \in Inside(u)', h \in Inside(u)',
                        h # "limit", ~Order!Before(when', h, "limit")
                 PROVE  First(u, "limit", h)'
      BY Zenon DEF Newest
    <2>1. ASSUME ~(when'[h] = when'["limit"] /\ Priority[h] = Priority["limit"])
          PROVE  First(u, "limit", h)'
      <3>1. Order!Before(when', "limit", h)
        BY <1>0, <1>2, <2>1, Untied, EventKinds, Zenon
      <3> QED
        BY <3>1, InsideTotal, Zenon
    <2>2. CASE h = "sync"
      <3>1. Priority["limit"] # Priority["sync"]
        BY <1>2, EventKinds, Zenon
      <3> QED
        BY <2>1, <2>2, <3>1, Zenon
    <2>3. CASE h \in Elements(queue[u])
      BY <1>1, <2>3, Zenon
    <2>4. CASE h \in Elements(asyncq[u]) /\ h # "sync"
      <3>1. when'[h] = when[h]
        BY <1>0, <2>4, EventKinds, Zenon
      <3>2. ~(when[h] = when'["limit"] /\ Priority[h] = Priority["limit"])
        BY <1>0, <2>4, Zenon DEF NoTie
      <3> QED
        BY <2>1, <3>1, <3>2, Zenon
    <2>5. h = "sync" \/ h \in Inside(u)
      BY <1>0, Zenon
    <2> QED
      BY <2>2, <2>3, <2>4, <2>5, Zenon DEF Inside
  <1>5. SameOrder'
    <2> DEFINE X == {"limit"}
    <2> DEFINE Y == {"limit", "sync"}
    <2>1. Keeps(X) /\ \A f : f \in X => f \in Y
      BY <1>1, Zenon
    <2>2. ASSUME NEW f \in Globals, f \in Y PROVE Newest(f)'
      <3>1. f = "limit" \/ f = "sync"
        BY <2>2, Zenon
      <3> QED
        BY <1>3, <1>4, <3>1, Zenon
    <2>3. \A u \in Threads : \A g \in Globals : g \in Inside(u)' => g \in Inside(u) \/ g \in Y
      BY <1>0, Zenon
    <2> HIDE DEF X, Y
    <2> QED
      BY <2>1, <2>2, <2>3, SameOrderStep, Zenon DEF OrderInv
  <1>6. Everywhere'
    <2> SUFFICES ASSUME NEW g \in Globals, NEW v \in Threads, NEW u \in Threads, g \in Inside(v)'
                 PROVE  g \in Inside(u)'
      BY <1>0, Zenon DEF Everywhere, Has
    <2>1. CASE g = "limit" \/ g = "sync"
      BY <1>0, <2>1, Zenon
    <2>2. CASE g # "limit" /\ g # "sync"
      <3>1. g \in Inside(v)
        BY <1>0, <2>2, Zenon
      <3>2. g \in Inside(u)
        BY <1>0, <3>1, Zenon DEF OrderInv, Everywhere, Has
      <3> QED
        BY <1>0, <3>2, Zenon
    <2> QED
      BY <2>1, <2>2, Zenon
  <1>7. ASSUME NEW u \in Threads PROVE MeetInv(u)'
    <2>1. pc'[u] # "wait" /\ pc'[u] # "second" /\ ~Busy(u)'
      BY <1>0, Zenon
    <2> QED
      BY <2>1, Zenon DEF MeetInv, MutexHeld, JobFirst, JobReach, WaitFirst, AllOrNone
  <1> QED
    BY <1>5, <1>6, <1>7, Zenon DEF OrderInv

(* simulate() takes the quantum event out of all queues.                   *)
LEMMA SimulateReturnOrder ==
    ASSUME OrderLaws, IInv, IInv', OrderInv, Stops
    PROVE  OrderInv'
  <1>0. /\ at' = at
        /\ \A u \in Threads : /\ Inside(u)' = Inside(u) \ {"sync"}
                              /\ ~Busy(u) /\ ~Busy(u)' /\ pc'[u] \in {"python", "idle"}
                              /\ at[u] \notin Globals
    BY Zenon DEF Stops
  <1>1. SameOrder'
    <2>1. Keeps({})
      BY StopsKeeps, Zenon
    <2>2. \A u \in Threads : \A h \in Globals : h \in Inside(u)' => h \in Inside(u)
      BY <1>0, Zenon
    <2> QED
      BY <2>1, <2>2, NothingNew, Zenon DEF OrderInv
  <1>2. Everywhere'
    <2> SUFFICES ASSUME NEW g \in Globals, NEW v \in Threads, NEW u \in Threads, g \in Inside(v)'
                 PROVE  g \in Inside(u)'
      BY <1>0, Zenon DEF Everywhere, Has
    <2>1. g # "sync" /\ g \in Inside(v)
      BY <1>0, Zenon
    <2>2. g \in Inside(u)
      BY <1>0, <2>1, Zenon DEF OrderInv, Everywhere, Has
    <2> QED
      BY <1>0, <2>1, <2>2, Zenon
  <1>3. ASSUME NEW u \in Threads PROVE MeetInv(u)'
    <2>1. pc'[u] # "wait" /\ pc'[u] # "second" /\ ~Busy(u)'
      BY <1>0, Zenon
    <2> QED
      BY <2>1, Zenon DEF MeetInv, MutexHeld, JobFirst, JobReach, WaitFirst, AllOrNone
  <1> QED
    BY <1>1, <1>2, <1>3, Zenon DEF OrderInv

(* At the start there is nothing in the queues.                            *)
LEMMA InitOrder == Init => OrderInv
  <1> SUFFICES ASSUME Init PROVE OrderInv
    OBVIOUS
  <1>1. \A t \in Threads : /\ Inside(t) = {} /\ at[t] = NoEvent
                           /\ pc[t] \in {"python", "idle"} /\ NoEvent \notin Globals
    BY EmptyQueue, EventKinds, Zenon DEF Init, Inside
  <1>2. SameOrder /\ Everywhere
    BY <1>1, Zenon DEF SameOrder, Everywhere, Has
  <1>3. ASSUME NEW t \in Threads PROVE MeetInv(t)
    <2>1. pc[t] # "wait" /\ pc[t] # "second" /\ ~Busy(t)
      BY <1>1, Zenon DEF Busy
    <2> QED
      BY <2>1, Zenon DEF MeetInv, MutexHeld, JobFirst, JobReach, WaitFirst, AllOrNone
  <1> QED
    BY <1>2, <1>3, Zenon DEF OrderInv

(* A thread services an event.                                             *)
LEMMA ServeOrder ==
    ASSUME OrderLaws, HeadLaw, IInv, IInv', OrderInv, \A u \in Threads : FarInv(u),
           NEW t \in Threads, NEW e, Serves(t, e)
    PROVE  OrderInv'
  <1>1. e \in Globals \/ e \in LocalEvents
    BY EventKinds, Zenon DEF Serves
  <1> QED
    BY <1>1, ServeGlobalOrder, ServeLocalOrder, Zenon

(* A schedule() puts an event into an async queue.                         *)
LEMMA PushOrder ==
    ASSUME OrderLaws, IInv, IInv', OrderInv, \A u \in Threads : FarInv(u),
           NEW t \in Threads, NEW e, NEW q, NEW w, Pushes(t, e, q, w)
    PROVE  OrderInv'
  <1>1. CASE e \in Globals
    BY <1>1, PushGlobalOrder, Zenon
  <1>2. CASE e \notin Globals
    BY <1>2, PushLocalOrder, Zenon
  <1> QED
    BY <1>1, <1>2, Zenon

(* The script schedules a statistics event.                                *)
LEMMA PySchedStatEventOrder ==
    ASSUME OrderLaws, InsertLaw, TimesLaw, AvoidTies, IInv, IInv', OrderInv,
           NEW w \in 0 .. MaxTick, NEW g \in Stats, PySchedStatEvent(g, w)
    PROVE  OrderInv'
  <1>1. /\ Stopped /\ NoTie(g, w + simQuantum) /\ g \in Globals
    BY EventKinds, Zenon DEF PySchedStatEvent, Stopped
  <1>2. PutsAside(g, w + simQuantum, Threads)
    BY PySchedStatEventPuts, PutEffect, Zenon
  <1> QED
    BY <1>1, <1>2, PutGlobalOrder, Zenon

(* No step breaks this.                                                    *)
LEMMA NextOrder ==
    ASSUME Laws, OrderLaws, FarAhead, AvoidTies, IInv, IInv', \A t \in Threads : FarInv(t),
           OrderInv, [Next]_vars
    PROVE  OrderInv'
  <1> USE DEF Laws
  <1>1. CASE ScriptStep
    <2>1. PICK w \in 0 .. MaxTick : \/ \E e \in LocalEvents : PySchedule(e, w)
                                    \/ \E g \in Stats : PySchedStatEvent(g, w)
                                    \/ simulate(w)
      BY <1>1, Zenon DEF ScriptStep
    <2>2. ASSUME NEW e \in LocalEvents, PySchedule(e, w) PROVE OrderInv'
      BY <2>2, PySchedulePuts, PutEffect, PutLocalOrder, Zenon
    <2>3. ASSUME NEW g \in Stats, PySchedStatEvent(g, w) PROVE OrderInv'
      BY <2>3, PySchedStatEventOrder, Zenon
    <2>4. ASSUME simulate(w) PROVE OrderInv'
      BY <2>4, SimulateEffect, SimulateOrder, Zenon
    <2> QED
      BY <2>1, <2>2, <2>3, <2>4, Zenon
  <1>2. CASE simulateReturn
    BY <1>2, SimulateReturnEffect, SimulateReturnOrder, Zenon
  <1>3. ASSUME NEW t \in Threads, LoopStep(t) PROVE OrderInv'
    <2>1. CASE handleAsyncInsertions(t)
      BY <2>1, HandleAsyncInsertionsEffect, MergeOrder, Zenon
    <2>2. CASE serviceOne(t)
      BY <2>2, ServiceOneEffect, ServeOrder, Zenon
    <2>3. CASE process(t)
      <3>1. CASE Finishes(t)
        BY <3>1, FinishOrder, Zenon
      <3>2. ASSUME NEW e, NEW w, Repeats(t, e, w) PROVE OrderInv'
        BY <3>2, RepeatBegins, BeginOrder, Zenon DEF BeginsLater
      <3> QED
        BY <2>3, <3>1, <3>2, ProcessEffect, Zenon
    <2>4. CASE globalBarrier(t)
      BY <2>4, GlobalBarrierEffect, ReleaseOrder, Zenon
    <2>5. CASE asyncInsert(t)
      BY <2>5, AsyncInsertEffect, PushOrder, Zenon
    <2>6. CASE setFlag(t)
      BY <2>6, SetFlagEffect, SetFlagOrder, Zenon
    <2>7. CASE HandlerDone(t)
      BY <2>7, HandlerDoneEffect, ReturnOrder, Zenon
    <2> QED
      BY <1>3, <2>1, <2>2, <2>3, <2>4, <2>5, <2>6, <2>7, Zenon DEF LoopStep
  <1>4. ASSUME NEW t \in Threads, HandlerStep(t) PROVE OrderInv'
    <2>1. ASSUME NEW e \in LocalEvents, NEW d \in OwnDelays, HandlerOwn(t, e, d) PROVE OrderInv'
      BY <2>1, HandlerOwnPuts, PutEffect, PutLocalOrder, Zenon
    <2>2. ASSUME NEW e \in LocalEvents, NEW d \in AsyncDelays, HandlerAsync(t, e, d)
          PROVE  OrderInv'
      BY <2>2, HandlerAsyncBegins, BeginOrder, Zenon DEF BeginsLater
    <2>3. ASSUME NEW g \in Exits, exitSimLoop(t, g) PROVE OrderInv'
      BY <2>3, ExitSimLoopBegins, BeginOrder, Zenon DEF BeginsLater
    <2>4. ASSUME NEW g \in Stats, NEW d \in StatDelays, schedStatEvent(t, g, d) PROVE OrderInv'
      BY <2>4, SchedStatEventBegins, BeginOrder, Zenon DEF BeginsLater
    <2> QED
      BY <1>4, <2>1, <2>2, <2>3, <2>4, Zenon DEF HandlerStep
  <1>5. CASE UNCHANGED vars
    BY <1>5, StutterOrder, Zenon
  <1> QED
    BY <1>1, <1>2, <1>3, <1>4, <1>5, Zenon DEF Next
-----------------------------------------------------------------------------
O == INSTANCE EventOrder_proofs WITH Events <- AllEvents, priority <- Priority

-----------------------------------------------------------------------------
(* The lemmas on the service order, for the queues of the simulation.      *)
LEMMA SameOperators ==
    ASSUME NEW q, NEW w, NEW e, NEW s
    PROVE  /\ Order!Insert(q, w, e) = O!Insert(q, w, e)
           /\ Order!Without(q, e) = O!Without(q, e)
           /\ Order!Merge(q, w, s) = O!Merge(q, w, s)
           /\ O!Elements(q) = Elements(q)
  <1>1. Order!Insert(q, w, e) = O!Insert(q, w, e)
    BY Zenon DEF Order!Insert, O!Insert, Order!Place, O!Place, Order!IsPlace,
       O!IsPlace, Order!Before, O!Before, Order!InsertAt, O!InsertAt
  <1>2. Order!Without(q, e) = O!Without(q, e)
    BY Zenon DEF Order!Without, O!Without, Order!RemoveAt, O!RemoveAt
  <1>3. Order!Merge(q, w, s) = O!Merge(q, w, s)
    BY Zenon DEF Order!Merge, O!Merge, Order!Insert, O!Insert, Order!Place,
       O!Place, Order!IsPlace, O!IsPlace, Order!Before, O!Before,
       Order!InsertAt, O!InsertAt
  <1>4. O!Elements(q) = Elements(q)
    BY Zenon DEF Elements, Order!Elements, O!Elements
  <1> QED
    BY <1>1, <1>2, <1>3, <1>4, Zenon

(* w gives the events their times.                                         *)
Timed(w) == \A e \in AllEvents : w[e] \in Int

(* The service order compares numbers.                                     *)
LEMMA OrderTypes == ASSUME NEW w, Timed(w) PROVE O!OrderTypes(w)
  <1>1. \A e \in AllEvents : e = "sync" \/ e \in ExitEvents \/ e \in Stats
                                        \/ e \in LocalEvents
    BY Zenon DEF AllEvents, Globals, ExitEvents
  <1>2. \A e \in AllEvents : Priority[e] \in Int
    BY <1>1, Priorities
  <1> QED
    BY <1>2, Zenon DEF O!OrderTypes, Timed

(* Event::insert puts an event where the order wants it.                   *)
LEMMA Inserted ==
    ASSUME NEW q \in Seq(AllEvents), NEW w, Timed(w), O!InOrder(q, w),
           NEW e \in AllEvents, e \notin Elements(q)
    PROVE  /\ Order!Insert(q, w, e) \in Seq(AllEvents)
           /\ O!InOrder(Order!Insert(q, w, e), w)
           /\ Elements(Order!Insert(q, w, e)) = Elements(q) \cup {e}
           /\ \A f, g : O!Ahead(q, f, g) => O!Ahead(Order!Insert(q, w, e), f, g)
           /\ \A f \in Elements(q) :
                 IF O!Before(w, f, e) THEN O!Ahead(Order!Insert(q, w, e), f, e)
                                      ELSE O!Ahead(Order!Insert(q, w, e), e, f)
  <1>1. O!OrderTypes(w) /\ e \notin O!Elements(q)
    BY OrderTypes, SameOperators, Zenon
  <1>2. /\ O!Insert(q, w, e) \in Seq(AllEvents)
        /\ O!InOrder(O!Insert(q, w, e), w)
        /\ O!Elements(O!Insert(q, w, e)) = O!Elements(q) \cup {e}
    BY <1>1, O!InsertInOrder, Zenon
  <1>3. /\ \A f, g : O!Ahead(q, f, g) => O!Ahead(O!Insert(q, w, e), f, g)
        /\ \A f \in O!Elements(q) :
              IF O!Before(w, f, e) THEN O!Ahead(O!Insert(q, w, e), f, e)
                                   ELSE O!Ahead(O!Insert(q, w, e), e, f)
    BY <1>1, O!InsertAhead, Zenon
  <1>4. /\ Order!Insert(q, w, e) = O!Insert(q, w, e)
        /\ O!Elements(q) = Elements(q)
        /\ O!Elements(O!Insert(q, w, e)) = Elements(O!Insert(q, w, e))
    BY SameOperators, Zenon
  <1> QED
    BY <1>2, <1>3, <1>4

(* Event::remove keeps the order of the other events.                      *)
LEMMA Removed ==
    ASSUME NEW q \in Seq(AllEvents), NEW w, O!InOrder(q, w),
           NEW e \in Elements(q)
    PROVE  /\ Order!Without(q, e) \in Seq(AllEvents)
           /\ O!InOrder(Order!Without(q, e), w)
           /\ Elements(Order!Without(q, e)) = Elements(q) \ {e}
           /\ \A f, g : O!Ahead(q, f, g) /\ f # e /\ g # e
                          => O!Ahead(Order!Without(q, e), f, g)
  <1>1. e \in O!Elements(q)
    BY SameOperators, Zenon
  <1>2. /\ O!Without(q, e) \in Seq(AllEvents)
        /\ O!InOrder(O!Without(q, e), w)
        /\ O!Elements(O!Without(q, e)) = O!Elements(q) \ {e}
    BY <1>1, O!WithoutInOrder, Zenon
  <1>3. \A f, g : O!Ahead(q, f, g) /\ f # e /\ g # e
                    => O!Ahead(O!Without(q, e), f, g)
    BY <1>1, O!WithoutAhead, Zenon
  <1>4. /\ Order!Without(q, e) = O!Without(q, e)
        /\ O!Elements(q) = Elements(q)
        /\ O!Elements(O!Without(q, e)) = Elements(O!Without(q, e))
    BY SameOperators, Zenon
  <1> QED
    BY <1>2, <1>3, <1>4

(* The first event of a queue is the earliest.                             *)
LEMMA Taken ==
    ASSUME NEW q \in Seq(AllEvents), NEW w, Timed(w), O!InOrder(q, w), q # <<>>
    PROVE  /\ Head(q) \in Elements(q) /\ Head(q) \in AllEvents
           /\ Tail(q) \in Seq(AllEvents)
           /\ O!InOrder(Tail(q), w)
           /\ Elements(Tail(q)) = Elements(q) \ {Head(q)}
           /\ \A e \in Elements(q) : w[e] >= w[Head(q)]
           /\ \A f, g : O!Ahead(q, f, g) /\ f # Head(q)
                          => O!Ahead(Tail(q), f, g)
           /\ \A f \in Elements(q) : f # Head(q) => O!Ahead(q, Head(q), f)
  <1>1. O!OrderTypes(w)
    BY OrderTypes, Zenon
  <1>2. /\ Head(q) \in O!Elements(q) /\ Head(q) \in AllEvents
        /\ Tail(q) \in Seq(AllEvents)
        /\ O!InOrder(Tail(q), w)
        /\ O!Elements(Tail(q)) = O!Elements(q) \ {Head(q)}
        /\ \A e \in O!Elements(q) : w[e] >= w[Head(q)]
    BY <1>1, O!TailInOrder, Zenon
  <1>3. /\ \A f, g : O!Ahead(q, f, g) /\ f # Head(q) => O!Ahead(Tail(q), f, g)
        /\ \A f \in O!Elements(q) : f # Head(q) => O!Ahead(q, Head(q), f)
    BY O!TailAhead, Zenon
  <1>4. O!Elements(q) = Elements(q) /\ O!Elements(Tail(q)) = Elements(Tail(q))
    BY SameOperators, Zenon
  <1> QED
    BY <1>2, <1>3, <1>4

(* asyncInsert() puts the event behind the others.                         *)
LEMMA Appended ==
    ASSUME NEW s \in Seq(AllEvents), NEW e \in AllEvents
    PROVE  /\ Append(s, e) \in Seq(AllEvents)
           /\ Elements(Append(s, e)) = Elements(s) \cup {e}
           /\ \A f, g : O!Ahead(s, f, g) => O!Ahead(Append(s, e), f, g)
           /\ \A f \in Elements(s) : O!Ahead(Append(s, e), f, e)
           /\ O!Distinct(s) /\ e \notin Elements(s) => O!Distinct(Append(s, e))
  <1>1. O!Elements(s) = Elements(s)
        /\ O!Elements(Append(s, e)) = Elements(Append(s, e))
    BY SameOperators, Zenon
  <1> QED
    BY <1>1, O!AppendAhead

(* handleAsyncInsertions() leaves the queue in order, with all events.     *)
LEMMA Merged ==
    ASSUME NEW q \in Seq(AllEvents), NEW w, Timed(w), O!InOrder(q, w),
           NEW s \in Seq(AllEvents), O!Distinct(s),
           Elements(q) \cap Elements(s) = {}
    PROVE  /\ Order!Merge(q, w, s) \in Seq(AllEvents)
           /\ O!InOrder(Order!Merge(q, w, s), w)
           /\ Elements(Order!Merge(q, w, s)) = Elements(q) \cup Elements(s)
           /\ \A f, g : O!Ahead(q, f, g) => O!Ahead(Order!Merge(q, w, s), f, g)
           /\ \A f \in Elements(q), g \in Elements(s) :
                 IF O!Before(w, f, g) THEN O!Ahead(Order!Merge(q, w, s), f, g)
                                      ELSE O!Ahead(Order!Merge(q, w, s), g, f)
           /\ \A f, g : O!Ahead(s, f, g) =>
                 IF O!Before(w, f, g) THEN O!Ahead(Order!Merge(q, w, s), f, g)
                                      ELSE O!Ahead(Order!Merge(q, w, s), g, f)
  <1>1. O!OrderTypes(w) /\ O!Elements(q) = Elements(q)
        /\ O!Elements(s) = Elements(s)
        /\ Order!Merge(q, w, s) = O!Merge(q, w, s)
        /\ O!Elements(O!Merge(q, w, s)) = Elements(O!Merge(q, w, s))
    BY OrderTypes, SameOperators, Zenon
  <1>2. O!Elements(q) \cap O!Elements(s) = {}
    BY <1>1
  <1> DEFINE m == O!Merge(q, w, s)
  <1>3. /\ m \in Seq(AllEvents)
        /\ O!InOrder(m, w)
        /\ O!Elements(m) = O!Elements(q) \cup O!Elements(s)
        /\ \A f, g : O!Ahead(q, f, g) => O!Ahead(m, f, g)
        /\ \A f \in O!Elements(q), g \in O!Elements(s) :
              IF O!Before(w, f, g) THEN O!Ahead(m, f, g) ELSE O!Ahead(m, g, f)
        /\ \A f, g : O!Ahead(s, f, g) =>
              IF O!Before(w, f, g) THEN O!Ahead(m, f, g) ELSE O!Ahead(m, g, f)
    BY <1>1, <1>2, O!MergeInOrder, Zenon
  <1> HIDE DEF m
  <1>4. Order!Merge(q, w, s) = m /\ O!Elements(m) = Elements(m)
    BY <1>1, Zenon DEF m
  <1> QED
    BY <1>1, <1>3, <1>4, Zenon

(* A queue stays in order when times of other events change.               *)
LEMMA NewTimes ==
    ASSUME NEW q \in Seq(AllEvents), NEW w, NEW v,
           \A e \in Elements(q) : v[e] = w[e], O!InOrder(q, w)
    PROVE  O!InOrder(q, v)
  <1>1. \A e \in O!Elements(q) : v[e] = w[e]
    BY SameOperators, Zenon
  <1> QED
    BY <1>1, O!SameTimes, Zenon

-----------------------------------------------------------------------------
(* The order the invariants speak of is the one of EventOrder_proofs.      *)
LEMMA SameRelations ==
    /\ \A q, w : Order!InOrder(q, w) <=> O!InOrder(q, w)
    /\ \A w, e, f : Order!Before(w, e, f) <=> O!Before(w, e, f)
    /\ \A q, e, f : Ahead(q, e, f) <=> O!Ahead(q, e, f)
    /\ \A s : Distinct(s) <=> O!Distinct(s)
    /\ \A w \in Times : Timed(w)
  <1>1. ASSUME NEW q, NEW w PROVE Order!InOrder(q, w) <=> O!InOrder(q, w)
    BY Zenon DEF Order!InOrder, O!InOrder, Order!Before, O!Before
  <1>2. ASSUME NEW w, NEW e, NEW f PROVE Order!Before(w, e, f) <=> O!Before(w, e, f)
    BY Zenon DEF Order!Before, O!Before
  <1>3. ASSUME NEW q, NEW e, NEW f PROVE Ahead(q, e, f) <=> O!Ahead(q, e, f)
    BY Zenon DEF Ahead, O!Ahead
  <1>4. ASSUME NEW s PROVE Distinct(s) <=> O!Distinct(s)
    BY Zenon DEF Distinct, O!Distinct
  <1>5. ASSUME NEW w \in Times PROVE Timed(w)
    BY SimLoopAssumption DEF Times, Timed
  <1> QED
    BY <1>1, <1>2, <1>3, <1>4, <1>5, Zenon

(* The laws the invariant asks for.                                        *)
LEMMA LawsHold == Laws
  <1>1. InsertLaw
    BY Inserted, SameRelations, Zenon DEF InsertLaw, Queues
  <1>2. WithoutLaw
    BY Removed, SameRelations, Zenon DEF WithoutLaw, Queues
  <1>3. HeadLaw
    <2>1. ASSUME NEW q \in Queues, NEW w \in Times, Order!InOrder(q, w), q # <<>>
          PROVE  /\ Head(q) \in AllEvents
                 /\ Head(q) \in Elements(q)
                 /\ \A e \in Elements(q) : w[e] >= w[Head(q)] /\ ~Order!Before(w, e, Head(q))
                 /\ Tail(q) \in Queues
                 /\ Order!InOrder(Tail(q), w)
                 /\ Elements(Tail(q)) = Elements(q) \ {Head(q)}
      <3>1. q \in Seq(AllEvents) /\ Timed(w) /\ O!InOrder(q, w)
        BY <2>1, SameRelations, Zenon DEF Queues
      <3>2. /\ Head(q) \in AllEvents /\ Head(q) \in Elements(q)
            /\ Tail(q) \in Seq(AllEvents) /\ O!InOrder(Tail(q), w)
            /\ Elements(Tail(q)) = Elements(q) \ {Head(q)}
            /\ \A e \in Elements(q) : w[e] >= w[Head(q)]
            /\ \A e \in Elements(q) : e # Head(q) => O!Ahead(q, Head(q), e)
        BY <2>1, <3>1, Taken, Zenon
      <3>3. ~O!Before(w, Head(q), Head(q))
        BY <3>1, <3>2, OrderTypes, O!BeforeOrder, Zenon
      <3>4. ASSUME NEW e \in Elements(q) PROVE ~O!Before(w, e, Head(q))
        <4>1. CASE e = Head(q)
          BY <3>3, <4>1, Zenon
        <4>2. CASE e # Head(q)
          BY <3>1, <3>2, <4>2, O!AheadBefore, Zenon
        <4> QED
          BY <4>1, <4>2, Zenon
      <3> QED
        BY <3>2, <3>4, SameRelations, Zenon DEF Queues
    <2> QED
      BY <2>1, Zenon DEF HeadLaw
  <1>4. AppendLaw
    BY Appended, SameRelations, Zenon DEF AppendLaw, Queues
  <1>5. MergeLaw
    <2>1. ASSUME NEW q \in Queues, NEW w \in Times, NEW s \in Queues,
                 Order!InOrder(q, w), Distinct(s),
                 \A e \in Elements(q) : e \notin Elements(s)
          PROVE  /\ Order!Merge(q, w, s) \in Queues
                 /\ Order!InOrder(Order!Merge(q, w, s), w)
                 /\ Elements(Order!Merge(q, w, s)) = Elements(q) \cup Elements(s)
      <3>1. O!InOrder(q, w) /\ O!Distinct(s) /\ Timed(w)
        BY <2>1, SameRelations, Zenon
      <3>2. /\ q \in Seq(AllEvents) /\ s \in Seq(AllEvents)
            /\ Elements(q) \cap Elements(s) = {}
        BY <2>1, Zenon DEF Queues
      <3>3. /\ Order!Merge(q, w, s) \in Seq(AllEvents)
            /\ O!InOrder(Order!Merge(q, w, s), w)
            /\ Elements(Order!Merge(q, w, s)) = Elements(q) \cup Elements(s)
        BY <3>1, <3>2, Merged, Zenon
      <3> QED
        BY <3>3, SameRelations, Zenon DEF Queues
    <2> QED
      BY <2>1, Zenon DEF MergeLaw
  <1>6. TimesLaw
    BY NewTimes, SameRelations, Zenon DEF TimesLaw, Queues
  <1> QED
    BY <1>1, <1>2, <1>3, <1>4, <1>5, <1>6, Zenon DEF Laws

(* The laws the invariant of SimLoopOrder_proofs asks for.                 *)
LEMMA OrderLawsHold == OrderLaws
  <1>1. AheadLaw
    <2>1. ASSUME NEW q \in Queues, Distinct(q), NEW e, NEW f
          PROVE  /\ e \in Elements(q) /\ f \in Elements(q) /\ e # f
                      => Ahead(q, e, f) \/ Ahead(q, f, e)
                 /\ Ahead(q, e, f) => e \in Elements(q) /\ f \in Elements(q) /\ ~Ahead(q, f, e)
      <3>1. q \in Seq(AllEvents) /\ O!Distinct(q) /\ O!Elements(q) = Elements(q)
        BY <2>1, SameRelations, SameOperators, Zenon DEF Queues
      <3>2. /\ e \in O!Elements(q) /\ f \in O!Elements(q) /\ e # f
                => O!Ahead(q, e, f) \/ O!Ahead(q, f, e)
            /\ O!Ahead(q, e, f) => e \in O!Elements(q) /\ f \in O!Elements(q) /\ ~O!Ahead(q, f, e)
        BY <3>1, O!AheadTotal, Zenon
      <3> QED
        BY <3>1, <3>2, SameRelations, Zenon
    <2> QED
      BY <2>1, Zenon DEF AheadLaw
  <1>2. OrderedLaw
    BY O!InOrderDistinct, O!AheadBefore, SameRelations, Zenon DEF OrderedLaw, Queues
  <1>3. BeforeLaw
    BY O!BeforeOrder, OrderTypes, SameRelations, Zenon DEF BeforeLaw
  <1>4. InsertAheadLaw
    <2>1. ASSUME NEW q \in Queues, NEW w \in Times, NEW e \in AllEvents, Order!InOrder(q, w)
          PROVE  /\ \A f, g : Ahead(q, f, g) => Ahead(Order!Insert(q, w, e), f, g)
                 /\ \A f \in Elements(q) :
                       ~Order!Before(w, f, e) => Ahead(Order!Insert(q, w, e), e, f)
      <3>1. q \in Seq(AllEvents) /\ O!OrderTypes(w) /\ O!InOrder(q, w)
        BY <2>1, SameRelations, OrderTypes, Zenon DEF Queues
      <3>2. /\ \A f, g : O!Ahead(q, f, g) => O!Ahead(O!Insert(q, w, e), f, g)
            /\ \A f \in O!Elements(q) :
                  IF O!Before(w, f, e) THEN O!Ahead(O!Insert(q, w, e), f, e)
                                       ELSE O!Ahead(O!Insert(q, w, e), e, f)
        BY <3>1, O!InsertAhead, Zenon
      <3>3. Order!Insert(q, w, e) = O!Insert(q, w, e) /\ O!Elements(q) = Elements(q)
        BY SameOperators, Zenon
      <3> QED
        BY <3>2, <3>3, SameRelations, Zenon
    <2> QED
      BY <2>1, Zenon DEF InsertAheadLaw
  <1>5. WithoutAheadLaw
    BY O!WithoutAhead, SameOperators, SameRelations, Zenon DEF WithoutAheadLaw, Queues
  <1>6. TailAheadLaw
    BY O!TailAhead, SameOperators, SameRelations, Zenon DEF TailAheadLaw, Queues
  <1>7. AppendAheadLaw
    BY Appended, SameRelations, Zenon DEF AppendAheadLaw, Queues
  <1>8. MergeAheadLaw
    <2>1. ASSUME NEW q \in Queues, NEW w \in Times, NEW s \in Queues,
                 Order!InOrder(q, w), Distinct(s),
                 \A e \in Elements(q) : e \notin Elements(s)
          PROVE  /\ \A f, g : Ahead(q, f, g) => Ahead(Order!Merge(q, w, s), f, g)
                 /\ \A f \in Elements(q), g \in Elements(s) :
                       IF Order!Before(w, f, g) THEN Ahead(Order!Merge(q, w, s), f, g)
                                                ELSE Ahead(Order!Merge(q, w, s), g, f)
                 /\ \A f, g : Ahead(s, f, g) =>
                       IF Order!Before(w, f, g) THEN Ahead(Order!Merge(q, w, s), f, g)
                                                ELSE Ahead(Order!Merge(q, w, s), g, f)
      <3>1. O!InOrder(q, w) /\ O!Distinct(s) /\ Timed(w)
        BY <2>1, SameRelations, Zenon
      <3>2. /\ q \in Seq(AllEvents) /\ s \in Seq(AllEvents)
            /\ Elements(q) \cap Elements(s) = {}
        BY <2>1, Zenon DEF Queues
      <3>3. /\ \A f, g : O!Ahead(q, f, g) => O!Ahead(Order!Merge(q, w, s), f, g)
            /\ \A f \in Elements(q), g \in Elements(s) :
                  IF O!Before(w, f, g) THEN O!Ahead(Order!Merge(q, w, s), f, g)
                                       ELSE O!Ahead(Order!Merge(q, w, s), g, f)
            /\ \A f, g : O!Ahead(s, f, g) =>
                  IF O!Before(w, f, g) THEN O!Ahead(Order!Merge(q, w, s), f, g)
                                       ELSE O!Ahead(Order!Merge(q, w, s), g, f)
        BY <3>1, <3>2, Merged, Zenon
      <3> QED
        BY <3>3, SameRelations, Zenon
    <2> QED
      BY <2>1, Zenon DEF MergeAheadLaw
  <1> QED
    BY <1>1, <1>2, <1>3, <1>4, <1>5, <1>6, <1>7, <1>8, Zenon DEF OrderLaws

(* The inductive invariant holds in every reachable state.                 *)
THEOREM Invariance == Spec => []IInv
  <1>1. Init => IInv
    BY InitInv, Zenon
  <1>2. IInv /\ [Next]_vars => IInv'
    BY LawsHold, NextInv, Zenon
  <1> QED
    BY <1>1, <1>2, PTL DEF Spec

(* Every variable keeps its type: no queue runs past MaxTick, and only the *)
(* sync event is scheduled behind it.                                      *)
THEOREM TypeCorrect == Spec => []TypeOK
  <1>1. IInv => TypeOK
    BY InvImplies, Zenon
  <1> QED
    BY <1>1, Invariance, PTL

(* The asserts of schedule(), handleAsyncInsertions() and doSimLoop() on   *)
(* time hold: an event never goes into the past of the queue it is meant   *)
(* for, whichever thread schedules it and wherever that queue has got to.  *)
THEOREM NothingInThePastHolds == Spec => []NothingInThePast
  <1>1. IInv => NothingInThePast
    BY InvImplies, Zenon
  <1> QED
    BY <1>1, Invariance, PTL

(* The barriers of the quantum event keep the queues within a quantum of   *)
(* each other.                                                             *)
THEOREM WithinQuantumHolds == Spec => []WithinQuantum
  <1>1. IInv => WithinQuantum
    BY InvImplies, Zenon
  <1> QED
    BY <1>1, Invariance, PTL

(* simulate() returns with all threads out of the loop, all queues at the  *)
(* same tick and no queue holding the quantum event it deletes.            *)
THEOREM StoppedTogetherHolds == Spec => []StoppedTogether
  <1>1. IInv => StoppedTogether
    BY InvImplies, Zenon
  <1> QED
    BY <1>1, Invariance, PTL

-----------------------------------------------------------------------------
(* The invariant of what is scheduled ahead of the sync event.             *)
FarSafe == IInv /\ \A t \in Threads : FarInv(t)

(* It holds when what goes through an async queue is due behind the sync   *)
(* event.                                                                  *)
THEOREM FarInvariance == ASSUME FarAhead PROVE Spec => []FarSafe
  <1>1. Init => FarSafe
    BY InitInv, InitFar, Zenon DEF FarSafe
  <1>2. ASSUME FarSafe, [Next]_vars PROVE FarSafe'
    <2>1. IInv'
      BY <1>2, LawsHold, NextInv, Zenon DEF FarSafe
    <2>2. \A t \in Threads : FarInv(t)'
      BY <1>2, LawsHold, NextFar, Zenon DEF FarSafe
    <2> QED
      BY <2>1, <2>2, Zenon DEF FarSafe
  <1>3. FarSafe /\ [Next]_vars => FarSafe'
    BY <1>2, Zenon
  <1> QED
    BY <1>1, <1>3, PTL DEF Spec

(* Event::scheduled() tells the truth: apart from the events whose flag a  *)
(* thread is about to set, the flagged events of a queue are those in it   *)
(* or in its async queue, though BaseGlobalEvent::schedule() and           *)
(* EventQueue::schedule() insert first and set the flag afterwards.  A     *)
(* delay of just simQuantum is excluded: the event is then due on the tick *)
(* of the next sync event, with a better priority, and can be merged and   *)
(* serviced before the thread that scheduled it sets its flag.             *)
THEOREM FlagsTruthfulHolds == ASSUME FarAhead PROVE Spec => []FlagsTruthful
  <1>1. FarSafe => FlagsTruthful
    BY FarImplies, Zenon DEF FarSafe
  <1> QED
    BY <1>1, FarInvariance, PTL

(* A StatEvent that schedStatEvent() puts a quantum ahead comes after the  *)
(* next sync: no thread waits at its barrier while another one goes on     *)
(* without having merged it.  A StatEvent asked for at the current tick of *)
(* a thread in the loop is excluded: at the tick of the sync event it has  *)
(* the better priority.                                                    *)
THEOREM StatsAfterSyncHolds == ASSUME FarAhead PROVE Spec => []StatsAfterSync
  <1>1. FarSafe => StatsAfterSync
    BY FarImplies, Zenon DEF FarSafe
  <1> QED
    BY <1>1, FarInvariance, PTL

(* The invariant of the order of the global events.                        *)
OrderSafe == FarSafe /\ OrderInv

(* It holds when the script puts no global event on the tick of one of     *)
(* that priority that some queue has not merged.                           *)
THEOREM OrderInvariance == ASSUME FarAhead, AvoidTies PROVE Spec => []OrderSafe
  <1>1. Init => OrderSafe
    BY InitInv, InitFar, InitOrder, Zenon DEF FarSafe, OrderSafe
  <1>2. ASSUME OrderSafe, [Next]_vars PROVE OrderSafe'
    <2>0. IInv /\ (\A t \in Threads : FarInv(t)) /\ OrderInv
      BY <1>2, Zenon DEF FarSafe, OrderSafe
    <2>1. IInv'
      BY <1>2, <2>0, LawsHold, NextInv, Zenon
    <2>2. \A t \in Threads : FarInv(t)'
      BY <1>2, <2>0, LawsHold, NextFar, Zenon
    <2>3. OrderInv'
      BY <1>2, <2>0, <2>1, LawsHold, OrderLawsHold, NextOrder, Zenon
    <2> QED
      BY <2>1, <2>2, <2>3, Zenon DEF FarSafe, OrderSafe
  <1>3. OrderSafe /\ [Next]_vars => OrderSafe'
    BY <1>2, Zenon
  <1> QED
    BY <1>1, <1>3, PTL DEF Spec

(* Threads that wait at the barrier of a global event wait at that of the  *)
(* same event: the queues hold the global events in the same order,        *)
(* although each merges its async queue at a moment of its own.  Two       *)
(* threads at different barriers would wait for each other for ever.       *)
THEOREM OneBarrierAtATimeHolds ==
    ASSUME FarAhead, AvoidTies PROVE Spec => []OneBarrierAtATime
  <1>1. OrderSafe => OneBarrierAtATime
    BY OrderImplies, Zenon DEF FarSafe, OrderSafe
  <1> QED
    BY <1>1, OrderInvariance, PTL
=============================================================================
