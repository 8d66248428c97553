------------------------- MODULE EventOrder_proofs -------------------------
(***************************************************************************)
(* What inserting, removing and merging do to a queue in service order,    *)
(* for any events, priorities and times.                                   *)
(***************************************************************************)
EXTENDS EventOrder, SequenceTheorems, WellFoundedInduction, TLAPS

(* The times and the priorities of the events are integers.                *)
OrderTypes(w) == \A e \in Events : w[e] \in Int /\ priority[e] \in Int

-----------------------------------------------------------------------------
(* Service order is a strict weak order of the events. *)
LEMMA BeforeOrder ==
    ASSUME NEW w, OrderTypes(w),
           NEW e \in Events, NEW f \in Events, NEW g \in Events
    PROVE  /\ ~Before(w, e, e)
           /\ Before(w, e, f) => ~Before(w, f, e)
           /\ Before(w, e, f) /\ ~Before(w, g, f) => Before(w, e, g)
           /\ ~Before(w, f, e) /\ ~Before(w, g, f) => ~Before(w, g, e)
  BY DEF Before, OrderTypes

(* The walk down the queue finds a place. *)
LEMMA PlaceExists ==
    ASSUME NEW q \in Seq(Events), NEW w, NEW e
    PROVE  /\ Place(q, w, e) \in 1 .. Len(q) + 1
           /\ IsPlace(q, w, e, Place(q, w, e))
  <1> DEFINE Stop == {i \in 1 .. Len(q) + 1 :
                         i <= Len(q) => ~Before(w, q[i], e)}
  <1>1. Stop # {} /\ Stop \subseteq Nat
    <2>1. Len(q) + 1 \in Stop
      BY LenProperties
    <2> QED
      BY <2>1
  <1>2. PICK i \in Stop : \A j \in Stop : i <= j
    <2> HIDE DEF Stop
    <2>1. PICK i \in Stop : \A j \in Stop : <<j, i>> \notin OpToRel(<, Nat)
      BY <1>1, NatLessThanWellFounded, WFMin, Zenon
    <2>2. \A j \in Stop : ~(j < i)
      BY <1>1, <2>1, Zenon DEF OpToRel
    <2> QED
      BY <1>1, <2>2
  <1>3. \A j \in 1 .. i - 1 : Before(w, q[j], e)
    BY <1>2, LenProperties
  <1>4. IsPlace(q, w, e, i)
    BY <1>2, <1>3, Zenon DEF IsPlace
  <1> QED
    BY <1>2, <1>4, Zenon DEF Place

(* n is q with e inserted at the place i.                                  *)
Grown(n, q, i, e) ==
    /\ n \in Seq(Events)
    /\ Len(n) = Len(q) + 1
    /\ \A j \in 1 .. Len(q) + 1 :
          n[j] = IF j < i THEN q[j] ELSE IF j = i THEN e ELSE q[j - 1]

(* That is what InsertAt returns.                                          *)
LEMMA InsertAtProperties ==
    ASSUME NEW q \in Seq(Events), NEW e \in Events, NEW i \in 1 .. Len(q) + 1
    PROVE  Grown(InsertAt(q, i, e), q, i, e)
  <1> DEFINE l == SubSeq(q, 1, i - 1)
             r == SubSeq(q, i, Len(q))
             m == l \o <<e>>
  <1>0. Len(q) \in Nat /\ \A k \in 1 .. Len(q) : q[k] \in Events
    BY LenProperties, ElementOfSeq, Zenon
  <1>1. /\ l \in Seq(Events) /\ Len(l) = i - 1
        /\ \A k \in 1 .. i - 1 : l[k] = q[k]
    BY <1>0, SubSeqProperties
  <1>2. /\ r \in Seq(Events) /\ Len(r) = Len(q) - i + 1
        /\ \A k \in 1 .. Len(q) - i + 1 : r[k] = q[i + k - 1]
    BY <1>0, SubSeqProperties
  <1>3. <<e>> \in Seq(Events) /\ Len(<<e>>) = 1 /\ <<e>>[1] = e
    OBVIOUS
  <1> HIDE DEF l, r
  <1>4. /\ m \in Seq(Events) /\ Len(m) = i
        /\ \A k \in 1 .. i : m[k] = IF k <= i - 1 THEN q[k] ELSE e
    BY <1>1, <1>3, ConcatProperties
  <1> HIDE DEF m
  <1>5. /\ m \o r \in Seq(Events) /\ Len(m \o r) = Len(q) + 1
        /\ \A k \in 1 .. Len(q) + 1 : (m \o r)[k] = IF k <= i THEN m[k]
                                                    ELSE r[k - i]
    BY <1>0, <1>2, <1>4, ConcatProperties
  <1>6. \A k \in 1 .. Len(q) + 1 : (m \o r)[k] = IF k < i THEN q[k]
                                      ELSE IF k = i THEN e ELSE q[k - 1]
    BY <1>0, <1>2, <1>4, <1>5
  <1>7. InsertAt(q, i, e) = m \o r
    BY Zenon DEF InsertAt, l, r, m
  <1> QED
    BY <1>5, <1>6, <1>7, Zenon DEF Grown

(* What removing an element leaves.                                        *)
LEMMA RemoveAtProperties ==
    ASSUME NEW q \in Seq(Events), NEW i \in 1 .. Len(q)
    PROVE  /\ RemoveAt(q, i) \in Seq(Events)
           /\ Len(RemoveAt(q, i)) = Len(q) - 1
           /\ \A j \in 1 .. Len(q) - 1 :
                 RemoveAt(q, i)[j] = IF j < i THEN q[j] ELSE q[j + 1]
  <1> DEFINE l == SubSeq(q, 1, i - 1)
             r == SubSeq(q, i + 1, Len(q))
  <1>0. Len(q) \in Nat /\ \A k \in 1 .. Len(q) : q[k] \in Events
    BY LenProperties, ElementOfSeq, Zenon
  <1>1. /\ l \in Seq(Events) /\ Len(l) = i - 1
        /\ \A k \in 1 .. i - 1 : l[k] = q[k]
    BY <1>0, SubSeqProperties
  <1>2. /\ r \in Seq(Events) /\ Len(r) = Len(q) - i
        /\ \A k \in 1 .. Len(q) - i : r[k] = q[i + k]
    BY <1>0, SubSeqProperties
  <1> HIDE DEF l, r
  <1>3. /\ l \o r \in Seq(Events) /\ Len(l \o r) = Len(q) - 1
        /\ \A k \in 1 .. Len(q) - 1 : (l \o r)[k] = IF k <= i - 1 THEN l[k]
                                                    ELSE r[k - (i - 1)]
    BY <1>0, <1>1, <1>2, ConcatProperties
  <1>4. ASSUME NEW k \in 1 .. Len(q) - 1
        PROVE  (l \o r)[k] = IF k < i THEN q[k] ELSE q[k + 1]
    <2>1. CASE k < i
      BY <1>0, <1>1, <1>3, <2>1
    <2>2. CASE ~(k < i)
      <3>1. k - (i - 1) \in 1 .. Len(q) - i /\ i + (k - (i - 1)) = k + 1
        BY <1>0, <2>2
      <3>2. r[k - (i - 1)] = q[k + 1]
        BY <1>2, <3>1, Zenon
      <3> QED
        BY <1>0, <1>3, <2>2, <3>2
    <2> QED
      BY <2>1, <2>2, Zenon
  <1>5. RemoveAt(q, i) = l \o r
    BY Zenon DEF RemoveAt, l, r
  <1> QED
    BY <1>3, <1>4, <1>5, Zenon

(* Where an event goes: behind those before it and in front of the others. *)
LEMMA InsertShape ==
    ASSUME NEW q \in Seq(Events), NEW w, OrderTypes(w), NEW e \in Events,
           InOrder(q, w)
    PROVE  \E p \in 1 .. Len(q) + 1 :
              /\ Insert(q, w, e) \in Seq(Events)
              /\ Len(Insert(q, w, e)) = Len(q) + 1
              /\ DOMAIN Insert(q, w, e) = 1 .. Len(q) + 1
              /\ \A j \in 1 .. Len(q) + 1 :
                    Insert(q, w, e)[j] = IF j < p THEN q[j]
                                         ELSE IF j = p THEN e ELSE q[j - 1]
              /\ \A k \in 1 .. Len(q) :
                    /\ k < p => Before(w, q[k], e)
                    /\ k >= p => ~Before(w, q[k], e)
  <1> DEFINE p == Place(q, w, e)
             n == Insert(q, w, e)
  <1>0. /\ Len(q) \in Nat /\ DOMAIN q = 1 .. Len(q)
        /\ \A k \in 1 .. Len(q) : q[k] \in Events
    BY LenProperties, ElementOfSeq, Zenon
  <1>1. p \in 1 .. Len(q) + 1 /\ IsPlace(q, w, e, p)
    BY PlaceExists, Zenon
  <1> HIDE DEF p
  <1>2. /\ n \in Seq(Events)
        /\ Len(n) = Len(q) + 1
        /\ \A j \in 1 .. Len(q) + 1 :
              n[j] = IF j < p THEN q[j] ELSE IF j = p THEN e ELSE q[j - 1]
    <2>1. n = InsertAt(q, p, e)
      BY Zenon DEF Insert, n, p
    <2>2. Grown(InsertAt(q, p, e), q, p, e)
      BY <1>1, InsertAtProperties, Zenon
    <2> HIDE DEF n
    <2> QED
      BY <2>1, <2>2, Zenon DEF Grown
  <1>3. DOMAIN n = 1 .. Len(q) + 1
    BY <1>2, LenProperties, Zenon
  <1> HIDE DEF n
  <1>4. \A k \in 1 .. Len(q) :
           /\ k < p => Before(w, q[k], e)
           /\ k >= p => ~Before(w, q[k], e)
    <2> TAKE k \in 1 .. Len(q)
    <2>1. k < p => Before(w, q[k], e)
      BY <1>0, <1>1 DEF IsPlace
    <2>2. k = p => ~Before(w, q[k], e)
      BY <1>0, <1>1 DEF IsPlace
    <2>3. k > p => ~Before(w, q[k], e)
      <3> HAVE k > p
      <3>1. p \in 1 .. Len(q) /\ ~Before(w, q[p], e)
        BY <1>0, <1>1 DEF IsPlace
      <3>2. ~Before(w, q[k], q[p])
        BY <1>0, <3>1, Zenon DEF InOrder
      <3> QED
        BY <1>0, <3>1, <3>2, BeforeOrder, Zenon
    <2> QED
      BY <1>0, <1>1, <2>1, <2>2, <2>3
  <1> QED
    BY <1>1, <1>2, <1>3, <1>4, Zenon DEF n

(* A queue in service order stays so when an event is inserted at its      *)
(* place, and it gains just that event.                                    *)
LEMMA InsertInOrder ==
    ASSUME NEW q \in Seq(Events), NEW w, OrderTypes(w),
           NEW e \in Events, InOrder(q, w), e \notin Elements(q)
    PROVE  /\ Insert(q, w, e) \in Seq(Events)
           /\ InOrder(Insert(q, w, e), w)
           /\ Elements(Insert(q, w, e)) = Elements(q) \cup {e}
  <1> DEFINE n == Insert(q, w, e)
  <1>0. /\ Len(q) \in Nat /\ DOMAIN q = 1 .. Len(q)
        /\ \A k \in 1 .. Len(q) : q[k] \in Events /\ q[k] # e
    BY LenProperties, ElementOfSeq, Zenon DEF Elements
  <1>1. PICK p \in 1 .. Len(q) + 1 :
              /\ n \in Seq(Events)
              /\ DOMAIN n = 1 .. Len(q) + 1
              /\ \A j \in 1 .. Len(q) + 1 :
                    n[j] = IF j < p THEN q[j] ELSE IF j = p THEN e ELSE q[j - 1]
              /\ \A k \in 1 .. Len(q) :
                    /\ k < p => Before(w, q[k], e)
                    /\ k >= p => ~Before(w, q[k], e)
    BY InsertShape, Zenon
  <1> HIDE DEF n
  <1>2. \A j \in 1 .. Len(q) + 1 :
              n[j] = IF j < p THEN q[j] ELSE IF j = p THEN e ELSE q[j - 1]
    BY <1>1, Zenon
  <1>3. DOMAIN n = 1 .. Len(q) + 1
    BY <1>1, Zenon
  <1>4. \A k \in 1 .. Len(q) :
           /\ k < p => Before(w, q[k], e)
           /\ k >= p => ~Before(w, q[k], e)
    BY <1>1, Zenon
  <1>5. InOrder(n, w)
    <2> SUFFICES ASSUME NEW i \in 1 .. Len(q) + 1, NEW j \in 1 .. Len(q) + 1,
                        i < j
                 PROVE  n[i] # n[j] /\ ~Before(w, n[j], n[i])
      BY <1>3, Zenon DEF InOrder
    <2>1. CASE i # p /\ j # p
      <3>1. PICK a \in 1 .. Len(q), b \in 1 .. Len(q) :
               a < b /\ n[i] = q[a] /\ n[j] = q[b]
        <4> DEFINE a == IF i < p THEN i ELSE i - 1
                   b == IF j < p THEN j ELSE j - 1
        <4>1. a \in 1 .. Len(q) /\ b \in 1 .. Len(q) /\ a < b
          BY <1>0, <1>1, <2>1
        <4>2. n[i] = q[a] /\ n[j] = q[b]
          BY <1>0, <1>1, <1>2, <2>1, Zenon
        <4> QED
          BY <4>1, <4>2, Zenon
      <3> QED
        BY <1>0, <3>1, Zenon DEF InOrder
    <2>2. CASE i = p
      <3>1. j - 1 \in 1 .. Len(q) /\ j - 1 >= p /\ n[i] = e /\ n[j] = q[j - 1]
        BY <1>0, <1>1, <1>2, <2>2
      <3> QED
        BY <1>0, <1>4, <3>1, Zenon
    <2>3. CASE j = p
      <3>1. i \in 1 .. Len(q) /\ i < p /\ n[i] = q[i] /\ n[j] = e
        BY <1>0, <1>1, <1>2, <2>3
      <3> QED
        BY <1>0, <1>4, <3>1, BeforeOrder, Zenon
    <2> QED
      BY <2>1, <2>2, <2>3, Zenon
  <1>6. Elements(n) = Elements(q) \cup {e}
    <2>1. \A j \in 1 .. Len(q) + 1 : n[j] \in Elements(q) \cup {e}
      <3> TAKE j \in 1 .. Len(q) + 1
      <3>1. CASE j < p
        BY <1>0, <1>1, <1>2, <3>1 DEF Elements
      <3>2. CASE j > p
        <4>1. j - 1 \in 1 .. Len(q) /\ n[j] = q[j - 1]
          BY <1>0, <1>1, <1>2, <3>2
        <4> QED
          BY <1>0, <4>1, Zenon DEF Elements
      <3>3. CASE j = p
        BY <1>2, <3>3
      <3> QED
        BY <1>0, <1>1, <3>1, <3>2, <3>3
    <2>2. n[p] = e
      BY <1>1, <1>2
    <2>3. \A k \in 1 .. Len(q) : \E j \in 1 .. Len(q) + 1 : n[j] = q[k]
      <3> TAKE k \in 1 .. Len(q)
      <3>1. CASE k < p
        BY <1>0, <1>2, <3>1
      <3>2. CASE ~(k < p)
        <4>1. k + 1 \in 1 .. Len(q) + 1 /\ k + 1 > p /\ (k + 1) - 1 = k
          BY <1>0, <1>1, <3>2
        <4>2. n[k + 1] = q[k]
          BY <1>1, <1>2, <4>1
        <4> QED
          BY <4>1, <4>2, Zenon
      <3> QED
        BY <3>1, <3>2, Zenon
    <2>4. ASSUME NEW x \in Elements(n) PROVE x \in Elements(q) \cup {e}
      BY <1>3, <2>1, Zenon DEF Elements
    <2>5. ASSUME NEW x \in Elements(q) PROVE x \in Elements(n)
      <3>1. PICK k \in 1 .. Len(q) : x = q[k]
        BY <1>0, Zenon DEF Elements
      <3>2. PICK j \in 1 .. Len(q) + 1 : n[j] = q[k]
        BY <2>3, Zenon
      <3> QED
        BY <1>3, <3>1, <3>2, Zenon DEF Elements
    <2>6. e \in Elements(n)
      BY <1>1, <1>3, <2>2, Zenon DEF Elements
    <2> QED
      BY <2>4, <2>5, <2>6, Zenon
  <1> QED
    BY <1>1, <1>5, <1>6, Zenon DEF n

(* Removing an event leaves the others, still in order.                    *)
LEMMA WithoutInOrder ==
    ASSUME NEW q \in Seq(Events), NEW w, NEW e \in Elements(q), InOrder(q, w)
    PROVE  /\ Without(q, e) \in Seq(Events)
           /\ InOrder(Without(q, e), w)
           /\ Elements(Without(q, e)) = Elements(q) \ {e}
  <1> DEFINE p == CHOOSE i \in DOMAIN q : q[i] = e
             n == Without(q, e)
  <1>0. Len(q) \in Nat /\ DOMAIN q = 1 .. Len(q)
    BY LenProperties, Zenon
  <1>1. p \in 1 .. Len(q) /\ q[p] = e
    BY <1>0, Zenon DEF Elements
  <1> HIDE DEF p
  <1>2. /\ n \in Seq(Events)
        /\ Len(n) = Len(q) - 1
        /\ \A j \in 1 .. Len(q) - 1 : n[j] = IF j < p THEN q[j] ELSE q[j + 1]
    BY <1>1, RemoveAtProperties, Zenon DEF Without, p
  <1>3. DOMAIN n = 1 .. Len(q) - 1
    BY <1>2, LenProperties, Zenon
  <1> HIDE DEF n
  <1>4. InOrder(n, w)
    <2> SUFFICES ASSUME NEW i \in 1 .. Len(q) - 1, NEW j \in 1 .. Len(q) - 1,
                        i < j
                 PROVE  n[i] # n[j] /\ ~Before(w, n[j], n[i])
      BY <1>3, Zenon DEF InOrder
    <2> DEFINE a == IF i < p THEN i ELSE i + 1
               b == IF j < p THEN j ELSE j + 1
    <2>1. a \in 1 .. Len(q) /\ b \in 1 .. Len(q) /\ a < b
      BY <1>0, <1>1
    <2>2. n[i] = q[a] /\ n[j] = q[b]
      BY <1>2, Zenon
    <2> QED
      BY <1>0, <2>1, <2>2, Zenon DEF InOrder
  <1>5. Elements(n) = Elements(q) \ {e}
    <2>1. \A j \in 1 .. Len(q) - 1 : n[j] \in Elements(q) \ {e}
      <3> TAKE j \in 1 .. Len(q) - 1
      <3> DEFINE a == IF j < p THEN j ELSE j + 1
      <3>1. a \in 1 .. Len(q) /\ a # p /\ n[j] = q[a]
        BY <1>0, <1>1, <1>2
      <3>2. q[a] # q[p]
        BY <1>0, <1>1, <3>1 DEF InOrder
      <3> QED
        BY <1>0, <1>1, <3>1, <3>2, Zenon DEF Elements
    <2>2. \A k \in 1 .. Len(q) : q[k] # e =>
             \E j \in 1 .. Len(q) - 1 : n[j] = q[k]
      <3> SUFFICES ASSUME NEW k \in 1 .. Len(q), q[k] # e
                   PROVE  \E j \in 1 .. Len(q) - 1 : n[j] = q[k]
        BY Zenon
      <3>1. CASE k < p
        <4>1. k \in 1 .. Len(q) - 1
          BY <1>0, <1>1, <3>1
        <4> QED
          BY <1>2, <3>1, <4>1, Zenon
      <3>2. CASE ~(k < p)
        <4>1. k - 1 \in 1 .. Len(q) - 1 /\ ~(k - 1 < p) /\ (k - 1) + 1 = k
          BY <1>0, <1>1, <3>2
        <4>2. n[k - 1] = q[k]
          BY <1>2, <4>1, Zenon
        <4> QED
          BY <4>1, <4>2, Zenon
      <3> QED
        BY <3>1, <3>2, Zenon
    <2>3. ASSUME NEW x \in Elements(n) PROVE x \in Elements(q) \ {e}
      <3>1. PICK j \in 1 .. Len(q) - 1 : x = n[j]
        BY <1>3, Zenon DEF Elements
      <3> QED
        BY <2>1, <3>1, Zenon
    <2>4. ASSUME NEW x \in Elements(q) \ {e} PROVE x \in Elements(n)
      <3>1. PICK k \in 1 .. Len(q) : x = q[k]
        BY <1>0, Zenon DEF Elements
      <3>2. PICK j \in 1 .. Len(q) - 1 : n[j] = q[k]
        BY <2>2, <3>1, Zenon
      <3> QED
        BY <1>3, <3>1, <3>2, Zenon DEF Elements
    <2> QED
      BY <2>3, <2>4, Zenon
  <1> QED
    BY <1>2, <1>4, <1>5, Zenon DEF n

(* Only the times of the events in the queue matter to its order.          *)
LEMMA SameTimes ==
    ASSUME NEW q \in Seq(Events), NEW w, NEW v,
           \A e \in Elements(q) : v[e] = w[e], InOrder(q, w)
    PROVE  InOrder(q, v)
  <1>1. \A i \in DOMAIN q : v[q[i]] = w[q[i]]
    BY Zenon DEF Elements
  <1> QED
    BY <1>1, Zenon DEF InOrder, Before

(* Taking the next event off leaves the others, none of them earlier.      *)
LEMMA TailInOrder ==
    ASSUME NEW q \in Seq(Events), NEW w, OrderTypes(w), q # <<>>,
           InOrder(q, w)
    PROVE  /\ Head(q) \in Elements(q) /\ Head(q) \in Events
           /\ Tail(q) \in Seq(Events)
           /\ InOrder(Tail(q), w)
           /\ Elements(Tail(q)) = Elements(q) \ {Head(q)}
           /\ \A e \in Elements(q) : w[e] >= w[Head(q)]
  <1>0. /\ Len(q) \in Nat \ {0} /\ DOMAIN q = 1 .. Len(q) /\ Head(q) = q[1]
        /\ \A i \in 1 .. Len(q) : q[i] \in Events
    BY LenProperties, ElementOfSeq, EmptySeq
  <1>1. /\ Tail(q) \in Seq(Events)
        /\ DOMAIN Tail(q) = 1 .. Len(q) - 1
        /\ \A i \in 1 .. Len(q) - 1 : Tail(q)[i] = q[i + 1]
    BY <1>0, HeadTailProperties, LenProperties, Zenon
  <1>2. InOrder(Tail(q), w)
    <2> SUFFICES ASSUME NEW i \in 1 .. Len(q) - 1, NEW j \in 1 .. Len(q) - 1,
                        i < j
                 PROVE  /\ Tail(q)[i] # Tail(q)[j]
                        /\ ~Before(w, Tail(q)[j], Tail(q)[i])
      BY <1>1, Zenon DEF InOrder
    <2>1. i + 1 \in 1 .. Len(q) /\ j + 1 \in 1 .. Len(q) /\ i + 1 < j + 1
      BY <1>0
    <2> QED
      BY <1>0, <1>1, <2>1 DEF InOrder
  <1>3. Elements(Tail(q)) = Elements(q) \ {Head(q)}
    <2>1. \A i \in 1 .. Len(q) - 1 : Tail(q)[i] \in Elements(q) \ {Head(q)}
      <3> TAKE i \in 1 .. Len(q) - 1
      <3>1. i + 1 \in 1 .. Len(q) /\ 1 < i + 1 /\ 1 \in 1 .. Len(q)
        BY <1>0
      <3> QED
        BY <1>0, <1>1, <3>1 DEF InOrder, Elements
    <2>2. \A k \in 1 .. Len(q) : q[k] # Head(q) =>
             \E i \in 1 .. Len(q) - 1 : Tail(q)[i] = q[k]
      <3> SUFFICES ASSUME NEW k \in 1 .. Len(q), q[k] # Head(q)
                   PROVE  \E i \in 1 .. Len(q) - 1 : Tail(q)[i] = q[k]
        BY Zenon
      <3>1. k - 1 \in 1 .. Len(q) - 1 /\ (k - 1) + 1 = k
        BY <1>0
      <3> QED
        BY <1>1, <3>1, Zenon
    <2> DEFINE t == Tail(q)
               h == Head(q)
    <2>3. /\ DOMAIN t = 1 .. Len(q) - 1 /\ DOMAIN q = 1 .. Len(q)
          /\ \A i \in 1 .. Len(q) - 1 : t[i] \in Elements(q) \ {h}
          /\ \A k \in 1 .. Len(q) : q[k] # h =>
                \E i \in 1 .. Len(q) - 1 : t[i] = q[k]
      BY <1>0, <1>1, <2>1, <2>2, Zenon
    <2> HIDE DEF t, h
    <2>4. Elements(t) = Elements(q) \ {h}
      <3>1. ASSUME NEW f \in Elements(t) PROVE f \in Elements(q) \ {h}
        BY <2>3, Zenon DEF Elements
      <3>2. ASSUME NEW f \in Elements(q), f # h PROVE f \in Elements(t)
        <4>1. PICK k \in 1 .. Len(q) : f = q[k]
          BY <2>3, Zenon DEF Elements
        <4> QED
          BY <2>3, <3>2, <4>1, Zenon DEF Elements
      <3> QED
        BY <3>1, <3>2, Zenon
    <2> QED
      BY <2>4, Zenon DEF t, h
  <1>4. \A k \in 1 .. Len(q) : w[q[k]] >= w[Head(q)]
    <2> TAKE k \in 1 .. Len(q)
    <2>1. CASE k = 1
      BY <1>0, <2>1 DEF OrderTypes
    <2>2. CASE k # 1
      <3>1. ~Before(w, q[k], q[1])
        BY <1>0, <2>2 DEF InOrder
      <3> QED
        BY <1>0, <3>1 DEF Before, OrderTypes
    <2> QED
      BY <2>1, <2>2, Zenon
  <1>5. \A e \in Elements(q) : w[e] >= w[Head(q)]
    BY <1>0, <1>4, Zenon DEF Elements
  <1>6. Head(q) \in Elements(q) /\ Head(q) \in Events
    BY <1>0 DEF Elements
  <1> QED
    BY <1>1, <1>2, <1>3, <1>5, <1>6, Zenon
-----------------------------------------------------------------------------
(* e comes before f in q.                                                  *)
Ahead(q, e, f) == \E i, j \in DOMAIN q : i < j /\ q[i] = e /\ q[j] = f

Distinct(q) == \A i, j \in DOMAIN q : i # j => q[i] # q[j]

(* A queue in service order holds no event twice.                          *)
LEMMA InOrderDistinct ==
    ASSUME NEW q \in Seq(Events), NEW w, InOrder(q, w)
    PROVE  Distinct(q)
  <1>1. DOMAIN q = 1 .. Len(q) /\ Len(q) \in Nat
    BY LenProperties, Zenon
  <1>2. ASSUME NEW i \in DOMAIN q, NEW j \in DOMAIN q, i # j
        PROVE  q[i] # q[j]
    <2>1. i < j \/ j < i
      BY <1>1, <1>2
    <2> QED
      BY <2>1, Zenon DEF InOrder
  <1> QED
    BY <1>2, Zenon DEF Distinct

(* In a sequence without repetitions one of two elements is ahead.         *)
LEMMA AheadTotal ==
    ASSUME NEW q \in Seq(Events), Distinct(q), NEW e, NEW f
    PROVE  /\ e \in Elements(q) /\ f \in Elements(q) /\ e # f
                => Ahead(q, e, f) \/ Ahead(q, f, e)
           /\ Ahead(q, e, f) => /\ e \in Elements(q) /\ f \in Elements(q)
                               /\ e # f /\ ~Ahead(q, f, e)
  <1>1. DOMAIN q = 1 .. Len(q) /\ Len(q) \in Nat
    BY LenProperties, Zenon
  <1>2. ASSUME e \in Elements(q), f \in Elements(q), e # f
        PROVE  Ahead(q, e, f) \/ Ahead(q, f, e)
    <2>1. PICK i \in DOMAIN q : q[i] = e
      BY <1>2, Zenon DEF Elements
    <2>2. PICK j \in DOMAIN q : q[j] = f
      BY <1>2, Zenon DEF Elements
    <2>3. i < j \/ j < i
      BY <1>1, <1>2, <2>1, <2>2
    <2> QED
      BY <2>1, <2>2, <2>3, Zenon DEF Ahead
  <1>3. ASSUME Ahead(q, e, f)
        PROVE  e \in Elements(q) /\ f \in Elements(q) /\ e # f /\ ~Ahead(q, f, e)
    <2>1. PICK i \in DOMAIN q, j \in DOMAIN q : i < j /\ q[i] = e /\ q[j] = f
      BY <1>3, Zenon DEF Ahead
    <2>2. e \in Elements(q) /\ f \in Elements(q)
      BY <2>1, Zenon DEF Elements
    <2>3. i # j
      BY <1>1, <2>1
    <2>4. e # f
      BY <2>1, <2>3, Zenon DEF Distinct
    <2>5. ASSUME NEW k \in DOMAIN q, NEW l \in DOMAIN q, k < l,
                 q[k] = f, q[l] = e
          PROVE  FALSE
      <3>1. k = j /\ l = i
        BY <2>1, <2>5, Zenon DEF Distinct
      <3> QED
        BY <1>1, <2>1, <2>5, <3>1
    <2> QED
      BY <2>2, <2>4, <2>5, Zenon DEF Ahead
  <1> QED
    BY <1>2, <1>3, Zenon

(* What is ahead in a queue in service order is not later.                 *)
LEMMA AheadBefore ==
    ASSUME NEW q, NEW w, InOrder(q, w), NEW e, NEW f, Ahead(q, e, f)
    PROVE  ~Before(w, f, e)
  BY Zenon DEF Ahead, InOrder

(* An insertion leaves the other events in the order they have, and puts   *)
(* the event behind those that are before it, ahead of its equals.         *)
LEMMA InsertAhead ==
    ASSUME NEW q \in Seq(Events), NEW w, OrderTypes(w), NEW e \in Events,
           InOrder(q, w)
    PROVE  /\ \A f, g : Ahead(q, f, g) => Ahead(Insert(q, w, e), f, g)
           /\ \A f \in Elements(q) : IF Before(w, f, e)
                                  THEN Ahead(Insert(q, w, e), f, e)
                                  ELSE Ahead(Insert(q, w, e), e, f)
  <1> DEFINE n == Insert(q, w, e)
  <1>0. Len(q) \in Nat /\ DOMAIN q = 1 .. Len(q)
    BY LenProperties, Zenon
  <1>1. PICK p \in 1 .. Len(q) + 1 :
              /\ DOMAIN n = 1 .. Len(q) + 1
              /\ \A j \in 1 .. Len(q) + 1 :
                    n[j] = IF j < p THEN q[j] ELSE IF j = p THEN e ELSE q[j - 1]
              /\ \A k \in 1 .. Len(q) :
                    /\ k < p => Before(w, q[k], e)
                    /\ k >= p => ~Before(w, q[k], e)
    BY InsertShape, Zenon
  <1> HIDE DEF n
  <1> DEFINE to(k) == IF k < p THEN k ELSE k + 1
  <1>2. \A k \in 1 .. Len(q) :
           /\ to(k) \in DOMAIN n
           /\ n[to(k)] = q[k]
           /\ \A l \in 1 .. Len(q) : k < l => to(k) < to(l)
    <2> SUFFICES ASSUME NEW k \in 1 .. Len(q)
                 PROVE  /\ to(k) \in DOMAIN n
                        /\ n[to(k)] = q[k]
                        /\ \A l \in 1 .. Len(q) : k < l => to(k) < to(l)
      BY Zenon
    <2>1. to(k) \in 1 .. Len(q) + 1
      BY <1>0
    <2>2. n[to(k)] = q[k]
      <3>1. CASE k < p
        BY <1>0, <1>1, <2>1, <3>1, Zenon
      <3>2. CASE ~(k < p)
        BY <1>0, <1>1, <2>1, <3>2
      <3> QED
        BY <3>1, <3>2, Zenon
    <2>3. \A l \in 1 .. Len(q) : k < l => to(k) < to(l)
      BY <1>0
    <2> QED
      BY <1>1, <2>1, <2>2, <2>3, Zenon
  <1>3. ASSUME NEW f, NEW g, Ahead(q, f, g) PROVE Ahead(n, f, g)
    <2>1. PICK i \in 1 .. Len(q), j \in 1 .. Len(q) :
             i < j /\ q[i] = f /\ q[j] = g
      BY <1>0, <1>3, Zenon DEF Ahead
    <2> HIDE DEF to
    <2>2. /\ to(i) \in DOMAIN n /\ to(j) \in DOMAIN n /\ to(i) < to(j)
          /\ n[to(i)] = f /\ n[to(j)] = g
      BY <1>2, <2>1, Zenon
    <2> QED
      BY <2>2, Zenon DEF Ahead
  <1>4. ASSUME NEW f \in Elements(q)
        PROVE  IF Before(w, f, e) THEN Ahead(n, f, e) ELSE Ahead(n, e, f)
    <2>1. PICK k \in 1 .. Len(q) : q[k] = f
      BY <1>0, Zenon DEF Elements
    <2>2. p \in DOMAIN n /\ n[p] = e
      BY <1>0, <1>1
    <2>3. CASE k < p
      <3>1. Before(w, f, e)
        BY <1>1, <2>1, <2>3, Zenon
      <3>2. k \in DOMAIN n /\ n[k] = f
        BY <1>0, <1>1, <2>1, <2>3
      <3> QED
        BY <2>2, <2>3, <3>1, <3>2, Zenon DEF Ahead
    <2>4. CASE ~(k < p)
      <3>1. ~Before(w, f, e)
        BY <1>0, <1>1, <2>1, <2>4
      <3>2. k + 1 \in DOMAIN n /\ n[k + 1] = f /\ p < k + 1
        BY <1>0, <1>1, <2>1, <2>4
      <3> QED
        BY <2>2, <3>1, <3>2, Zenon DEF Ahead
    <2> QED
      BY <2>3, <2>4, Zenon
  <1> QED
    BY <1>3, <1>4, Zenon DEF n

(* Removing an event leaves the others in the order they have.             *)
LEMMA WithoutAhead ==
    ASSUME NEW q \in Seq(Events), NEW e \in Elements(q), NEW f, NEW g,
           Ahead(q, f, g), f # e, g # e
    PROVE  Ahead(Without(q, e), f, g)
  <1> DEFINE p == CHOOSE i \in DOMAIN q : q[i] = e
             n == Without(q, e)
             to(k) == IF k < p THEN k ELSE k - 1
  <1>0. Len(q) \in Nat /\ DOMAIN q = 1 .. Len(q)
    BY LenProperties, Zenon
  <1>1. p \in 1 .. Len(q) /\ q[p] = e
    BY <1>0, Zenon DEF Elements
  <1> HIDE DEF p
  <1>2. /\ n \in Seq(Events)
        /\ Len(n) = Len(q) - 1
        /\ \A j \in 1 .. Len(q) - 1 : n[j] = IF j < p THEN q[j] ELSE q[j + 1]
    BY <1>1, RemoveAtProperties, Zenon DEF Without, p
  <1>3. DOMAIN n = 1 .. Len(q) - 1
    BY <1>2, LenProperties, Zenon
  <1> HIDE DEF n
  <1>4. PICK i \in 1 .. Len(q), j \in 1 .. Len(q) :
           i < j /\ q[i] = f /\ q[j] = g
    BY <1>0, Zenon DEF Ahead
  <1>5. \A k \in 1 .. Len(q) : k # p =>
           /\ to(k) \in DOMAIN n
           /\ n[to(k)] = q[k]
           /\ \A l \in 1 .. Len(q) : k < l /\ l # p => to(k) < to(l)
    <2> SUFFICES ASSUME NEW k \in 1 .. Len(q), k # p
                 PROVE  /\ to(k) \in DOMAIN n
                        /\ n[to(k)] = q[k]
                        /\ \A l \in 1 .. Len(q) : k < l /\ l # p => to(k) < to(l)
      BY Zenon
    <2>1. CASE k < p
      BY <1>0, <1>1, <1>2, <1>3, <2>1
    <2>2. CASE ~(k < p)
      <3>1. /\ k - 1 \in 1 .. Len(q) - 1 /\ ~(k - 1 < p) /\ (k - 1) + 1 = k
            /\ to(k) = k - 1
        BY <1>0, <1>1, <2>2
      <3>2. n[k - 1] = q[k]
        BY <1>2, <3>1, Zenon
      <3> QED
        BY <1>0, <1>1, <1>3, <2>2, <3>1, <3>2
    <2> QED
      BY <2>1, <2>2, Zenon
  <1>6. i # p /\ j # p
    BY <1>1, <1>4, Zenon
  <1> HIDE DEF to
  <1>7. /\ to(i) \in DOMAIN n /\ to(j) \in DOMAIN n /\ to(i) < to(j)
        /\ n[to(i)] = f /\ n[to(j)] = g
    BY <1>4, <1>5, <1>6, Zenon
  <1> QED
    BY <1>7, Zenon DEF Ahead, n

(* The next event is ahead of the rest, whose order stays when it is taken.*)
LEMMA TailAhead ==
    ASSUME NEW q \in Seq(Events), q # <<>>, NEW f, NEW g
    PROVE  /\ f \in Elements(q) => f = Head(q) \/ Ahead(q, Head(q), f)
           /\ Ahead(q, f, g) /\ f # Head(q) => Ahead(Tail(q), f, g)
  <1>0. Len(q) \in Nat \ {0} /\ DOMAIN q = 1 .. Len(q) /\ Head(q) = q[1]
    BY LenProperties, EmptySeq
  <1>1. /\ DOMAIN Tail(q) = 1 .. Len(q) - 1
        /\ \A i \in 1 .. Len(q) - 1 : Tail(q)[i] = q[i + 1]
    BY <1>0, HeadTailProperties, LenProperties, Zenon
  <1>2. ASSUME f \in Elements(q), f # Head(q) PROVE Ahead(q, Head(q), f)
    <2>1. PICK i \in DOMAIN q : q[i] = f
      BY <1>2, Zenon DEF Elements
    <2>2. 1 \in DOMAIN q /\ 1 < i
      BY <1>0, <1>2, <2>1
    <2> QED
      BY <1>0, <2>1, <2>2, Zenon DEF Ahead
  <1>3. ASSUME Ahead(q, f, g), f # Head(q) PROVE Ahead(Tail(q), f, g)
    <2>1. PICK i \in DOMAIN q, j \in DOMAIN q : i < j /\ q[i] = f /\ q[j] = g
      BY <1>3, Zenon DEF Ahead
    <2>2. /\ i - 1 \in 1 .. Len(q) - 1 /\ (i - 1) + 1 = i
          /\ j - 1 \in 1 .. Len(q) - 1 /\ (j - 1) + 1 = j /\ i - 1 < j - 1
      BY <1>0, <1>3, <2>1
    <2>3. Tail(q)[i - 1] = f /\ Tail(q)[j - 1] = g
      BY <1>1, <2>1, <2>2, Zenon
    <2> QED
      BY <1>1, <2>2, <2>3, Zenon DEF Ahead
  <1> QED
    BY <1>2, <1>3, Zenon

(* Appending an event puts it behind the others.                           *)
LEMMA AppendAhead ==
    ASSUME NEW s \in Seq(Events), NEW e \in Events
    PROVE  /\ Append(s, e) \in Seq(Events)
           /\ Elements(Append(s, e)) = Elements(s) \cup {e}
           /\ \A f, g : Ahead(s, f, g) => Ahead(Append(s, e), f, g)
           /\ \A f \in Elements(s) : Ahead(Append(s, e), f, e)
           /\ Distinct(s) /\ e \notin Elements(s) => Distinct(Append(s, e))
  <1> DEFINE n == Append(s, e)
  <1>1. /\ Len(s) \in Nat /\ DOMAIN s = 1 .. Len(s)
        /\ n \in Seq(Events) /\ DOMAIN n = 1 .. Len(s) + 1
        /\ \A i \in 1 .. Len(s) : n[i] = s[i]
        /\ n[Len(s) + 1] = e
    BY AppendProperties, LenProperties
  <1> HIDE DEF n
  <1>2. /\ \A i \in DOMAIN s : i \in DOMAIN n /\ n[i] = s[i] /\ i < Len(s) + 1
        /\ \A i \in DOMAIN n : i \in DOMAIN s \/ i = Len(s) + 1
        /\ Len(s) + 1 \in DOMAIN n /\ n[Len(s) + 1] = e
    BY <1>1
  <1>3. Elements(n) = Elements(s) \cup {e}
    BY <1>2, Zenon DEF Elements
  <1>4. \A f, g : Ahead(s, f, g) => Ahead(n, f, g)
    BY <1>2, Zenon DEF Ahead
  <1>5. \A f \in Elements(s) : Ahead(n, f, e)
    BY <1>2, Zenon DEF Ahead, Elements
  <1>6. ASSUME Distinct(s), e \notin Elements(s) PROVE Distinct(n)
    <2>1. \A i \in DOMAIN s : n[i] # e
      BY <1>2, <1>6, Zenon DEF Elements
    <2> SUFFICES ASSUME NEW i \in DOMAIN n, NEW j \in DOMAIN n, i # j
                 PROVE  n[i] # n[j]
      BY Zenon DEF Distinct
    <2>2. CASE i \in DOMAIN s /\ j \in DOMAIN s
      BY <1>2, <1>6, <2>2, Zenon DEF Distinct
    <2>3. CASE i \in DOMAIN s /\ j = Len(s) + 1
      BY <1>2, <2>1, <2>3, Zenon
    <2>4. CASE i = Len(s) + 1 /\ j \in DOMAIN s
      BY <1>2, <2>1, <2>4, Zenon
    <2> QED
      BY <1>2, <2>2, <2>3, <2>4, Zenon
  <1> QED
    BY <1>1, <1>3, <1>4, <1>5, <1>6, Zenon DEF n
-----------------------------------------------------------------------------
(* The loop that merges s into q inserts one event after the other.        *)
LEMMA MergeSteps ==
    ASSUME NEW q, NEW w, NEW s \in Seq(Events)
    PROVE  \E m : /\ m[0] = q
                  /\ \A i \in 1 .. Len(s) : m[i] = Insert(m[i - 1], w, s[i])
                  /\ Merge(q, w, s) = m[Len(s)]
  <1> DEFINE step(m, i) == IF i = 0 THEN q ELSE Insert(m[i - 1], w, s[i])
             P(m, n) == m = [i \in 0 .. n |-> step(m, i)]
             Bad == {n \in Nat : ~\E m : P(m, n)}
  <1>0. Len(s) \in Nat
    BY LenProperties, Zenon
  <1>1. Bad = {}
    <2> SUFFICES ASSUME Bad # {} PROVE FALSE
      BY Zenon
    <2>1. PICK n \in Bad : \A k \in Bad : ~(k < n)
      <3> Bad \subseteq Nat
        BY Zenon
      <3> HIDE DEF Bad
      <3>1. PICK n \in Bad : \A k \in Bad : <<k, n>> \notin OpToRel(<, Nat)
        BY NatLessThanWellFounded, WFMin, Zenon
      <3> QED
        BY <3>1, Zenon DEF OpToRel
    <2>2. n \in Nat /\ ~\E m : P(m, n)
      BY <2>1, Zenon
    <2>3. CASE n = 0
      <3> DEFINE m == [i \in 0 .. 0 |-> q]
      <3>1. \A i \in 0 .. 0 : step(m, i) = q
        OBVIOUS
      <3>2. P(m, 0)
        BY <3>1, Zenon
      <3> HIDE DEF m, P
      <3> QED
        BY <2>2, <2>3, <3>2, Zenon
    <2>4. CASE n # 0
      <3>1. n - 1 \in Nat /\ n - 1 \notin Bad
        <4>1. n - 1 \in Nat /\ n - 1 < n
          BY <2>2, <2>4
        <4> HIDE DEF Bad
        <4> QED
          BY <2>1, <4>1, Zenon
      <3>2. PICK l : P(l, n - 1)
        BY <3>1, Zenon
      <3> DEFINE m == [i \in 0 .. n |-> step(l, i)]
      <3>3. ASSUME NEW i \in 0 .. n - 1 PROVE m[i] = l[i]
        <4>1. m[i] = step(l, i)
          BY <2>2
        <4>2. l[i] = step(l, i)
          <5> DEFINE r == [j \in 0 .. n - 1 |-> step(l, j)]
          <5>1. l = r
            BY <3>2, Zenon
          <5>2. r[i] = step(l, i)
            BY Zenon
          <5> HIDE DEF r, step
          <5> QED
            BY <5>1, <5>2, Zenon
        <4> HIDE DEF m, step
        <4> QED
          BY <4>1, <4>2, Zenon
      <3>4. ASSUME NEW i \in 0 .. n PROVE step(l, i) = step(m, i)
        <4> HIDE DEF m
        <4>1. i = 0 \/ l[i - 1] = m[i - 1]
          BY <2>2, <3>3
        <4> QED
          BY <4>1, Zenon
      <3>5. m = [i \in 0 .. n |-> step(m, i)]
        <4> HIDE DEF step
        <4> QED
          BY <3>4, Zenon
      <3> HIDE DEF m
      <3> QED
        BY <2>2, <3>5, Zenon
    <2> QED
      BY <2>3, <2>4, Zenon
  <1>2. \E m : P(m, Len(s))
    BY <1>0, <1>1, Zenon
  <1> DEFINE merged == CHOOSE m : P(m, Len(s))
  <1>3. merged = [i \in 0 .. Len(s) |-> step(merged, i)]
    <2> HIDE DEF step
    <2> QED
      BY <1>2, Zenon
  <1>4. Merge(q, w, s) = merged[Len(s)]
    BY Zenon DEF Merge
  <1> HIDE DEF merged
  <1>5. \A i \in 0 .. Len(s) : merged[i] = step(merged, i)
    <2> DEFINE r == [j \in 0 .. Len(s) |-> step(merged, j)]
    <2>1. merged = r
      BY <1>3, Zenon
    <2>2. \A i \in 0 .. Len(s) : r[i] = step(merged, i)
      BY Zenon
    <2> HIDE DEF r, step
    <2> QED
      BY <2>1, <2>2, Zenon
  <1>6. merged[0] = q
    BY <1>0, <1>5
  <1>7. \A i \in 1 .. Len(s) : merged[i] = Insert(merged[i - 1], w, s[i])
    BY <1>0, <1>5
  <1> QED
    BY <1>4, <1>6, <1>7, Zenon

(* Merging keeps the service order, adds just the merged events, leaves    *)
(* the queue's own events in the order they have and puts each merged      *)
(* event ahead of its equals, those merged before it included.             *)
LEMMA MergeInOrder ==
    ASSUME NEW q \in Seq(Events), NEW w, OrderTypes(w), InOrder(q, w),
           NEW s \in Seq(Events), Distinct(s), Elements(q) \cap Elements(s) = {}
    PROVE  /\ Merge(q, w, s) \in Seq(Events)
           /\ InOrder(Merge(q, w, s), w)
           /\ Elements(Merge(q, w, s)) = Elements(q) \cup Elements(s)
           /\ \A f, g : Ahead(q, f, g) => Ahead(Merge(q, w, s), f, g)
           /\ \A f \in Elements(q), g \in Elements(s) :
                 IF Before(w, f, g) THEN Ahead(Merge(q, w, s), f, g)
                                    ELSE Ahead(Merge(q, w, s), g, f)
           /\ \A f, g : Ahead(s, f, g) =>
                 IF Before(w, f, g) THEN Ahead(Merge(q, w, s), f, g)
                                    ELSE Ahead(Merge(q, w, s), g, f)
  <1>0. /\ Len(s) \in Nat /\ DOMAIN s = 1 .. Len(s)
        /\ \A k \in 1 .. Len(s) : s[k] \in Events
    BY LenProperties, ElementOfSeq, Zenon
  <1>1. PICK m : /\ m[0] = q
                 /\ \A i \in 1 .. Len(s) : m[i] = Insert(m[i - 1], w, s[i])
                 /\ Merge(q, w, s) = m[Len(s)]
    BY MergeSteps
  <1> DEFINE Sort(i) == m[i] \in Seq(Events) /\ InOrder(m[i], w)
             Set(i) == \A e : e \in Elements(m[i]) <=>
                          \/ e \in Elements(q)
                          \/ \E k \in 1 .. i : s[k] = e
             Own(i) == \A f, g : Ahead(q, f, g) => Ahead(m[i], f, g)
             Mixed(i) == \A k \in 1 .. i : \A f \in Elements(q) :
                            IF Before(w, f, s[k]) THEN Ahead(m[i], f, s[k])
                                                  ELSE Ahead(m[i], s[k], f)
             New(i) == \A l \in 1 .. i : \A k \in 1 .. l - 1 :
                          IF Before(w, s[k], s[l]) THEN Ahead(m[i], s[k], s[l])
                                                   ELSE Ahead(m[i], s[l], s[k])
             C(i) == Sort(i) /\ Set(i) /\ Own(i) /\ Mixed(i) /\ New(i)
             Bad == {i \in 0 .. Len(s) : ~C(i)}
  <1>2. C(0)
    <2>1. 1 .. 0 = {}
      OBVIOUS
    <2> QED
      BY <1>1, <2>1, Zenon
  <1>3. ASSUME NEW i \in 1 .. Len(s), C(i - 1) PROVE C(i)
    <2> DEFINE p == m[i - 1]
               e == s[i]
               n == m[i]
    <2>1. n = Insert(p, w, e) /\ e \in Events
      BY <1>0, <1>1, Zenon
    <2>2. p \in Seq(Events) /\ InOrder(p, w)
      BY <1>3, Zenon
    <2>3. /\ \A k \in 1 .. i : k \in 1 .. i - 1 \/ k = i
          /\ \A k \in 1 .. i - 1 : k \in 1 .. i /\ k \in DOMAIN s /\ k # i
          /\ i \in 1 .. i /\ i \in DOMAIN s
      BY <1>0
    <2> HIDE DEF C, Sort, Set, Own, Mixed, New
    <2>4. e \notin Elements(p)
      <3>1. \A k \in 1 .. i - 1 : s[k] # e
        BY <2>3, Zenon DEF Distinct
      <3>2. e \in Elements(s)
        BY <2>3, Zenon DEF Elements
      <3>3. e \notin Elements(q)
        BY <3>2, Zenon
      <3> QED
        BY <1>3, <3>1, <3>3, Zenon DEF C, Set
    <2>5. /\ n \in Seq(Events) /\ InOrder(n, w)
          /\ Elements(n) = Elements(p) \cup {e}
          /\ \A f, g : Ahead(p, f, g) => Ahead(n, f, g)
          /\ \A f \in Elements(p) : IF Before(w, f, e) THEN Ahead(n, f, e)
                                                    ELSE Ahead(n, e, f)
      <3> HIDE DEF n, p, e
      <3>1. e \in Events /\ e \notin Elements(p)
        BY <2>1, <2>4, Zenon
      <3>2. /\ Insert(p, w, e) \in Seq(Events) /\ InOrder(Insert(p, w, e), w)
            /\ Elements(Insert(p, w, e)) = Elements(p) \cup {e}
        BY <2>2, <3>1, InsertInOrder, Zenon
      <3>3. /\ \A f, g : Ahead(p, f, g) => Ahead(Insert(p, w, e), f, g)
            /\ \A f \in Elements(p) : IF Before(w, f, e)
                                   THEN Ahead(Insert(p, w, e), f, e)
                                   ELSE Ahead(Insert(p, w, e), e, f)
        BY <2>2, <3>1, InsertAhead, Zenon
      <3> QED
        BY <2>1, <3>2, <3>3, Zenon
    <2>6. Elements(q) \subseteq Elements(p) /\ \A k \in 1 .. i - 1 : s[k] \in Elements(p)
      BY <1>3, Zenon DEF C, Set
    <2> HIDE DEF p, n
    <2>7. Sort(i)
      BY <2>5, Zenon DEF Sort, n
    <2>8. Set(i)
      <3>1. \A x : x \in Elements(p) <=> \/ x \in Elements(q)
                                      \/ \E k \in 1 .. i - 1 : s[k] = x
        BY <1>3, Zenon DEF C, Set, p
      <3>2. \A x : x \in Elements(n) <=> \/ x \in Elements(q)
                                      \/ \E k \in 1 .. i : s[k] = x
        BY <2>3, <2>5, <3>1, Zenon
      <3> QED
        BY <3>2, Zenon DEF Set, n
    <2>9. Own(i)
      BY <1>3, <2>5, Zenon DEF C, Own, n, p
    <2>10. Mixed(i)
      <3> SUFFICES ASSUME NEW k \in 1 .. i, NEW f \in Elements(q)
                   PROVE  IF Before(w, f, s[k]) THEN Ahead(n, f, s[k])
                                                ELSE Ahead(n, s[k], f)
        BY Zenon DEF Mixed, n
      <3>1. CASE k = i
        BY <2>5, <2>6, <3>1, Zenon
      <3>2. CASE k \in 1 .. i - 1
        <4>1. IF Before(w, f, s[k]) THEN Ahead(p, f, s[k])
                                    ELSE Ahead(p, s[k], f)
          BY <1>3, <3>2, Zenon DEF C, Mixed, p
        <4> QED
          BY <2>5, <4>1, Zenon
      <3> QED
        BY <2>3, <3>1, <3>2, Zenon
    <2>11. New(i)
      <3> SUFFICES ASSUME NEW l \in 1 .. i, NEW k \in 1 .. l - 1
                   PROVE  IF Before(w, s[k], s[l]) THEN Ahead(n, s[k], s[l])
                                                   ELSE Ahead(n, s[l], s[k])
        BY Zenon DEF New, n
      <3>1. CASE l = i
        BY <2>5, <2>6, <3>1, Zenon
      <3>2. CASE l \in 1 .. i - 1
        <4>1. IF Before(w, s[k], s[l]) THEN Ahead(p, s[k], s[l])
                                       ELSE Ahead(p, s[l], s[k])
          BY <1>3, <3>2, Zenon DEF C, New, p
        <4> QED
          BY <2>5, <4>1, Zenon
      <3> QED
        BY <2>3, <3>1, <3>2, Zenon
    <2> QED
      BY <2>7, <2>8, <2>9, <2>10, <2>11, Zenon DEF C
  <1>4. C(Len(s))
    <2> HIDE DEF C
    <2> SUFFICES ASSUME Bad # {} PROVE FALSE
      BY <1>0
    <2>1. PICK i \in Bad : \A k \in Bad : ~(k < i)
      <3>1. Bad \subseteq Nat
        BY <1>0
      <3> HIDE DEF Bad
      <3>2. PICK i \in Bad : \A k \in Bad : <<k, i>> \notin OpToRel(<, Nat)
        BY <3>1, NatLessThanWellFounded, WFMin, Zenon
      <3> QED
        BY <3>1, <3>2, Zenon DEF OpToRel
    <2>2. i \in 0 .. Len(s) /\ ~C(i) /\ i # 0
      BY <1>2, <2>1, Zenon
    <2>3. i \in 1 .. Len(s) /\ i - 1 \in 0 .. Len(s) /\ i - 1 < i
      BY <1>0, <2>2
    <2>4. C(i - 1)
      BY <2>1, <2>3, Zenon
    <2> QED
      BY <1>3, <2>2, <2>3, <2>4, Zenon
  <1>5. \A e : e \in Elements(s) <=> \E k \in 1 .. Len(s) : s[k] = e
    BY <1>0, Zenon DEF Elements
  <1> DEFINE M == m[Len(s)]
  <1>6. /\ M \in Seq(Events) /\ InOrder(M, w)
        /\ \A e : e \in Elements(M) <=> e \in Elements(q) \/ e \in Elements(s)
        /\ \A f, g : Ahead(q, f, g) => Ahead(M, f, g)
    BY <1>4, <1>5, Zenon
  <1>7. \A f \in Elements(q), g \in Elements(s) :
           IF Before(w, f, g) THEN Ahead(M, f, g) ELSE Ahead(M, g, f)
    <2> TAKE f \in Elements(q), g \in Elements(s)
    <2>1. PICK k \in 1 .. Len(s) : s[k] = g
      BY <1>5, Zenon
    <2>2. IF Before(w, f, s[k]) THEN Ahead(M, f, s[k]) ELSE Ahead(M, s[k], f)
      BY <1>4, Zenon
    <2> QED
      BY <2>1, <2>2, Zenon
  <1>8. \A f, g : Ahead(s, f, g) =>
           IF Before(w, f, g) THEN Ahead(M, f, g) ELSE Ahead(M, g, f)
    <2> SUFFICES ASSUME NEW f, NEW g, Ahead(s, f, g)
                 PROVE  IF Before(w, f, g) THEN Ahead(M, f, g)
                                           ELSE Ahead(M, g, f)
      BY Zenon
    <2>1. PICK k \in DOMAIN s, l \in DOMAIN s : k < l /\ s[k] = f /\ s[l] = g
      BY Zenon DEF Ahead
    <2>2. l \in 1 .. Len(s) /\ k \in 1 .. l - 1
      BY <1>0, <2>1
    <2>3. IF Before(w, s[k], s[l]) THEN Ahead(M, s[k], s[l])
                                   ELSE Ahead(M, s[l], s[k])
      BY <1>4, <2>2, Zenon
    <2> QED
      BY <2>1, <2>3, Zenon
  <1> HIDE DEF M
  <1>9. Elements(M) = Elements(q) \cup Elements(s)
    BY <1>6, Zenon
  <1>10. Merge(q, w, s) = M
    BY <1>1, Zenon DEF M
  <1> QED
    BY <1>6, <1>7, <1>8, <1>9, <1>10, Zenon
=============================================================================
