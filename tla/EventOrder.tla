----------------------------- MODULE EventOrder -----------------------------
(***************************************************************************)
(* The order in which a queue services its events (the comparison          *)
(* operators of sim/eventq.hh, EventQueue::insert and remove), on a queue  *)
(* given as the sequence of its events.                                    *)
(***************************************************************************)
EXTENDS Integers, Sequences

CONSTANTS Events,     \* the Event objects
          priority    \* Event::_priority of each of them

(* As in SequencesExt, which would burden every proof obligation.          *)
Elements(q) == {q[i] : i \in DOMAIN q}

InsertAt(q, i, e) == SubSeq(q, 1, i - 1) \o <<e>> \o SubSeq(q, i, Len(q))

RemoveAt(q, i) == SubSeq(q, 1, i - 1) \o SubSeq(q, i + 1, Len(q))

(* operator<, the times of the events being w. *)
Before(w, e, f) ==
    w[e] < w[f] \/ (w[e] = w[f] /\ priority[e] < priority[f])

(* q holds no event twice and is in service order for the times w.         *)
InOrder(q, w) ==
    \A i, j \in DOMAIN q :
        i < j => q[i] # q[j] /\ ~Before(w, q[j], q[i])

(* i is the first place of q whose event is not before e.                  *)
IsPlace(q, w, e, i) ==
    /\ \A j \in 1 .. i - 1 : Before(w, q[j], e)
    /\ i <= Len(q) => ~Before(w, q[i], e)

Place(q, w, e) == CHOOSE i \in 1 .. Len(q) + 1 : IsPlace(q, w, e, i)

(* e goes in front of its equals: last in, first out.                      *)
Insert(q, w, e) == InsertAt(q, Place(q, w, e), e)

Without(q, e) == RemoveAt(q, CHOOSE i \in DOMAIN q : q[i] = e)

(* The events of s are inserted one after the other.                       *)
Merge(q, w, s) ==
    LET merged[i \in 0 .. Len(s)] ==
          IF i = 0 THEN q ELSE Insert(merged[i - 1], w, s[i])
    IN  merged[Len(s)]
=============================================================================
