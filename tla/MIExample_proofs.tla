-------------------------- MODULE MIExample_proofs --------------------------
(***************************************************************************)
(* For any sets of caches, directories, DMA controllers and lines, any     *)
(* requests and any associativity: where the right to a line is in the     *)
(* MI_example protocol, and what the tables, the blocks and the requests   *)
(* hold.                                                                   *)
(*                                                                         *)
(* The first invariant, IInv, follows the messages about one line.  A      *)
(* cache has at most one request under way (AskInv) and at most one block  *)
(* on its way back (ReturnInv), its state tells which, and the right to    *)
(* the line (TokenInv) moves with the data.  All but the types of the      *)
(* queues is said line by line (LineInv), so that a step has to be looked  *)
(* at only for the line it is about.                                       *)
(*                                                                         *)
(* The second, CInv, says what moves: every port's unanswered request is   *)
(* one that it makes and waits in one place (TableInv, PlaceInv), every    *)
(* cache and message that has the right to a line has a block of it        *)
(* (BlockInv), and memory is busy with what the directory's state says     *)
(* (OpInv).                                                                *)
(***************************************************************************)
EXTENDS MIExample, TLAPS

ForwardMsgs ==
    [type : {"GETX", "INV", "WB_ACK", "WB_NACK"}, addr : Addrs, for : Caches]

\* A GETX or a PUTX of c is on its way to the directory.
Asked(c, a) == \E m \in reqs : m.type = "GETX" /\ m.from = c /\ m.addr = a
Offered(c, a) == \E m \in reqs : m.type = "PUTX" /\ m.from = c /\ m.addr = a

\* Cache o has been told to send the line to c; the line is on its way to c.
Promised(o, c, a) ==
    \E i \in DOMAIN fwd[o][Home[a]] :
        /\ fwd[o][Home[a]][i].addr = a /\ fwd[o][Home[a]][i].type = "GETX"
        /\ fwd[o][Home[a]][i].for = c
Sent(c, a) == \E m \in resp : m.to = c /\ m.addr = a

\* Memory reads the line for c; memory takes back what c has written.
Fetching(c, a) == dstate[a] = "IM" /\ c \in memOp[a].for
TakenBack(c, a) == dstate[a] # "IM" /\ c \in memOp[a].for

Ack(c, a) == Pending(c, a, "WB_ACK")
Nack(c, a) == Pending(c, a, "WB_NACK")
Told(c, a) == Pending(c, a, "GETX")

Awaits(c, a) == cstate[c][a] \in {"IS", "IM"}

CacheTypes ==
    /\ mq \in [Caches -> Seq(Addrs)]
    /\ entries \in [Caches -> SUBSET Addrs]
    /\ cstate \in [Caches -> [Addrs -> CacheStates]]

DirTypes ==
    /\ dstate \in [Addrs -> DirStates]
    /\ owner \in [Addrs -> SUBSET Caches]
    /\ memOp = [a \in Addrs |-> memOp[a]]
    /\ \A m \in dmaReqs : m.addr \in Addrs /\ m.from \in DMAs

\* No cache is told the same thing about a line twice.
Once(c, a, t) ==
    \A i, j \in DOMAIN fwd[c][Home[a]] :
        /\ fwd[c][Home[a]][i].addr = a /\ fwd[c][Home[a]][i].type = t
        /\ fwd[c][Home[a]][j].addr = a /\ fwd[c][Home[a]][j].type = t
        => i = j

FwdInv ==
    /\ fwd \in [Caches -> [Dirs -> Seq(ForwardMsgs)]]
    /\ \A c \in Caches, d \in Dirs : \A i \in DOMAIN fwd[c][d] : Home[fwd[c][d][i].addr] = d
    /\ \A c \in Caches, a \in Addrs : \A t \in {"GETX", "WB_ACK", "WB_NACK"} : Once(c, a, t)

ReqInv ==
    /\ \A m \in reqs : m.type \in {"GETX", "PUTX"} /\ m.addr \in Addrs /\ m.from \in Caches
    /\ \A m1, m2 \in reqs :
        m1.type = m2.type /\ m1.from = m2.from /\ m1.addr = m2.addr => m1 = m2

RespInv ==
    /\ \A m \in resp : m.addr \in Addrs /\ m.to \in Caches
    /\ \A m1, m2 \in resp : m1.addr = m2.addr => m1 = m2

\* Whom the directory and memory are busy for.
MemInv(a) ==
    IF dstate[a] \in {"IM", "MI", "M_DRDI", "M_DWRI"}
    THEN \E c \in Caches : memOp[a].for = {c}
    ELSE \A c \in Caches : c \notin memOp[a].for

OwnerInv(a) ==
    /\ GivenOut(a) => \E c \in Caches : owner[a] = {c}
    /\ dstate[a] = "IM" => owner[a] = memOp[a].for
    /\ ~GivenOut(a) /\ dstate[a] # "IM" => owner[a] = {}

\* One of: c's GETX is on its way, memory reads for it, a cache is to send it
\* the line, the line is on its way.
AskInv(a, c) ==
    /\ Asked(c, a) => ~Fetching(c, a) /\ ~Sent(c, a) /\ ~Told(c, a) /\ c \notin owner[a]
    /\ Fetching(c, a) => ~Sent(c, a)
    /\ \A o \in Caches : Promised(o, c, a) =>
        /\ ~Asked(c, a) /\ ~Fetching(c, a) /\ ~Sent(c, a) /\ Awaits(c, a) /\ Told(o, a)
        /\ \A p \in Caches : Promised(p, c, a) => p = o
    /\ Asked(c, a) \/ Fetching(c, a) \/ Sent(c, a) => Awaits(c, a)

\* One of: c's PUTX is on its way, memory takes the block, the answer is on
\* its way.
ReturnInv(a, c) ==
    /\ Offered(c, a) => ~TakenBack(c, a) /\ ~Ack(c, a) /\ ~Nack(c, a)
    /\ TakenBack(c, a) => ~Ack(c, a) /\ ~Nack(c, a) /\ ~Told(c, a)
    /\ Ack(c, a) => ~Nack(c, a) /\ ~Told(c, a)
    /\ TakenBack(c, a) \/ Ack(c, a) => cstate[c][a] = "MI"
    /\ Offered(c, a) \/ Nack(c, a) => cstate[c][a] \in {"MI", "II"}
    /\ Told(c, a) => cstate[c][a] \notin {"I", "II"} /\ c \notin owner[a]
    /\ c \in owner[a] =>
        \/ Awaits(c, a) \/ cstate[c][a] = "M"
        \/ cstate[c][a] = "MI" /\ ~TakenBack(c, a) /\ ~Ack(c, a) /\ ~Nack(c, a)

\* The right to the line is in one cache or on its way to one.
TokenInv(a) ==
    /\ \A c1, c2 \in Caches :
        /\ Holds(c1, a) /\ Holds(c2, a) => c1 = c2
        /\ Sent(c1, a) /\ Sent(c2, a) => c1 = c2
        /\ Holds(c1, a) => ~Sent(c2, a)
    /\ GivenOut(a) <=> \E c \in Caches : Holds(c, a) \/ Sent(c, a)

LineInv(a) ==
    /\ MemInv(a) /\ OwnerInv(a) /\ TokenInv(a)
    /\ \A c \in Caches : AskInv(a, c) /\ ReturnInv(a, c)

IInv ==
    /\ CacheTypes /\ DirTypes /\ FwdInv /\ ReqInv /\ RespInv
    /\ \A a \in Addrs : LineInv(a)
-----------------------------------------------------------------------------
\* What a step does to the messages about line a: nothing, ...
KeepsFwd(a) ==
    \A c \in Caches :
        /\ Told(c, a)' <=> Told(c, a)
        /\ Ack(c, a)' <=> Ack(c, a)
        /\ Nack(c, a)' <=> Nack(c, a)
        /\ \A p \in Caches : Promised(c, p, a)' <=> Promised(c, p, a)

KeepsReqs(a) ==
    \A c \in Caches : (Asked(c, a)' <=> Asked(c, a)) /\ (Offered(c, a)' <=> Offered(c, a))

KeepsResp(a) == \A c \in Caches : Sent(c, a)' <=> Sent(c, a)

\* ... or it sends one message, ...
FwdSent(o, a, t, r) ==
    \A c \in Caches :
        /\ Told(c, a)' <=> Told(c, a) \/ (c = o /\ t = "GETX")
        /\ Ack(c, a)' <=> Ack(c, a) \/ (c = o /\ t = "WB_ACK")
        /\ Nack(c, a)' <=> Nack(c, a) \/ (c = o /\ t = "WB_NACK")
        /\ \A p \in Caches :
            Promised(c, p, a)' <=> Promised(c, p, a) \/ (c = o /\ t = "GETX" /\ p = r)

ReqSent(o, a, t) ==
    \A c \in Caches :
        /\ Asked(c, a)' <=> Asked(c, a) \/ (c = o /\ t = "GETX")
        /\ Offered(c, a)' <=> Offered(c, a) \/ (c = o /\ t = "PUTX")

RespSent(o, a) == \A c \in Caches : Sent(c, a)' <=> Sent(c, a) \/ c = o

\* ... or it takes one.
FwdTaken(o, a, t) ==
    \A c \in Caches :
        /\ Told(c, a)' <=> Told(c, a) /\ ~(c = o /\ t = "GETX")
        /\ Ack(c, a)' <=> Ack(c, a) /\ ~(c = o /\ t = "WB_ACK")
        /\ Nack(c, a)' <=> Nack(c, a) /\ ~(c = o /\ t = "WB_NACK")
        /\ \A p \in Caches : Promised(c, p, a)' <=> Promised(c, p, a) /\ ~(c = o /\ t = "GETX")

ReqTaken(o, a, t) ==
    \A c \in Caches :
        /\ Asked(c, a)' <=> Asked(c, a) /\ ~(c = o /\ t = "GETX")
        /\ Offered(c, a)' <=> Offered(c, a) /\ ~(c = o /\ t = "PUTX")

RespTaken(a) == \A c \in Caches : ~Sent(c, a)'

\* A step that is not about line a.
SameLine(a) ==
    /\ dstate'[a] = dstate[a] /\ owner'[a] = owner[a] /\ memOp'[a] = memOp[a]
    /\ \A c \in Caches : cstate'[c][a] = cstate[c][a]
    /\ KeepsFwd(a) /\ KeepsReqs(a) /\ KeepsResp(a)
-----------------------------------------------------------------------------
(* A message sent to cache o about line x is the only change to what the   *)
(* caches have been told, and is told once if it had not been told before. *)
LEMMA SendEffect ==
    ASSUME FwdInv, NEW o \in Caches, NEW x \in Addrs,
           NEW t \in {"GETX", "INV", "WB_ACK", "WB_NACK"}, NEW r \in Caches,
           Send(x, o, ForwardMsg(t, x, r)),
           t # "INV" => ~Pending(o, x, t)
    PROVE  FwdInv' /\ FwdSent(o, x, t, r) /\ \A a \in Addrs \ {x} : KeepsFwd(a)
  <1> DEFINE m == ForwardMsg(t, x, r)
             q == fwd[o][Home[x]]
             s == Append(q, m)
  <1>1. m \in ForwardMsgs /\ m.addr = x /\ m.type = t /\ m.for = r
    BY Zenon DEF ForwardMsg, ForwardMsgs
  <1>2. q \in Seq(ForwardMsgs) /\ Home[x] \in Dirs
    BY MIAssumption DEF FwdInv
  <1>3. fwd' = [fwd EXCEPT ![o][Home[x]] = s]
    BY Zenon DEF Send
  <1> HIDE DEF m
  <1>4. fwd' \in [Caches -> [Dirs -> Seq(ForwardMsgs)]]
    BY <1>1, <1>2, <1>3 DEF FwdInv
  <1>5. \A c \in Caches, d \in Dirs :
            fwd'[c][d] = IF c = o /\ d = Home[x] THEN s ELSE fwd[c][d]
    BY <1>2, <1>3, Zenon DEF FwdInv
  <1>6. /\ Len(q) \in Nat /\ DOMAIN q = 1 .. Len(q)
        /\ DOMAIN s = 1 .. Len(q) + 1
        /\ \A i \in 1 .. Len(q) : s[i] = q[i]
        /\ s[Len(q) + 1] = m
    BY <1>1, <1>2
  <1> HIDE DEF s
  <1>7. \A a \in Addrs : Home[a] \in Dirs
    BY MIAssumption, Zenon
  <1>8. ASSUME NEW c \in Caches, NEW a \in Addrs, NEW u \in {"GETX", "WB_ACK", "WB_NACK"}
        PROVE  Pending(c, a, u)' <=> Pending(c, a, u) \/ (c = o /\ a = x /\ u = t)
    <2>1. CASE c = o /\ Home[a] = Home[x]
      <3>1. fwd'[c][Home[a]] = s /\ fwd[c][Home[a]] = q
        BY <1>5, <1>7, <2>1, Zenon
      <3> HIDE DEF q
      <3> QED
        BY <1>1, <1>6, <2>1, <3>1 DEF Pending
    <2>2. CASE ~(c = o /\ Home[a] = Home[x])
      BY <1>5, <1>7, <2>2, Zenon DEF Pending
    <2> QED
      BY <2>1, <2>2, Zenon
  <1>9. ASSUME NEW c \in Caches, NEW p \in Caches, NEW a \in Addrs
        PROVE  Promised(c, p, a)' <=>
                    Promised(c, p, a) \/ (c = o /\ a = x /\ t = "GETX" /\ p = r)
    <2>1. CASE c = o /\ Home[a] = Home[x]
      <3>1. fwd'[c][Home[a]] = s /\ fwd[c][Home[a]] = q
        BY <1>5, <1>7, <2>1, Zenon
      <3> HIDE DEF q
      <3> QED
        BY <1>1, <1>6, <2>1, <3>1 DEF Promised
    <2>2. CASE ~(c = o /\ Home[a] = Home[x])
      BY <1>5, <1>7, <2>2, Zenon DEF Promised
    <2> QED
      BY <2>1, <2>2, Zenon
  <1>10. ASSUME NEW c \in Caches, NEW a \in Addrs, NEW u \in {"GETX", "WB_ACK", "WB_NACK"}
         PROVE  Once(c, a, u)'
    <2>0. Once(c, a, u)
      BY Zenon DEF FwdInv
    <2>1. CASE c = o /\ Home[a] = Home[x]
      <3>1. fwd'[c][Home[a]] = s /\ fwd[c][Home[a]] = q
        BY <1>5, <1>7, <2>1, Zenon
      <3> HIDE DEF q
      <3> QED
        BY <1>1, <1>6, <2>0, <2>1, <3>1 DEF Once, Pending
    <2>2. CASE ~(c = o /\ Home[a] = Home[x])
      BY <1>5, <1>7, <2>0, <2>2, Zenon DEF Once
    <2> QED
      BY <2>1, <2>2, Zenon
  <1>11. \A c \in Caches, d \in Dirs : \A i \in DOMAIN fwd'[c][d] : Home[fwd'[c][d][i].addr] = d
    <2>1. \A i \in DOMAIN q : Home[q[i].addr] = Home[x]
      BY <1>2, Zenon DEF FwdInv
    <2>2. \A i \in DOMAIN s : Home[s[i].addr] = Home[x]
      <3> HIDE DEF q
      <3> QED
        BY <1>1, <1>6, <2>1
    <2> SUFFICES ASSUME NEW c \in Caches, NEW d \in Dirs
                 PROVE  \A i \in DOMAIN fwd'[c][d] : Home[fwd'[c][d][i].addr] = d
      BY Zenon
    <2>3. CASE c = o /\ d = Home[x]
      BY <1>5, <2>2, <2>3, Zenon
    <2>4. CASE ~(c = o /\ d = Home[x])
      BY <1>5, <2>4 DEF FwdInv
    <2> QED
      BY <2>3, <2>4, Zenon
  <1>12. FwdInv'
    BY <1>4, <1>10, <1>11, Zenon DEF FwdInv
  <1>13. FwdSent(o, x, t, r)
    BY <1>8, <1>9, Zenon DEF FwdSent, Told, Ack, Nack
  <1>14. ASSUME NEW a \in Addrs \ {x} PROVE KeepsFwd(a)
    BY <1>8, <1>9, Zenon DEF KeepsFwd, Told, Ack, Nack
  <1> QED
    BY <1>12, <1>13, <1>14, Zenon

(* Taking the head m off a queue of cache o leaves the rest as it was, and *)
(* o is no longer told m.                                                  *)
LEMMA PopEffect ==
    ASSUME FwdInv, NEW o \in Caches, NEW d \in Dirs, fwd[o][d] # << >>,
           fwd' = [fwd EXCEPT ![o][d] = Tail(@)]
    PROVE  \E m \in ForwardMsgs :
           /\ m = Head(fwd[o][d])
           /\ Pending(o, m.addr, m.type)
           /\ m.type = "GETX" => Promised(o, m.for, m.addr)
           /\ FwdInv' /\ FwdTaken(o, m.addr, m.type)
           /\ \A a \in Addrs \ {m.addr} : KeepsFwd(a)
  <1> DEFINE q == fwd[o][d]
             m == Head(q)
             r == Tail(q)
  <1>2. q \in Seq(ForwardMsgs) /\ q # << >>
    BY DEF FwdInv
  <1>3. /\ Len(q) \in Nat \ {0} /\ DOMAIN q = 1 .. Len(q)
        /\ m = q[1] /\ m \in ForwardMsgs
        /\ r \in Seq(ForwardMsgs) /\ DOMAIN r = 1 .. Len(q) - 1
        /\ \A i \in 1 .. Len(q) - 1 : r[i] = q[i + 1]
    BY <1>2
  <1>4. Home[m.addr] = d
    BY <1>3 DEF FwdInv
  <1> HIDE DEF r
  <1>5. fwd' \in [Caches -> [Dirs -> Seq(ForwardMsgs)]]
    BY <1>3, Zenon DEF FwdInv, r
  <1>6. \A c \in Caches, e \in Dirs : fwd'[c][e] = IF c = o /\ e = d THEN r ELSE fwd[c][e]
    BY Zenon DEF FwdInv, r
  <1> HIDE DEF m
  <1>7. \A a \in Addrs : Home[a] \in Dirs
    BY MIAssumption, Zenon
  <1>8. \A i \in 1 .. Len(q) : i = 1 \/ (i - 1 \in 1 .. Len(q) - 1 /\ r[i - 1] = q[i])
    BY <1>3
  <1>9. ASSUME NEW c \in Caches, NEW a \in Addrs, NEW u \in {"GETX", "WB_ACK", "WB_NACK"}
        PROVE  /\ Pending(c, a, u)' <=> Pending(c, a, u) /\ ~(c = o /\ a = m.addr /\ u = m.type)
               /\ Once(c, a, u)'
    <2>0. Once(c, a, u)
      BY DEF FwdInv
    <2>1. CASE c = o /\ Home[a] = d
      <3>1. fwd'[c][Home[a]] = r /\ fwd[c][Home[a]] = q
        BY <1>6, <1>7, <2>1, Zenon
      <3>2. ASSUME Pending(c, a, u)'
            PROVE  Pending(c, a, u) /\ ~(c = o /\ a = m.addr /\ u = m.type)
        BY <1>3, <2>0, <3>1, <3>2 DEF Pending, Once
      <3>3. ASSUME Pending(c, a, u), ~(c = o /\ a = m.addr /\ u = m.type)
            PROVE  Pending(c, a, u)'
        <4>1. PICK i \in 1 .. Len(q) : q[i].addr = a /\ q[i].type = u
          BY <1>3, <3>1, <3>3, Zenon DEF Pending
        <4>2. i # 1
          BY <1>3, <2>1, <3>3, <4>1, Zenon
        <4>3. i - 1 \in DOMAIN r /\ r[i - 1] = q[i]
          BY <1>3, <1>8, <4>2, Zenon
        <4> HIDE DEF q
        <4> QED
          BY <3>1, <4>1, <4>3, Zenon DEF Pending
      <3>4. Once(c, a, u)'
        <4>1. \A i \in DOMAIN r : i + 1 \in DOMAIN q /\ r[i] = q[i + 1]
          BY <1>3
        <4>2. \A i, j \in DOMAIN r : i + 1 = j + 1 => i = j
          BY <1>3
        <4> HIDE DEF q
        <4> QED
          BY <2>0, <3>1, <4>1, <4>2 DEF Once
      <3> QED
        BY <3>2, <3>3, <3>4, Zenon
    <2>2. CASE ~(c = o /\ Home[a] = d)
      <3>1. fwd'[c][Home[a]] = fwd[c][Home[a]] /\ ~(c = o /\ a = m.addr)
        BY <1>4, <1>6, <1>7, <2>2
      <3>2. Pending(c, a, u)' <=> Pending(c, a, u)
        BY <3>1, Zenon DEF Pending
      <3>3. Once(c, a, u)'
        BY <2>0, <3>1, ZenonT(40) DEF Once
      <3> QED
        BY <3>1, <3>2, <3>3, Zenon
    <2> QED
      BY <2>1, <2>2, Zenon
  <1>10. ASSUME NEW c \in Caches, NEW p \in Caches, NEW a \in Addrs
         PROVE  Promised(c, p, a)' <=>
                    Promised(c, p, a) /\ ~(c = o /\ a = m.addr /\ m.type = "GETX")
    <2>0. Once(c, a, "GETX")
      BY Zenon DEF FwdInv
    <2>1. CASE c = o /\ Home[a] = d
      <3>1. fwd'[c][Home[a]] = r /\ fwd[c][Home[a]] = q
        BY <1>6, <1>7, <2>1, Zenon
      <3>2. ASSUME Promised(c, p, a)'
            PROVE  Promised(c, p, a) /\ ~(c = o /\ a = m.addr /\ m.type = "GETX")
        BY <1>3, <2>0, <3>1, <3>2 DEF Promised, Once
      <3>3. ASSUME Promised(c, p, a), ~(c = o /\ a = m.addr /\ m.type = "GETX")
            PROVE  Promised(c, p, a)'
        <4>1. PICK i \in 1 .. Len(q) : /\ q[i].addr = a /\ q[i].type = "GETX"
                                              /\ q[i].for = p
          BY <1>3, <3>1, <3>3, Zenon DEF Promised
        <4>2. i # 1
          BY <1>3, <2>1, <3>3, <4>1, Zenon
        <4>3. i - 1 \in DOMAIN r /\ r[i - 1] = q[i]
          BY <1>3, <1>8, <4>2, Zenon
        <4> HIDE DEF q
        <4> QED
          BY <3>1, <4>1, <4>3, Zenon DEF Promised
      <3> QED
        BY <3>2, <3>3, Zenon
    <2>2. CASE ~(c = o /\ Home[a] = d)
      <3>1. fwd'[c][Home[a]] = fwd[c][Home[a]] /\ ~(c = o /\ a = m.addr)
        BY <1>4, <1>6, <1>7, <2>2
      <3>2. Promised(c, p, a)' <=> Promised(c, p, a)
        BY <3>1, Zenon DEF Promised
      <3> QED
        BY <3>1, <3>2, Zenon
    <2> QED
      BY <2>1, <2>2, Zenon
  <1>11. \A c \in Caches, e \in Dirs : \A i \in DOMAIN fwd'[c][e] : Home[fwd'[c][e][i].addr] = e
    BY <1>3, <1>6 DEF FwdInv
  <1>12. Pending(o, m.addr, m.type) /\ (m.type = "GETX" => Promised(o, m.for, m.addr))
    BY <1>3, <1>4 DEF Pending, Promised
  <1>13. FwdInv'
    BY <1>5, <1>9, <1>11 DEF FwdInv
  <1>14. PICK k \in ForwardMsgs : k = m
    BY <1>3, Zenon
  <1>15. k.addr \in Addrs
    BY Zenon DEF ForwardMsgs
  <1>16. ASSUME NEW c \in Caches, NEW a \in Addrs
         PROVE  /\ \A u \in {"GETX", "WB_ACK", "WB_NACK"} :
                    Pending(c, a, u)' <=> Pending(c, a, u) /\ ~(c = o /\ a = k.addr /\ u = k.type)
                /\ \A p \in Caches :
                    Promised(c, p, a)' <=>
                        Promised(c, p, a) /\ ~(c = o /\ a = k.addr /\ k.type = "GETX")
    BY <1>9, <1>10, <1>14, Zenon
  <1>17. FwdTaken(o, k.addr, k.type)
    BY <1>15, <1>16, Zenon DEF FwdTaken, Told, Ack, Nack
  <1>18. \A a \in Addrs \ {k.addr} : KeepsFwd(a)
    BY <1>16, Zenon DEF KeepsFwd, Told, Ack, Nack
  <1>19. k = Head(fwd[o][d])
    BY <1>14, Zenon DEF m
  <1> QED
    BY <1>12, <1>13, <1>14, <1>17, <1>18, <1>19, Zenon

(* A request is sent that is not under way already. *)
LEMMA SendRequest ==
    ASSUME ReqInv, NEW o \in Caches, NEW x \in Addrs, NEW t \in {"GETX", "PUTX"}, NEW block,
           reqs' = reqs \cup {RequestMsg(t, x, o, block)},
           IF t = "GETX" THEN ~Asked(o, x) ELSE ~Offered(o, x)
    PROVE  ReqInv' /\ ReqSent(o, x, t) /\ \A a \in Addrs \ {x} : KeepsReqs(a)
  <1> DEFINE m == RequestMsg(t, x, o, block)
  <1>1. m.type = t /\ m.addr = x /\ m.from = o
    BY Zenon DEF RequestMsg
  <1> HIDE DEF m
  <1>2. reqs' = reqs \cup {m}
    BY Zenon DEF m
  <1>3. ReqInv'
    BY <1>1, <1>2, Zenon DEF ReqInv, Asked, Offered
  <1>4. ReqSent(o, x, t)
    BY <1>1, <1>2, Zenon DEF ReqSent, Asked, Offered
  <1>5. ASSUME NEW a \in Addrs \ {x} PROVE KeepsReqs(a)
    BY <1>1, <1>2, Zenon DEF KeepsReqs, Asked, Offered
  <1> QED
    BY <1>3, <1>4, <1>5, Zenon

(* A request is taken. *)
LEMMA TakeRequest ==
    ASSUME ReqInv, NEW m \in reqs, reqs' = reqs \ {m}
    PROVE  /\ ReqInv' /\ ReqTaken(m.from, m.addr, m.type)
           /\ \A a \in Addrs \ {m.addr} : KeepsReqs(a)
  <1>1. ReqInv' /\ ReqTaken(m.from, m.addr, m.type)
    BY Zenon DEF ReqInv, ReqTaken, Asked, Offered
  <1>2. \A a \in Addrs \ {m.addr} : KeepsReqs(a)
    BY Zenon DEF KeepsReqs, Asked, Offered
  <1> QED
    BY <1>1, <1>2, Zenon

(* A line is sent that is not on its way already. *)
LEMMA SendResponse ==
    ASSUME RespInv, NEW o \in Caches, NEW x \in Addrs, NEW block,
           resp' = resp \cup {ResponseMsg(x, o, block)},
           \A c \in Caches : ~Sent(c, x)
    PROVE  RespInv' /\ RespSent(o, x) /\ \A a \in Addrs \ {x} : KeepsResp(a)
  <1> DEFINE m == ResponseMsg(x, o, block)
  <1>1. m.addr = x /\ m.to = o
    BY Zenon DEF ResponseMsg
  <1> HIDE DEF m
  <1>2. resp' = resp \cup {m}
    BY Zenon DEF m
  <1>3. RespInv'
    BY <1>1, <1>2, Zenon DEF RespInv, Sent
  <1>4. RespSent(o, x)
    BY <1>1, <1>2, Zenon DEF RespSent, Sent
  <1>5. ASSUME NEW a \in Addrs \ {x} PROVE KeepsResp(a)
    BY <1>1, <1>2, Zenon DEF KeepsResp, Sent
  <1> QED
    BY <1>3, <1>4, <1>5, Zenon

(* A line is taken. *)
LEMMA TakeResponse ==
    ASSUME RespInv, NEW m \in resp, resp' = resp \ {m}
    PROVE  RespInv' /\ RespTaken(m.addr) /\ \A a \in Addrs \ {m.addr} : KeepsResp(a)
  BY Zenon DEF RespInv, RespTaken, KeepsResp, Sent

(* No message to a cache is sent or taken. *)
LEMMA NoFwd ==
    ASSUME FwdInv, UNCHANGED fwd
    PROVE  FwdInv' /\ \A a \in Addrs : KeepsFwd(a)
  BY DEF FwdInv, Once, KeepsFwd, Told, Ack, Nack, Pending, Promised

(* No request is sent or taken. *)
LEMMA NoRequest ==
    ASSUME ReqInv, UNCHANGED reqs
    PROVE  ReqInv' /\ \A a \in Addrs : KeepsReqs(a)
  BY Zenon DEF ReqInv, KeepsReqs, Asked, Offered

(* No line is sent or taken. *)
LEMMA NoResponse ==
    ASSUME RespInv, UNCHANGED resp
    PROVE  RespInv' /\ \A a \in Addrs : KeepsResp(a)
  BY Zenon DEF RespInv, KeepsResp, Sent
-----------------------------------------------------------------------------
(* A step keeps what is said about a line it is not about. *)
LEMMA OtherLine ==
    ASSUME NEW a \in Addrs, LineInv(a), SameLine(a)
    PROVE  LineInv(a)'
  <1>1. /\ GivenOut(a)' <=> GivenOut(a)
        /\ \A c \in Caches :
            /\ Holds(c, a)' <=> Holds(c, a)
            /\ Fetching(c, a)' <=> Fetching(c, a)
            /\ TakenBack(c, a)' <=> TakenBack(c, a)
            /\ Awaits(c, a)' <=> Awaits(c, a)
    BY Zenon DEF SameLine, KeepsFwd, GivenOut, Holds, WrittenBack, Fetching, TakenBack, Awaits, Ack
  <1>2. MemInv(a)' /\ OwnerInv(a)'
    BY <1>1, Zenon DEF SameLine, LineInv, MemInv, OwnerInv
  <1>3. TokenInv(a)'
    BY <1>1, Zenon DEF SameLine, KeepsResp, LineInv, TokenInv
  <1>4. ASSUME NEW c \in Caches PROVE AskInv(a, c)'
    BY <1>1, Zenon DEF SameLine, KeepsFwd, KeepsReqs, KeepsResp, LineInv, AskInv
  <1>5. ASSUME NEW c \in Caches PROVE ReturnInv(a, c)'
    BY <1>1, Zenon DEF SameLine, KeepsFwd, KeepsReqs, LineInv, ReturnInv
  <1> QED
    BY <1>2, <1>3, <1>4, <1>5, Zenon DEF LineInv

(* So a step that is about line x has to be looked at for line x only. *)
LEMMA OneLine ==
    ASSUME IInv, NEW x \in Addrs,
           CacheTypes', DirTypes', FwdInv', ReqInv', RespInv', LineInv(x)',
           \A a \in Addrs \ {x} : SameLine(a)
    PROVE  IInv'
  <1>1. ASSUME NEW a \in Addrs, a # x PROVE LineInv(a)'
    BY <1>1, OtherLine, Zenon DEF IInv
  <1> QED
    BY <1>1, Zenon DEF IInv

(* The same for a step that does not change the caches. *)
LEMMA DirectoryStep ==
    ASSUME IInv, NEW x \in Addrs, UNCHANGED cacheVars,
           DirTypes', FwdInv', ReqInv', RespInv', LineInv(x)',
           \A a \in Addrs \ {x} : SameLine(a)
    PROVE  IInv'
  <1>1. CacheTypes'
    BY Zenon DEF IInv, CacheTypes, cacheVars
  <1> QED
    BY <1>1, OneLine, Zenon

-----------------------------------------------------------------------------
(* The caches.                                                             *)

(* A cache asks for a line it does not have. *)
LEMMA MissInv ==
    ASSUME IInv, NEW c0 \in Caches, Miss(c0)
    PROVE  IInv'
  <1>1. PICK x \in Addrs : x = Head(mq[c0]) /\ cstate[c0][x] = "I"
    BY DEF Miss, Roomy, IInv, CacheTypes
  <1>0. LineInv(x)
    BY Zenon DEF IInv
  <1>2. PICK s \in {"IS", "IM"} : cstate' = [cstate EXCEPT ![c0][x] = s]
    BY <1>1, Zenon DEF Miss
  <1>3. CacheTypes' /\ DirTypes'
    BY <1>1, <1>2 DEF IInv, CacheTypes, DirTypes, CacheStates, Miss, Roomy, dirVars, dmaVars
  <1>4. /\ reqs' = reqs \cup {RequestMsg("GETX", x, c0, NoData)}
        /\ UNCHANGED <<fwd, resp, dstate, owner, memOp>>
    BY <1>1, Zenon DEF Miss, dirVars
  <1>5. ReqInv' /\ ReqSent(c0, x, "GETX") /\ \A a \in Addrs \ {x} : KeepsReqs(a)
    <2>1. ReqInv /\ ~Asked(c0, x)
      BY <1>0, <1>1, Zenon DEF IInv, LineInv, AskInv, Awaits
    <2> QED
      BY <1>4, <2>1, SendRequest, Zenon
  <1>6. FwdInv' /\ RespInv' /\ \A a \in Addrs : KeepsFwd(a) /\ KeepsResp(a)
    BY <1>4, NoFwd, NoResponse, Zenon DEF IInv
  <1>7. /\ \A c \in Caches : cstate'[c][x] = IF c = c0 THEN s ELSE cstate[c][x]
        /\ \A a \in Addrs \ {x}, c \in Caches : cstate'[c][a] = cstate[c][a]
    BY <1>2, Zenon DEF IInv, CacheTypes
  <1>8. \A a \in Addrs \ {x} : SameLine(a)
    BY <1>4, <1>5, <1>6, <1>7, Zenon DEF SameLine
  <1>9. LineInv(x)'
    <2>1. MemInv(x)' /\ OwnerInv(x)'
      BY <1>0, <1>4, Zenon DEF LineInv, MemInv, OwnerInv, GivenOut
    <2>2. KeepsFwd(x) /\ KeepsResp(x)
      BY <1>6, Zenon
    <2>3. /\ \A c \in Caches : Holds(c, x)' <=> Holds(c, x)
          /\ GivenOut(x)' <=> GivenOut(x)
      BY <1>1, <1>4, <1>7, <2>2, Zenon DEF Holds, WrittenBack, GivenOut, KeepsFwd, Ack
    <2>4. TokenInv(x)'
      BY <1>0, <2>2, <2>3, Zenon DEF LineInv, TokenInv, KeepsResp
    <2>5. ASSUME NEW c \in Caches PROVE AskInv(x, c)'
      BY <1>0, <1>1, <1>4, <1>5, <1>7, <2>2, Zenon
      DEF LineInv, AskInv, ReturnInv, Fetching, Awaits, KeepsFwd, KeepsResp, ReqSent
    <2>6. ASSUME NEW c \in Caches PROVE ReturnInv(x, c)'
      BY <1>0, <1>1, <1>4, <1>5, <1>7, <2>2, Zenon
      DEF LineInv, ReturnInv, TakenBack, Awaits, KeepsFwd, ReqSent
    <2> QED
      BY <2>1, <2>4, <2>5, <2>6, Zenon DEF LineInv
  <1> QED
    BY <1>3, <1>5, <1>6, <1>8, <1>9, OneLine, Zenon

(* A cache gives a line back. *)
LEMMA WriteBackInv ==
    ASSUME IInv, NEW c0 \in Caches, NEW x \in Addrs, writeBack(c0, x)
    PROVE  IInv'
  <1>0. LineInv(x)
    BY Zenon DEF IInv
  <1>1. cstate[c0][x] = "M" /\ cstate' = [cstate EXCEPT ![c0][x] = "MI"]
    BY Zenon DEF writeBack
  <1>2. PICK b : reqs' = reqs \cup {RequestMsg("PUTX", x, c0, b)}
    BY Zenon DEF writeBack
  <1>3. CacheTypes' /\ DirTypes'
    BY Zenon DEF IInv, CacheTypes, DirTypes, CacheStates, writeBack, dirVars, dmaVars
  <1>4. UNCHANGED <<fwd, resp, dstate, owner, memOp>>
    BY Zenon DEF writeBack, dirVars
  <1>5. ReqInv' /\ ReqSent(c0, x, "PUTX") /\ \A a \in Addrs \ {x} : KeepsReqs(a)
    <2>1. ReqInv /\ ~Offered(c0, x)
      BY <1>0, <1>1, Zenon DEF IInv, LineInv, ReturnInv
    <2> QED
      BY <1>2, <2>1, SendRequest, Zenon
  <1>6. FwdInv' /\ RespInv' /\ \A a \in Addrs : KeepsFwd(a) /\ KeepsResp(a)
    BY <1>4, NoFwd, NoResponse, Zenon DEF IInv
  <1>7. /\ \A c \in Caches : cstate'[c][x] = IF c = c0 THEN "MI" ELSE cstate[c][x]
        /\ \A a \in Addrs \ {x}, c \in Caches : cstate'[c][a] = cstate[c][a]
    BY <1>1, Zenon DEF IInv, CacheTypes
  <1>8. \A a \in Addrs \ {x} : SameLine(a)
    BY <1>4, <1>5, <1>6, <1>7, Zenon DEF SameLine
  <1>9. LineInv(x)'
    <2>0. cstate[c0][x] = "M"
      BY <1>1, Zenon
    <2>1. MemInv(x)' /\ OwnerInv(x)'
      BY <1>0, <1>4, Zenon DEF LineInv, MemInv, OwnerInv, GivenOut
    <2>2. KeepsFwd(x) /\ KeepsResp(x)
      BY <1>6, Zenon
    <2>3. ~WrittenBack(c0, x)
      BY <1>0, <2>0, Zenon
      DEF LineInv, AskInv, ReturnInv, WrittenBack, Fetching, TakenBack, Awaits, Ack
    <2>4. /\ \A c \in Caches : Holds(c, x)' <=> Holds(c, x)
          /\ GivenOut(x)' <=> GivenOut(x)
      BY <1>4, <1>7, <2>0, <2>2, <2>3, Zenon DEF Holds, WrittenBack, GivenOut, KeepsFwd, Ack
    <2>5. TokenInv(x)'
      BY <1>0, <2>2, <2>4, Zenon DEF LineInv, TokenInv, KeepsResp
    <2>6. ASSUME NEW c \in Caches PROVE AskInv(x, c)'
      BY <1>0, <1>4, <1>5, <1>7, <2>0, <2>2, Zenon
      DEF LineInv, AskInv, Fetching, Awaits, KeepsFwd, KeepsResp, ReqSent
    <2>7. ASSUME NEW c \in Caches PROVE ReturnInv(x, c)'
      BY <1>0, <1>4, <1>5, <1>7, <2>0, <2>2, Zenon
      DEF LineInv, ReturnInv, TakenBack, Awaits, KeepsFwd, ReqSent
    <2> QED
      BY <2>1, <2>5, <2>6, <2>7, Zenon DEF LineInv
  <1> QED
    BY <1>3, <1>5, <1>6, <1>8, <1>9, OneLine, Zenon

(* A cache takes a forwarded message off its queue. *)
LEMMA Popped ==
    ASSUME IInv, NEW c0 \in Caches, NEW d \in Dirs, Forwarded(c0, d),
           popForwardedRequestQueue(c0, d)
    PROVE  \E m \in ForwardMsgs :
           /\ m = Head(fwd[c0][d])
           /\ Pending(c0, m.addr, m.type)
           /\ m.type = "GETX" => Promised(c0, m.for, m.addr)
           /\ FwdInv' /\ FwdTaken(c0, m.addr, m.type)
           /\ \A a \in Addrs \ {m.addr} : KeepsFwd(a)
  <1>1. FwdInv /\ fwd[c0][d] # << >> /\ fwd' = [fwd EXCEPT ![c0][d] = Tail(@)]
    BY Zenon DEF IInv, Forwarded, popForwardedRequestQueue
  <1> QED
    BY <1>1, PopEffect, Zenon

(* A cache ignores an invalidation. *)
LEMMA IgnoreInvInv ==
    ASSUME IInv, NEW c0 \in Caches, NEW d \in Dirs, IgnoreInv(c0, d)
    PROVE  IInv'
  <1>1. PICK m \in ForwardMsgs :
           /\ m = Head(fwd[c0][d])
           /\ FwdInv' /\ FwdTaken(c0, m.addr, m.type)
           /\ \A a \in Addrs \ {m.addr} : KeepsFwd(a)
    BY Popped, Zenon DEF IgnoreInv
  <1>2. m.type = "INV" /\ UNCHANGED <<cstate, resp, reqs, dstate, owner, memOp>>
    BY <1>1, Zenon DEF IgnoreInv, dirVars
  <1>3. CacheTypes' /\ DirTypes'
    BY Zenon DEF IInv, CacheTypes, DirTypes, IgnoreInv, dirVars, dmaVars
  <1>4. ReqInv' /\ RespInv' /\ \A a \in Addrs : KeepsReqs(a) /\ KeepsResp(a)
    BY <1>2, NoRequest, NoResponse, Zenon DEF IInv
  <1>5. KeepsFwd(m.addr)
    BY <1>1, <1>2, Zenon DEF FwdTaken, KeepsFwd
  <1>6. \A a \in Addrs : SameLine(a)
    BY <1>1, <1>2, <1>4, <1>5, Zenon DEF SameLine
  <1>7. \A a \in Addrs : LineInv(a)'
    BY <1>6, OtherLine, Zenon DEF IInv
  <1> QED
    BY <1>1, <1>3, <1>4, <1>7, Zenon DEF IInv

(* The cache that has the line sends it to the one that asked. *)
LEMMA Fwd_GETXInv ==
    ASSUME IInv, NEW c0 \in Caches, NEW d \in Dirs, Fwd_GETX(c0, d)
    PROVE  IInv'
  <1>1. PICK m \in ForwardMsgs :
           /\ m = Head(fwd[c0][d])
           /\ Pending(c0, m.addr, m.type)
           /\ m.type = "GETX" => Promised(c0, m.for, m.addr)
           /\ FwdInv' /\ FwdTaken(c0, m.addr, m.type)
           /\ \A a \in Addrs \ {m.addr} : KeepsFwd(a)
    BY Popped, Zenon DEF Fwd_GETX
  <1>2. PICK x \in Addrs, r \in Caches : x = m.addr /\ r = m.for
    BY Zenon DEF ForwardMsgs
  <1>0. LineInv(x)
    BY Zenon DEF IInv
  <1>3. /\ FwdInv' /\ FwdTaken(c0, x, "GETX") /\ \A a \in Addrs \ {x} : KeepsFwd(a)
        /\ Told(c0, x) /\ Promised(c0, r, x)
    BY <1>1, <1>2, Zenon DEF Fwd_GETX, Told
  <1>4. PICK s : s = AfterFwdGETX[cstate[c0][x]] /\ cstate' = [cstate EXCEPT ![c0][x] = s]
    BY <1>1, <1>2, Zenon DEF Fwd_GETX
  <1>5. /\ s \in {"I", "II"} /\ cstate[c0][x] \in {"M", "MI", "MII"}
        /\ s = IF cstate[c0][x] = "MI" THEN "II" ELSE "I"
    <2>1. cstate[c0][x] \in {"M", "MI", "MII"}
      BY <1>1, <1>2, Zenon DEF Fwd_GETX, AfterFwdGETX
    <2>2. cstate[c0][x] \in {"M", "MII"} => AfterFwdGETX[cstate[c0][x]] = "I"
      BY DEF AfterFwdGETX
    <2>3. cstate[c0][x] = "MI" => AfterFwdGETX[cstate[c0][x]] = "II"
      BY DEF AfterFwdGETX
    <2> QED
      BY <1>4, <2>1, <2>2, <2>3, Zenon
  <1>6. UNCHANGED <<mq, entries, reqs, dstate, owner, memOp, dmaReqs>>
    BY Zenon DEF Fwd_GETX, dirVars, dmaVars
  <1>7. CacheTypes' /\ DirTypes'
    BY <1>4, <1>5, <1>6, Zenon DEF IInv, CacheTypes, DirTypes, CacheStates
  <1>8. ReqInv' /\ \A a \in Addrs : KeepsReqs(a)
    BY <1>6, NoRequest, Zenon DEF IInv
  <1>9. Holds(c0, x) /\ \A c \in Caches : ~Sent(c, x)
    BY <1>0, <1>3, <1>5, Zenon
    DEF LineInv, TokenInv, AskInv, ReturnInv, Holds, WrittenBack, Fetching, TakenBack, Awaits, Ack
  <1>10. RespInv' /\ RespSent(r, x) /\ \A a \in Addrs \ {x} : KeepsResp(a)
    <2>1. PICK b : resp' = resp \cup {ResponseMsg(x, r, b)}
      BY <1>1, <1>2, Zenon DEF Fwd_GETX
    <2>2. RespInv
      BY Zenon DEF IInv
    <2> QED
      BY <1>9, <2>1, <2>2, SendResponse, Zenon
  <1>11. /\ \A c \in Caches : cstate'[c][x] = IF c = c0 THEN s ELSE cstate[c][x]
         /\ \A a \in Addrs \ {x}, c \in Caches : cstate'[c][a] = cstate[c][a]
    BY <1>4, Zenon DEF IInv, CacheTypes
  <1>12. \A a \in Addrs \ {x} : SameLine(a)
    BY <1>3, <1>6, <1>8, <1>10, <1>11, Zenon DEF SameLine
  <1>13. LineInv(x)'
    <2>1. MemInv(x)' /\ OwnerInv(x)'
      BY <1>0, <1>6, Zenon DEF LineInv, MemInv, OwnerInv, GivenOut
    <2>2. KeepsReqs(x)
      BY <1>8, Zenon
    <2>3. /\ \A c \in Caches : Holds(c, x)' <=> Holds(c, x) /\ c # c0
          /\ GivenOut(x)' <=> GivenOut(x)
      BY <1>3, <1>5, <1>6, <1>11, Zenon DEF Holds, WrittenBack, GivenOut, FwdTaken, Ack
    <2>4. TokenInv(x)'
      BY <1>0, <1>9, <1>10, <2>3, Zenon DEF LineInv, TokenInv, RespSent
    <2>5. ASSUME NEW c \in Caches PROVE AskInv(x, c)'
      <3>1. \A o \in Caches : Promised(o, c, x)' <=> Promised(o, c, x) /\ o # c0
        BY <1>3, Zenon DEF FwdTaken
      <3>2. /\ \A o \in Caches : Told(o, x)' <=> Told(o, x) /\ o # c0
            /\ Asked(c, x)' <=> Asked(c, x)
            /\ Sent(c, x)' <=> c = r
            /\ Fetching(c, x)' <=> Fetching(c, x)
            /\ Awaits(c, x)' <=> Awaits(c, x)
        BY <1>3, <1>5, <1>6, <1>9, <1>10, <1>11, <2>2, Zenon
        DEF FwdTaken, KeepsReqs, RespSent, Fetching, Awaits
      <3> QED
        BY <1>0, <1>3, <1>6, <1>9, <3>1, <3>2 DEF LineInv, AskInv
    <2>6. ASSUME NEW c \in Caches PROVE ReturnInv(x, c)'
      BY <1>0, <1>3, <1>5, <1>6, <1>11, <2>2, Zenon
      DEF LineInv, ReturnInv, TakenBack, Awaits, FwdTaken, KeepsReqs
    <2> QED
      BY <2>1, <2>4, <2>5, <2>6, Zenon DEF LineInv
  <1> QED
    BY <1>3, <1>7, <1>8, <1>10, <1>12, <1>13, OneLine, Zenon

(* A cache learns that its block has been written back. *)
LEMMA Writeback_AckInv ==
    ASSUME IInv, NEW c0 \in Caches, NEW d \in Dirs, Writeback_Ack(c0, d)
    PROVE  IInv'
  <1>1. PICK m \in ForwardMsgs :
           /\ m = Head(fwd[c0][d])
           /\ Pending(c0, m.addr, m.type)
           /\ FwdInv' /\ FwdTaken(c0, m.addr, m.type)
           /\ \A a \in Addrs \ {m.addr} : KeepsFwd(a)
    BY Popped, Zenon DEF Writeback_Ack
  <1>2. PICK x \in Addrs : x = m.addr
    BY Zenon DEF ForwardMsgs
  <1>0. LineInv(x)
    BY Zenon DEF IInv
  <1>3. /\ FwdInv' /\ FwdTaken(c0, x, "WB_ACK") /\ \A a \in Addrs \ {x} : KeepsFwd(a)
        /\ Ack(c0, x)
    BY <1>1, <1>2, Zenon DEF Writeback_Ack, Ack
  <1>4. cstate' = [cstate EXCEPT ![c0][x] = "I"]
    BY <1>1, <1>2, Zenon DEF Writeback_Ack
  <1>5. cstate[c0][x] = "MI"
    BY <1>1, <1>2, Zenon DEF Writeback_Ack
  <1>6. UNCHANGED <<mq, entries, resp, reqs, dstate, owner, memOp, dmaReqs>>
    BY Zenon DEF Writeback_Ack, dirVars, dmaVars
  <1>7. CacheTypes' /\ DirTypes'
    BY <1>4, <1>5, <1>6, Zenon DEF IInv, CacheTypes, DirTypes, CacheStates
  <1>8. ReqInv' /\ RespInv' /\ \A a \in Addrs : KeepsReqs(a) /\ KeepsResp(a)
    BY <1>6, NoRequest, NoResponse, Zenon DEF IInv
  <1>9. /\ \A c \in Caches : cstate'[c][x] = IF c = c0 THEN "I" ELSE cstate[c][x]
        /\ \A a \in Addrs \ {x}, c \in Caches : cstate'[c][a] = cstate[c][a]
    BY <1>4, Zenon DEF IInv, CacheTypes
  <1>10. \A a \in Addrs \ {x} : SameLine(a)
    BY <1>3, <1>6, <1>8, <1>9, Zenon DEF SameLine
  <1>11. LineInv(x)'
    <2>1. MemInv(x)' /\ OwnerInv(x)'
      BY <1>0, <1>6, Zenon DEF LineInv, MemInv, OwnerInv, GivenOut
    <2>2. KeepsReqs(x) /\ KeepsResp(x)
      BY <1>8, Zenon
    <2>3. WrittenBack(c0, x)
      BY <1>3, Zenon DEF WrittenBack, Ack
    <2>4. /\ \A c \in Caches : Holds(c, x)' <=> Holds(c, x)
          /\ GivenOut(x)' <=> GivenOut(x)
      BY <1>3, <1>5, <1>6, <1>9, <2>3, Zenon DEF Holds, WrittenBack, GivenOut, FwdTaken, Ack
    <2>5. TokenInv(x)'
      BY <1>0, <2>2, <2>4, Zenon DEF LineInv, TokenInv, KeepsResp
    <2>6. ASSUME NEW c \in Caches PROVE AskInv(x, c)'
      BY <1>0, <1>3, <1>5, <1>6, <1>9, <2>2, Zenon
      DEF LineInv, AskInv, Fetching, Awaits, FwdTaken, KeepsReqs, KeepsResp
    <2>7. ASSUME NEW c \in Caches PROVE ReturnInv(x, c)'
      BY <1>0, <1>3, <1>5, <1>6, <1>9, <2>2, Zenon
      DEF LineInv, ReturnInv, TakenBack, Awaits, FwdTaken, KeepsReqs
    <2> QED
      BY <2>1, <2>5, <2>6, <2>7, Zenon DEF LineInv
  <1> QED
    BY <1>3, <1>7, <1>8, <1>10, <1>11, OneLine, Zenon

(* A cache learns that it is not the owner of the block it gave back. *)
LEMMA Writeback_NackInv ==
    ASSUME IInv, NEW c0 \in Caches, NEW d \in Dirs, Writeback_Nack(c0, d)
    PROVE  IInv'
  <1>1. PICK m \in ForwardMsgs :
           /\ m = Head(fwd[c0][d])
           /\ Pending(c0, m.addr, m.type)
           /\ FwdInv' /\ FwdTaken(c0, m.addr, m.type)
           /\ \A a \in Addrs \ {m.addr} : KeepsFwd(a)
    BY Popped, Zenon DEF Writeback_Nack
  <1>2. PICK x \in Addrs : x = m.addr
    BY Zenon DEF ForwardMsgs
  <1>0. LineInv(x)
    BY Zenon DEF IInv
  <1>3. /\ FwdInv' /\ FwdTaken(c0, x, "WB_NACK") /\ \A a \in Addrs \ {x} : KeepsFwd(a)
        /\ Nack(c0, x)
    BY <1>1, <1>2, Zenon DEF Writeback_Nack, Nack
  <1>4. PICK s : s = AfterNack[cstate[c0][x]] /\ cstate' = [cstate EXCEPT ![c0][x] = s]
    BY <1>1, <1>2, Zenon DEF Writeback_Nack
  <1>5. cstate[c0][x] \in {"MI", "II"} /\ s = IF cstate[c0][x] = "MI" THEN "MII" ELSE "I"
    <2>1. cstate[c0][x] \in {"MI", "II"}
      BY <1>1, <1>2, Zenon DEF Writeback_Nack, AfterNack
    <2>2. cstate[c0][x] = "MI" => AfterNack[cstate[c0][x]] = "MII"
      BY DEF AfterNack
    <2>3. cstate[c0][x] = "II" => AfterNack[cstate[c0][x]] = "I"
      BY DEF AfterNack
    <2> QED
      BY <1>4, <2>1, <2>2, <2>3, Zenon
  <1>6. UNCHANGED <<mq, entries, resp, reqs, dstate, owner, memOp, dmaReqs>>
    BY Zenon DEF Writeback_Nack, dirVars, dmaVars
  <1>7. CacheTypes' /\ DirTypes'
    BY <1>4, <1>5, <1>6, Zenon DEF IInv, CacheTypes, DirTypes, CacheStates
  <1>8. ReqInv' /\ RespInv' /\ \A a \in Addrs : KeepsReqs(a) /\ KeepsResp(a)
    BY <1>6, NoRequest, NoResponse, Zenon DEF IInv
  <1>9. /\ \A c \in Caches : cstate'[c][x] = IF c = c0 THEN s ELSE cstate[c][x]
        /\ \A a \in Addrs \ {x}, c \in Caches : cstate'[c][a] = cstate[c][a]
    BY <1>4, Zenon DEF IInv, CacheTypes
  <1>10. \A a \in Addrs \ {x} : SameLine(a)
    BY <1>3, <1>6, <1>8, <1>9, Zenon DEF SameLine
  <1>11. LineInv(x)'
    <2>1. MemInv(x)' /\ OwnerInv(x)'
      BY <1>0, <1>6, Zenon DEF LineInv, MemInv, OwnerInv, GivenOut
    <2>2. KeepsReqs(x) /\ KeepsResp(x)
      BY <1>8, Zenon
    <2>3. ~WrittenBack(c0, x)
      BY <1>0, <1>3, <1>5, Zenon
      DEF LineInv, AskInv, ReturnInv, WrittenBack, Fetching, TakenBack, Awaits, Ack
    <2>4. /\ \A c \in Caches : Holds(c, x)' <=> Holds(c, x)
          /\ GivenOut(x)' <=> GivenOut(x)
      BY <1>3, <1>5, <1>6, <1>9, <2>3, Zenon DEF Holds, WrittenBack, GivenOut, FwdTaken, Ack
    <2>5. TokenInv(x)'
      BY <1>0, <2>2, <2>4, Zenon DEF LineInv, TokenInv, KeepsResp
    <2>6. ASSUME NEW c \in Caches PROVE AskInv(x, c)'
      BY <1>0, <1>3, <1>5, <1>6, <1>9, <2>2, Zenon
      DEF LineInv, AskInv, Fetching, Awaits, FwdTaken, KeepsReqs, KeepsResp
    <2>7. ASSUME NEW c \in Caches PROVE ReturnInv(x, c)'
      BY <1>0, <1>3, <1>5, <1>6, <1>9, <2>2, Zenon
      DEF LineInv, ReturnInv, TakenBack, Awaits, FwdTaken, KeepsReqs
    <2> QED
      BY <2>1, <2>5, <2>6, <2>7, Zenon DEF LineInv
  <1> QED
    BY <1>3, <1>7, <1>8, <1>10, <1>11, OneLine, Zenon

(* A cache gets the line it waits for. *)
LEMMA DataInv ==
    ASSUME IInv, NEW c0 \in Caches, Data(c0)
    PROVE  IInv'
  <1>1. PICK m \in resp :
            /\ m.to = c0 /\ cstate[c0][m.addr] \in {"IS", "IM"}
            /\ cstate' = [cstate EXCEPT ![c0][m.addr] = "M"]
            /\ resp' = resp \ {m}
            /\ UNCHANGED <<mq, entries, stalledOn, fwd, reqs, dirVars, dmaVars, panicked>>
    BY Zenon DEF Data
  <1>2. PICK x \in Addrs : x = m.addr
    BY Zenon DEF IInv, RespInv
  <1>0. LineInv(x)
    BY Zenon DEF IInv
  <1>3. Sent(c0, x) /\ Awaits(c0, x)
    BY <1>1, <1>2, Zenon DEF Sent, Awaits
  <1>4. cstate' = [cstate EXCEPT ![c0][x] = "M"]
    BY <1>1, <1>2, Zenon
  <1>5. UNCHANGED <<mq, entries, fwd, reqs, dstate, owner, memOp, dmaReqs>>
    BY <1>1, Zenon DEF dirVars, dmaVars
  <1>6. CacheTypes' /\ DirTypes'
    BY <1>4, <1>5, Zenon DEF IInv, CacheTypes, DirTypes, CacheStates
  <1>7. ReqInv' /\ FwdInv' /\ \A a \in Addrs : KeepsReqs(a) /\ KeepsFwd(a)
    BY <1>5, NoRequest, NoFwd, Zenon DEF IInv
  <1>8. RespInv' /\ RespTaken(x) /\ \A a \in Addrs \ {x} : KeepsResp(a)
    BY <1>1, <1>2, TakeResponse, Zenon DEF IInv
  <1>9. /\ \A c \in Caches : cstate'[c][x] = IF c = c0 THEN "M" ELSE cstate[c][x]
        /\ \A a \in Addrs \ {x}, c \in Caches : cstate'[c][a] = cstate[c][a]
    BY <1>4, Zenon DEF IInv, CacheTypes
  <1>10. \A a \in Addrs \ {x} : SameLine(a)
    BY <1>5, <1>7, <1>8, <1>9, Zenon DEF SameLine
  <1>11. LineInv(x)'
    <2>1. MemInv(x)' /\ OwnerInv(x)'
      BY <1>0, <1>5, Zenon DEF LineInv, MemInv, OwnerInv, GivenOut
    <2>2. KeepsReqs(x) /\ KeepsFwd(x)
      BY <1>7, Zenon
    <2>3. /\ \A c \in Caches : Holds(c, x)' <=> Holds(c, x) \/ c = c0
          /\ GivenOut(x)' <=> GivenOut(x)
      BY <1>3, <1>5, <1>9, <2>2, Zenon DEF Holds, WrittenBack, GivenOut, Awaits, KeepsFwd, Ack
    <2>4. TokenInv(x)'
      BY <1>0, <1>3, <1>8, <2>3, Zenon DEF LineInv, TokenInv, RespTaken
    <2>5. ASSUME NEW c \in Caches PROVE AskInv(x, c)'
      BY <1>0, <1>3, <1>5, <1>8, <1>9, <2>2, Zenon
      DEF LineInv, AskInv, Fetching, Awaits, KeepsReqs, KeepsFwd, RespTaken
    <2>6. ASSUME NEW c \in Caches PROVE ReturnInv(x, c)'
      BY <1>0, <1>3, <1>5, <1>9, <2>2, Zenon
      DEF LineInv, ReturnInv, TakenBack, Awaits, KeepsReqs, KeepsFwd
    <2> QED
      BY <2>1, <2>4, <2>5, <2>6, Zenon DEF LineInv
  <1> QED
    BY <1>6, <1>7, <1>8, <1>10, <1>11, OneLine, Zenon

-----------------------------------------------------------------------------
(* The directories, and requests of caches.                                *)

(* The directory takes a request for a line it has: it is read from memory. *)
LEMMA GETXFetchInv ==
    ASSUME IInv, NEW m \in reqs, GETX(m), dstate[m.addr] = "I"
    PROVE  IInv'
  <1>1. PICK x \in Addrs, r \in Caches : x = m.addr /\ r = m.from /\ m.type = "GETX"
    BY Zenon DEF IInv, ReqInv, GETX
  <1>0. LineInv(x)
    BY Zenon DEF IInv
  <1>2. /\ dstate[x] = "I"
        /\ dstate' = [dstate EXCEPT ![x] = "IM"]
        /\ owner' = [owner EXCEPT ![x] = {r}]
        /\ memOp' = [memOp EXCEPT ![x] = MemoryOp({r}, NoData, 0)]
        /\ UNCHANGED fwd
    BY <1>1, Zenon DEF GETX, queueMemoryRead
  <1>3. reqs' = reqs \ {m} /\ UNCHANGED <<cacheVars, cstate, resp, dmaReqs>>
    BY <1>1, Zenon DEF GETX, cacheVars, dmaVars
  <1>4. DirTypes'
    BY <1>2, <1>3, Zenon DEF IInv, DirTypes, DirStates
  <1>5. ReqInv' /\ ReqTaken(r, x, "GETX") /\ \A a \in Addrs \ {x} : KeepsReqs(a)
    BY <1>1, <1>3, TakeRequest, Zenon DEF IInv
  <1>6. FwdInv' /\ RespInv' /\ \A a \in Addrs : KeepsFwd(a) /\ KeepsResp(a)
    BY <1>2, <1>3, NoFwd, NoResponse, Zenon DEF IInv
  <1>7. \A a \in Addrs \ {x} : SameLine(a)
    BY <1>2, <1>3, <1>5, <1>6, Zenon DEF IInv, DirTypes, SameLine
  <1>8. dstate'[x] = "IM" /\ owner'[x] = {r} /\ memOp'[x].for = {r}
    BY <1>2, Zenon DEF IInv, DirTypes, MemoryOp
  <1>9. LineInv(x)'
    <2>0. dstate[x] = "I"
      BY <1>2, Zenon
    <2>1. Asked(r, x)
      BY <1>1, Zenon DEF Asked
    <2>2. \A c \in Caches : c \notin memOp[x].for /\ c \notin owner[x]
      BY <1>0, <2>0, Zenon DEF LineInv, MemInv, OwnerInv, GivenOut
    <2>3. MemInv(x)' /\ OwnerInv(x)'
      BY <1>8, Zenon DEF MemInv, OwnerInv, GivenOut
    <2>4. Awaits(r, x)
      BY <1>0, <2>1, Zenon DEF LineInv, AskInv
    <2>5. /\ \A c \in Caches : Holds(c, x)' <=> Holds(c, x)
          /\ GivenOut(x)' <=> GivenOut(x)
      BY <1>3, <1>6, <1>8, <2>0, <2>2, <2>4, Zenon
      DEF Holds, WrittenBack, GivenOut, Awaits, KeepsFwd, Ack
    <2>6. TokenInv(x)'
      BY <1>0, <1>6, <2>5, Zenon DEF LineInv, TokenInv, KeepsResp
    <2>7. ASSUME NEW c \in Caches PROVE AskInv(x, c)'
      BY <1>0, <1>3, <1>5, <1>6, <1>8, <2>1, <2>2, ZenonT(40)
      DEF LineInv, AskInv, Fetching, Awaits, KeepsFwd, KeepsReqs, KeepsResp, ReqTaken
    <2>8. ASSUME NEW c \in Caches PROVE ReturnInv(x, c)'
      BY <1>0, <1>3, <1>5, <1>6, <1>8, <2>0, <2>1, <2>2, <2>4, ZenonT(40)
      DEF LineInv, AskInv, ReturnInv, TakenBack, Awaits, KeepsFwd, KeepsReqs, ReqTaken
    <2> QED
      BY <2>3, <2>6, <2>7, <2>8, Zenon DEF LineInv
  <1> QED
    BY <1>3, <1>4, <1>5, <1>6, <1>7, <1>9, DirectoryStep, Zenon

(* The directory takes a request for a line it has given out: the owner is *)
(* told to send it, and the cache that asked is the owner.                 *)
LEMMA GETXForwardInv ==
    ASSUME IInv, NEW m \in reqs, GETX(m), dstate[m.addr] # "I"
    PROVE  IInv'
  <1>1. PICK x \in Addrs, r \in Caches : x = m.addr /\ r = m.from /\ m.type = "GETX"
    BY Zenon DEF IInv, ReqInv, GETX
  <1>0. LineInv(x)
    BY Zenon DEF IInv
  <1>2. /\ dstate[x] = "M"
        /\ owner' = [owner EXCEPT ![x] = {r}]
        /\ UNCHANGED <<dstate, memOp>>
        /\ \E o \in owner[x] : Send(x, o, ForwardMsg("GETX", x, r))
    BY <1>1, Zenon DEF GETX
  <1>3. reqs' = reqs \ {m} /\ UNCHANGED <<cacheVars, cstate, resp, dmaReqs>>
    BY <1>1, Zenon DEF GETX, cacheVars, dmaVars
  <1>4. DirTypes'
    BY <1>2, <1>3, Zenon DEF IInv, DirTypes, DirStates
  <1>5. ReqInv' /\ ReqTaken(r, x, "GETX") /\ \A a \in Addrs \ {x} : KeepsReqs(a)
    BY <1>1, <1>3, TakeRequest, Zenon DEF IInv
  <1>6. PICK o \in Caches : owner[x] = {o} /\ Send(x, o, ForwardMsg("GETX", x, r))
    BY <1>0, <1>2, Zenon DEF LineInv, OwnerInv, GivenOut
  <1>7. ~Told(o, x)
    BY <1>0, <1>6, Zenon DEF LineInv, ReturnInv
  <1>8. FwdInv' /\ FwdSent(o, x, "GETX", r) /\ \A a \in Addrs \ {x} : KeepsFwd(a)
    BY <1>6, <1>7, SendEffect, Zenon DEF IInv, Told
  <1>9. RespInv' /\ \A a \in Addrs : KeepsResp(a)
    BY <1>3, NoResponse, Zenon DEF IInv
  <1>10. \A a \in Addrs \ {x} : SameLine(a)
    BY <1>2, <1>3, <1>5, <1>8, <1>9, Zenon DEF IInv, DirTypes, SameLine
  <1>11. owner'[x] = {r}
    BY <1>2, Zenon DEF IInv, DirTypes
  <1>12. LineInv(x)'
    <2>1. Asked(r, x) /\ Awaits(r, x) /\ r # o /\ ~Told(r, x) /\ ~Sent(r, x)
          /\ \A p \in Caches : ~Promised(p, r, x)
      <3>1. Asked(r, x)
        BY <1>1, Zenon DEF Asked
      <3> QED
        BY <1>0, <1>6, <3>1, Zenon DEF LineInv, AskInv
    <2>2. \A c \in Caches : c \notin memOp[x].for
      BY <1>0, <1>2, Zenon DEF LineInv, MemInv
    <2>3. MemInv(x)' /\ OwnerInv(x)'
      BY <1>0, <1>2, <1>11, Zenon DEF LineInv, MemInv, OwnerInv, GivenOut
    <2>4. \A c \in Caches : /\ Told(c, x)' <=> Told(c, x) \/ c = o
                            /\ Ack(c, x)' <=> Ack(c, x)
                            /\ Nack(c, x)' <=> Nack(c, x)
      BY <1>8, Zenon DEF FwdSent
    <2>5. /\ \A c \in Caches : Holds(c, x)' <=> Holds(c, x)
          /\ GivenOut(x)' <=> GivenOut(x)
      BY <1>2, <1>3, <2>4, Zenon DEF Holds, WrittenBack, GivenOut, Ack
    <2>6. TokenInv(x)'
      BY <1>0, <1>9, <2>5, Zenon DEF LineInv, TokenInv, KeepsResp
    <2>7. \A p, c \in Caches : Promised(p, c, x)' <=> Promised(p, c, x) \/ (p = o /\ c = r)
      BY <1>8, Zenon DEF FwdSent
    <2>8. ASSUME NEW c \in Caches PROVE AskInv(x, c)'
      <3>0. AskInv(x, c) /\ ~Fetching(c, x)' /\ (Awaits(c, x)' <=> Awaits(c, x))
        BY <1>0, <1>2, <1>3, Zenon DEF LineInv, Fetching, Awaits
      <3>1. CASE c = r
        BY <1>5, <1>9, <2>1, <2>4, <2>7, <3>0, <3>1, Zenon
        DEF AskInv, KeepsResp, ReqTaken
      <3>2. CASE c # r
        BY <1>5, <1>6, <1>9, <1>11, <2>4, <2>7, <3>0, <3>2, Zenon DEF AskInv, KeepsResp, ReqTaken
      <3> QED
        BY <3>1, <3>2, Zenon
    <2>9. ASSUME NEW c \in Caches PROVE ReturnInv(x, c)'
      BY <1>0, <1>2, <1>3, <1>5, <1>6, <1>11, <2>1, <2>2, <2>4, Zenon
      DEF LineInv, ReturnInv, TakenBack, Awaits, KeepsReqs, ReqTaken
    <2> QED
      BY <2>3, <2>6, <2>8, <2>9, Zenon DEF LineInv
  <1> QED
    BY <1>3, <1>4, <1>5, <1>8, <1>9, <1>10, <1>12, DirectoryStep, Zenon

(* The directory takes the line back from its owner. *)
LEMMA PUTXInv ==
    ASSUME IInv, NEW m \in reqs, PUTX(m)
    PROVE  IInv'
  <1>1. PICK x \in Addrs, r \in Caches : x = m.addr /\ r = m.from /\ m.type = "PUTX"
    BY Zenon DEF IInv, ReqInv, PUTX
  <1>0. LineInv(x)
    BY Zenon DEF IInv
  <1>2. /\ GivenOut(x) /\ r \in owner[x]
        /\ \E s \in {"MI", "M_DRDI", "M_DWRI"} : dstate' = [dstate EXCEPT ![x] = s]
        /\ \E b, n : memOp' = [memOp EXCEPT ![x] = MemoryOp({r}, b, n)]
        /\ owner' = [owner EXCEPT ![x] = {}]
    BY <1>1, Zenon DEF PUTX, queueMemoryWrite, queueMemoryWritePartial, GivenOut
  <1>3. reqs' = reqs \ {m} /\ UNCHANGED <<cacheVars, cstate, fwd, resp, dmaReqs>>
    BY <1>1, Zenon DEF PUTX, cacheVars
  <1>4. DirTypes'
    BY <1>2, <1>3, ZenonT(40) DEF IInv, DirTypes, DirStates
  <1>5. ReqInv' /\ ReqTaken(r, x, "PUTX") /\ \A a \in Addrs \ {x} : KeepsReqs(a)
    BY <1>1, <1>3, TakeRequest, Zenon DEF IInv
  <1>6. FwdInv' /\ RespInv' /\ \A a \in Addrs : KeepsFwd(a) /\ KeepsResp(a)
    BY <1>3, NoFwd, NoResponse, Zenon DEF IInv
  <1>7. \A a \in Addrs \ {x} : SameLine(a)
    BY <1>2, <1>3, <1>5, <1>6, Zenon DEF IInv, DirTypes, SameLine
  <1>8. /\ dstate'[x] \in {"MI", "M_DRDI", "M_DWRI"} /\ owner'[x] = {}
        /\ memOp'[x].for = {r}
    BY <1>2 DEF IInv, DirTypes, MemoryOp
  <1>9. LineInv(x)'
    <2>1. /\ Offered(r, x) /\ cstate[r][x] = "MI" /\ ~Told(r, x) /\ ~Ack(r, x) /\ ~Nack(r, x)
          /\ \A c \in Caches : c \in owner[x] => c = r
      <3>1. Offered(r, x)
        BY <1>1, Zenon DEF Offered
      <3> QED
        BY <1>0, <1>2, <3>1 DEF LineInv, OwnerInv, ReturnInv, Awaits
    <2>2. \A c \in Caches : c \notin memOp[x].for
      BY <1>0, <1>2, Zenon DEF LineInv, MemInv, GivenOut
    <2>3. MemInv(x)' /\ OwnerInv(x)' /\ ~GivenOut(x)'
      BY <1>8, Zenon DEF MemInv, OwnerInv, GivenOut
    <2>4. /\ Holds(r, x)
          /\ \A c \in Caches : Holds(c, x)' <=> Holds(c, x) /\ c # r
      BY <1>3, <1>6, <1>8, <2>1, <2>2, Zenon DEF Holds, WrittenBack, Ack, KeepsFwd
    <2>5. TokenInv(x)'
      BY <1>0, <1>6, <2>3, <2>4, Zenon DEF LineInv, TokenInv, KeepsResp
    <2>6. ASSUME NEW c \in Caches PROVE AskInv(x, c)'
      BY <1>0, <1>3, <1>5, <1>6, <1>8, Zenon
      DEF LineInv, AskInv, Fetching, Awaits, KeepsFwd, KeepsReqs, KeepsResp, ReqTaken
    <2>7. ASSUME NEW c \in Caches PROVE ReturnInv(x, c)'
      BY <1>0, <1>3, <1>5, <1>6, <1>8, <2>1, <2>2, Zenon
      DEF LineInv, ReturnInv, TakenBack, Awaits, KeepsFwd, KeepsReqs, ReqTaken
    <2> QED
      BY <2>3, <2>5, <2>6, <2>7, Zenon DEF LineInv
  <1> QED
    BY <1>3, <1>4, <1>5, <1>6, <1>7, <1>9, DirectoryStep, Zenon

(* The directory refuses a line from a cache that is not its owner. *)
LEMMA PUTX_NotOwnerInv ==
    ASSUME IInv, NEW m \in reqs, PUTX_NotOwner(m)
    PROVE  IInv'
  <1>1. PICK x \in Addrs, r \in Caches : x = m.addr /\ r = m.from /\ m.type = "PUTX"
    BY Zenon DEF IInv, ReqInv, PUTX_NotOwner
  <1>0. LineInv(x)
    BY Zenon DEF IInv
  <1>2. r \notin owner[x] /\ Send(x, r, ForwardMsg("WB_NACK", x, r))
    BY <1>1, Zenon DEF PUTX_NotOwner
  <1>3. reqs' = reqs \ {m} /\ UNCHANGED <<cacheVars, cstate, resp, dstate, owner, memOp, dmaReqs>>
    BY <1>1, Zenon DEF PUTX_NotOwner, cacheVars, dirVars, dmaVars
  <1>4. DirTypes'
    BY <1>3, Zenon DEF IInv, DirTypes
  <1>5. ReqInv' /\ ReqTaken(r, x, "PUTX") /\ \A a \in Addrs \ {x} : KeepsReqs(a)
    BY <1>1, <1>3, TakeRequest, Zenon DEF IInv
  <1>6. Offered(r, x)
    BY <1>1, Zenon DEF Offered
  <1>7. ~Nack(r, x)
    BY <1>0, <1>6, Zenon DEF LineInv, ReturnInv
  <1>8. FwdInv' /\ FwdSent(r, x, "WB_NACK", r) /\ \A a \in Addrs \ {x} : KeepsFwd(a)
    BY <1>2, <1>7, SendEffect, Zenon DEF IInv, Nack
  <1>9. RespInv' /\ \A a \in Addrs : KeepsResp(a)
    BY <1>3, NoResponse, Zenon DEF IInv
  <1>10. \A a \in Addrs \ {x} : SameLine(a)
    BY <1>3, <1>5, <1>8, <1>9, Zenon DEF SameLine
  <1>11. LineInv(x)'
    <2>1. MemInv(x)' /\ OwnerInv(x)'
      BY <1>0, <1>3, Zenon DEF LineInv, MemInv, OwnerInv, GivenOut
    <2>2. \A c \in Caches : /\ Told(c, x)' <=> Told(c, x)
                            /\ Ack(c, x)' <=> Ack(c, x)
                            /\ Nack(c, x)' <=> Nack(c, x) \/ c = r
      BY <1>8, Zenon DEF FwdSent
    <2>3. /\ \A c \in Caches : Holds(c, x)' <=> Holds(c, x)
          /\ GivenOut(x)' <=> GivenOut(x)
      BY <1>3, <2>2, Zenon DEF Holds, WrittenBack, GivenOut, Ack
    <2>4. TokenInv(x)'
      BY <1>0, <1>9, <2>3, Zenon DEF LineInv, TokenInv, KeepsResp
    <2>5. ASSUME NEW c \in Caches PROVE AskInv(x, c)'
      BY <1>0, <1>3, <1>5, <1>8, <1>9, <2>2, Zenon
      DEF LineInv, AskInv, Fetching, Awaits, KeepsFwd, KeepsReqs, KeepsResp, FwdSent, ReqTaken
    <2>6. ASSUME NEW c \in Caches PROVE ReturnInv(x, c)'
      BY <1>0, <1>2, <1>3, <1>5, <1>6, <2>2, Zenon
      DEF LineInv, ReturnInv, TakenBack, Awaits, KeepsReqs, ReqTaken
    <2> QED
      BY <2>1, <2>4, <2>5, <2>6, Zenon DEF LineInv
  <1> QED
    BY <1>3, <1>4, <1>5, <1>8, <1>9, <1>10, <1>11, DirectoryStep, Zenon

-----------------------------------------------------------------------------
(* The directories, DMA requests and the answers of memory.                *)

(* The directory takes a DMA request for a line it has. *)
LEMMA DMA_MemoryInv ==
    ASSUME IInv, NEW m \in dmaReqs, DMA_Request(m), dstate[m.addr] = "I"
    PROVE  IInv'
  <1>1. PICK x \in Addrs, r \in DMAs : x = m.addr /\ r = m.from
    BY Zenon DEF IInv, DirTypes
  <1>0. LineInv(x)
    BY Zenon DEF IInv
  <1>2. /\ dstate[x] = "I" /\ UNCHANGED fwd
        /\ \E s \in {"ID", "ID_W"} : dstate' = [dstate EXCEPT ![x] = s]
        /\ \E b, n : memOp' = [memOp EXCEPT ![x] = MemoryOp({r}, b, n)]
    BY <1>1, Zenon DEF DMA_Request, queueMemoryRead, queueMemoryWritePartial
  <1>3. UNCHANGED <<cacheVars, cstate, resp, reqs, owner>> /\ dmaReqs' = dmaReqs \ {m}
    BY Zenon DEF DMA_Request, cacheVars
  <1>4. DirTypes'
    <2>1. dstate' \in [Addrs -> DirStates]
      BY <1>2, Zenon DEF IInv, DirTypes, DirStates
    <2>2. memOp' = [a \in Addrs |-> memOp'[a]]
      BY <1>2, Zenon DEF IInv, DirTypes
    <2> QED
      BY <1>3, <2>1, <2>2, Zenon DEF IInv, DirTypes
  <1>5. /\ FwdInv' /\ ReqInv' /\ RespInv'
        /\ \A a \in Addrs : KeepsFwd(a) /\ KeepsReqs(a) /\ KeepsResp(a)
    BY <1>2, <1>3, NoFwd, NoRequest, NoResponse, Zenon DEF IInv
  <1>6. \A a \in Addrs \ {x} : SameLine(a)
    BY <1>2, <1>3, <1>5, Zenon DEF IInv, DirTypes, SameLine
  <1>7. dstate'[x] \in {"ID", "ID_W"} /\ memOp'[x].for = {r} /\ owner'[x] = owner[x]
    BY <1>2, <1>3 DEF IInv, DirTypes, MemoryOp
  <1>8. LineInv(x)'
    <2>0. dstate[x] = "I"
      BY <1>2, Zenon
    <2>1. \A c \in Caches : c \notin memOp[x].for /\ c \notin memOp'[x].for
      BY <1>0, <1>1, <1>7, <2>0, MIAssumption, Zenon DEF LineInv, MemInv
    <2>2. MemInv(x)' /\ OwnerInv(x)'
      BY <1>0, <1>7, <2>0, <2>1, Zenon DEF LineInv, MemInv, OwnerInv, GivenOut
    <2>3. /\ \A c \in Caches : Holds(c, x)' <=> Holds(c, x)
          /\ GivenOut(x)' <=> GivenOut(x)
      BY <1>3, <1>5, <1>7, <2>0, <2>1, Zenon DEF Holds, WrittenBack, GivenOut, KeepsFwd, Ack
    <2>4. TokenInv(x)'
      BY <1>0, <1>5, <2>3, Zenon DEF LineInv, TokenInv, KeepsResp
    <2>5. ASSUME NEW c \in Caches PROVE AskInv(x, c)'
      BY <1>0, <1>3, <1>5, <1>7, <2>1, Zenon
      DEF LineInv, AskInv, Fetching, Awaits, KeepsFwd, KeepsReqs, KeepsResp
    <2>6. ASSUME NEW c \in Caches PROVE ReturnInv(x, c)'
      BY <1>0, <1>3, <1>5, <1>7, <2>1, Zenon
      DEF LineInv, ReturnInv, TakenBack, Awaits, KeepsFwd, KeepsReqs
    <2> QED
      BY <2>2, <2>4, <2>5, <2>6, Zenon DEF LineInv
  <1> QED
    BY <1>3, <1>4, <1>5, <1>6, <1>8, DirectoryStep, Zenon

(* The directory takes a DMA request for a line it has given out. *)
LEMMA DMA_InvalidateInv ==
    ASSUME IInv, NEW m \in dmaReqs, DMA_Request(m), dstate[m.addr] # "I"
    PROVE  IInv'
  <1>1. PICK x \in Addrs : x = m.addr
    BY Zenon DEF IInv, DirTypes
  <1>0. LineInv(x)
    BY Zenon DEF IInv
  <1>2. /\ dstate[x] = "M" /\ UNCHANGED memOp
        /\ \E s \in {"M_DRD", "M_DWR"} : dstate' = [dstate EXCEPT ![x] = s]
        /\ \E o \in owner[x] : Send(x, o, ForwardMsg("INV", x, o))
    BY <1>1, Zenon DEF DMA_Request
  <1>3. UNCHANGED <<cacheVars, cstate, resp, reqs, owner>> /\ dmaReqs' = dmaReqs \ {m}
    BY Zenon DEF DMA_Request, cacheVars
  <1>4. DirTypes'
    BY <1>2, <1>3, Zenon DEF IInv, DirTypes, DirStates
  <1>5. PICK o \in Caches : Send(x, o, ForwardMsg("INV", x, o))
    BY <1>2, Zenon DEF IInv, DirTypes
  <1>6. FwdInv' /\ FwdSent(o, x, "INV", o) /\ \A a \in Addrs \ {x} : KeepsFwd(a)
    BY <1>5, SendEffect, Zenon DEF IInv
  <1>7. ReqInv' /\ RespInv' /\ \A a \in Addrs : KeepsReqs(a) /\ KeepsResp(a)
    BY <1>3, NoRequest, NoResponse, Zenon DEF IInv
  <1>8. \A a \in Addrs \ {x} : SameLine(a)
    BY <1>2, <1>3, <1>6, <1>7, Zenon DEF IInv, DirTypes, SameLine
  <1>9. dstate'[x] \in {"M_DRD", "M_DWR"}
    BY <1>2, Zenon DEF IInv, DirTypes
  <1>10. LineInv(x)'
    <2>1. MemInv(x)' /\ OwnerInv(x)'
      BY <1>0, <1>2, <1>3, <1>9, Zenon DEF LineInv, MemInv, OwnerInv, GivenOut
    <2>2. \A c \in Caches : /\ Told(c, x)' <=> Told(c, x)
                            /\ Ack(c, x)' <=> Ack(c, x)
                            /\ Nack(c, x)' <=> Nack(c, x)
      BY <1>6, Zenon DEF FwdSent
    <2>3. /\ \A c \in Caches : Holds(c, x)' <=> Holds(c, x)
          /\ GivenOut(x)' <=> GivenOut(x)
      BY <1>2, <1>3, <1>9, <2>2, Zenon DEF Holds, WrittenBack, GivenOut, Ack
    <2>4. TokenInv(x)'
      BY <1>0, <1>7, <2>3, Zenon DEF LineInv, TokenInv, KeepsResp
    <2>5. ASSUME NEW c \in Caches PROVE AskInv(x, c)'
      BY <1>0, <1>2, <1>3, <1>6, <1>7, <1>9, <2>2, ZenonT(40)
      DEF LineInv, AskInv, Fetching, Awaits, KeepsFwd, KeepsReqs, KeepsResp, FwdSent
    <2>6. ASSUME NEW c \in Caches PROVE ReturnInv(x, c)'
      BY <1>0, <1>2, <1>3, <1>7, <1>9, <2>2, Zenon
      DEF LineInv, ReturnInv, TakenBack, Awaits, KeepsReqs
    <2> QED
      BY <2>1, <2>4, <2>5, <2>6, Zenon DEF LineInv
  <1> QED
    BY <1>3, <1>4, <1>6, <1>7, <1>8, <1>10, DirectoryStep, Zenon

(* Memory has read a line: for a cache it is given out, for a DMA          *)
(* controller it is not.                                                   *)
LEMMA Memory_DataInv ==
    ASSUME IInv, NEW x \in Addrs, Memory_Data(x)
    PROVE  IInv'
  <1>0. LineInv(x)
    BY Zenon DEF IInv
  <1>1. /\ memOp' = [memOp EXCEPT ![x] = NoOp]
        /\ UNCHANGED <<cacheVars, cstate, fwd, reqs, owner, dmaReqs>>
    BY Zenon DEF Memory_Data, memoryDone, cacheVars
  <1>2. \/ /\ dstate[x] = "IM" /\ dstate' = [dstate EXCEPT ![x] = "M"]
           /\ resp' = resp \cup {ResponseMsg(x, p, mem[x]) : p \in memOp[x].for}
        \/ /\ dstate[x] = "ID" /\ dstate' = [dstate EXCEPT ![x] = "I"]
           /\ UNCHANGED resp
    BY Zenon DEF Memory_Data, memoryDone
  <1>3. DirTypes'
    <2>1. dstate' \in [Addrs -> DirStates]
      BY <1>2, Zenon DEF IInv, DirTypes, DirStates
    <2>2. memOp' = [a \in Addrs |-> memOp'[a]]
      BY <1>1, Zenon DEF IInv, DirTypes
    <2> QED
      BY <1>1, <2>1, <2>2, Zenon DEF IInv, DirTypes
  <1>4. FwdInv' /\ ReqInv' /\ \A a \in Addrs : KeepsFwd(a) /\ KeepsReqs(a)
    BY <1>1, NoFwd, NoRequest, Zenon DEF IInv
  <1>5. memOp'[x].for = {} /\ owner'[x] = owner[x]
    BY <1>1, Zenon DEF IInv, DirTypes, NoOp, MemoryOp
  <1>6. CASE dstate[x] = "IM"
    <2>1. dstate' = [dstate EXCEPT ![x] = "M"] /\ dstate'[x] = "M"
      BY <1>2, <1>6, Zenon DEF IInv, DirTypes
    <2>2. PICK r \in Caches : memOp[x].for = {r} /\ owner[x] = {r}
      BY <1>0, <1>6, Zenon DEF LineInv, MemInv, OwnerInv
    <2>3. \A c \in Caches : ~Sent(c, x) /\ ~Holds(c, x)
      BY <1>0, <1>6, Zenon DEF LineInv, TokenInv, GivenOut
    <2>4. RespInv' /\ RespSent(r, x) /\ \A a \in Addrs \ {x} : KeepsResp(a)
      <3>1. resp' = resp \cup {ResponseMsg(x, r, mem[x])}
        BY <1>2, <1>6, <2>2, Zenon
      <3>2. RespInv
        BY Zenon DEF IInv
      <3> QED
        BY <2>3, <3>1, <3>2, SendResponse, Zenon
    <2>5. \A a \in Addrs \ {x} : SameLine(a)
      BY <1>1, <1>4, <2>1, <2>4, Zenon DEF IInv, DirTypes, SameLine
    <2>6. LineInv(x)'
      <3>1. MemInv(x)' /\ OwnerInv(x)' /\ GivenOut(x)'
        BY <1>5, <2>1, <2>2, Zenon DEF MemInv, OwnerInv, GivenOut
      <3>2. Fetching(r, x) /\ Awaits(r, x)
        BY <1>0, <1>6, <2>2, Zenon DEF LineInv, AskInv, Fetching
      <3>3. \A c \in Caches : ~Holds(c, x)'
        BY <1>1, <1>4, <2>2, <2>3, <3>2, Zenon DEF Holds, WrittenBack, Awaits, KeepsFwd, Ack
      <3>4. TokenInv(x)'
        BY <2>3, <2>4, <3>1, <3>3, Zenon DEF TokenInv, KeepsResp, RespSent
      <3>5. ASSUME NEW c \in Caches PROVE AskInv(x, c)'
        BY <1>0, <1>1, <1>4, <1>5, <2>1, <2>4, <3>2
        DEF LineInv, AskInv, Fetching, Awaits, KeepsFwd, KeepsReqs, KeepsResp, RespSent
      <3>6. ASSUME NEW c \in Caches PROVE ReturnInv(x, c)'
        BY <1>0, <1>1, <1>4, <1>5, <1>6, <2>1, Zenon
        DEF LineInv, ReturnInv, TakenBack, Awaits, KeepsFwd, KeepsReqs
      <3> QED
        BY <3>1, <3>4, <3>5, <3>6, Zenon DEF LineInv
    <2> QED
      BY <1>1, <1>3, <1>4, <2>4, <2>5, <2>6, DirectoryStep, Zenon
  <1>7. CASE dstate[x] = "ID"
    <2>1. dstate' = [dstate EXCEPT ![x] = "I"] /\ dstate'[x] = "I" /\ UNCHANGED resp
      BY <1>2, <1>7, Zenon DEF IInv, DirTypes
    <2>2. \A c \in Caches : c \notin memOp[x].for
      BY <1>0, <1>7, Zenon DEF LineInv, MemInv
    <2>3. RespInv' /\ \A a \in Addrs : KeepsResp(a)
      BY <2>1, NoResponse, Zenon DEF IInv
    <2>4. \A a \in Addrs \ {x} : SameLine(a)
      BY <1>1, <1>4, <2>1, <2>3, Zenon DEF IInv, DirTypes, SameLine
    <2>5. LineInv(x)'
      <3>1. MemInv(x)' /\ OwnerInv(x)'
        BY <1>0, <1>5, <1>7, <2>1, Zenon DEF LineInv, MemInv, OwnerInv, GivenOut
      <3>2. /\ \A c \in Caches : Holds(c, x)' <=> Holds(c, x)
            /\ GivenOut(x)' <=> GivenOut(x)
        BY <1>1, <1>4, <1>5, <1>7, <2>1, <2>2, Zenon
        DEF Holds, WrittenBack, GivenOut, KeepsFwd, Ack
      <3>3. TokenInv(x)'
        BY <1>0, <2>3, <3>2, Zenon DEF LineInv, TokenInv, KeepsResp
      <3>4. ASSUME NEW c \in Caches PROVE AskInv(x, c)'
        BY <1>0, <1>1, <1>4, <1>5, <2>1, <2>3, Zenon
        DEF LineInv, AskInv, Fetching, Awaits, KeepsFwd, KeepsReqs, KeepsResp
      <3>5. ASSUME NEW c \in Caches PROVE ReturnInv(x, c)'
        BY <1>0, <1>1, <1>4, <1>5, <1>7, <2>1, Zenon
        DEF LineInv, ReturnInv, TakenBack, Awaits, KeepsFwd, KeepsReqs
      <3> QED
        BY <3>1, <3>3, <3>4, <3>5, Zenon DEF LineInv
    <2> QED
      BY <1>1, <1>3, <1>4, <2>3, <2>4, <2>5, DirectoryStep, Zenon
  <1> QED
    BY <1>2, <1>6, <1>7, Zenon

(* Memory has written a line: a cache that gave it back is told so. *)
LEMMA Memory_AckInv ==
    ASSUME IInv, NEW x \in Addrs, Memory_Ack(x)
    PROVE  IInv'
  <1>0. LineInv(x)
    BY Zenon DEF IInv
  <1>1. /\ dstate[x] \in {"MI", "M_DRDI", "M_DWRI", "ID_W"}
        /\ dstate' = [dstate EXCEPT ![x] = "I"] /\ memOp' = [memOp EXCEPT ![x] = NoOp]
        /\ UNCHANGED <<cacheVars, cstate, resp, reqs, owner, dmaReqs>>
        /\ IF dstate[x] = "ID_W"
           THEN UNCHANGED fwd
           ELSE \E c \in memOp[x].for : Send(x, c, ForwardMsg("WB_ACK", x, c))
    BY Zenon DEF Memory_Ack, memoryDone, cacheVars
  <1>2. DirTypes'
    <2>1. dstate' \in [Addrs -> DirStates]
      BY <1>1, Zenon DEF IInv, DirTypes, DirStates
    <2>2. memOp' = [a \in Addrs |-> memOp'[a]]
      BY <1>1, Zenon DEF IInv, DirTypes
    <2> QED
      BY <1>1, <2>1, <2>2, Zenon DEF IInv, DirTypes
  <1>3. ReqInv' /\ RespInv' /\ \A a \in Addrs : KeepsReqs(a) /\ KeepsResp(a)
    BY <1>1, NoRequest, NoResponse, Zenon DEF IInv
  <1>4. dstate'[x] = "I" /\ memOp'[x].for = {} /\ owner'[x] = {} /\ owner[x] = {}
    BY <1>0, <1>1, Zenon DEF IInv, DirTypes, LineInv, OwnerInv, GivenOut, NoOp, MemoryOp
  <1>5. MemInv(x)' /\ OwnerInv(x)' /\ ~GivenOut(x)' /\ ~GivenOut(x)
    BY <1>1, <1>4, Zenon DEF MemInv, OwnerInv, GivenOut
  <1>6. CASE dstate[x] = "ID_W"
    <2>1. FwdInv' /\ \A a \in Addrs : KeepsFwd(a)
      BY <1>1, <1>6, NoFwd, Zenon DEF IInv
    <2>2. \A c \in Caches : c \notin memOp[x].for
      BY <1>0, <1>6, Zenon DEF LineInv, MemInv
    <2>3. \A a \in Addrs \ {x} : SameLine(a)
      BY <1>1, <1>3, <2>1, Zenon DEF IInv, DirTypes, SameLine
    <2>4. LineInv(x)'
      <3>1. \A c \in Caches : Holds(c, x)' <=> Holds(c, x)
        BY <1>1, <1>4, <2>1, <2>2, Zenon DEF Holds, WrittenBack, KeepsFwd, Ack
      <3>2. TokenInv(x)'
        BY <1>0, <1>3, <1>5, <3>1, Zenon DEF LineInv, TokenInv, KeepsResp
      <3>3. ASSUME NEW c \in Caches PROVE AskInv(x, c)'
        BY <1>0, <1>1, <1>3, <1>4, <2>1, Zenon
        DEF LineInv, AskInv, Fetching, Awaits, KeepsFwd, KeepsReqs, KeepsResp
      <3>4. ASSUME NEW c \in Caches PROVE ReturnInv(x, c)'
        BY <1>0, <1>1, <1>3, <1>4, <2>1, Zenon
        DEF LineInv, ReturnInv, TakenBack, Awaits, KeepsFwd, KeepsReqs
      <3> QED
        BY <1>5, <3>2, <3>3, <3>4, Zenon DEF LineInv
    <2> QED
      BY <1>1, <1>2, <1>3, <2>1, <2>3, <2>4, DirectoryStep, Zenon
  <1>7. CASE dstate[x] # "ID_W"
    <2>1. PICK r \in Caches : memOp[x].for = {r} /\ Send(x, r, ForwardMsg("WB_ACK", x, r))
      BY <1>0, <1>1, <1>7, Zenon DEF LineInv, MemInv
    <2>2. TakenBack(r, x) /\ cstate[r][x] = "MI" /\ ~Ack(r, x)
          /\ ~Nack(r, x) /\ ~Told(r, x) /\ ~Offered(r, x)
      <3>1. TakenBack(r, x)
        BY <1>1, <2>1, Zenon DEF TakenBack
      <3> QED
        BY <1>0, <3>1, Zenon DEF LineInv, ReturnInv
    <2>3. FwdInv' /\ FwdSent(r, x, "WB_ACK", r) /\ \A a \in Addrs \ {x} : KeepsFwd(a)
      BY <2>1, <2>2, SendEffect, Zenon DEF IInv, Ack
    <2>4. \A a \in Addrs \ {x} : SameLine(a)
      BY <1>1, <1>3, <2>3, Zenon DEF IInv, DirTypes, SameLine
    <2>5. LineInv(x)'
      <3>1. \A c \in Caches : /\ Told(c, x)' <=> Told(c, x)
                              /\ Ack(c, x)' <=> Ack(c, x) \/ c = r
                              /\ Nack(c, x)' <=> Nack(c, x)
        BY <2>3, Zenon DEF FwdSent
      <3>2. \A c \in Caches : Holds(c, x)' <=> Holds(c, x)
        BY <1>1, <1>4, <2>1, <3>1, Zenon DEF Holds, WrittenBack, Ack
      <3>3. TokenInv(x)'
        BY <1>0, <1>3, <1>5, <3>2, Zenon DEF LineInv, TokenInv, KeepsResp
      <3>4. ASSUME NEW c \in Caches PROVE AskInv(x, c)'
        BY <1>0, <1>1, <1>3, <1>4, <2>3, <3>1, Zenon
        DEF LineInv, AskInv, Fetching, Awaits, KeepsFwd, KeepsReqs, KeepsResp, FwdSent
      <3>5. ASSUME NEW c \in Caches PROVE ReturnInv(x, c)'
        BY <1>0, <1>1, <1>3, <1>4, <2>1, <2>2, <3>1, Zenon
        DEF LineInv, ReturnInv, TakenBack, Awaits, KeepsReqs
      <3> QED
        BY <1>5, <3>3, <3>4, <3>5, Zenon DEF LineInv
    <2> QED
      BY <1>1, <1>2, <1>3, <2>3, <2>4, <2>5, DirectoryStep, Zenon
  <1> QED
    BY <1>6, <1>7, Zenon

-----------------------------------------------------------------------------
(* A step that is not about where lines are. *)
LEMMA QuietStep ==
    ASSUME IInv, UNCHANGED <<cstate, fwd, resp, reqs, dstate, owner, memOp>>, CacheTypes',
           \A m \in dmaReqs' : m.addr \in Addrs /\ m.from \in DMAs
    PROVE  IInv'
  <1>1. DirTypes'
    BY Zenon DEF IInv, DirTypes
  <1>2. /\ FwdInv' /\ ReqInv' /\ RespInv'
        /\ \A a \in Addrs : KeepsFwd(a) /\ KeepsReqs(a) /\ KeepsResp(a)
    BY NoFwd, NoRequest, NoResponse, Zenon DEF IInv
  <1>3. ASSUME NEW a \in Addrs PROVE LineInv(a)'
    BY <1>2, OtherLine, Zenon DEF IInv, SameLine
  <1> QED
    BY <1>1, <1>2, <1>3, Zenon DEF IInv

(* All controllers start in I, with nothing under way. *)
LEMMA InitIInv == Init => IInv
  <1> SUFFICES ASSUME Init PROVE IInv
    OBVIOUS
  <1>1. CacheTypes /\ DirTypes
    BY DEF Init, CacheTypes, DirTypes, CacheStates, DirStates
  <1>2. ReqInv /\ RespInv /\ \A c, a : ~Asked(c, a) /\ ~Offered(c, a) /\ ~Sent(c, a)
    BY Zenon DEF Init, ReqInv, RespInv, Asked, Offered, Sent
  <1>3. \A c \in Caches, d \in Dirs : fwd[c][d] = << >>
    BY Zenon DEF Init
  <1>4. /\ FwdInv
        /\ \A c \in Caches, a \in Addrs, t \in {"GETX", "WB_ACK", "WB_NACK"} : ~Pending(c, a, t)
        /\ \A c, p \in Caches, a \in Addrs : ~Promised(c, p, a)
    <2>1. fwd \in [Caches -> [Dirs -> Seq(ForwardMsgs)]]
      BY DEF Init
    <2>2. \A a \in Addrs : Home[a] \in Dirs
      BY MIAssumption, Zenon
    <2> QED
      BY <1>3, <2>1, <2>2 DEF FwdInv, Once, Pending, Promised
  <1>5. ASSUME NEW a \in Addrs PROVE LineInv(a)
    <2>1. /\ dstate[a] = "I" /\ owner[a] = {} /\ memOp[a].for = {}
          /\ \A c \in Caches : cstate[c][a] = "I"
      BY Zenon DEF Init, NoOp, MemoryOp
    <2>2. MemInv(a) /\ OwnerInv(a) /\ TokenInv(a)
      BY <1>2, <2>1, Zenon DEF MemInv, OwnerInv, TokenInv, GivenOut, Holds
    <2>3. ASSUME NEW c \in Caches PROVE AskInv(a, c) /\ ReturnInv(a, c)
      BY <1>2, <1>4, <2>1, Zenon
      DEF AskInv, ReturnInv, Fetching, TakenBack, Awaits, Told, Ack, Nack
    <2> QED
      BY <2>2, <2>3, Zenon DEF LineInv
  <1> QED
    BY <1>1, <1>2, <1>4, <1>5, Zenon DEF IInv

(* Every transition of the three controllers, and every request, keeps it. *)
LEMMA NextIInv == IInv /\ [Next]_vars => IInv'
  <1> SUFFICES ASSUME IInv, [Next]_vars PROVE IInv'
    OBVIOUS
  <1>1. ASSUME NEW c \in Caches, NEW a \in Addrs, makeRequest(c, a) PROVE IInv'
    <2>1. UNCHANGED <<cstate, entries, fwd, resp, reqs, dstate, owner, memOp, dmaReqs>>
      BY <1>1, Zenon DEF makeRequest, dirVars, dmaVars
    <2>2. CacheTypes'
      BY <1>1, <2>1 DEF makeRequest, IInv, CacheTypes
    <2> QED
      BY <2>1, <2>2, QuietStep, Zenon DEF IInv, DirTypes
  <1>2. ASSUME NEW c \in Caches, Replacement(c) PROVE IInv'
    <2>1. PICK a \in Addrs : writeBack(c, a) \/ dropEntry(c, a)
      BY <1>2, Zenon DEF Replacement, IInv, CacheTypes
    <2>2. CASE dropEntry(c, a)
      <3>1. UNCHANGED <<cstate, mq, fwd, resp, reqs, dstate, owner, memOp, dmaReqs>>
        BY <2>2, Zenon DEF dropEntry, dirVars, dmaVars
      <3>2. CacheTypes'
        BY <2>2, <3>1, Zenon DEF dropEntry, IInv, CacheTypes
      <3> QED
        BY <3>1, <3>2, QuietStep, Zenon DEF IInv, DirTypes
    <2> QED
      BY <2>1, <2>2, WriteBackInv, Zenon
  <1>3. ASSUME NEW d \in DMAs, NEW a \in Addrs, DmaRequest(d, a) PROVE IInv'
    <2>1. UNCHANGED <<cstate, mq, entries, fwd, resp, reqs, dstate, owner, memOp>>
      BY <1>3, Zenon DEF DmaRequest, cacheVars, dirVars
    <2>2. CacheTypes'
      BY <2>1, Zenon DEF IInv, CacheTypes
    <2>3. \A m \in dmaReqs' : m.addr \in Addrs /\ m.from \in DMAs
      BY <1>3 DEF DmaRequest, IInv, DirTypes
    <2> QED
      BY <2>1, <2>2, <2>3, QuietStep, Zenon
  <1>4. ASSUME NEW c \in Caches, Hit(c) PROVE IInv'
    <2>1. UNCHANGED <<cstate, entries, fwd, resp, reqs, dstate, owner, memOp, dmaReqs>>
      BY <1>4, Zenon DEF Hit, dirVars, dmaVars
    <2>2. CacheTypes'
      BY <1>4, <2>1 DEF Hit, Roomy, IInv, CacheTypes
    <2> QED
      BY <2>1, <2>2, QuietStep, Zenon DEF IInv, DirTypes
  <1>5. ASSUME NEW c \in Caches, NEW d \in Dirs, StallForward(c, d) PROVE IInv'
    <2>1. UNCHANGED <<cstate, mq, entries, fwd, resp, reqs, dstate, owner, memOp, dmaReqs>>
      BY <1>5, Zenon DEF StallForward, dirVars, dmaVars
    <2> QED
      BY <2>1, QuietStep, Zenon DEF IInv, CacheTypes, DirTypes
  <1>6. ASSUME NEW c \in Caches, NEW d \in Dirs, Inv(c, d) PROVE IInv'
    <2>1. Head(fwd[c][d]).addr \in Addrs
      <3>1. fwd[c][d] \in Seq(ForwardMsgs) /\ fwd[c][d] # << >>
        BY <1>6 DEF Inv, Forwarded, IInv, FwdInv
      <3>2. Head(fwd[c][d]) \in ForwardMsgs
        BY <3>1
      <3> QED
        BY <3>2, Zenon DEF ForwardMsgs
    <2>2. PICK a \in Addrs : writeBack(c, a)
      BY <1>6, <2>1, Zenon DEF Inv
    <2> QED
      BY <2>2, WriteBackInv, Zenon
  <1>7. ASSUME NEW c \in Caches, CacheStep(c) PROVE IInv'
    BY <1>4, <1>5, <1>6, <1>7, MissInv, DataInv, IgnoreInvInv, Fwd_GETXInv, Writeback_AckInv,
       Writeback_NackInv DEF CacheStep
  <1>8. ASSUME DirStep PROVE IInv'
    BY <1>8, GETXFetchInv, GETXForwardInv, PUTXInv, PUTX_NotOwnerInv, DMA_MemoryInv,
       DMA_InvalidateInv, Memory_DataInv, Memory_AckInv DEF DirStep
  <1>9. ASSUME NEW d \in DMAs, DmaAnswer(d) PROVE IInv'
    <2>1. UNCHANGED <<cstate, mq, entries, fwd, resp, reqs, dstate, owner, memOp, dmaReqs>>
      BY <1>9, Zenon DEF DmaAnswer, cacheVars, dirVars
    <2> QED
      BY <2>1, QuietStep, Zenon DEF IInv, CacheTypes, DirTypes
  <1>10. ASSUME InvalidTransition \/ UNCHANGED vars PROVE IInv'
    <2>1. UNCHANGED <<cstate, mq, entries, fwd, resp, reqs, dstate, owner, memOp, dmaReqs>>
      BY <1>10, Zenon DEF InvalidTransition, vars, cacheVars, dirVars, dmaVars
    <2> QED
      BY <2>1, QuietStep, Zenon DEF IInv, CacheTypes, DirTypes
  <1>11. CASE Issue
    BY <1>1, <1>2, <1>3, <1>11, Zenon DEF Issue, CacheRequest
  <1>12. CASE Step
    BY <1>7, <1>8, <1>9, <1>12, Zenon DEF Step
  <1> QED
    BY <1>10, <1>11, <1>12, Zenon DEF Next

(* So it holds throughout. *)
LEMMA Inductive == Spec => []IInv
  BY InitIInv, NextIInv, PTL DEF Spec

-----------------------------------------------------------------------------
(* What the tables, blocks and requests hold.                              *)

\* A DMA request is on its way to the directory, at it, or answered.
InReq(d, a) == \E m \in dmaReqs : m.from = d /\ m.addr = a
InDir(d, a) == d \in dmaFor[a] /\ dstate[a] \in {"ID", "ID_W", "M_DRD", "M_DWR", "M_DWRI"}
InResp(d, a) == \E m \in dmaResp : m.to = d /\ m.addr = a

Distinct(q) == \A i, j \in DOMAIN q : q[i] = q[j] => i = j

TableDom == table = [p \in Caches \cup DMAs |-> [a \in Addrs |-> table[p][a]]]

\* A cache has each of its requests once in its queue, or waits for the line.
TableInv ==
    /\ TableDom
    /\ \A p \in Caches \cup DMAs, a \in Addrs : Waiting(p, a) => table[p][a] \in OpsOf[p]
    /\ \A c \in Caches : Distinct(mq[c])
    /\ \A c \in Caches : \A i \in DOMAIN mq[c] :
        Waiting(c, mq[c][i]) /\ ~Awaits(c, mq[c][i])
    /\ \A c \in Caches, a \in Addrs : Awaits(c, a) => Waiting(c, a)

\* Who has a block; a PUTX carries the block its cache still has.
BlockInv ==
    /\ data \in [Caches -> [Addrs -> Block \cup {NoData}]]
    /\ \A c \in Caches, a \in Addrs :
        cstate[c][a] \in {"M", "MI", "MII"} => data[c][a] \in Block
    /\ resp \subseteq [addr : Addrs, to : Caches, data : Block]
    /\ reqs \subseteq [type : {"GETX", "PUTX"}, addr : Addrs, from : Caches,
                       data : Block \cup {NoData}]
    /\ \A m \in reqs : m.type = "PUTX" /\ cstate[m.from][m.addr] = "MI"
                            => m.data = data[m.from][m.addr]

\* What memory is to do for a line.
OpInv(a) ==
    /\ dstate[a] \in {"I", "M", "M_DRD", "M_DWR"} => memOp[a] = NoOp
    /\ dstate[a] \in {"IM", "ID"} => memOp[a].len = 0
    /\ dstate[a] \in {"MI", "M_DRDI", "ID_W", "M_DWRI"} =>
        memOp[a].data \in Block /\ memOp[a].len \in 0 .. LineSize

StoreInv == mem \in [Addrs -> Block] /\ \A a \in Addrs : OpInv(a)

DmaTypes ==
    /\ dma \in [DMAs -> [Addrs -> {"READY", "BUSY_RD", "BUSY_WR"}]]
    /\ dmaReqs \subseteq [addr : Addrs, from : DMAs]
    /\ dmaResp \subseteq [addr : Addrs, to : DMAs, data : Block \cup {NoData}]
    /\ dmaFor \in [Addrs -> SUBSET DMAs]

\* Whom the directory is busy for.
ForInv(a) ==
    /\ dstate[a] \in {"I", "M", "IM", "MI"} => dmaFor[a] = {}
    /\ dstate[a] \notin {"I", "M", "IM", "MI"} => \E d \in DMAs : dmaFor[a] = {d}
    /\ dstate[a] = "ID" => memOp[a].for = dmaFor[a]

\* The answers about a line.
AnswerInv(a) ==
    /\ \A m \in dmaResp :
        m.addr = a => dma[m.to][a] = (IF m.data = NoData THEN "BUSY_WR" ELSE "BUSY_RD")
    /\ \A m1, m2 \in dmaResp : m1.addr = a /\ m2.addr = a /\ m1.to = m2.to => m1 = m2

\* A DMA request is in one place at a time, and the states of the controller
\* and of the directory tell what it is.
PlaceInv(d, a) ==
    /\ InReq(d, a) => ~InDir(d, a) /\ ~InResp(d, a) /\ dma[d][a] # "READY"
    /\ InDir(d, a) => ~InResp(d, a)
    /\ InDir(d, a) => dma[d][a] = (IF dstate[a] \in {"ID", "M_DRD"} THEN "BUSY_RD" ELSE "BUSY_WR")
    /\ dma[d][a] = "READY" => ~Waiting(d, a)
    /\ dma[d][a] = "BUSY_RD" => table[d][a].op = "Load"
    /\ dma[d][a] = "BUSY_WR" => table[d][a].op = "Store"

DmaLine(a) == ForInv(a) /\ AnswerInv(a) /\ \A d \in DMAs : PlaceInv(d, a)

DmaInv == DmaTypes /\ \A a \in Addrs : DmaLine(a)

CInv == TableInv /\ BlockInv /\ StoreInv /\ DmaInv
-----------------------------------------------------------------------------
(* A request that is made is a load or a store inside a line. *)
LEMMA OpKinds ==
    ASSUME NEW p \in Caches \cup DMAs, NEW op \in OpsOf[p]
    PROVE  /\ op.op \in {"Load", "Store"} /\ op.len \in 1 .. LineSize
           /\ op.op = "Store" => op.val \in Val
  <1>1. op \in LineOps
    BY MIAssumption, Zenon
  <1>2. CASE \E f \in Words, n \in 1 .. LineSize : op = Load(f, n)
    BY <1>2 DEF Load
  <1>3. CASE \E f \in Words, n \in 1 .. LineSize, v \in Val : op = Store(f, n, v)
    BY <1>3 DEF Store
  <1> QED
    BY <1>1, <1>2, <1>3 DEF LineOps

(* Blocks stay blocks. *)
LEMMA Blocks ==
    /\ \A b \in Block : \A op : op.val \in Val => Overlay(b, op) \in Block
    /\ \A op : op.val \in Val => DmaBlock(op) \in Block
    /\ \A b \in Block : \A op :
        op.len = 0 \/ (op.data \in Block /\ op.len \in 0 .. LineSize) => Performed(b, op) \in Block
  <1>1. 0 \in Val
    BY MIAssumption
  <1>2. \A b \in Block, w \in Words : b[w] \in Val
    BY Zenon DEF Block
  <1>3. ASSUME NEW b \in Block, NEW op, op.val \in Val PROVE Overlay(b, op) \in Block
    <2>1. \A w \in Words : (IF w \in OpWords(op) THEN op.val ELSE b[w]) \in Val
      BY <1>2, <1>3, Zenon
    <2> QED
      BY <2>1, Zenon DEF Overlay, Block
  <1>4. ASSUME NEW op, op.val \in Val PROVE DmaBlock(op) \in Block
    <2>1. \A w \in Words : (IF w \in OpWords(op) THEN op.val ELSE 0) \in Val
      BY <1>1, <1>4, Zenon
    <2> QED
      BY <2>1, Zenon DEF DmaBlock, Block
  <1>5. ASSUME NEW b \in Block, NEW op,
               op.len = 0 \/ (op.data \in Block /\ op.len \in 0 .. LineSize)
        PROVE  Performed(b, op) \in Block
    <2>1. \A w \in Words : (IF w < op.len THEN op.data[w] ELSE b[w]) \in Val
      <3>1. CASE op.len = 0
        BY <1>2, <3>1, MIAssumption DEF Words
      <3>2. CASE op.data \in Block
        BY <1>2, <3>2, Zenon
      <3> QED
        BY <1>5, <3>1, <3>2, Zenon
    <2> QED
      BY <2>1, Zenon DEF Performed, Block
  <1> QED
    BY <1>3, <1>4, <1>5, Zenon

-----------------------------------------------------------------------------
(* A cache that is not waiting for a line changes its state of it. *)
LEMMA TableState ==
    ASSUME IInv, TableInv, NEW c0 \in Caches, NEW x \in Addrs, NEW s,
           UNCHANGED <<table, mq>>, cstate' = [cstate EXCEPT ![c0][x] = s],
           s \notin {"IS", "IM"}
    PROVE  TableInv'
  <1>1. \A c \in Caches, a \in Addrs : Awaits(c, a)' => Awaits(c, a)
    <2>1. \A c \in Caches, a \in Addrs :
            cstate'[c][a] = IF c = c0 /\ a = x THEN s ELSE cstate[c][a]
      BY Zenon DEF IInv, CacheTypes
    <2> QED
      BY <2>1, Zenon DEF Awaits
  <1>2. \A c \in Caches : \A i \in DOMAIN mq[c] : mq[c][i] \in Addrs
    BY DEF IInv, CacheTypes
  <1>3. \A p, a : Waiting(p, a)' <=> Waiting(p, a)
    BY Zenon DEF Waiting
  <1> QED
    BY <1>1, <1>2, <1>3, Zenon DEF TableInv, TableDom

(* The caches' requests are not touched. *)
LEMMA TableSame ==
    ASSUME TableInv, UNCHANGED <<table, mq, cstate>>
    PROVE  TableInv'
  BY Zenon DEF TableInv, TableDom, Awaits, Waiting

(* No cache gets or gives a block, and no request is made. *)
LEMMA BlockSame ==
    ASSUME BlockInv, UNCHANGED <<cstate, data, resp>>, reqs' \subseteq reqs
    PROVE  BlockInv'
  BY Zenon DEF BlockInv

(* Memory is not touched. *)
LEMMA StoreSame ==
    ASSUME StoreInv, UNCHANGED <<dstate, memOp, mem>>
    PROVE  StoreInv'
  BY Zenon DEF StoreInv, OpInv

(* A step of a cache does not touch the DMA requests. *)
LEMMA DmaSame ==
    ASSUME DmaInv, UNCHANGED <<dma, dmaReqs, dmaResp, dmaFor, dstate, memOp>>,
           \A d \in DMAs, a \in Addrs : table'[d][a] = table[d][a]
    PROVE  DmaInv'
  <1>1. DmaTypes'
    BY Zenon DEF DmaInv, DmaTypes
  <1>2. ASSUME NEW a \in Addrs PROVE DmaLine(a)'
    <2>1. DmaLine(a)
      BY Zenon DEF DmaInv
    <2>2. ForInv(a)' /\ AnswerInv(a)'
      BY <2>1, Zenon DEF DmaLine, ForInv, AnswerInv
    <2>3. ASSUME NEW d \in DMAs PROVE PlaceInv(d, a)'
      BY <2>1, Zenon DEF DmaLine, PlaceInv, InReq, InDir, InResp, Waiting
    <2> QED
      BY <2>2, <2>3, Zenon DEF DmaLine
  <1> QED
    BY <1>1, <1>2, Zenon DEF DmaInv

(* A request for line x is made or answered by port p0. *)
LEMMA TableEntry ==
    ASSUME TableInv, NEW p0 \in Caches \cup DMAs, NEW x \in Addrs, NEW e,
           table' = [table EXCEPT ![p0][x] = e], Unanswered(e) => e \in OpsOf[p0]
    PROVE  /\ TableDom'
           /\ \A p \in Caches \cup DMAs, a \in Addrs :
                /\ Waiting(p, a)' => table'[p][a] \in OpsOf[p]
                /\ table'[p][a] = IF p = p0 /\ a = x THEN e ELSE table[p][a]
                /\ Waiting(p, a)' <=> IF p = p0 /\ a = x THEN Unanswered(e) ELSE Waiting(p, a)
  <1>1. table = [p \in Caches \cup DMAs |-> [a \in Addrs |-> table[p][a]]]
    BY Zenon DEF TableInv, TableDom
  <1>2. TableDom'
    BY <1>1 DEF TableDom
  <1>3. \A p \in Caches \cup DMAs, a \in Addrs :
            table'[p][a] = IF p = p0 /\ a = x THEN e ELSE table[p][a]
    BY <1>1
  <1>4. \A p \in Caches \cup DMAs, a \in Addrs :
            Waiting(p, a)' <=> IF p = p0 /\ a = x THEN Unanswered(e) ELSE Waiting(p, a)
    BY <1>3, Zenon DEF Waiting
  <1>5. \A p \in Caches \cup DMAs, a \in Addrs : Waiting(p, a)' => table'[p][a] \in OpsOf[p]
    <2> SUFFICES ASSUME NEW p \in Caches \cup DMAs, NEW a \in Addrs, Waiting(p, a)'
                 PROVE  table'[p][a] \in OpsOf[p]
      BY Zenon
    <2>1. CASE p = p0 /\ a = x
      BY <1>3, <1>4, <2>1, Zenon
    <2>2. CASE ~(p = p0 /\ a = x)
      <3>1. Waiting(p, a) /\ table'[p][a] = table[p][a]
        BY <1>3, <1>4, <2>2, Zenon
      <3> QED
        BY <3>1, Zenon DEF TableInv
    <2> QED
      BY <2>1, <2>2, Zenon
  <1> QED
    BY <1>2, <1>3, <1>4, <1>5, Zenon

(* The same for DMA controllers, which have no queue of requests. *)
LEMMA TableDma ==
    ASSUME TableInv, IInv, NEW d \in DMAs, NEW x \in Addrs, NEW e,
           table' = [table EXCEPT ![d][x] = e], Unanswered(e) => e \in OpsOf[d],
           UNCHANGED <<mq, cstate>>
    PROVE  TableInv'
  <1>0. d \in Caches \cup DMAs /\ \A c \in Caches : c \in Caches \cup DMAs /\ c # d
    BY MIAssumption, Zenon
  <1>1. \A c \in Caches, a \in Addrs : Waiting(c, a)' <=> Waiting(c, a)
    BY <1>0, TableEntry
  <1>2. \A c \in Caches : \A i \in DOMAIN mq[c] : mq[c][i] \in Addrs
    BY DEF IInv, CacheTypes
  <1>3. \A c \in Caches, a \in Addrs : Awaits(c, a)' <=> Awaits(c, a)
    BY Zenon DEF Awaits
  <1>4. /\ (\A c \in Caches : \A i \in DOMAIN mq[c] :
                Waiting(c, mq[c][i]) /\ ~Awaits(c, mq[c][i]))'
        /\ \A c \in Caches, a \in Addrs : Awaits(c, a)' => Waiting(c, a)'
    BY <1>1, <1>2, <1>3, Zenon DEF TableInv
  <1>5. \A c \in Caches : Distinct(mq'[c])
    BY Zenon DEF TableInv
  <1>6. /\ TableDom'
        /\ \A p \in Caches \cup DMAs, a \in Addrs : Waiting(p, a)' => table'[p][a] \in OpsOf[p]
    BY <1>0, TableEntry
  <1> QED
    BY <1>4, <1>5, <1>6, Zenon DEF TableInv

(* A cache's request for line x is made, taken from the queue or answered. *)
LEMMA TableCache ==
    ASSUME IInv, TableInv, NEW c0 \in Caches, NEW x \in Addrs, NEW q \in Seq(Addrs),
           TableDom',
           \A p \in Caches \cup DMAs, a \in Addrs : Waiting(p, a)' => table'[p][a] \in OpsOf[p],
           \A c \in Caches, a \in Addrs : c # c0 \/ a # x =>
                (Waiting(c, a)' <=> Waiting(c, a)) /\ (Awaits(c, a)' <=> Awaits(c, a)),
           Awaits(c0, x)' => Waiting(c0, x)',
           \A c \in Caches : mq'[c] = IF c = c0 THEN q ELSE mq[c],
           Distinct(q),
           \A i \in DOMAIN q :
                \/ q[i] = x /\ Waiting(c0, x)' /\ ~Awaits(c0, x)'
                \/ q[i] # x /\ \E j \in DOMAIN mq[c0] : q[i] = mq[c0][j]
    PROVE  TableInv'
  <1>2. \A c \in Caches : \A i \in DOMAIN mq[c] : mq[c][i] \in Addrs
    BY DEF IInv, CacheTypes
  <1>3. \A i \in DOMAIN q : q[i] \in Addrs
    OBVIOUS
  <1>0. \A c \in Caches : \A i \in DOMAIN mq[c] :
            Waiting(c, mq[c][i]) /\ ~Awaits(c, mq[c][i])
    BY Zenon DEF TableInv
  <1>4. \A c \in Caches : Distinct(mq'[c])
    BY Zenon DEF TableInv
  <1>5. ASSUME NEW c \in Caches, NEW i \in DOMAIN mq'[c], NEW y \in Addrs, y = mq'[c][i]
        PROVE  Waiting(c, y)' /\ ~Awaits(c, y)'
    <2>1. CASE c # c0
      <3>1. i \in DOMAIN mq[c] /\ y = mq[c][i]
        BY <1>5, <2>1, Zenon
      <3>2. Waiting(c, y) /\ ~Awaits(c, y)
        BY <1>0, <3>1, Zenon
      <3> QED
        BY <2>1, <3>2, Zenon
    <2>2. CASE c = c0
      <3>1. i \in DOMAIN q /\ y = q[i]
        BY <1>5, <2>2, Zenon
      <3>2. \/ y = x /\ Waiting(c0, x)' /\ ~Awaits(c0, x)'
            \/ y # x /\ \E j \in DOMAIN mq[c0] : y = mq[c0][j]
        BY <3>1, Zenon
      <3>3. y # x => Waiting(c0, y) /\ ~Awaits(c0, y)
        BY <1>0, <3>2, Zenon
      <3> QED
        BY <2>2, <3>2, <3>3, Zenon
    <2> QED
      BY <2>1, <2>2, Zenon
  <1>6. (\A c \in Caches : \A i \in DOMAIN mq[c] :
            Waiting(c, mq[c][i]) /\ ~Awaits(c, mq[c][i]))'
    BY <1>2, <1>3, <1>5, Zenon
  <1>7. \A c \in Caches, a \in Addrs : Awaits(c, a)' => Waiting(c, a)'
    BY Zenon DEF TableInv
  <1> QED
    BY <1>4, <1>6, <1>7, Zenon DEF TableInv

(* The head of a queue without repetitions is not in its tail. *)
LEMMA QueueTail ==
    ASSUME IInv, TableInv, NEW c0 \in Caches, mq[c0] # << >>
    PROVE  /\ Tail(mq[c0]) \in Seq(Addrs) /\ Head(mq[c0]) \in Addrs
           /\ Waiting(c0, Head(mq[c0])) /\ ~Awaits(c0, Head(mq[c0]))
           /\ Distinct(Tail(mq[c0]))
           /\ \A i \in DOMAIN Tail(mq[c0]) :
                /\ Tail(mq[c0])[i] # Head(mq[c0])
                /\ \E j \in DOMAIN mq[c0] : Tail(mq[c0])[i] = mq[c0][j]
  <1>1. PICK q \in Seq(Addrs) : q = mq[c0]
    BY Zenon DEF IInv, CacheTypes
  <1>2. q # << >> /\ \A i, j \in DOMAIN q : q[i] = q[j] => i = j
    BY <1>1, Zenon DEF TableInv, Distinct
  <1>3. /\ Len(q) \in Nat \ {0} /\ DOMAIN q = 1 .. Len(q) /\ Head(q) = q[1]
        /\ Tail(q) \in Seq(Addrs) /\ DOMAIN Tail(q) = 1 .. Len(q) - 1
        /\ \A i \in 1 .. Len(q) - 1 : Tail(q)[i] = q[i + 1]
    BY <1>2
  <1>4. \A i \in DOMAIN Tail(q) : i + 1 \in DOMAIN q /\ i + 1 # 1 /\ Tail(q)[i] = q[i + 1]
    BY <1>3
  <1>5. \A i, j \in DOMAIN Tail(q) : i + 1 = j + 1 => i = j
    BY <1>3
  <1>6. 1 \in DOMAIN q /\ Head(q) \in Addrs
    BY <1>3
  <1>7. Waiting(c0, q[1]) /\ ~Awaits(c0, q[1])
    BY <1>1, <1>6, Zenon DEF TableInv
  <1>8. Distinct(Tail(q))
    BY <1>2, <1>4, <1>5, Zenon DEF Distinct
  <1>9. \A i \in DOMAIN Tail(q) : Tail(q)[i] # Head(q) /\ \E j \in DOMAIN q : Tail(q)[i] = q[j]
    BY <1>2, <1>3, <1>4, <1>6, Zenon
  <1> QED
    BY <1>1, <1>3, <1>6, <1>7, <1>8, <1>9, Zenon

(* A callback answers the request and leaves a block. *)
LEMMA Callback ==
    ASSUME CInv, NEW c0 \in Caches, NEW x \in Addrs, NEW b \in Block, Waiting(c0, x),
           hitCallback(c0, x, b)
    PROVE  \E e, b1 :
            /\ table' = [table EXCEPT ![c0][x] = e] /\ ~Unanswered(e)
            /\ data' = [data EXCEPT ![c0][x] = b1] /\ b1 \in Block
            /\ IF table[c0][x].op = "Load"
               THEN e = Got(table[c0][x], b) /\ b1 = b
               ELSE /\ table[c0][x].op = "Store"
                    /\ e = Stored /\ b1 = Overlay(b, table[c0][x])
  <1>1. table[c0][x] \in OpsOf[c0] /\ c0 \in Caches \cup DMAs
    BY Zenon DEF CInv, TableInv
  <1>2. table[c0][x].op \in {"Load", "Store"}
        /\ (table[c0][x].op = "Store" => table[c0][x].val \in Val)
    BY <1>1, OpKinds, Zenon
  <1>3. ~Unanswered(Stored) /\ \A op, blk : ~Unanswered(Got(op, blk))
    BY Zenon DEF Unanswered, Stored, Got
  <1>4. CASE table[c0][x].op = "Load"
    BY <1>3, <1>4, Zenon DEF hitCallback
  <1>5. CASE table[c0][x].op = "Store"
    <2>1. Overlay(b, table[c0][x]) \in Block
      BY <1>2, <1>5, Blocks, Zenon
    <2> QED
      BY <1>3, <1>5, <2>1, Zenon DEF hitCallback
  <1> QED
    BY <1>2, <1>4, <1>5, Zenon

(* A cache changes its state of line x and the block it has of it. *)
LEMMA BlockCache ==
    ASSUME IInv, BlockInv, NEW c0 \in Caches, NEW x \in Addrs,
           data' \in [Caches -> [Addrs -> Block \cup {NoData}]],
           \A c \in Caches, a \in Addrs :
                c # c0 \/ a # x => cstate'[c][a] = cstate[c][a] /\ data'[c][a] = data[c][a],
           cstate'[c0][x] \in {"M", "MI", "MII"} => data'[c0][x] \in Block,
           resp' \subseteq [addr : Addrs, to : Caches, data : Block],
           reqs' \subseteq [type : {"GETX", "PUTX"}, addr : Addrs, from : Caches,
                            data : Block \cup {NoData}],
           \A m \in reqs' : m.type = "PUTX" =>
                IF m.from = c0 /\ m.addr = x
                THEN cstate'[c0][x] = "MI" => m.data = data'[c0][x]
                ELSE m \in reqs
    PROVE  BlockInv'
  <1>3. ASSUME NEW c \in Caches, NEW a \in Addrs, cstate'[c][a] \in {"M", "MI", "MII"}
        PROVE  data'[c][a] \in Block
    <2>1. CASE c = c0 /\ a = x
      BY <1>3, <2>1, Zenon
    <2>2. CASE ~(c = c0 /\ a = x)
      <3>1. cstate[c][a] \in {"M", "MI", "MII"} /\ data'[c][a] = data[c][a]
        BY <1>3, <2>2, Zenon
      <3> QED
        BY <3>1, Zenon DEF BlockInv
    <2> QED
      BY <2>1, <2>2, Zenon
  <1>4. ASSUME NEW m \in reqs', m.type = "PUTX", cstate'[m.from][m.addr] = "MI"
        PROVE  m.data = data'[m.from][m.addr]
    <2>1. m.from \in Caches /\ m.addr \in Addrs
      OBVIOUS
    <2>2. CASE m.from = c0 /\ m.addr = x
      BY <1>4, <2>1, <2>2, Zenon
    <2>3. CASE ~(m.from = c0 /\ m.addr = x)
      <3>1. m \in reqs /\ cstate[m.from][m.addr] = "MI"
            /\ data'[m.from][m.addr] = data[m.from][m.addr]
        BY <1>4, <2>1, <2>3, Zenon
      <3> QED
        BY <1>4, <3>1, Zenon DEF BlockInv
    <2> QED
      BY <2>2, <2>3, Zenon
  <1> QED
    BY <1>3, <1>4, Zenon DEF BlockInv

(* A CPU makes a request. *)
LEMMA MakeRequestC ==
    ASSUME IInv, CInv, NEW c0 \in Caches, NEW x \in Addrs, makeRequest(c0, x)
    PROVE  CInv'
  <1> DEFINE q == Append(mq[c0], x)
  <1>1. PICK op \in OpsOf[c0] : table' = [table EXCEPT ![c0][x] = op]
    BY Zenon DEF makeRequest
  <1>2. /\ ~Waiting(c0, x) /\ mq' = [mq EXCEPT ![c0] = q]
        /\ UNCHANGED <<cstate, data, resp, reqs, dstate, owner, dmaFor, memOp, mem, dma, dmaReqs, dmaResp>>
    BY Zenon DEF makeRequest, dirVars, dmaVars
  <1>3. c0 \in Caches \cup DMAs /\ TableInv /\ \A d \in DMAs : d \in Caches \cup DMAs /\ d # c0
    BY MIAssumption, Zenon DEF CInv
  <1>4. Unanswered(op)
    BY <1>3, OpKinds DEF Unanswered
  <1>5. /\ TableDom'
        /\ \A p \in Caches \cup DMAs, a \in Addrs :
            /\ Waiting(p, a)' => table'[p][a] \in OpsOf[p]
            /\ table'[p][a] = IF p = c0 /\ a = x THEN op ELSE table[p][a]
            /\ Waiting(p, a)' <=> IF p = c0 /\ a = x THEN Unanswered(op) ELSE Waiting(p, a)
    BY <1>1, <1>3, TableEntry, Zenon
  <1>6. TableInv'
    <2>1. mq[c0] \in Seq(Addrs)
      BY Zenon DEF IInv, CacheTypes
    <2>2. /\ Len(mq[c0]) \in Nat /\ DOMAIN mq[c0] = 1 .. Len(mq[c0])
          /\ q \in Seq(Addrs) /\ DOMAIN q = 1 .. Len(mq[c0]) + 1
          /\ \A i \in 1 .. Len(mq[c0]) : q[i] = mq[c0][i]
          /\ q[Len(mq[c0]) + 1] = x
      BY <2>1
    <2>3. \A i \in DOMAIN mq[c0] : mq[c0][i] # x
      BY <1>2, <1>3, Zenon DEF TableInv
    <2>4. \A i, j \in DOMAIN mq[c0] : mq[c0][i] = mq[c0][j] => i = j
      BY <1>3, Zenon DEF TableInv, Distinct
    <2> HIDE DEF q
    <2>5. Distinct(q)
      BY <2>2, <2>3, <2>4 DEF Distinct
    <2>6. ~Awaits(c0, x) /\ ~Awaits(c0, x)' /\ Waiting(c0, x)'
      BY <1>2, <1>3, <1>4, <1>5, Zenon DEF TableInv, Awaits
    <2>7. \A i \in DOMAIN q :
            \/ q[i] = x /\ Waiting(c0, x)' /\ ~Awaits(c0, x)'
            \/ q[i] # x /\ \E j \in DOMAIN mq[c0] : q[i] = mq[c0][j]
      BY <2>2, <2>3, <2>6
    <2>8. \A c \in Caches, a \in Addrs : c # c0 \/ a # x =>
            (Waiting(c, a)' <=> Waiting(c, a)) /\ (Awaits(c, a)' <=> Awaits(c, a))
      BY <1>2, <1>5, Zenon DEF Awaits
    <2>9. q \in Seq(Addrs) /\ \A c \in Caches : mq'[c] = IF c = c0 THEN q ELSE mq[c]
      BY <1>2, <2>2, Zenon DEF IInv, CacheTypes
    <2>10. \A p \in Caches \cup DMAs, a \in Addrs : Waiting(p, a)' => table'[p][a] \in OpsOf[p]
      BY <1>5, Zenon
    <2> QED
      BY <1>3, <1>5, <2>5, <2>6, <2>7, <2>8, <2>9, <2>10, TableCache, Zenon
  <1>7. BlockInv' /\ StoreInv'
    BY <1>2, BlockSame, StoreSame, Zenon DEF CInv
  <1>8. \A d \in DMAs, a \in Addrs : table'[d][a] = table[d][a]
    BY <1>3, <1>5, Zenon
  <1>9. DmaInv'
    BY <1>2, <1>8, DmaSame, Zenon DEF CInv
  <1> QED
    BY <1>6, <1>7, <1>9, Zenon DEF CInv

(* A request is answered by a block that the cache has or gets. *)
LEMMA AnswerC ==
    ASSUME IInv, CInv, NEW c0 \in Caches, NEW x \in Addrs, NEW b \in Block, Waiting(c0, x),
           hitCallback(c0, x, b), cstate'[c0][x] = "M",
           \A c \in Caches, a \in Addrs : c # c0 \/ a # x => cstate'[c][a] = cstate[c][a],
           NEW q \in Seq(Addrs), Distinct(q),
           \A c \in Caches : mq'[c] = IF c = c0 THEN q ELSE mq[c],
           \A i \in DOMAIN q : q[i] # x /\ \E j \in DOMAIN mq[c0] : q[i] = mq[c0][j],
           resp' \subseteq resp,
           UNCHANGED <<reqs, dstate, owner, dmaFor, memOp, mem, dma, dmaReqs, dmaResp>>
    PROVE  CInv'
  <1>1. PICK e, b1 : /\ table' = [table EXCEPT ![c0][x] = e] /\ ~Unanswered(e)
                     /\ data' = [data EXCEPT ![c0][x] = b1] /\ b1 \in Block
    BY Callback, Zenon
  <1>2. c0 \in Caches \cup DMAs /\ TableInv /\ \A d \in DMAs : d \in Caches \cup DMAs /\ d # c0
    BY MIAssumption, Zenon DEF CInv
  <1>3. /\ TableDom'
        /\ \A p \in Caches \cup DMAs, a \in Addrs :
            /\ Waiting(p, a)' => table'[p][a] \in OpsOf[p]
            /\ table'[p][a] = IF p = c0 /\ a = x THEN e ELSE table[p][a]
            /\ Waiting(p, a)' <=> IF p = c0 /\ a = x THEN Unanswered(e) ELSE Waiting(p, a)
    BY <1>1, <1>2, TableEntry, Zenon
  <1>4. TableInv'
    <2>2. \A c \in Caches, a \in Addrs : c # c0 \/ a # x =>
            (Waiting(c, a)' <=> Waiting(c, a)) /\ (Awaits(c, a)' <=> Awaits(c, a))
      BY <1>3, Zenon DEF Awaits
    <2>3. ~Awaits(c0, x)'
      BY Zenon DEF Awaits
    <2>4. \A p \in Caches \cup DMAs, a \in Addrs : Waiting(p, a)' => table'[p][a] \in OpsOf[p]
      BY <1>3, Zenon
    <2>5. \A i \in DOMAIN q :
            \/ q[i] = x /\ Waiting(c0, x)' /\ ~Awaits(c0, x)'
            \/ q[i] # x /\ \E j \in DOMAIN mq[c0] : q[i] = mq[c0][j]
      BY Zenon
    <2> QED
      BY <1>2, <1>3, <2>2, <2>3, <2>4, <2>5, TableCache, Zenon
  <1>5. BlockInv'
    <2>1. /\ resp' \subseteq [addr : Addrs, to : Caches, data : Block]
          /\ reqs' \subseteq [type : {"GETX", "PUTX"}, addr : Addrs, from : Caches,
                              data : Block \cup {NoData}]
          /\ b1 \in Block \cup {NoData} /\ BlockInv
      BY <1>1, Zenon DEF CInv, BlockInv
    <2>2. /\ data' \in [Caches -> [Addrs -> Block \cup {NoData}]] /\ data'[c0][x] = b1
          /\ \A c \in Caches, a \in Addrs : c # c0 \/ a # x => data'[c][a] = data[c][a]
      BY <1>1, <2>1, Zenon DEF BlockInv
    <2>3. \A c \in Caches, a \in Addrs :
            c # c0 \/ a # x => cstate'[c][a] = cstate[c][a] /\ data'[c][a] = data[c][a]
      BY <2>2, Zenon
    <2>4. \A m \in reqs' : m.type = "PUTX" =>
            IF m.from = c0 /\ m.addr = x
            THEN cstate'[c0][x] = "MI" => m.data = data'[c0][x]
            ELSE m \in reqs
      OBVIOUS
    <2>5. data'[c0][x] \in Block /\ data' \in [Caches -> [Addrs -> Block \cup {NoData}]]
      BY <1>1, <2>2, Zenon
    <2> QED
      BY <2>1, <2>3, <2>4, <2>5, BlockCache, Zenon
  <1>6. \A d \in DMAs, a \in Addrs : table'[d][a] = table[d][a]
    BY <1>2, <1>3, Zenon
  <1>7. StoreInv' /\ DmaInv'
    BY <1>6, StoreSame, DmaSame, Zenon DEF CInv
  <1> QED
    BY <1>4, <1>5, <1>7, Zenon DEF CInv

(* A request hits in the cache. *)
LEMMA HitC ==
    ASSUME IInv, CInv, NEW c0 \in Caches, Hit(c0)
    PROVE  CInv'
  <1>1. PICK x \in Addrs, q \in Seq(Addrs) : x = Head(mq[c0]) /\ q = Tail(mq[c0])
    BY QueueTail, Zenon DEF CInv, Hit, Roomy
  <1>2. /\ Waiting(c0, x) /\ Distinct(q)
        /\ \A i \in DOMAIN q : q[i] # x /\ \E j \in DOMAIN mq[c0] : q[i] = mq[c0][j]
    BY <1>1, QueueTail, Zenon DEF CInv, Hit, Roomy
  <1>3. /\ cstate[c0][x] = "M" /\ hitCallback(c0, x, data[c0][x])
        /\ mq' = [mq EXCEPT ![c0] = q]
        /\ UNCHANGED <<cstate, resp, reqs, dstate, owner, dmaFor, memOp, mem, dma, dmaReqs, dmaResp>>
    BY <1>1, Zenon DEF Hit, dirVars, dmaVars
  <1>4. data[c0][x] \in Block
    BY <1>3, Zenon DEF CInv, BlockInv
  <1>5. \A c \in Caches : mq'[c] = IF c = c0 THEN q ELSE mq[c]
    BY <1>3, Zenon DEF IInv, CacheTypes
  <1>6. /\ cstate'[c0][x] = "M" /\ resp' \subseteq resp
        /\ \A c \in Caches, a \in Addrs : c # c0 \/ a # x => cstate'[c][a] = cstate[c][a]
    BY <1>3, Zenon
  <1> QED
    BY <1>2, <1>3, <1>4, <1>5, <1>6, AnswerC, Zenon

(* The line that a request waits for arrives. *)
LEMMA DataC ==
    ASSUME IInv, CInv, NEW c0 \in Caches, Data(c0)
    PROVE  CInv'
  <1>1. PICK m \in resp :
            /\ m.to = c0 /\ cstate[c0][m.addr] \in {"IS", "IM"}
            /\ cstate' = [cstate EXCEPT ![c0][m.addr] = "M"]
            /\ hitCallback(c0, m.addr, m.data)
            /\ resp' = resp \ {m}
            /\ UNCHANGED <<mq, entries, stalledOn, fwd, reqs, dirVars, dmaVars, panicked>>
    BY Zenon DEF Data
  <1>2. PICK x \in Addrs, b \in Block : x = m.addr /\ b = m.data
    BY DEF CInv, BlockInv
  <1>3. PICK q \in Seq(Addrs) : q = mq[c0]
    BY Zenon DEF IInv, CacheTypes
  <1>4. Awaits(c0, x) /\ Waiting(c0, x) /\ Distinct(q)
    BY <1>1, <1>2, <1>3, Zenon DEF Awaits, CInv, TableInv
  <1>5. \A i \in DOMAIN q : q[i] # x /\ \E j \in DOMAIN mq[c0] : q[i] = mq[c0][j]
    BY <1>3, <1>4, Zenon DEF CInv, TableInv
  <1>6. \A c \in Caches : mq'[c] = IF c = c0 THEN q ELSE mq[c]
    BY <1>1, <1>3, Zenon
  <1>7. /\ hitCallback(c0, x, b) /\ resp' \subseteq resp
        /\ UNCHANGED <<reqs, dstate, owner, dmaFor, memOp, mem, dma, dmaReqs, dmaResp>>
    BY <1>1, <1>2, Zenon DEF dirVars, dmaVars
  <1>8. /\ cstate'[c0][x] = "M"
        /\ \A c \in Caches, a \in Addrs : c # c0 \/ a # x => cstate'[c][a] = cstate[c][a]
    BY <1>1, <1>2, Zenon DEF IInv, CacheTypes
  <1> QED
    BY <1>4, <1>5, <1>6, <1>7, <1>8, AnswerC, Zenon

(* A request misses. *)
LEMMA MissC ==
    ASSUME IInv, CInv, NEW c0 \in Caches, Miss(c0)
    PROVE  CInv'
  <1>1. PICK x \in Addrs, q \in Seq(Addrs) : x = Head(mq[c0]) /\ q = Tail(mq[c0])
    BY QueueTail, Zenon DEF CInv, Miss, Roomy
  <1>2. /\ Waiting(c0, x) /\ Distinct(q)
        /\ \A i \in DOMAIN q : q[i] # x /\ \E j \in DOMAIN mq[c0] : q[i] = mq[c0][j]
    BY <1>1, QueueTail, Zenon DEF CInv, Miss, Roomy
  <1>3. PICK s \in {"IS", "IM"} : cstate' = [cstate EXCEPT ![c0][x] = s]
    BY <1>1, Zenon DEF Miss
  <1>4. /\ mq' = [mq EXCEPT ![c0] = q]
        /\ reqs' = reqs \cup {RequestMsg("GETX", x, c0, NoData)}
        /\ UNCHANGED <<table, data, resp, dstate, owner, dmaFor, memOp, mem, dma, dmaReqs, dmaResp>>
    BY <1>1, Zenon DEF Miss, dirVars, dmaVars
  <1>5. /\ cstate'[c0][x] = s
        /\ \A c \in Caches, a \in Addrs : c # c0 \/ a # x => cstate'[c][a] = cstate[c][a]
    BY <1>3, Zenon DEF IInv, CacheTypes
  <1>6. TableInv'
    <2>1. TableInv /\ \A c \in Caches : mq'[c] = IF c = c0 THEN q ELSE mq[c]
      BY <1>4, Zenon DEF IInv, CacheTypes, CInv
    <2>2. \A p, a : Waiting(p, a)' <=> Waiting(p, a)
      BY <1>4, Zenon DEF Waiting
    <2>3. /\ TableDom'
          /\ \A p \in Caches \cup DMAs, a \in Addrs : Waiting(p, a)' => table'[p][a] \in OpsOf[p]
      BY <1>4, <2>1, <2>2, Zenon DEF TableInv, TableDom
    <2>4. \A c \in Caches, a \in Addrs : c # c0 \/ a # x =>
            (Waiting(c, a)' <=> Waiting(c, a)) /\ (Awaits(c, a)' <=> Awaits(c, a))
      BY <1>5, <2>2, Zenon DEF Awaits
    <2>5. \A i \in DOMAIN q :
            \/ q[i] = x /\ Waiting(c0, x)' /\ ~Awaits(c0, x)'
            \/ q[i] # x /\ \E j \in DOMAIN mq[c0] : q[i] = mq[c0][j]
      BY <1>2, Zenon
    <2>6. Awaits(c0, x)' => Waiting(c0, x)'
      BY <1>2, <2>2, Zenon
    <2> QED
      BY <1>2, <2>1, <2>3, <2>4, <2>5, <2>6, TableCache, Zenon
  <1>7. BlockInv'
    <2>1. /\ BlockInv /\ data' \in [Caches -> [Addrs -> Block \cup {NoData}]]
          /\ resp' \subseteq [addr : Addrs, to : Caches, data : Block]
      BY <1>4, Zenon DEF CInv, BlockInv
    <2>2. /\ reqs' \subseteq [type : {"GETX", "PUTX"}, addr : Addrs, from : Caches,
                              data : Block \cup {NoData}]
          /\ \A m \in reqs' : m.type = "PUTX" => m \in reqs
      BY <1>4, <2>1 DEF BlockInv, RequestMsg
    <2>3. \A m \in reqs' : m.type = "PUTX" =>
            IF m.from = c0 /\ m.addr = x
            THEN cstate'[c0][x] = "MI" => m.data = data'[c0][x]
            ELSE m \in reqs
      BY <1>5, <2>2, Zenon
    <2>4. \A c \in Caches, a \in Addrs :
            c # c0 \/ a # x => cstate'[c][a] = cstate[c][a] /\ data'[c][a] = data[c][a]
      BY <1>4, <1>5, Zenon
    <2>5. cstate'[c0][x] \in {"M", "MI", "MII"} => data'[c0][x] \in Block
      BY <1>4, <1>5, Zenon
    <2> QED
      <3>1. /\ data' \in [Caches -> [Addrs -> Block \cup {NoData}]]
            /\ resp' \subseteq [addr : Addrs, to : Caches, data : Block]
            /\ reqs' \subseteq [type : {"GETX", "PUTX"}, addr : Addrs, from : Caches,
                              data : Block \cup {NoData}]
        BY <2>1, <2>2, Zenon
      <3>2. BlockInv
        BY <2>1, Zenon
      <3> QED
        BY <3>1, <3>2, <2>3, <2>4, <2>5, BlockCache, Zenon
  <1>8. StoreInv' /\ DmaInv'
    BY <1>4, StoreSame, DmaSame, Zenon DEF CInv
  <1> QED
    BY <1>6, <1>7, <1>8, Zenon DEF CInv

\* Nothing changes but the block c0 has for line x.
OnlyBlock(c0, x) ==
    \A c \in Caches, a \in Addrs : c # c0 \/ a # x => data'[c][a] = data[c][a]

\* A PUTX is an old one, or carries the block that c0 has for line x.
PutxOf(c0, x) ==
    \A m \in reqs' : m.type = "PUTX" =>
        IF m.from = c0 /\ m.addr = x THEN cstate'[c0][x] = "MI" => m.data = data'[c0][x]
                                     ELSE m \in reqs

(* A cache changes its state of a line it does not wait for. *)
LEMMA StateC ==
    ASSUME IInv, CInv, NEW c0 \in Caches, NEW x \in Addrs,
           NEW s \in {"I", "II", "M", "MI", "MII"}, cstate' = [cstate EXCEPT ![c0][x] = s],
           data' \in [Caches -> [Addrs -> Block \cup {NoData}]], OnlyBlock(c0, x),
           s \in {"M", "MI", "MII"} => data'[c0][x] \in Block,
           resp' \subseteq [addr : Addrs, to : Caches, data : Block],
           reqs' \subseteq [type : {"GETX", "PUTX"}, addr : Addrs, from : Caches,
                            data : Block \cup {NoData}],
           PutxOf(c0, x), UNCHANGED <<table, mq, dirVars, dmaVars>>
    PROVE  CInv'
  <1>1. UNCHANGED <<dstate, dmaFor, memOp, mem, dma, dmaReqs, dmaResp>>
    BY Zenon DEF dirVars, dmaVars
  <1>2. TableInv'
    <2>1. s \notin {"IS", "IM"}
      OBVIOUS
    <2> QED
      BY <2>1, TableState, Zenon DEF CInv
  <1>3. /\ cstate'[c0][x] = s
        /\ \A c \in Caches, a \in Addrs : c # c0 \/ a # x => cstate'[c][a] = cstate[c][a]
    BY Zenon DEF IInv, CacheTypes
  <1>4. BlockInv'
    <2>1. \A c \in Caches, a \in Addrs :
            c # c0 \/ a # x => cstate'[c][a] = cstate[c][a] /\ data'[c][a] = data[c][a]
      BY <1>3, Zenon DEF OnlyBlock
    <2>2. cstate'[c0][x] \in {"M", "MI", "MII"} => data'[c0][x] \in Block
      BY <1>3, Zenon
    <2>3. \A m \in reqs' : m.type = "PUTX" =>
            IF m.from = c0 /\ m.addr = x
            THEN cstate'[c0][x] = "MI" => m.data = data'[c0][x]
            ELSE m \in reqs
      BY Zenon DEF PutxOf
    <2>4. BlockInv
      BY Zenon DEF CInv
    <2> QED
      BY <2>1, <2>2, <2>3, <2>4, BlockCache, Zenon
  <1>5. StoreInv' /\ DmaInv'
    BY <1>1, StoreSame, DmaSame, Zenon DEF CInv
  <1> QED
    BY <1>2, <1>4, <1>5, Zenon DEF CInv

(* A cache gives a line back, with the block it keeps. *)
LEMMA WriteBackC ==
    ASSUME IInv, CInv, NEW c0 \in Caches, NEW x \in Addrs, writeBack(c0, x)
    PROVE  CInv'
  <1>1. /\ cstate[c0][x] = "M" /\ cstate' = [cstate EXCEPT ![c0][x] = "MI"]
        /\ reqs' = reqs \cup {RequestMsg("PUTX", x, c0, data[c0][x])}
        /\ UNCHANGED <<table, mq, data, resp, dirVars, dmaVars>>
    BY Zenon DEF writeBack
  <1>2. data[c0][x] \in Block /\ BlockInv
    BY <1>1, Zenon DEF CInv, BlockInv
  <1>3. ~Offered(c0, x)
    BY <1>1, Zenon DEF IInv, LineInv, ReturnInv
  <1>4. /\ reqs' \subseteq [type : {"GETX", "PUTX"}, addr : Addrs, from : Caches,
                            data : Block \cup {NoData}]
        /\ \A m \in reqs' : m.type = "PUTX" =>
            m \in reqs \/ (m.from = c0 /\ m.addr = x /\ m.data = data[c0][x])
    BY <1>1, <1>2 DEF BlockInv, RequestMsg
  <1>5. PutxOf(c0, x)
    BY <1>1, <1>3, <1>4 DEF Offered, PutxOf
  <1>6. data' \in [Caches -> [Addrs -> Block \cup {NoData}]] /\ OnlyBlock(c0, x)
    BY <1>1, <1>2, Zenon DEF BlockInv, OnlyBlock
  <1>7. PICK s \in {"I", "II", "M", "MI", "MII"} :
            s = "MI" /\ cstate' = [cstate EXCEPT ![c0][x] = s]
    BY <1>1
  <1>8. s \in {"M", "MI", "MII"} => data'[c0][x] \in Block
    BY <1>1, <1>2, Zenon
  <1>9. /\ UNCHANGED <<table, mq, dirVars, dmaVars>>
        /\ reqs' \subseteq [type : {"GETX", "PUTX"}, addr : Addrs, from : Caches,
                            data : Block \cup {NoData}]
        /\ resp' \subseteq [addr : Addrs, to : Caches, data : Block]
    BY <1>1, <1>2, <1>4, Zenon DEF BlockInv
  <1> QED
    BY <1>5, <1>6, <1>7, <1>8, <1>9, StateC, Zenon

(* A cache takes a message about line x off a queue, and gives up the block *)
(* it has or keeps it.                                                      *)
LEMMA ForwardC ==
    ASSUME IInv, CInv, NEW c0 \in Caches, NEW x \in Addrs, NEW s \in {"I", "II", "MII"},
           cstate' = [cstate EXCEPT ![c0][x] = s],
           \/ UNCHANGED data /\ (s = "MII" => data[c0][x] \in Block)
           \/ data' = [data EXCEPT ![c0][x] = NoData] /\ s # "MII",
           resp' \subseteq [addr : Addrs, to : Caches, data : Block],
           UNCHANGED <<table, mq, reqs, dirVars, dmaVars>>
    PROVE  CInv'
  <1>1. BlockInv /\ s \in {"I", "II", "M", "MI", "MII"} /\ s # "MI" /\ s # "M"
    BY Zenon DEF CInv
  <1>2. reqs' \subseteq [type : {"GETX", "PUTX"}, addr : Addrs, from : Caches,
                         data : Block \cup {NoData}]
    BY <1>1, Zenon DEF BlockInv
  <1>3. PutxOf(c0, x)
    BY <1>1, Zenon DEF PutxOf, IInv, CacheTypes
  <1>4. data \in [Caches -> [Addrs -> Block \cup {NoData}]]
    BY <1>1, Zenon DEF BlockInv
  <1>5. data' \in [Caches -> [Addrs -> Block \cup {NoData}]] /\ OnlyBlock(c0, x)
    BY <1>4 DEF OnlyBlock
  <1>6. s \in {"M", "MI", "MII"} => data'[c0][x] \in Block
    BY <1>1, <1>4, Zenon
  <1>7. s \in {"I", "II", "M", "MI", "MII"}
    BY <1>1, Zenon
  <1> QED
    BY <1>2, <1>3, <1>5, <1>6, <1>7, StateC, Zenon

(* The message at the head of a queue is about a line. *)
LEMMA HeadOfQueue ==
    ASSUME IInv, NEW c0 \in Caches, NEW d \in Dirs, Forwarded(c0, d)
    PROVE  /\ Head(fwd[c0][d]) \in ForwardMsgs
           /\ Head(fwd[c0][d]).addr \in Addrs /\ Head(fwd[c0][d]).for \in Caches
  <1>1. fwd[c0][d] \in Seq(ForwardMsgs) /\ fwd[c0][d] # << >>
    BY DEF Forwarded, IInv, FwdInv
  <1>2. Head(fwd[c0][d]) \in ForwardMsgs
    BY <1>1
  <1> QED
    BY <1>2, Zenon DEF ForwardMsgs

(* A cache sends a line on, is told that it gave it back, or that it did not. *)
LEMMA Fwd_GETXC ==
    ASSUME IInv, CInv, NEW c0 \in Caches, NEW d \in Dirs, Fwd_GETX(c0, d)
    PROVE  CInv'
  <1>1. PICK m \in ForwardMsgs : m = Head(fwd[c0][d])
    BY HeadOfQueue, Zenon DEF Fwd_GETX
  <1>2. PICK x \in Addrs, r \in Caches : x = m.addr /\ r = m.for
    BY <1>1, Zenon DEF ForwardMsgs
  <1>3. PICK s : s = AfterFwdGETX[cstate[c0][x]] /\ cstate' = [cstate EXCEPT ![c0][x] = s]
    BY <1>1, <1>2, Zenon DEF Fwd_GETX
  <1>4. cstate[c0][x] \in {"M", "MI", "MII"}
    BY <1>1, <1>2, Zenon DEF Fwd_GETX, AfterFwdGETX
  <1>5. s \in {"I", "II", "MII"} /\ s # "MII"
    BY <1>3, <1>4 DEF AfterFwdGETX
  <1>6. /\ data' = [data EXCEPT ![c0][x] = NoData]
        /\ UNCHANGED <<table, mq, reqs, dirVars, dmaVars>>
    BY <1>1, <1>2, Zenon DEF Fwd_GETX
  <1>7. PICK b \in Block : resp' = resp \cup {ResponseMsg(x, r, b)}
    <2>1. data[c0][x] \in Block
      BY <1>4, Zenon DEF CInv, BlockInv
    <2> QED
      BY <1>1, <1>2, <2>1, Zenon DEF Fwd_GETX
  <1>8. resp' \subseteq [addr : Addrs, to : Caches, data : Block]
    <2>1. resp \subseteq [addr : Addrs, to : Caches, data : Block]
      BY Zenon DEF CInv, BlockInv
    <2> QED
      BY <1>7, <2>1 DEF ResponseMsg
  <1>9. cstate' = [cstate EXCEPT ![c0][x] = s]
    BY <1>3, Zenon
  <1> QED
    BY <1>5, <1>6, <1>8, <1>9, ForwardC, Zenon

(* A cache gives up the block that memory has taken. *)
LEMMA Writeback_AckC ==
    ASSUME IInv, CInv, NEW c0 \in Caches, NEW d \in Dirs, Writeback_Ack(c0, d)
    PROVE  CInv'
  <1>1. PICK m \in ForwardMsgs : m = Head(fwd[c0][d])
    BY HeadOfQueue, Zenon DEF Writeback_Ack
  <1>2. PICK x \in Addrs, s \in {"I"} : x = m.addr /\ s = "I"
    BY <1>1, Zenon DEF ForwardMsgs
  <1>3. /\ cstate' = [cstate EXCEPT ![c0][x] = s]
        /\ data' = [data EXCEPT ![c0][x] = NoData]
        /\ UNCHANGED <<table, mq, resp, reqs, dirVars, dmaVars>>
    BY <1>1, <1>2, Zenon DEF Writeback_Ack
  <1>4. s \in {"I", "II", "MII"} /\ s # "MII"
    BY <1>2
  <1>5. resp' \subseteq [addr : Addrs, to : Caches, data : Block]
    BY <1>3, Zenon DEF CInv, BlockInv
  <1> QED
    BY <1>3, <1>4, <1>5, ForwardC, Zenon

(* A cache whose offer was refused keeps the block for whom it is promised *)
(* to.                                                                     *)
LEMMA Writeback_NackC ==
    ASSUME IInv, CInv, NEW c0 \in Caches, NEW d \in Dirs, Writeback_Nack(c0, d)
    PROVE  CInv'
  <1>1. PICK m \in ForwardMsgs : m = Head(fwd[c0][d])
    BY HeadOfQueue, Zenon DEF Writeback_Nack
  <1>2. PICK x \in Addrs : x = m.addr
    BY <1>1, Zenon DEF ForwardMsgs
  <1>3. PICK s : s = AfterNack[cstate[c0][x]] /\ cstate' = [cstate EXCEPT ![c0][x] = s]
    BY <1>1, <1>2, Zenon DEF Writeback_Nack
  <1>4. cstate[c0][x] \in {"MI", "II"}
    BY <1>1, <1>2, Zenon DEF Writeback_Nack, AfterNack
  <1>5. s \in {"I", "II", "MII"} /\ (s = "MII" => cstate[c0][x] = "MI")
    BY <1>3, <1>4 DEF AfterNack
  <1>6. UNCHANGED <<table, mq, data, resp, reqs, dirVars, dmaVars>>
    BY <1>1, <1>2, Zenon DEF Writeback_Nack
  <1>7. s = "MII" => data[c0][x] \in Block
    BY <1>5, Zenon DEF CInv, BlockInv
  <1>8. resp' \subseteq [addr : Addrs, to : Caches, data : Block]
    BY <1>6, Zenon DEF CInv, BlockInv
  <1>9. cstate' = [cstate EXCEPT ![c0][x] = s] /\ s \in {"I", "II", "MII"}
    BY <1>3, <1>5, Zenon
  <1> QED
    BY <1>6, <1>7, <1>8, <1>9, ForwardC, Zenon

-----------------------------------------------------------------------------
\* A step that is about line x leaves memory and the DMA requests for the
\* other lines alone.
OtherMemory(x) ==
    \A a \in Addrs \ {x} : dstate'[a] = dstate[a] /\ memOp'[a] = memOp[a] /\ mem'[a] = mem[a]

OtherDma(x) ==
    \A a \in Addrs \ {x} :
        /\ dmaFor'[a] = dmaFor[a]
        /\ \A d \in DMAs : dma'[d][a] = dma[d][a] /\ table'[d][a] = table[d][a]
        /\ \A m : m.addr = a => (m \in dmaReqs' <=> m \in dmaReqs) /\ (m \in dmaResp' <=> m \in dmaResp)

(* It has to be looked at only for that line. *)
LEMMA StoreLine ==
    ASSUME StoreInv, NEW x \in Addrs, OtherMemory(x), mem' \in [Addrs -> Block], OpInv(x)'
    PROVE  StoreInv'
  <1>1. ASSUME NEW a \in Addrs PROVE OpInv(a)'
    <2>1. CASE a = x
      BY <2>1, Zenon
    <2>2. CASE a # x
      <3>1. OpInv(a) /\ dstate'[a] = dstate[a] /\ memOp'[a] = memOp[a]
        BY <2>2, Zenon DEF StoreInv, OtherMemory
      <3> QED
        BY <3>1, Zenon DEF OpInv
    <2> QED
      BY <2>1, <2>2, Zenon
  <1> QED
    BY <1>1, Zenon DEF StoreInv

(* So do the DMA requests. *)
LEMMA DmaOther ==
    ASSUME DmaInv, NEW x \in Addrs, OtherMemory(x), OtherDma(x), DmaTypes', DmaLine(x)'
    PROVE  DmaInv'
  <1>1. ASSUME NEW a \in Addrs, a # x PROVE DmaLine(a)'
    <2>1. DmaLine(a) /\ DmaTypes
      BY Zenon DEF DmaInv
    <2>2. /\ dstate'[a] = dstate[a] /\ memOp'[a] = memOp[a] /\ dmaFor'[a] = dmaFor[a]
          /\ \A d \in DMAs : dma'[d][a] = dma[d][a] /\ table'[d][a] = table[d][a]
      BY <1>1, Zenon DEF OtherMemory, OtherDma
    <2>3. \A m : m.addr = a => (m \in dmaReqs' <=> m \in dmaReqs) /\ (m \in dmaResp' <=> m \in dmaResp)
      BY <1>1, Zenon DEF OtherDma
    <2>4. ForInv(a)'
      BY <2>1, <2>2, Zenon DEF DmaLine, ForInv
    <2>5. AnswerInv(a)'
      <3>1. \A m \in dmaResp' : m.to \in DMAs
        BY Zenon DEF DmaTypes
      <3> QED
        BY <2>1, <2>2, <2>3, <3>1, Zenon DEF DmaLine, AnswerInv
    <2>6. ASSUME NEW d \in DMAs PROVE PlaceInv(d, a)'
      <3>1. /\ InReq(d, a)' <=> InReq(d, a)
            /\ InResp(d, a)' <=> InResp(d, a)
        BY <2>3, Zenon DEF InReq, InResp
      <3>2. /\ InDir(d, a)' <=> InDir(d, a)
            /\ Waiting(d, a)' <=> Waiting(d, a)
        BY <2>2, Zenon DEF InDir, Waiting
      <3>3. PlaceInv(d, a)
        BY <2>1, Zenon DEF DmaLine
      <3> QED
        BY <2>2, <3>1, <3>2, <3>3, Zenon DEF PlaceInv
    <2> QED
      BY <2>4, <2>5, <2>6, Zenon DEF DmaLine
  <1> QED
    BY <1>1, Zenon DEF DmaInv

(* The requests for a line stay where they are when the directory has none *)
(* of them before the step and none after it.                              *)
LEMMA DmaIdle ==
    ASSUME DmaInv, NEW x \in Addrs, UNCHANGED <<table, dma, dmaReqs, dmaResp>>, ForInv(x)',
           \A d \in DMAs : ~InDir(d, x) /\ ~InDir(d, x)'
    PROVE  DmaLine(x)'
  <1>1. DmaLine(x)
    BY Zenon DEF DmaInv
  <1>2. AnswerInv(x)'
    BY <1>1, Zenon DEF DmaLine, AnswerInv
  <1>3. ASSUME NEW d \in DMAs PROVE PlaceInv(d, x)'
    <2>1. /\ InReq(d, x)' <=> InReq(d, x)
          /\ InResp(d, x)' <=> InResp(d, x)
          /\ Waiting(d, x)' <=> Waiting(d, x)
      BY Zenon DEF InReq, InResp, Waiting
    <2>2. PlaceInv(d, x) /\ ~InDir(d, x)'
      BY <1>1, Zenon DEF DmaLine
    <2> QED
      BY <2>1, <2>2, Zenon DEF PlaceInv
  <1> QED
    BY <1>2, <1>3, Zenon DEF DmaLine

(* The directory answers the request it is busy with. *)
LEMMA DmaAnswered ==
    ASSUME DmaInv, NEW x \in Addrs, NEW d0 \in DMAs, NEW b,
           dmaFor[x] = {d0}, InDir(d0, x),
           dma[d0][x] = (IF b = NoData THEN "BUSY_WR" ELSE "BUSY_RD"),
           dmaResp' = dmaResp \cup {ResponseMsg(x, d0, b)},
           UNCHANGED <<table, dma, dmaReqs>>, ForInv(x)', \A d \in DMAs : ~InDir(d, x)'
    PROVE  DmaLine(x)'
  <1>1. DmaLine(x) /\ PlaceInv(d0, x)
    BY Zenon DEF DmaInv, DmaLine
  <1>2. PICK r : r = ResponseMsg(x, d0, b)
    OBVIOUS
  <1>6. r.addr = x /\ r.to = d0 /\ r.data = b
    BY <1>2 DEF ResponseMsg
  <1>3. ~InResp(d0, x)
    BY <1>1, Zenon DEF PlaceInv
  <1>4. AnswerInv(x)'
    <2>1. AnswerInv(x) /\ dmaResp' = dmaResp \cup {r}
      BY <1>1, <1>2, Zenon DEF DmaLine
    <2>2. ASSUME NEW m \in dmaResp', m.addr = x
          PROVE  dma'[m.to][x] = (IF m.data = NoData THEN "BUSY_WR" ELSE "BUSY_RD")
      BY <1>6, <2>1, <2>2, Zenon DEF AnswerInv
    <2>3. ASSUME NEW m1 \in dmaResp', NEW m2 \in dmaResp',
                 m1.addr = x /\ m2.addr = x /\ m1.to = m2.to
          PROVE  m1 = m2
      BY <1>3, <1>6, <2>1, <2>3, Zenon DEF AnswerInv, InResp
    <2> QED
      BY <2>2, <2>3, Zenon DEF AnswerInv
  <1>5. ASSUME NEW d \in DMAs PROVE PlaceInv(d, x)'
    <2>1. PlaceInv(d, x) /\ ~InDir(d, x)'
      BY <1>1, Zenon DEF DmaLine
    <2>2. /\ InReq(d, x)' <=> InReq(d, x)
          /\ Waiting(d, x)' <=> Waiting(d, x)
      BY Zenon DEF InReq, Waiting
    <2>3. InResp(d, x)' <=> InResp(d, x) \/ d = d0
      BY <1>2, <1>6, Zenon DEF InResp
    <2>4. ~InReq(d0, x)
      BY <1>1, Zenon DEF PlaceInv
    <2> QED
      BY <2>1, <2>2, <2>3, <2>4, Zenon DEF PlaceInv
  <1> QED
    BY <1>4, <1>5, Zenon DEF DmaLine

-----------------------------------------------------------------------------
(* A step of a directory does not touch the caches. *)
LEMMA DirC ==
    ASSUME CInv, UNCHANGED <<table, cacheVars, resp>>, reqs' \subseteq reqs, StoreInv', DmaInv'
    PROVE  CInv'
  <1>1. UNCHANGED <<table, mq, cstate, data, resp>>
    BY Zenon DEF cacheVars
  <1>2. TableInv' /\ BlockInv'
    BY <1>1, TableSame, BlockSame, Zenon DEF CInv
  <1> QED
    BY <1>2, Zenon DEF CInv

(* The directory changes a line's state and what memory is to do for it. *)
LEMMA DirEffect ==
    ASSUME IInv, NEW x \in Addrs, NEW s, NEW op,
           dstate' = [dstate EXCEPT ![x] = s], memOp' = [memOp EXCEPT ![x] = op]
    PROVE  /\ dstate'[x] = s /\ memOp'[x] = op
           /\ \A a \in Addrs \ {x} : dstate'[a] = dstate[a] /\ memOp'[a] = memOp[a]
  <1>1. dstate \in [Addrs -> DirStates] /\ DOMAIN memOp = Addrs
    <2>1. DirTypes
      BY Zenon DEF IInv
    <2>2. memOp = [a \in Addrs |-> memOp[a]]
      BY <2>1, Zenon DEF DirTypes
    <2>3. DOMAIN memOp = Addrs
      BY <2>2
    <2> QED
      BY <2>1, <2>3, Zenon DEF DirTypes
  <1> QED
    BY <1>1

(* A request for a line is taken to memory or to the line's owner. *)
LEMMA GETXC ==
    ASSUME IInv, CInv, NEW m \in reqs, GETX(m)
    PROVE  CInv'
  <1>1. PICK x \in Addrs, r \in Caches : x = m.addr /\ r = m.from /\ m.type = "GETX"
    BY Zenon DEF IInv, ReqInv, GETX
  <1>2. /\ reqs' \subseteq reqs
        /\ UNCHANGED <<table, cacheVars, resp, dmaFor, mem, dma, dmaReqs, dmaResp>>
    BY Zenon DEF GETX, dmaVars
  <1>3. CASE dstate[x] = "M"
    <2>1. UNCHANGED <<dstate, memOp>>
      BY <1>1, <1>3, Zenon DEF GETX
    <2>2. StoreInv' /\ DmaInv'
      BY <1>2, <2>1, StoreSame, DmaSame, Zenon DEF CInv
    <2> QED
      BY <1>2, <2>2, DirC, Zenon
  <1>4. CASE dstate[x] # "M"
    <2>1. /\ dstate[x] = "I" /\ dstate' = [dstate EXCEPT ![x] = "IM"]
          /\ memOp' = [memOp EXCEPT ![x] = MemoryOp({r}, NoData, 0)]
      BY <1>1, <1>4, Zenon DEF GETX, queueMemoryRead
    <2>2. /\ dstate'[x] = "IM" /\ memOp'[x] = MemoryOp({r}, NoData, 0)
          /\ \A a \in Addrs \ {x} : dstate'[a] = dstate[a] /\ memOp'[a] = memOp[a]
      BY <2>1, DirEffect, Zenon
    <2>3. OtherMemory(x) /\ OtherDma(x)
      BY <1>2, <2>2, Zenon DEF OtherMemory, OtherDma
    <2>4. StoreInv'
      <3>1. OpInv(x)'
        BY <2>2 DEF OpInv, MemoryOp
      <3> QED
        BY <1>2, <2>3, <3>1, StoreLine, Zenon DEF CInv, StoreInv
    <2>5. DmaInv'
      <3>1. dmaFor[x] = {}
        BY <2>1, Zenon DEF CInv, DmaInv, DmaLine, ForInv
      <3>2. ForInv(x)' /\ \A d \in DMAs : ~InDir(d, x) /\ ~InDir(d, x)'
        BY <1>2, <2>2, <3>1 DEF ForInv, InDir
      <3>3. DmaInv /\ DmaTypes'
        BY <1>2, Zenon DEF CInv, DmaInv, DmaTypes
      <3>4. DmaLine(x)'
        BY <1>2, <3>2, <3>3, DmaIdle, Zenon
      <3> QED
        BY <2>3, <3>3, <3>4, DmaOther, Zenon
    <2> QED
      BY <1>2, <2>4, <2>5, DirC, Zenon
  <1> QED
    BY <1>3, <1>4, Zenon

(* A write-back that comes too late changes nothing but the queues. *)
LEMMA PUTX_NotOwnerC ==
    ASSUME IInv, CInv, NEW m \in reqs, PUTX_NotOwner(m)
    PROVE  CInv'
  <1>1. reqs' \subseteq reqs /\ UNCHANGED <<table, cacheVars, resp, dirVars, dmaVars>>
    BY Zenon DEF PUTX_NotOwner
  <1>2. UNCHANGED <<table, cacheVars, resp, dstate, dmaFor, memOp, mem, dma, dmaReqs, dmaResp>>
    BY <1>1, Zenon DEF dirVars, dmaVars
  <1>3. StoreInv' /\ DmaInv'
    BY <1>2, StoreSame, DmaSame, Zenon DEF CInv
  <1> QED
    BY <1>1, <1>3, DirC, Zenon

(* The block that the owner gives back is the one it holds. *)
LEMMA PutxData ==
    ASSUME IInv, CInv, NEW m \in reqs, m.type = "PUTX", m.from \in owner[m.addr]
    PROVE  /\ m.addr \in Addrs /\ m.from \in Caches
           /\ m.data \in Block /\ m.data = data[m.from][m.addr] /\ Holds(m.from, m.addr)
  <1>1. PICK x \in Addrs, r \in Caches : x = m.addr /\ r = m.from
    BY Zenon DEF IInv, ReqInv
  <1>2. r \in owner[x] /\ Offered(r, x) /\ ReturnInv(x, r)
    BY <1>1, Zenon DEF Offered, IInv, LineInv
  <1>3. cstate[r][x] = "MI" /\ ~TakenBack(r, x) /\ ~Ack(r, x)
    BY <1>2, Zenon DEF ReturnInv, Awaits
  <1>4. m.data = data[r][x] /\ data[r][x] \in Block
    BY <1>1, <1>3, Zenon DEF CInv, BlockInv
  <1>5. ~Fetching(r, x)
    BY <1>3, Zenon DEF IInv, LineInv, AskInv, Awaits
  <1> QED
    BY <1>1, <1>3, <1>4, <1>5, Zenon DEF Holds, WrittenBack, TakenBack, Fetching, Ack

(* An answer to a DMA request is about its line only. *)
LEMMA OtherAnswered ==
    ASSUME NEW x \in Addrs, NEW d0, NEW b, dmaResp' = dmaResp \cup {ResponseMsg(x, d0, b)},
           UNCHANGED <<table, dma, dmaReqs>>, \A a \in Addrs \ {x} : dmaFor'[a] = dmaFor[a]
    PROVE  OtherDma(x)
  <1>1. PICK r : r = ResponseMsg(x, d0, b)
    OBVIOUS
  <1>2. r.addr = x
    BY <1>1 DEF ResponseMsg
  <1>3. dmaResp' = dmaResp \cup {r}
    BY <1>1, Zenon
  <1> QED
    BY <1>2, <1>3, Zenon DEF OtherDma

(* The owner gives the line back. *)
LEMMA PUTXC ==
    ASSUME IInv, CInv, NEW m \in reqs, PUTX(m)
    PROVE  CInv'
  <1>1. PICK x \in Addrs, r \in Caches, b \in Block : x = m.addr /\ r = m.from /\ b = m.data
    BY PutxData, Zenon DEF PUTX
  <1>2. /\ reqs' \subseteq reqs
        /\ UNCHANGED <<table, cacheVars, resp, dmaFor, mem, dma, dmaReqs>>
    BY Zenon DEF PUTX
  <1>3. DmaInv /\ StoreInv /\ ForInv(x) /\ DmaTypes
    BY Zenon DEF CInv, DmaInv, DmaLine
  <1>4. ASSUME NEW s \in {"MI", "M_DRDI", "M_DWRI"}, NEW op, op.data \in Block,
               op.len \in 0 .. LineSize,
               dstate' = [dstate EXCEPT ![x] = s], memOp' = [memOp EXCEPT ![x] = op]
        PROVE  dstate'[x] = s /\ memOp'[x] = op /\ OtherMemory(x) /\ StoreInv'
    <2>1. /\ dstate'[x] = s /\ memOp'[x] = op
          /\ \A a \in Addrs \ {x} : dstate'[a] = dstate[a] /\ memOp'[a] = memOp[a]
      BY <1>4, DirEffect, Zenon
    <2>2. OtherMemory(x)
      BY <1>2, <2>1, Zenon DEF OtherMemory
    <2>3. OpInv(x)'
      BY <1>4, <2>1 DEF OpInv
    <2>4. mem' \in [Addrs -> Block]
      BY <1>2, <1>3, Zenon DEF StoreInv
    <2> QED
      BY <1>3, <2>1, <2>2, <2>3, <2>4, StoreLine, Zenon
  <1>5. PICK w : w = MemoryOp({r}, b, LineSize)
    OBVIOUS
  <1>6. w.data \in Block /\ w.len \in 0 .. LineSize
    BY <1>5, MIAssumption DEF MemoryOp
  <1>7. CASE dstate[x] = "M"
    <2>1. /\ dstate' = [dstate EXCEPT ![x] = "MI"] /\ memOp' = [memOp EXCEPT ![x] = w]
          /\ UNCHANGED dmaResp
      BY <1>1, <1>5, <1>7, Zenon DEF PUTX, queueMemoryWrite
    <2>2. dstate'[x] = "MI" /\ OtherMemory(x) /\ StoreInv'
      BY <1>4, <1>6, <2>1, Zenon
    <2>3. dmaFor[x] = {}
      BY <1>3, <1>7, Zenon DEF ForInv
    <2>4. ForInv(x)' /\ \A d \in DMAs : ~InDir(d, x) /\ ~InDir(d, x)'
      BY <1>2, <2>2, <2>3 DEF ForInv, InDir
    <2>5. OtherDma(x) /\ DmaTypes'
      BY <1>2, <1>3, <2>1, Zenon DEF OtherDma, DmaTypes
    <2>6. DmaLine(x)'
      BY <1>2, <1>3, <2>1, <2>4, DmaIdle, Zenon
    <2>7. DmaInv'
      BY <1>3, <2>2, <2>5, <2>6, DmaOther, Zenon
    <2> QED
      BY <1>2, <2>2, <2>7, DirC, Zenon
  <1>8. CASE dstate[x] = "M_DRD"
    <2>1. dstate' = [dstate EXCEPT ![x] = "M_DRDI"] /\ memOp' = [memOp EXCEPT ![x] = w]
      BY <1>1, <1>5, <1>8, Zenon DEF PUTX, queueMemoryWrite
    <2>2. dstate'[x] = "M_DRDI" /\ OtherMemory(x) /\ StoreInv'
      BY <1>4, <1>6, <2>1, Zenon
    <2>3. PICK d0 \in DMAs : dmaFor[x] = {d0}
      BY <1>3, <1>8 DEF ForInv
    <2>4. dmaResp' = dmaResp \cup {ResponseMsg(x, d0, b)}
      <3>1. dmaResp' = dmaResp \cup {ResponseMsg(m.addr, d, m.data) : d \in dmaFor[m.addr]}
        BY <1>1, <1>8, Zenon DEF PUTX
      <3>2. dmaResp' = dmaResp \cup {ResponseMsg(m.addr, d0, m.data)}
        BY <1>1, <2>3, <3>1, Zenon
      <3> QED
        BY <1>1, <3>2, Zenon
    <2>5. InDir(d0, x)
      BY <1>8, <2>3, Zenon DEF InDir
    <2>6. dma[d0][x] = (IF b = NoData THEN "BUSY_WR" ELSE "BUSY_RD")
      BY <1>3, <1>8, <2>5, MIAssumption, Zenon DEF DmaInv, DmaLine, PlaceInv
    <2>7. ForInv(x)' /\ \A d \in DMAs : ~InDir(d, x)'
      BY <1>2, <2>2, <2>3 DEF ForInv, InDir
    <2>8. DmaLine(x)'
      BY <1>2, <1>3, <2>3, <2>4, <2>5, <2>6, <2>7, DmaAnswered, Zenon
    <2>9. DmaTypes'
      BY <1>2, <1>3, <2>4 DEF DmaTypes, ResponseMsg
    <2>10. OtherDma(x)
      BY <1>2, <2>4, OtherAnswered, Zenon
    <2>11. DmaInv'
      BY <1>3, <2>2, <2>8, <2>9, <2>10, DmaOther, Zenon
    <2> QED
      BY <1>2, <2>2, <2>11, DirC, Zenon
  <1>9. CASE dstate[x] = "M_DWR"
    <2>1. PICK d0 \in DMAs : dmaFor[x] = {d0}
      BY <1>3, <1>9 DEF ForInv
    <2>2. /\ dstate' = [dstate EXCEPT ![x] = "M_DWRI"]
          /\ queueMemoryWritePartial(x, r, table[d0][x]) /\ UNCHANGED dmaResp
      BY <1>1, <1>9, <2>1, Zenon DEF PUTX
    <2>3. PICK op : op = MemoryOp({r}, DmaBlock(table[d0][x]), table[d0][x].len)
      OBVIOUS
    <2>4. InDir(d0, x) /\ DmaLine(x) /\ PlaceInv(d0, x)
      BY <1>3, <1>9, <2>1, Zenon DEF InDir, DmaInv, DmaLine
    <2>5. dma[d0][x] = "BUSY_WR" /\ table[d0][x].op = "Store"
      BY <1>9, <2>4, Zenon DEF PlaceInv
    <2>6. table[d0][x].val \in Val /\ table[d0][x].len \in 1 .. LineSize
      <3>1. d0 \in Caches \cup DMAs
        BY Zenon
      <3>2. table[d0][x] \in OpsOf[d0]
        BY <2>5, <3>1, Zenon DEF CInv, TableInv, Waiting, Unanswered
      <3> QED
        BY <2>5, <3>1, <3>2, OpKinds, Zenon
    <2>7. DmaBlock(table[d0][x]) \in Block
      BY <2>6, Blocks, Zenon
    <2>8. op.data \in Block /\ op.len \in 0 .. LineSize
      BY <2>3, <2>6, <2>7 DEF MemoryOp
    <2>9. dstate'[x] = "M_DWRI" /\ OtherMemory(x) /\ StoreInv'
      BY <1>4, <2>2, <2>3, <2>8, Zenon DEF queueMemoryWritePartial
    <2>10. OtherDma(x) /\ DmaTypes'
      BY <1>2, <1>3, <2>2, Zenon DEF OtherDma, DmaTypes
    <2>11. ForInv(x)'
      BY <1>2, <2>1, <2>9 DEF ForInv
    <2>12. AnswerInv(x)'
      BY <1>2, <2>2, <2>4, Zenon DEF DmaLine, AnswerInv
    <2>13. ASSUME NEW d \in DMAs PROVE PlaceInv(d, x)'
      <3>1. /\ InReq(d, x)' <=> InReq(d, x)
            /\ InResp(d, x)' <=> InResp(d, x)
            /\ Waiting(d, x)' <=> Waiting(d, x)
        BY <1>2, <2>2, Zenon DEF InReq, InResp, Waiting
      <3>2. InDir(d, x)' <=> InDir(d, x)
        BY <1>2, <1>9, <2>9, Zenon DEF InDir
      <3>3. PlaceInv(d, x) /\ UNCHANGED <<dma, table>>
        BY <1>2, <2>4, Zenon DEF DmaLine
      <3> QED
        BY <1>9, <2>9, <3>1, <3>2, <3>3, Zenon DEF PlaceInv
    <2>14. DmaInv'
      BY <1>3, <2>9, <2>10, <2>11, <2>12, <2>13, DmaOther, Zenon DEF DmaLine
    <2> QED
      BY <1>2, <2>9, <2>14, DirC, Zenon
  <1> QED
    BY <1>1, <1>7, <1>8, <1>9, Zenon DEF PUTX

(* A DMA request is taken to memory, or has the line called back. *)
LEMMA DMA_RequestC ==
    ASSUME IInv, CInv, NEW m \in dmaReqs, DMA_Request(m)
    PROVE  CInv'
  <1>1. PICK x \in Addrs, d0 \in DMAs : x = m.addr /\ d0 = m.from
    BY Zenon DEF IInv, DirTypes
  <1>2. /\ dmaFor' = [dmaFor EXCEPT ![x] = {d0}] /\ dmaReqs' = dmaReqs \ {m}
        /\ UNCHANGED <<table, cacheVars, resp, reqs, mem, dma, dmaResp>>
    BY <1>1, Zenon DEF DMA_Request
  <1>3. DmaInv /\ StoreInv /\ DmaTypes /\ DmaLine(x) /\ PlaceInv(d0, x) /\ InReq(d0, x)
    BY <1>1, Zenon DEF CInv, DmaInv, DmaLine, InReq
  <1>4. /\ dma[d0][x] \in {"BUSY_RD", "BUSY_WR"} /\ ~InResp(d0, x)
        /\ dma[d0][x] = "BUSY_RD" <=> table[d0][x].op = "Load"
    BY <1>3 DEF PlaceInv, DmaTypes
  <1>5. /\ table[d0][x].len \in 1 .. LineSize
        /\ table[d0][x].op # "Load" => DmaBlock(table[d0][x]) \in Block
    <2>1. d0 \in Caches \cup DMAs
      BY Zenon
    <2>2. Waiting(d0, x)
      BY <1>3, <1>4 DEF PlaceInv, Waiting, Unanswered
    <2>3. table[d0][x] \in OpsOf[d0]
      BY <2>1, <2>2, Zenon DEF CInv, TableInv
    <2> QED
      BY <2>1, <2>3, OpKinds, Blocks, Zenon
  <1>6. dstate[x] \in {"I", "M"} /\ dmaFor[x] = {}
    <2>1. dstate[x] \in {"I", "M"}
      BY <1>1, Zenon DEF DMA_Request
    <2> QED
      BY <1>3, <2>1 DEF DmaLine, ForInv
  <1>7. PICK s \in {"ID", "ID_W", "M_DRD", "M_DWR"},
             op \in {NoOp, MemoryOp({d0}, NoData, 0),
                     MemoryOp({d0}, DmaBlock(table[d0][x]), table[d0][x].len)} :
            /\ dstate' = [dstate EXCEPT ![x] = s] /\ memOp' = [memOp EXCEPT ![x] = op]
            /\ s \in {"ID", "M_DRD"} <=> table[d0][x].op = "Load"
            /\ s = "ID" => op = MemoryOp({d0}, NoData, 0)
            /\ s = "ID_W" => op = MemoryOp({d0}, DmaBlock(table[d0][x]), table[d0][x].len)
            /\ s \in {"M_DRD", "M_DWR"} => op = NoOp
    <2>1. CASE dstate[x] = "I"
      BY <1>1, <2>1 DEF DMA_Request, queueMemoryRead, queueMemoryWritePartial
    <2>2. CASE dstate[x] = "M"
      <3>1. memOp[x] = NoOp
        BY <1>3, <2>2 DEF StoreInv, OpInv
      <3>2. memOp' = [memOp EXCEPT ![x] = NoOp]
        <4>1. memOp' = memOp
          BY <1>1, <2>2, Zenon DEF DMA_Request
        <4>2. memOp = [a \in Addrs |-> memOp[a]]
          BY Zenon DEF IInv, DirTypes
        <4> QED
          BY <3>1, <4>1, <4>2
      <3>3. PICK s \in {"M_DRD", "M_DWR"} :
                dstate' = [dstate EXCEPT ![x] = s] /\ (s = "M_DRD" <=> table[d0][x].op = "Load")
        BY <1>1, <2>2 DEF DMA_Request
      <3> QED
        BY <3>2, <3>3
    <2> QED
      BY <1>6, <2>1, <2>2, Zenon
  <1>8. /\ dstate'[x] = s /\ memOp'[x] = op
        /\ \A a \in Addrs \ {x} : dstate'[a] = dstate[a] /\ memOp'[a] = memOp[a]
    BY <1>7, DirEffect, Zenon
  <1>9. dmaFor'[x] = {d0} /\ \A a \in Addrs \ {x} : dmaFor'[a] = dmaFor[a]
    BY <1>2, <1>3, Zenon DEF DmaTypes
  <1>10. OtherMemory(x) /\ OtherDma(x)
    BY <1>1, <1>2, <1>8, <1>9, Zenon DEF OtherMemory, OtherDma
  <1>11. OpInv(x)'
    BY <1>5, <1>7, <1>8 DEF OpInv, MemoryOp
  <1>12. StoreInv'
    BY <1>2, <1>3, <1>10, <1>11, StoreLine, Zenon DEF StoreInv
  <1>13. DmaTypes'
    BY <1>2, <1>3, Zenon DEF DmaTypes
  <1>14. ForInv(x)'
    BY <1>7, <1>8, <1>9 DEF ForInv, MemoryOp
  <1>15. AnswerInv(x)'
    BY <1>2, <1>3, Zenon DEF DmaLine, AnswerInv
  <1>16. \A d \in DMAs : InReq(d, x)' <=> InReq(d, x) /\ d # d0
    BY <1>1, <1>2, <1>3 DEF DmaTypes, InReq
  <1>17. ASSUME NEW d \in DMAs PROVE PlaceInv(d, x)'
    <2>1. InResp(d, x)' <=> InResp(d, x)
      BY <1>2, Zenon DEF InResp
    <2>2. Waiting(d, x)' <=> Waiting(d, x)
      BY <1>2, Zenon DEF Waiting
    <2>3. PlaceInv(d, x) /\ UNCHANGED <<dma, table>>
      BY <1>2, <1>3, Zenon DEF DmaLine
    <2>4. CASE d = d0
      <3>1. dma[d0][x] = IF dstate'[x] \in {"ID", "M_DRD"} THEN "BUSY_RD" ELSE "BUSY_WR"
        BY <1>4, <1>7, <1>8
      <3>2. ~InReq(d, x)' /\ ~InResp(d, x)'
        BY <1>4, <1>16, <2>1, <2>4, Zenon
      <3> QED
        BY <2>2, <2>3, <2>4, <3>1, <3>2, Zenon DEF PlaceInv
    <2>5. CASE d # d0
      <3>1. ~InDir(d, x) /\ ~InDir(d, x)'
        BY <1>6, <1>9, <2>5, Zenon DEF InDir
      <3>2. InReq(d, x)' <=> InReq(d, x)
        BY <1>16, <2>5, Zenon
      <3> QED
        BY <2>1, <2>2, <2>3, <3>1, <3>2, Zenon DEF PlaceInv
    <2> QED
      BY <2>4, <2>5, Zenon
  <1>18. DmaInv'
    BY <1>3, <1>10, <1>13, <1>14, <1>15, <1>17, DmaOther, Zenon DEF DmaLine
  <1>19. reqs' \subseteq reqs
    BY <1>2, Zenon
  <1> QED
    BY <1>2, <1>12, <1>18, <1>19, DirC, Zenon

(* Memory has done what it was told to do. *)
LEMMA MemoryDone ==
    ASSUME IInv, CInv, NEW x \in Addrs, NEW s \in {"I", "M"}, memoryDone(x, s)
    PROVE  /\ StoreInv' /\ OtherMemory(x)
           /\ dstate'[x] = s /\ memOp'[x] = NoOp /\ dmaFor'[x] = {}
           /\ mem'[x] = Performed(mem[x], memOp[x]) /\ mem'[x] \in Block
           /\ \A a \in Addrs \ {x} : dmaFor'[a] = dmaFor[a]
           /\ dmaFor' \in [Addrs -> SUBSET DMAs]
  <1>1. /\ dstate' = [dstate EXCEPT ![x] = s] /\ memOp' = [memOp EXCEPT ![x] = NoOp]
        /\ mem' = [mem EXCEPT ![x] = Performed(mem[x], memOp[x])]
        /\ dmaFor' = [dmaFor EXCEPT ![x] = {}]
    BY Zenon DEF memoryDone
  <1>2. /\ dstate'[x] = s /\ memOp'[x] = NoOp
        /\ \A a \in Addrs \ {x} : dstate'[a] = dstate[a] /\ memOp'[a] = memOp[a]
    BY <1>1, DirEffect, Zenon
  <1>3. Performed(mem[x], memOp[x]) \in Block
    <2>1. mem[x] \in Block /\ OpInv(x) /\ dstate[x] \in DirStates
      BY Zenon DEF CInv, StoreInv, IInv, DirTypes
    <2>2. memOp[x].len = 0 \/ (memOp[x].data \in Block /\ memOp[x].len \in 0 .. LineSize)
      BY <2>1 DEF OpInv, NoOp, MemoryOp, DirStates
    <2> QED
      BY <2>1, <2>2, Blocks, Zenon
  <1>4. mem \in [Addrs -> Block] /\ StoreInv /\ dmaFor \in [Addrs -> SUBSET DMAs]
    BY Zenon DEF CInv, StoreInv, DmaInv, DmaTypes
  <1>5. /\ mem'[x] = Performed(mem[x], memOp[x]) /\ mem' \in [Addrs -> Block]
        /\ \A a \in Addrs \ {x} : mem'[a] = mem[a]
    BY <1>1, <1>3, <1>4, Zenon
  <1>6. /\ dmaFor'[x] = {} /\ dmaFor' \in [Addrs -> SUBSET DMAs]
        /\ \A a \in Addrs \ {x} : dmaFor'[a] = dmaFor[a]
    BY <1>1, <1>4
  <1>7. OtherMemory(x)
    BY <1>2, <1>5, Zenon DEF OtherMemory
  <1>8. OpInv(x)'
    BY <1>2 DEF OpInv
  <1>9. StoreInv'
    BY <1>4, <1>5, <1>7, <1>8, StoreLine, Zenon
  <1> QED
    BY <1>2, <1>3, <1>5, <1>6, <1>7, <1>9, Zenon

(* Memory answers the request that the directory is busy with. *)
LEMMA MemoryAnswers ==
    ASSUME IInv, CInv, NEW x \in Addrs, memoryDone(x, "I"), NEW d0 \in DMAs, NEW b,
           dmaFor[x] = {d0}, InDir(d0, x), b \in Block \cup {NoData},
           dma[d0][x] = (IF b = NoData THEN "BUSY_WR" ELSE "BUSY_RD"),
           dmaResp' = dmaResp \cup {ResponseMsg(x, d0, b)}
    PROVE  DmaInv'
  <1>1. UNCHANGED <<table, dma, dmaReqs>>
    BY Zenon DEF memoryDone
  <1>2. PICK s \in {"I", "M"} : s = "I" /\ memoryDone(x, s)
    BY Zenon
  <1>3. /\ OtherMemory(x) /\ dstate'[x] = "I" /\ dmaFor'[x] = {}
        /\ \A a \in Addrs \ {x} : dmaFor'[a] = dmaFor[a]
        /\ dmaFor' \in [Addrs -> SUBSET DMAs]
    BY <1>2, MemoryDone, Zenon
  <1>4. DmaInv /\ DmaTypes
    BY Zenon DEF CInv, DmaInv
  <1>5. ForInv(x)' /\ \A d \in DMAs : ~InDir(d, x)'
    BY <1>3 DEF ForInv, InDir
  <1>6. DmaLine(x)'
    BY <1>1, <1>4, <1>5, DmaAnswered, Zenon
  <1>7. OtherDma(x)
    BY <1>1, <1>3, OtherAnswered, Zenon
  <1>8. DmaTypes'
    BY <1>1, <1>3, <1>4 DEF DmaTypes, ResponseMsg
  <1> QED
    BY <1>3, <1>4, <1>6, <1>7, <1>8, DmaOther, Zenon

(* Memory is done with a line for which no DMA request waits. *)
LEMMA MemoryQuiet ==
    ASSUME IInv, CInv, NEW x \in Addrs, NEW s \in {"I", "M"}, memoryDone(x, s),
           dstate[x] \in {"IM", "MI", "M_DRDI"}, UNCHANGED dmaResp
    PROVE  DmaInv'
  <1>1. UNCHANGED <<table, dma, dmaReqs, dmaResp>>
    BY Zenon DEF memoryDone
  <1>3. /\ OtherMemory(x) /\ dstate'[x] = s /\ dmaFor'[x] = {}
        /\ \A a \in Addrs \ {x} : dmaFor'[a] = dmaFor[a]
        /\ dmaFor' \in [Addrs -> SUBSET DMAs]
    BY MemoryDone, Zenon
  <1>4. DmaInv /\ DmaTypes
    BY Zenon DEF CInv, DmaInv
  <1>5. ForInv(x)' /\ \A d \in DMAs : ~InDir(d, x) /\ ~InDir(d, x)'
    BY <1>3 DEF ForInv, InDir
  <1>6. DmaLine(x)'
    BY <1>1, <1>4, <1>5, DmaIdle, Zenon
  <1>7. OtherDma(x)
    BY <1>1, <1>3, Zenon DEF OtherDma
  <1>8. DmaTypes'
    BY <1>1, <1>3, <1>4, Zenon DEF DmaTypes
  <1> QED
    BY <1>3, <1>4, <1>6, <1>7, <1>8, DmaOther, Zenon

(* The line has been read. *)
LEMMA Memory_DataC ==
    ASSUME IInv, CInv, NEW x \in Addrs, Memory_Data(x)
    PROVE  CInv'
  <1>1. CASE dstate[x] = "IM"
    <2>1. /\ memoryDone(x, "M") /\ UNCHANGED dmaResp
          /\ resp' = resp \cup {ResponseMsg(x, p, mem[x]) : p \in memOp[x].for}
      BY <1>1, Zenon DEF Memory_Data
    <2>2. PICK s \in {"I", "M"} : s = "M" /\ memoryDone(x, s)
      BY <2>1, Zenon
    <2>3. StoreInv'
      BY <2>2, MemoryDone, Zenon
    <2>4. dstate[x] \in {"IM", "MI", "M_DRDI"}
      BY <1>1, Zenon
    <2>5. DmaInv'
      BY <2>1, <2>2, <2>4, MemoryQuiet, Zenon
    <2>6. PICK c \in Caches : memOp[x].for = {c}
      BY <1>1, Zenon DEF IInv, LineInv, MemInv
    <2>7. mem[x] \in Block /\ BlockInv
      BY Zenon DEF CInv, StoreInv
    <2>8. resp' = resp \cup {ResponseMsg(x, c, mem[x])}
      BY <2>1, <2>6, Zenon
    <2>9. resp' \subseteq [addr : Addrs, to : Caches, data : Block]
      BY <2>7, <2>8 DEF BlockInv, ResponseMsg
    <2>10. UNCHANGED <<table, mq, cstate, data, reqs>>
      BY <2>1, Zenon DEF memoryDone, cacheVars
    <2>11. BlockInv'
      BY <2>7, <2>9, <2>10, Zenon DEF BlockInv
    <2>12. TableInv'
      BY <2>10, TableSame, Zenon DEF CInv
    <2> QED
      BY <2>3, <2>5, <2>11, <2>12, Zenon DEF CInv
  <1>2. CASE dstate[x] # "IM"
    <2>1. /\ dstate[x] = "ID" /\ memoryDone(x, "I") /\ UNCHANGED resp
          /\ dmaResp' = dmaResp \cup {ResponseMsg(x, p, mem[x]) : p \in memOp[x].for}
      BY <1>2, Zenon DEF Memory_Data
    <2>2. PICK s \in {"I", "M"} : s = "I" /\ memoryDone(x, s)
      BY <2>1, Zenon
    <2>3. StoreInv'
      BY <2>2, MemoryDone, Zenon
    <2>4. DmaLine(x) /\ mem[x] \in Block
      BY Zenon DEF CInv, DmaInv, StoreInv
    <2>5. PICK d0 \in DMAs : dmaFor[x] = {d0} /\ memOp[x].for = {d0}
      BY <2>1, <2>4 DEF DmaLine, ForInv
    <2>6. InDir(d0, x)
      BY <2>1, <2>5, Zenon DEF InDir
    <2>7. dma[d0][x] = "BUSY_RD"
      BY <2>1, <2>4, <2>6, Zenon DEF DmaLine, PlaceInv
    <2>8. /\ dma[d0][x] = (IF mem[x] = NoData THEN "BUSY_WR" ELSE "BUSY_RD")
          /\ mem[x] \in Block \cup {NoData}
      BY <2>4, <2>7, MIAssumption, Zenon
    <2>9. dmaResp' = dmaResp \cup {ResponseMsg(x, d0, mem[x])}
      BY <2>1, <2>5, Zenon
    <2>10. PICK b : b = mem[x]
      OBVIOUS
    <2>11. /\ dma[d0][x] = (IF b = NoData THEN "BUSY_WR" ELSE "BUSY_RD")
           /\ b \in Block \cup {NoData}
           /\ dmaResp' = dmaResp \cup {ResponseMsg(x, d0, b)}
      BY <2>8, <2>9, <2>10, Zenon
    <2>12. DmaInv'
      BY <2>1, <2>5, <2>6, <2>11, MemoryAnswers, Zenon
    <2>13. UNCHANGED <<table, cacheVars, resp>> /\ reqs' \subseteq reqs
      BY <2>1, Zenon DEF memoryDone
    <2> QED
      BY <2>3, <2>12, <2>13, DirC, Zenon
  <1> QED
    BY <1>1, <1>2, Zenon

(* The line has been written. *)
LEMMA Memory_AckC ==
    ASSUME IInv, CInv, NEW x \in Addrs, Memory_Ack(x)
    PROVE  CInv'
  <1>1. memoryDone(x, "I") /\ dstate[x] \in {"MI", "M_DRDI", "M_DWRI", "ID_W"}
    BY Zenon DEF Memory_Ack
  <1>2. PICK s \in {"I", "M"} : s = "I" /\ memoryDone(x, s)
    BY <1>1, Zenon
  <1>3. StoreInv'
    BY <1>2, MemoryDone, Zenon
  <1>4. UNCHANGED <<table, cacheVars, resp>> /\ reqs' \subseteq reqs
    BY <1>1, Zenon DEF memoryDone, Memory_Ack
  <1>5. CASE dstate[x] \in {"MI", "M_DRDI"}
    <2>1. UNCHANGED dmaResp /\ dstate[x] \in {"IM", "MI", "M_DRDI"}
      BY <1>5, Zenon DEF Memory_Ack
    <2>2. DmaInv'
      BY <1>2, <2>1, MemoryQuiet, Zenon
    <2> QED
      BY <1>3, <1>4, <2>2, DirC, Zenon
  <1>6. CASE dstate[x] \in {"M_DWRI", "ID_W"}
    <2>1. dmaResp' = dmaResp \cup {ResponseMsg(x, d, NoData) : d \in dmaFor[x]}
      BY <1>6, Zenon DEF Memory_Ack
    <2>2. DmaLine(x)
      BY Zenon DEF CInv, DmaInv
    <2>3. PICK d0 \in DMAs : dmaFor[x] = {d0}
      BY <1>6, <2>2 DEF DmaLine, ForInv
    <2>4. InDir(d0, x)
      BY <1>6, <2>3, Zenon DEF InDir
    <2>5. PICK b : b = NoData
      OBVIOUS
    <2>6. dma[d0][x] = (IF b = NoData THEN "BUSY_WR" ELSE "BUSY_RD")
      BY <1>6, <2>2, <2>4, <2>5, Zenon DEF DmaLine, PlaceInv
    <2>7. dmaResp' = dmaResp \cup {ResponseMsg(x, d0, b)} /\ b \in Block \cup {NoData}
      BY <2>1, <2>3, <2>5, Zenon
    <2>8. DmaInv'
      BY <1>1, <2>3, <2>4, <2>6, <2>7, MemoryAnswers, Zenon
    <2> QED
      BY <1>3, <1>4, <2>8, DirC, Zenon
  <1> QED
    BY <1>1, <1>5, <1>6, Zenon

-----------------------------------------------------------------------------
\* Only the request of d0 for line x changes.
OnlyEntry(d0, x) ==
    \A d \in DMAs, a \in Addrs : d # d0 \/ a # x =>
        table'[d][a] = table[d][a] /\ (Waiting(d, a)' <=> Waiting(d, a))

(* A DMA controller asks for line x, or gets its answer: its own request is *)
(* the only one that changes.                                               *)
LEMMA DmaTable ==
    ASSUME IInv, CInv, NEW d0 \in DMAs, NEW x \in Addrs, NEW e,
           table' = [table EXCEPT ![d0][x] = e], Unanswered(e) => e \in OpsOf[d0],
           UNCHANGED <<cacheVars, resp, reqs, dirVars>>
    PROVE  /\ TableInv' /\ BlockInv' /\ StoreInv'
           /\ table'[d0][x] = e /\ (Waiting(d0, x)' <=> Unanswered(e))
           /\ OnlyEntry(d0, x)
  <1>1. UNCHANGED <<mq, cstate, data, resp, dstate, memOp, mem>> /\ reqs' \subseteq reqs
    BY Zenon DEF cacheVars, dirVars
  <1>2. TableInv /\ BlockInv /\ StoreInv
    BY Zenon DEF CInv
  <1>3. TableInv'
    BY <1>1, <1>2, TableDma, Zenon
  <1>4. BlockInv' /\ StoreInv'
    BY <1>1, <1>2, BlockSame, StoreSame, Zenon
  <1>5. d0 \in Caches \cup DMAs /\ \A d \in DMAs : d \in Caches \cup DMAs
    BY Zenon
  <1>6. \A p \in Caches \cup DMAs, a \in Addrs :
            table'[p][a] = IF p = d0 /\ a = x THEN e ELSE table[p][a]
    <2>1. table = [p \in Caches \cup DMAs |-> [a \in Addrs |-> table[p][a]]]
      BY <1>2, Zenon DEF TableInv, TableDom
    <2> QED
      BY <1>5, <2>1
  <1>7. table'[d0][x] = e /\ (Waiting(d0, x)' <=> Unanswered(e))
    BY <1>5, <1>6, Zenon DEF Waiting
  <1>8. OnlyEntry(d0, x)
    <2> SUFFICES ASSUME NEW d \in DMAs, NEW a \in Addrs, d # d0 \/ a # x
                 PROVE  table'[d][a] = table[d][a] /\ (Waiting(d, a)' <=> Waiting(d, a))
      BY Zenon DEF OnlyEntry
    <2>0. d \in Caches \cup DMAs
      BY Zenon
    <2>1. table'[d][a] = table[d][a]
      BY <1>6, <2>0
    <2> QED
      BY <2>1, Zenon DEF Waiting
  <1> QED
    BY <1>3, <1>4, <1>7, <1>8, Zenon

(* The request goes to the directory, and is nowhere else. *)
LEMMA DmaRequestC ==
    ASSUME IInv, CInv, NEW d0 \in DMAs, NEW x \in Addrs, DmaRequest(d0, x)
    PROVE  CInv'
  <1>1. PICK op \in OpsOf[d0], s \in {"BUSY_RD", "BUSY_WR"} :
            /\ table' = [table EXCEPT ![d0][x] = op] /\ dma' = [dma EXCEPT ![d0][x] = s]
            /\ s = IF op.op = "Load" THEN "BUSY_RD" ELSE "BUSY_WR"
    BY Zenon DEF DmaRequest
  <1>2. /\ dma[d0][x] = "READY" /\ dmaReqs' = dmaReqs \cup {[addr |-> x, from |-> d0]}
        /\ UNCHANGED <<cacheVars, resp, reqs, dirVars, dmaResp>>
    BY Zenon DEF DmaRequest
  <1>3. /\ TableInv' /\ BlockInv' /\ StoreInv'
        /\ table'[d0][x] = op
        /\ OnlyEntry(d0, x)
    <2>1. table' = [table EXCEPT ![d0][x] = op] /\ (Unanswered(op) => op \in OpsOf[d0])
      BY <1>1, Zenon
    <2>2. UNCHANGED <<cacheVars, resp, reqs, dirVars>>
      BY <1>2, Zenon
    <2> QED
      BY <2>1, <2>2, DmaTable, Zenon
  <1>4. DmaInv /\ DmaTypes /\ DmaLine(x) /\ UNCHANGED <<dstate, memOp, mem, dmaFor>>
    BY <1>2, Zenon DEF CInv, DmaInv, dirVars
  <1>5. /\ dma'[d0][x] = s
        /\ \A d \in DMAs, a \in Addrs : d # d0 \/ a # x => dma'[d][a] = dma[d][a]
    BY <1>1, <1>4, Zenon DEF DmaTypes
  <1>6. PICK r : r = [addr |-> x, from |-> d0]
    OBVIOUS
  <1>7. r.addr = x /\ r.from = d0 /\ dmaReqs' = dmaReqs \cup {r}
    BY <1>2, <1>6
  <1>8. OtherMemory(x) /\ OtherDma(x)
    BY <1>2, <1>3, <1>4, <1>5, <1>7, Zenon DEF OtherMemory, OtherDma, OnlyEntry
  <1>9. DmaTypes'
    BY <1>1, <1>2, <1>4 DEF DmaTypes
  <1>10. ~InDir(d0, x) /\ ~InResp(d0, x)
    BY <1>2, <1>4, Zenon DEF DmaLine, PlaceInv, AnswerInv, InResp
  <1>11. ForInv(x)'
    BY <1>4, Zenon DEF DmaLine, ForInv
  <1>12. AnswerInv(x)'
    <2>1. AnswerInv(x) /\ \A m \in dmaResp : m.addr = x => m.to # d0 /\ m.to \in DMAs
      BY <1>4, <1>10, Zenon DEF DmaLine, InResp, DmaTypes
    <2> QED
      BY <1>2, <1>5, <2>1, Zenon DEF AnswerInv
  <1>13. ASSUME NEW d \in DMAs PROVE PlaceInv(d, x)'
    <2>1. /\ InDir(d, x)' <=> InDir(d, x)
          /\ InResp(d, x)' <=> InResp(d, x)
      BY <1>2, <1>4, Zenon DEF InDir, InResp
    <2>2. InReq(d, x)' <=> InReq(d, x) \/ d = d0
      BY <1>7, Zenon DEF InReq
    <2>3. CASE d = d0
      <3>1. op.op \in {"Load", "Store"}
        <4>1. d0 \in Caches \cup DMAs
          BY Zenon
        <4> QED
          BY <4>1, OpKinds, Zenon
      <3>2. /\ ~InDir(d, x)' /\ ~InResp(d, x)' /\ dma'[d][x] \in {"BUSY_RD", "BUSY_WR"}
            /\ dma'[d][x] = "BUSY_RD" <=> table'[d][x].op = "Load"
        BY <1>1, <1>3, <1>5, <1>10, <2>1, <2>3
      <3> QED
        BY <1>3, <2>3, <3>1, <3>2 DEF PlaceInv
    <2>4. CASE d # d0
      <3>1. PlaceInv(d, x) /\ dma'[d][x] = dma[d][x] /\ table'[d][x] = table[d][x]
        BY <1>3, <1>4, <1>5, <2>4, Zenon DEF DmaLine, OnlyEntry
      <3>2. Waiting(d, x)' <=> Waiting(d, x)
        BY <1>3, <2>4, Zenon DEF OnlyEntry
      <3> QED
        BY <1>4, <2>1, <2>2, <2>4, <3>1, <3>2, Zenon DEF PlaceInv
    <2> QED
      BY <2>3, <2>4, Zenon
  <1>14. DmaInv'
    BY <1>4, <1>8, <1>9, <1>11, <1>12, <1>13, DmaOther, Zenon DEF DmaLine
  <1> QED
    BY <1>3, <1>14, Zenon DEF CInv

(* The answer is taken, and the controller is ready again. *)
LEMMA DmaAnswerC ==
    ASSUME IInv, CInv, NEW d0 \in DMAs, DmaAnswer(d0)
    PROVE  CInv'
  <1>1. PICK m \in dmaResp :
            /\ m.to = d0
            /\ table' = [table EXCEPT ![d0][m.addr] =
                            IF m.data = NoData THEN Stored ELSE Got(@, m.data)]
            /\ dma' = [dma EXCEPT ![d0][m.addr] = "READY"]
            /\ dmaResp' = dmaResp \ {m}
            /\ UNCHANGED <<cacheVars, resp, reqs, dirVars, dmaReqs>>
    BY Zenon DEF DmaAnswer
  <1>2. PICK x \in Addrs : x = m.addr
    BY Zenon DEF CInv, DmaInv, DmaTypes
  <1>3. PICK e : table' = [table EXCEPT ![d0][x] = e] /\ ~Unanswered(e)
    <2>1. ~Unanswered(Stored) /\ ~Unanswered(Got(table[d0][x], m.data))
      BY DEF Unanswered, Stored, Got
    <2> QED
      BY <1>1, <1>2, <2>1, Zenon
  <1>4. UNCHANGED <<cacheVars, resp, reqs, dirVars>>
    BY <1>1, Zenon
  <1>5. /\ TableInv' /\ BlockInv' /\ StoreInv' /\ ~Waiting(d0, x)'
        /\ OnlyEntry(d0, x)
    BY <1>3, <1>4, DmaTable, Zenon
  <1>6. DmaInv /\ DmaTypes /\ DmaLine(x) /\ UNCHANGED <<dstate, memOp, mem, dmaFor>>
    BY <1>4, Zenon DEF CInv, DmaInv, dirVars
  <1>7. /\ dma'[d0][x] = "READY"
        /\ \A d \in DMAs, a \in Addrs : d # d0 \/ a # x => dma'[d][a] = dma[d][a]
    BY <1>1, <1>2, <1>6, Zenon DEF DmaTypes
  <1>8. OtherMemory(x) /\ OtherDma(x)
    BY <1>1, <1>2, <1>5, <1>6, <1>7, Zenon DEF OtherMemory, OtherDma, OnlyEntry
  <1>9. DmaTypes'
    BY <1>1, <1>2, <1>6 DEF DmaTypes
  <1>10. ~InReq(d0, x) /\ ~InDir(d0, x) /\ InResp(d0, x)
    BY <1>1, <1>2, <1>6, Zenon DEF DmaLine, PlaceInv, InResp
  <1>11. ForInv(x)'
    BY <1>6, Zenon DEF DmaLine, ForInv
  <1>12. AnswerInv(x) /\ \A n \in dmaResp' : n.addr = x => n \in dmaResp /\ n.to # d0 /\ n.to \in DMAs
    BY <1>1, <1>2, <1>6, Zenon DEF DmaLine, AnswerInv, DmaTypes
  <1>13. AnswerInv(x)'
    BY <1>7, <1>12, Zenon DEF AnswerInv
  <1>14. ASSUME NEW d \in DMAs PROVE PlaceInv(d, x)'
    <2>1. /\ InDir(d, x)' <=> InDir(d, x)
          /\ InReq(d, x)' <=> InReq(d, x)
      BY <1>1, <1>6, Zenon DEF InDir, InReq
    <2>2. InResp(d, x)' => InResp(d, x)
      BY <1>1, Zenon DEF InResp
    <2>3. CASE d = d0
      BY <1>5, <1>7, <1>10, <2>1, <2>3 DEF PlaceInv
    <2>4. CASE d # d0
      <3>1. PlaceInv(d, x) /\ dma'[d][x] = dma[d][x] /\ table'[d][x] = table[d][x]
        BY <1>5, <1>6, <1>7, <2>4, Zenon DEF DmaLine, OnlyEntry
      <3>2. Waiting(d, x)' <=> Waiting(d, x)
        BY <1>5, <2>4, Zenon DEF OnlyEntry
      <3> QED
        BY <1>6, <2>1, <2>2, <3>1, <3>2, Zenon DEF PlaceInv
    <2> QED
      BY <2>3, <2>4, Zenon
  <1>15. DmaInv'
    BY <1>6, <1>8, <1>9, <1>11, <1>13, <1>14, DmaOther, Zenon DEF DmaLine
  <1> QED
    BY <1>5, <1>15, Zenon DEF CInv

(* A step that touches none of this. *)
LEMMA QuietC ==
    ASSUME CInv, UNCHANGED <<table, mq, cstate, data, resp, reqs, dirVars, dmaVars>>
    PROVE  CInv'
  <1>1. UNCHANGED <<dstate, dmaFor, memOp, mem, dma, dmaReqs, dmaResp>> /\ reqs' \subseteq reqs
    BY Zenon DEF dirVars, dmaVars
  <1>2. TableInv' /\ BlockInv'
    BY <1>1, TableSame, BlockSame, Zenon DEF CInv
  <1>3. StoreInv' /\ DmaInv'
    BY <1>1, StoreSame, DmaSame, Zenon DEF CInv
  <1> QED
    BY <1>2, <1>3, Zenon DEF CInv

(* It all holds at first, when every table is empty and memory is zero,    *)
(* ...                                                                     *)
LEMMA InitCInv ==
    ASSUME Init
    PROVE  CInv
  <1>1. TableInv
    <2>1. \A p \in Caches \cup DMAs, a \in Addrs : table[p][a] = Stored
      BY Zenon DEF Init
    <2>2. ~Unanswered(Stored)
      BY DEF Unanswered, Stored
    <2>3. TableDom
      BY DEF Init, TableDom
    <2>4. \A p \in Caches \cup DMAs, a \in Addrs : ~Waiting(p, a)
      BY <2>1, <2>2, Zenon DEF Waiting
    <2>5. \A c \in Caches : DOMAIN mq[c] = {}
      BY DEF Init
    <2>6. \A c \in Caches, a \in Addrs : ~Awaits(c, a)
      BY DEF Init, Awaits
    <2> QED
      BY <2>3, <2>4, <2>5, <2>6, Zenon DEF TableInv, Distinct
  <1>2. BlockInv
    BY DEF Init, BlockInv
  <1>3. [w \in Words |-> 0] \in Block
    BY MIAssumption DEF Block
  <1>4. StoreInv
    BY <1>3 DEF Init, StoreInv, OpInv
  <1>5. DmaInv
    <2>1. DmaTypes
      BY DEF Init, DmaTypes
    <2>2. ASSUME NEW a \in Addrs PROVE ForInv(a) /\ AnswerInv(a)
      BY DEF Init, ForInv, AnswerInv
    <2>3. ASSUME NEW a \in Addrs, NEW d \in DMAs PROVE PlaceInv(d, a)
      BY DEF Init, PlaceInv, InReq, InDir, InResp, Waiting, Unanswered, Stored
    <2> QED
      BY <2>1, <2>2, <2>3, Zenon DEF DmaInv, DmaLine
  <1> QED
    BY <1>1, <1>2, <1>4, <1>5, Zenon DEF CInv

(* ... and after every step of a cache, a directory or a DMA controller. *)
LEMMA NextCInv ==
    ASSUME IInv, CInv, [Next]_vars
    PROVE  CInv'
  <1>1. ASSUME NEW c \in Caches, Replacement(c) PROVE CInv'
    <2>1. PICK a \in Addrs : writeBack(c, a) \/ dropEntry(c, a)
      BY <1>1, Zenon DEF Replacement, IInv, CacheTypes
    <2>2. CASE dropEntry(c, a)
      <3>1. UNCHANGED <<table, mq, cstate, data, resp, reqs, dirVars, dmaVars>>
        BY <2>2, Zenon DEF dropEntry
      <3> QED
        BY <3>1, QuietC, Zenon
    <2> QED
      BY <2>1, <2>2, WriteBackC, Zenon
  <1>2. ASSUME NEW c \in Caches, NEW d \in Dirs, StallForward(c, d) \/ IgnoreInv(c, d) PROVE CInv'
    <2>1. UNCHANGED <<table, mq, cstate, data, resp, reqs, dirVars, dmaVars>>
      BY <1>2, Zenon DEF StallForward, IgnoreInv
    <2> QED
      BY <2>1, QuietC, Zenon
  <1>3. ASSUME NEW c \in Caches, NEW d \in Dirs, Inv(c, d) PROVE CInv'
    <2>1. Head(fwd[c][d]).addr \in Addrs
      BY <1>3, HeadOfQueue, Zenon DEF Inv
    <2>2. PICK a \in Addrs : writeBack(c, a)
      BY <1>3, <2>1, Zenon DEF Inv
    <2> QED
      BY <2>2, WriteBackC, Zenon
  <1>4. ASSUME InvalidTransition \/ UNCHANGED vars PROVE CInv'
    <2>1. UNCHANGED <<table, mq, cstate, data, resp, reqs, dirVars, dmaVars>>
      BY <1>4, Zenon DEF InvalidTransition, vars, cacheVars
    <2> QED
      BY <2>1, QuietC, Zenon
  <1>5. ASSUME NEW c \in Caches, CacheStep(c) PROVE CInv'
    BY <1>2, <1>3, <1>5, HitC, MissC, DataC, Fwd_GETXC, Writeback_AckC, Writeback_NackC, Zenon
    DEF CacheStep
  <1>6. ASSUME DirStep PROVE CInv'
    BY <1>6, GETXC, PUTXC, PUTX_NotOwnerC, DMA_RequestC, Memory_DataC, Memory_AckC, Zenon
    DEF DirStep
  <1>7. CASE Issue
    BY <1>1, <1>7, MakeRequestC, DmaRequestC, Zenon DEF Issue, CacheRequest
  <1>8. CASE Step
    BY <1>5, <1>6, <1>8, DmaAnswerC, Zenon DEF Step
  <1> QED
    BY <1>4, <1>7, <1>8, Zenon DEF Next

\* The rest of the types.
RestInv == stalledOn \in [Caches -> SUBSET Dirs] /\ panicked \in BOOLEAN

(* Which queues wait for a cache, and whether a controller has panicked. *)
LEMMA NextRest ==
    ASSUME RestInv, [Next]_vars
    PROVE  RestInv'
  <1>1. stalledOn' \in [Caches -> SUBSET Dirs]
    <2>1. UNCHANGED stalledOn \/ \E c \in Caches, d \in Dirs :
            \/ stalledOn' = [stalledOn EXCEPT ![c] = {d}]
            \/ stalledOn' = [stalledOn EXCEPT ![c] = {}]
      <3>1. CASE Issue
        BY <3>1, Zenon DEF Issue, CacheRequest, Replacement, writeBack, dropEntry, makeRequest,
           DmaRequest, cacheVars
      <3>2. ASSUME NEW c \in Caches, CacheStep(c) PROVE UNCHANGED stalledOn \/ \E d \in Dirs :
                \/ stalledOn' = [stalledOn EXCEPT ![c] = {d}]
                \/ stalledOn' = [stalledOn EXCEPT ![c] = {}]
        BY <3>2, Zenon DEF CacheStep, Hit, Miss, Data, StallForward, IgnoreInv, Inv, writeBack,
           Fwd_GETX, Writeback_Ack, Writeback_Nack, popForwardedRequestQueue
      <3>3. CASE DirStep
        BY <3>3, Zenon DEF DirStep, GETX, PUTX, PUTX_NotOwner, DMA_Request, Memory_Data,
           Memory_Ack, memoryDone, cacheVars
      <3>4. ASSUME NEW d \in DMAs, DmaAnswer(d) PROVE UNCHANGED stalledOn
        BY <3>4, Zenon DEF DmaAnswer, cacheVars
      <3>5. CASE InvalidTransition \/ UNCHANGED vars
        BY <3>5, Zenon DEF InvalidTransition, vars, cacheVars
      <3> QED
        BY <3>1, <3>2, <3>3, <3>4, <3>5, Zenon DEF Next, Step
    <2> QED
      BY <2>1 DEF RestInv
  <1>2. panicked' \in BOOLEAN
    <2>1. UNCHANGED panicked \/ panicked' = TRUE
      <3>1. CASE Issue
        BY <3>1, Zenon DEF Issue, CacheRequest, Replacement, writeBack, dropEntry, makeRequest,
           DmaRequest
      <3>2. ASSUME NEW c \in Caches, CacheStep(c) PROVE UNCHANGED panicked
        BY <3>2, Zenon DEF CacheStep, Hit, Miss, Data, StallForward, IgnoreInv, Inv, writeBack,
           Fwd_GETX, Writeback_Ack, Writeback_Nack
      <3>3. CASE DirStep
        BY <3>3, Zenon DEF DirStep, GETX, PUTX, PUTX_NotOwner, DMA_Request, Memory_Data,
           Memory_Ack, memoryDone
      <3>4. ASSUME NEW d \in DMAs, DmaAnswer(d) PROVE UNCHANGED panicked
        BY <3>4, Zenon DEF DmaAnswer
      <3>5. CASE InvalidTransition \/ UNCHANGED vars
        BY <3>5, Zenon DEF InvalidTransition, vars
      <3> QED
        BY <3>1, <3>2, <3>3, <3>4, <3>5, Zenon DEF Next, Step
    <2> QED
      BY <2>1 DEF RestInv
  <1> QED
    BY <1>1, <1>2, Zenon DEF RestInv

(* So what the tables, blocks and requests hold is as said throughout. *)
LEMMA ContentsHold == Spec => [](IInv /\ CInv /\ RestInv)
  <1>1. Init => CInv /\ RestInv
    <2>1. ASSUME Init PROVE RestInv
      BY <2>1 DEF Init, RestInv
    <2> QED
      BY <2>1, InitCInv, Zenon
  <1>2. IInv /\ CInv /\ RestInv /\ [Next]_vars => CInv' /\ RestInv'
    BY NextCInv, NextRest, Zenon
  <1> QED
    BY <1>1, <1>2, Inductive, PTL DEF Spec

(* Every variable of the caches, directories and DMA controllers has its   *)
(* type: what is unanswered is a request that its port makes, and what     *)
(* memory holds and a response brings to a cache is a block.               *)
THEOREM MITypes == Spec => []TypeOK
  <1>1. IInv /\ CInv /\ RestInv => TypeOK
    <2> SUFFICES ASSUME IInv, CInv, RestInv PROVE TypeOK
      OBVIOUS
    <2>1. CacheTypes /\ DirTypes /\ FwdInv /\ TableInv /\ BlockInv /\ StoreInv /\ DmaTypes
      BY Zenon DEF IInv, CInv, DmaInv
    <2>2. \A c \in Caches : \A i \in DOMAIN mq[c] : mq[c][i] \in Addrs
      BY <2>1 DEF CacheTypes
    <2>3. \A c \in Caches, d \in Dirs : \A i \in DOMAIN fwd[c][d] :
            fwd[c][d][i] \in [type : {"GETX", "INV", "WB_ACK", "WB_NACK"},
                              addr : Addrs, for : Caches]
      <3> SUFFICES ASSUME NEW c \in Caches, NEW d \in Dirs
                   PROVE  \A i \in DOMAIN fwd[c][d] : fwd[c][d][i] \in ForwardMsgs
        BY Zenon DEF ForwardMsgs
      <3>1. fwd[c][d] \in Seq(ForwardMsgs)
        BY <2>1, Zenon DEF FwdInv
      <3> QED
        BY <3>1
    <2> QED
      BY <2>1, <2>2, <2>3, Zenon
      DEF TypeOK, CacheTypes, DirTypes, TableInv, BlockInv, StoreInv, DmaTypes, RestInv
  <1> QED
    BY <1>1, ContentsHold, PTL
=============================================================================
