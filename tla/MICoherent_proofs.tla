-------------------------- MODULE MICoherent_proofs -------------------------
(***************************************************************************)
(* For any sets of caches, directories, DMA controllers and lines, any     *)
(* requests and any associativity, the MI_example protocol never has two   *)
(* copies of a line, the owner in the directory is where the line is going *)
(* to end up, and all of it together behaves as one memory.                *)
(*                                                                         *)
(* What CoherentMemory sees of a state is the value of every line and what *)
(* has been done for every port.  Laws says where both are found, from the *)
(* invariants of MIExample_proofs; then every step is one of: a request is *)
(* made, a load or a store is performed, or nothing is to be seen.         *)
(***************************************************************************)
EXTENDS MIExample_proofs

(* The caches, directories and DMA controllers as one memory.              *)

\* The directory has performed d's store, and is to tell it.
StoreDone(d, a) == d \in dmaFor[a] /\ dstate[a] \in {"ID_W", "M_DWRI"}

\* What the value of a line is, wherever it is; what has been done for whom.
ValueLaw(a) ==
    /\ \A c \in Caches : Holds(c, a) => LineValue(a) = data[c][a]
    /\ \A m \in resp : m.addr = a => LineValue(a) = m.data
    /\ ~GivenOut(a) => LineValue(a) = Performed(mem[a], memOp[a])

EntryLaw(a) ==
    /\ \A c \in Caches : PerformedFor(c, a) = table[c][a]
    /\ \A m \in dmaResp : m.addr = a =>
        PerformedFor(m.to, a) = IF m.data = NoData THEN Stored ELSE Got(table[m.to][a], m.data)
    /\ \A d \in DMAs : ~InResp(d, a) => PerformedFor(d, a) = IF StoreDone(d, a) THEN Stored ELSE table[d][a]

Laws == \A a \in Addrs : ValueLaw(a) /\ EntryLaw(a)

(* There is one copy to take the value of a line from: the one that has    *)
(* the right to it.                                                        *)
LEMMA ValueLawHolds ==
    ASSUME IInv, NEW a \in Addrs
    PROVE  ValueLaw(a)
  <1>0. TokenInv(a) /\ RespInv
    BY Zenon DEF IInv, LineInv
  <1>1. ASSUME NEW c \in Caches, Holds(c, a) PROVE LineValue(a) = data[c][a]
    <2>1. {x \in Caches : Holds(x, a)} = {c} /\ {m \in resp : m.addr = a} = {}
      BY <1>0, <1>1, Zenon DEF TokenInv, Sent, RespInv
    <2>2. PICK r : r = [at |-> c, data |-> data[c][a]]
      OBVIOUS
    <2>3. Copies(a) = {r}
      BY <2>1, <2>2, Zenon DEF Copies
    <2>4. (CHOOSE x \in Copies(a) : TRUE) = r
      BY <2>3
    <2>5. GivenOut(a)
      BY <1>0, <1>1, Zenon DEF TokenInv
    <2>6. r.data = data[c][a]
      BY <2>2
    <2> QED
      BY <2>4, <2>5, <2>6, Zenon DEF LineValue
  <1>2. ASSUME NEW m \in resp, m.addr = a PROVE LineValue(a) = m.data
    <2>0. Sent(m.to, a) /\ m.to \in Caches
      BY <1>0, <1>2, Zenon DEF Sent, RespInv
    <2>1. {x \in Caches : Holds(x, a)} = {} /\ {n \in resp : n.addr = a} = {m}
      BY <1>0, <1>2, <2>0, Zenon DEF TokenInv, RespInv
    <2>2. PICK r : r = [at |-> "network", data |-> m.data]
      OBVIOUS
    <2>3. Copies(a) = {r}
      BY <2>1, <2>2, Zenon DEF Copies
    <2>4. (CHOOSE x \in Copies(a) : TRUE) = r
      BY <2>3
    <2>5. GivenOut(a)
      BY <1>0, <2>0, Zenon DEF TokenInv
    <2>6. r.data = m.data
      BY <2>2
    <2> QED
      BY <2>4, <2>5, <2>6, Zenon DEF LineValue
  <1> QED
    BY <1>1, <1>2, Zenon DEF ValueLaw, LineValue

(* There is one answer under way to a DMA request. *)
LEMMA EntryLawHolds ==
    ASSUME CInv, NEW a \in Addrs
    PROVE  EntryLaw(a)
  <1>0. DmaTypes /\ AnswerInv(a)
    BY Zenon DEF CInv, DmaInv, DmaLine
  <1>1. ASSUME NEW c \in Caches PROVE PerformedFor(c, a) = table[c][a]
    <2>1. c \notin DMAs /\ c \notin dmaFor[a]
      BY <1>0, MIAssumption, Zenon DEF DmaTypes
    <2> QED
      BY <2>1, Zenon DEF PerformedFor
  <1>2. ASSUME NEW m \in dmaResp, m.addr = a
        PROVE  PerformedFor(m.to, a) =
                    IF m.data = NoData THEN Stored ELSE Got(table[m.to][a], m.data)
    <2>1. m.to \in DMAs /\ \A n \in dmaResp : n.to = m.to /\ n.addr = a => n = m
      BY <1>0, <1>2, Zenon DEF DmaTypes, AnswerInv
    <2>2. (CHOOSE x \in dmaResp : x.to = m.to /\ x.addr = a) = m
      BY <1>2, <2>1, Zenon
    <2> QED
      BY <1>2, <2>1, <2>2, Zenon DEF PerformedFor
  <1>3. ASSUME NEW d \in DMAs, ~InResp(d, a)
        PROVE  PerformedFor(d, a) = IF StoreDone(d, a) THEN Stored ELSE table[d][a]
    BY <1>3, Zenon DEF PerformedFor, InResp, StoreDone
  <1> QED
    BY <1>1, <1>2, <1>3, Zenon DEF EntryLaw

(* Before a step and after it. *)
LEMMA LawsHold == IInv /\ CInv => Laws
  BY ValueLawHolds, EntryLawHolds, Zenon DEF Laws
-----------------------------------------------------------------------------
\* A step that leaves the copies of line a, and what memory has of it, alone.
SameCopy(a) ==
    /\ GivenOut(a)' <=> GivenOut(a)
    /\ ~GivenOut(a) => Performed(mem'[a], memOp'[a]) = Performed(mem[a], memOp[a])
    /\ \A c \in Caches : (Holds(c, a)' <=> Holds(c, a)) /\ (Holds(c, a) => data'[c][a] = data[c][a])
    /\ \A m : m.addr = a => (m \in resp' <=> m \in resp)

\* A step that is not about line a.
SameBlocks(a) ==
    /\ dstate'[a] = dstate[a] /\ memOp'[a] = memOp[a] /\ mem'[a] = mem[a]
    /\ \A c \in Caches : cstate'[c][a] = cstate[c][a] /\ data'[c][a] = data[c][a]
    /\ \A c \in Caches : Ack(c, a)' <=> Ack(c, a)
    /\ \A m : m.addr = a => (m \in resp' <=> m \in resp)

(* It changes none of the copies. *)
LEMMA SameBlocksCopy ==
    ASSUME NEW a \in Addrs, SameBlocks(a)
    PROVE  SameCopy(a)
  <1>1. GivenOut(a)' <=> GivenOut(a)
    BY Zenon DEF SameBlocks, GivenOut
  <1>2. ASSUME NEW c \in Caches PROVE Holds(c, a)' <=> Holds(c, a)
    BY Zenon DEF SameBlocks, Holds, WrittenBack, Ack
  <1> QED
    BY <1>1, <1>2, Zenon DEF SameBlocks, SameCopy

(* The value of a line changes only with its copies. *)
LEMMA SameValue ==
    ASSUME Laws, Laws', IInv, NEW a \in Addrs, SameCopy(a)
    PROVE  LineValue(a)' = LineValue(a)
  <1>1. ValueLaw(a) /\ ValueLaw(a)' /\ TokenInv(a)
    BY Zenon DEF Laws, IInv, LineInv
  <1>2. CASE ~GivenOut(a)
    BY <1>1, <1>2, Zenon DEF SameCopy, ValueLaw
  <1>3. ASSUME NEW c \in Caches, Holds(c, a) PROVE LineValue(a)' = LineValue(a)
    <2>1. Holds(c, a)' /\ data'[c][a] = data[c][a]
      BY <1>3, Zenon DEF SameCopy
    <2>2. LineValue(a) = data[c][a]
      BY <1>1, <1>3, Zenon DEF ValueLaw
    <2>3. LineValue(a)' = data'[c][a]
      BY <1>1, <2>1, Zenon DEF ValueLaw
    <2> QED
      BY <2>1, <2>2, <2>3, Zenon
  <1>4. ASSUME NEW c \in Caches, Sent(c, a) PROVE LineValue(a)' = LineValue(a)
    <2>1. PICK m \in resp : m.addr = a
      BY <1>4, Zenon DEF Sent
    <2>2. m \in resp'
      BY <2>1, Zenon DEF SameCopy
    <2>3. LineValue(a) = m.data
      BY <1>1, <2>1, Zenon DEF ValueLaw
    <2>4. LineValue(a)' = m.data
      BY <1>1, <2>1, <2>2, Zenon DEF ValueLaw
    <2> QED
      BY <2>3, <2>4, Zenon
  <1> QED
    BY <1>1, <1>2, <1>3, <1>4, Zenon DEF TokenInv

(* What has been done for a port changes with its table and the answers. *)
LEMMA SameEntry ==
    ASSUME Laws, Laws', CInv, NEW a \in Addrs, NEW p \in Caches \cup DMAs,
           table'[p][a] = table[p][a], p \in DMAs => (StoreDone(p, a)' <=> StoreDone(p, a)),
           \A m : m.addr = a /\ m.to = p => (m \in dmaResp' <=> m \in dmaResp)
    PROVE  PerformedFor(p, a)' = PerformedFor(p, a)
  <1>1. EntryLaw(a) /\ EntryLaw(a)'
    BY Zenon DEF Laws
  <1>2. CASE p \in Caches
    BY <1>1, <1>2, Zenon DEF EntryLaw
  <1>3. CASE p \in DMAs
    <2>1. CASE InResp(p, a)
      <3>1. PICK m \in dmaResp : m.to = p /\ m.addr = a
        BY <2>1, Zenon DEF InResp
      <3>2. m \in dmaResp'
        BY <3>1, Zenon
      <3>3. PerformedFor(p, a) = IF m.data = NoData THEN Stored ELSE Got(table[p][a], m.data)
        BY <1>1, <3>1, Zenon DEF EntryLaw
      <3>4. PerformedFor(p, a)' = IF m.data = NoData THEN Stored ELSE Got(table'[p][a], m.data)
        BY <1>1, <3>1, <3>2, Zenon DEF EntryLaw
      <3>5. Got(table'[p][a], m.data) = Got(table[p][a], m.data)
        OBVIOUS
      <3>6. CASE m.data = NoData
        BY <3>3, <3>4, <3>6, Zenon
      <3>7. CASE m.data # NoData
        BY <3>3, <3>4, <3>5, <3>7, Zenon
      <3> QED
        BY <3>6, <3>7, Zenon
    <2>2. CASE ~InResp(p, a)
      <3>1. ~InResp(p, a)'
        BY <2>2, Zenon DEF InResp
      <3> QED
        <4>1. PerformedFor(p, a) = IF StoreDone(p, a) THEN Stored ELSE table[p][a]
          BY <1>1, <1>3, <2>2, Zenon DEF EntryLaw
        <4>2. PerformedFor(p, a)' = IF StoreDone(p, a)' THEN Stored ELSE table'[p][a]
          BY <1>1, <1>3, <3>1, Zenon DEF EntryLaw
        <4>3. StoreDone(p, a)' <=> StoreDone(p, a)
          BY <1>3, Zenon
        <4> QED
          BY <4>1, <4>2, <4>3, Zenon
    <2> QED
      BY <2>1, <2>2, Zenon
  <1> QED
    BY <1>2, <1>3, Zenon

-----------------------------------------------------------------------------
\* The other lines keep their values, the other ports their requests.
OtherValues(x) == \A a \in Addrs \ {x} : LineValue(a)' = LineValue(a)
OtherEntries(p0, x) ==
    \A p \in Caches \cup DMAs, a \in Addrs :
        p # p0 \/ a # x => PerformedFor(p, a)' = PerformedFor(p, a)

SameValues == \A a \in Addrs : LineValue(a)' = LineValue(a)
SameEntries == \A p \in Caches \cup DMAs, a \in Addrs : PerformedFor(p, a)' = PerformedFor(p, a)

\* The memory and the table that CoherentMemory sees.
Lines == [a \in Addrs |-> LineValue(a)]
Entries == [p \in Caches \cup DMAs |-> [a \in Addrs |-> PerformedFor(p, a)]]

(* The values of the lines as one function, ... *)
LEMMA SeenValues ==
    /\ SameValues => UNCHANGED Lines
    /\ \A x \in Addrs : OtherValues(x) => Lines' = [Lines EXCEPT ![x] = LineValue(x)']
    /\ \A a \in Addrs : Lines[a] = LineValue(a)
  <1>1. ASSUME SameValues PROVE UNCHANGED Lines
    BY <1>1, Zenon DEF SameValues, Lines
  <1>2. ASSUME NEW x \in Addrs, OtherValues(x) PROVE Lines' = [Lines EXCEPT ![x] = LineValue(x)']
    BY <1>2 DEF OtherValues, Lines
  <1> QED
    BY <1>1, <1>2, Zenon DEF Lines

(* ... and what has been done for the ports. *)
LEMMA SeenEntries ==
    /\ SameEntries => UNCHANGED Entries
    /\ \A p \in Caches \cup DMAs, x \in Addrs :
        OtherEntries(p, x) => Entries' = [Entries EXCEPT ![p][x] = PerformedFor(p, x)']
    /\ \A p \in Caches \cup DMAs, a \in Addrs : Entries[p][a] = PerformedFor(p, a)
  <1>1. ASSUME SameEntries PROVE UNCHANGED Entries
    BY <1>1, Zenon DEF SameEntries, Entries
  <1>2. ASSUME NEW p \in Caches \cup DMAs, NEW x \in Addrs, OtherEntries(p, x)
        PROVE  Entries' = [Entries EXCEPT ![p][x] = PerformedFor(p, x)']
    BY <1>2 DEF OtherEntries, Entries
  <1> QED
    BY <1>1, <1>2, Zenon DEF Entries

(* What a step is to the memory as a whole: nothing, a request made, a load *)
(* or a store performed.                                                    *)
LEMMA SeesNothing ==
    ASSUME SameValues, SameEntries
    PROVE  UNCHANGED Memory!vars
  BY SeenValues, SeenEntries, Zenon DEF Memory!vars, Lines, Entries

(* A request of port p for line x is made. *)
LEMMA SeesAsk ==
    ASSUME NEW p \in Caches \cup DMAs, NEW x \in Addrs, SameValues, OtherEntries(p, x),
           ~Unanswered(PerformedFor(p, x)), PerformedFor(p, x)' \in OpsOf[p]
    PROVE  Memory!Next
  <1>1. UNCHANGED Lines /\ Entries' = [Entries EXCEPT ![p][x] = PerformedFor(p, x)']
    BY SeenValues, SeenEntries, Zenon
  <1>2. ~Unanswered(Entries[p][x])
    BY SeenEntries, Zenon
  <1>3. Memory!Ask(p, x)
    BY <1>1, <1>2, Zenon DEF Memory!Ask, Lines, Entries, Memory!Unanswered, Unanswered
  <1> QED
    BY <1>3, Zenon DEF Memory!Next

(* Port p gets the words that it loads from line x. *)
LEMMA SeesLoad ==
    ASSUME NEW p \in Caches \cup DMAs, NEW x \in Addrs, SameValues, OtherEntries(p, x),
           PerformedFor(p, x).op = "Load",
           PerformedFor(p, x)' = Got(PerformedFor(p, x), LineValue(x))
    PROVE  Memory!Next
  <1>1. UNCHANGED Lines /\ Entries' = [Entries EXCEPT ![p][x] = PerformedFor(p, x)']
    BY SeenValues, SeenEntries, Zenon
  <1>2. Entries[p][x] = PerformedFor(p, x) /\ Lines[x] = LineValue(x)
    BY SeenValues, SeenEntries, Zenon
  <1>3. /\ Entries[p][x].op = "Load" /\ UNCHANGED Lines
        /\ Entries' = [Entries EXCEPT ![p][x] = Got(Entries[p][x], Lines[x])]
    BY <1>1, <1>2, Zenon
  <1>4. Memory!PerformLoad(p, x)
    BY <1>3, Zenon DEF Memory!PerformLoad, Lines, Entries, Memory!Got, Got, Memory!OpWords, OpWords
  <1> QED
    BY <1>4, Zenon DEF Memory!Next

(* The store of port p is overlaid on line x. *)
LEMMA SeesStore ==
    ASSUME NEW p \in Caches \cup DMAs, NEW x \in Addrs, OtherValues(x), OtherEntries(p, x),
           PerformedFor(p, x).op = "Store", PerformedFor(p, x)' = Stored,
           LineValue(x)' = Overlay(LineValue(x), PerformedFor(p, x))
    PROVE  Memory!Next
  <1>1. /\ Lines' = [Lines EXCEPT ![x] = LineValue(x)']
        /\ Entries' = [Entries EXCEPT ![p][x] = PerformedFor(p, x)']
    BY SeenValues, SeenEntries, Zenon
  <1>2. Entries[p][x] = PerformedFor(p, x) /\ Lines[x] = LineValue(x)
    BY SeenValues, SeenEntries, Zenon
  <1>3. /\ Entries[p][x].op = "Store"
        /\ Lines' = [Lines EXCEPT ![x] = Overlay(Lines[x], Entries[p][x])]
        /\ Entries' = [Entries EXCEPT ![p][x] = Stored]
    BY <1>1, <1>2, Zenon
  <1>4. Memory!PerformStore(p, x)
    BY <1>3, Zenon DEF Memory!PerformStore, Lines, Entries, Memory!Overlay, Overlay, Memory!OpWords,
       OpWords, Memory!Words, Words, Memory!Stored, Stored
  <1> QED
    BY <1>4, Zenon DEF Memory!Next

-----------------------------------------------------------------------------
\* A step between two states that the invariants hold in, and what is to be
\* shown of it.
AtBoth == IInv /\ CInv /\ Laws /\ Laws'
SeenStep == Memory!Next \/ UNCHANGED Memory!vars

KeepsAcks(a) == \A c \in Caches : Ack(c, a)' <=> Ack(c, a)
OtherAcks(x) == \A a \in Addrs \ {x} : KeepsAcks(a)
OtherResp(x) == \A m : m.addr # x => (m \in resp' <=> m \in resp)
OtherBlocks(x) == \A a \in Addrs \ {x} : SameBlocks(a)
OtherCaches(c0, x) ==
    \A c \in Caches \ {c0} : cstate'[c][x] = cstate[c][x] /\ data'[c][x] = data[c][x]

(* No write-back is acknowledged by a step that sends no acknowledgement. *)
LEMMA AcksKept ==
    /\ UNCHANGED fwd => \A a : KeepsAcks(a)
    /\ \A a : KeepsFwd(a) => KeepsAcks(a)
  BY Zenon DEF KeepsAcks, KeepsFwd, Ack, Pending

(* A step that is about line x changes the value of no other line. *)
LEMMA KeptOthers ==
    ASSUME AtBoth, NEW x \in Addrs, OtherBlocks(x)
    PROVE  /\ OtherValues(x)
           /\ LineValue(x)' = LineValue(x) => SameValues
  <1>1. IInv /\ Laws /\ Laws'
    BY Zenon DEF AtBoth
  <1>2. ASSUME NEW a \in Addrs, a # x PROVE LineValue(a)' = LineValue(a)
    <2>1. SameCopy(a)
      BY <1>2, SameBlocksCopy, Zenon DEF OtherBlocks
    <2> QED
      BY <1>1, <2>1, SameValue, Zenon
  <1> QED
    BY <1>2, Zenon DEF OtherValues, SameValues

(* A step that leaves all copies alone changes no value. *)
LEMMA KeptValues ==
    ASSUME AtBoth, UNCHANGED <<cstate, data, resp, dstate, memOp, mem>>,
           \A a \in Addrs : KeepsAcks(a)
    PROVE  SameValues
  <1>1. IInv /\ Laws /\ Laws'
    BY Zenon DEF AtBoth
  <1>2. ASSUME NEW a \in Addrs PROVE LineValue(a)' = LineValue(a)
    <2>1. SameBlocks(a)
      BY Zenon DEF SameBlocks, KeepsAcks
    <2> QED
      BY <1>1, <2>1, SameBlocksCopy, SameValue, Zenon
  <1> QED
    BY <1>2, Zenon DEF SameValues

(* A step that leaves the tables and the answers alone performs nothing    *)
(* for anyone.                                                             *)
LEMMA KeptEntries ==
    ASSUME AtBoth, UNCHANGED <<table, dstate, dmaFor, dmaResp>>
    PROVE  SameEntries
  <1>1. CInv /\ Laws /\ Laws'
    BY Zenon DEF AtBoth
  <1>2. ASSUME NEW p \in Caches \cup DMAs, NEW a \in Addrs
        PROVE  PerformedFor(p, a)' = PerformedFor(p, a)
    <2>1. StoreDone(p, a)' <=> StoreDone(p, a)
      BY Zenon DEF StoreDone
    <2>2. table'[p][a] = table[p][a]
      BY Zenon
    <2>3. \A m : m.addr = a /\ m.to = p => (m \in dmaResp' <=> m \in dmaResp)
      BY Zenon
    <2> QED
      BY <1>1, <2>1, <2>2, <2>3, SameEntry, Zenon
  <1> QED
    BY <1>2, Zenon DEF SameEntries

(* A step that changes one entry of a table performs nothing for the other *)
(* ports.                                                                  *)
LEMMA OneEntry ==
    ASSUME AtBoth, NEW p0 \in Caches \cup DMAs, NEW x \in Addrs, NEW e,
           table' = [table EXCEPT ![p0][x] = e], UNCHANGED <<dstate, dmaFor, dmaResp>>
    PROVE  OtherEntries(p0, x) /\ table'[p0][x] = e
  <1>1. CInv /\ Laws /\ Laws'
    BY Zenon DEF AtBoth
  <1>2. table = [p \in Caches \cup DMAs |-> [a \in Addrs |-> table[p][a]]]
    BY <1>1, Zenon DEF CInv, TableInv, TableDom
  <1>3. table'[p0][x] = e
    BY <1>2
  <1>4. ASSUME NEW p \in Caches \cup DMAs, NEW a \in Addrs, p # p0 \/ a # x
        PROVE  PerformedFor(p, a)' = PerformedFor(p, a)
    <2>1. table'[p][a] = table[p][a]
      BY <1>2, <1>4
    <2>2. StoreDone(p, a)' <=> StoreDone(p, a)
      BY Zenon DEF StoreDone
    <2>3. \A m : m.addr = a /\ m.to = p => (m \in dmaResp' <=> m \in dmaResp)
      BY Zenon
    <2> QED
      BY <1>1, <2>1, <2>2, <2>3, SameEntry, Zenon
  <1> QED
    BY <1>3, <1>4, Zenon DEF OtherEntries

(* A step of a cache on line x leaves the other lines alone. *)
LEMMA CacheBlocks ==
    ASSUME IInv, CInv, NEW c0 \in Caches, NEW x \in Addrs, NEW s, NEW b,
           cstate' = [cstate EXCEPT ![c0][x] = s], data' = [data EXCEPT ![c0][x] = b],
           OtherAcks(x), OtherResp(x), UNCHANGED dirVars
    PROVE  OtherBlocks(x) /\ OtherCaches(c0, x) /\ cstate'[c0][x] = s /\ data'[c0][x] = b
  <1>1. cstate \in [Caches -> [Addrs -> CacheStates]]
    BY Zenon DEF IInv, CacheTypes
  <1>2. data \in [Caches -> [Addrs -> Block \cup {NoData}]]
    BY Zenon DEF CInv, BlockInv
  <1>3. \A c \in Caches, a \in Addrs : cstate'[c][a] = IF c = c0 /\ a = x THEN s ELSE cstate[c][a]
    BY <1>1
  <1>4. \A c \in Caches, a \in Addrs : data'[c][a] = IF c = c0 /\ a = x THEN b ELSE data[c][a]
    BY <1>2
  <1>5. UNCHANGED <<dstate, memOp, mem>>
    BY Zenon DEF dirVars
  <1>6. ASSUME NEW a \in Addrs, a # x PROVE SameBlocks(a)
    <2>1. \A c \in Caches : cstate'[c][a] = cstate[c][a] /\ data'[c][a] = data[c][a]
      BY <1>3, <1>4, <1>6
    <2>2. \A m : m.addr = a => (m \in resp' <=> m \in resp)
      BY <1>6, Zenon DEF OtherResp
    <2>3. KeepsAcks(a)
      BY <1>6, Zenon DEF OtherAcks
    <2> QED
      BY <1>5, <2>1, <2>2, <2>3, Zenon DEF SameBlocks, KeepsAcks
  <1>7. OtherBlocks(x)
    BY <1>6, Zenon DEF OtherBlocks
  <1> QED
    BY <1>3, <1>4, <1>7 DEF OtherCaches

(* A request is made. *)
LEMMA MakeRequestS ==
    ASSUME AtBoth, NEW c0 \in Caches, NEW x \in Addrs, makeRequest(c0, x)
    PROVE  SeenStep
  <1>1. PICK op \in OpsOf[c0] : table' = [table EXCEPT ![c0][x] = op]
    BY Zenon DEF makeRequest
  <1>2. UNCHANGED <<cstate, data, fwd, resp, dstate, memOp, mem, dmaFor, dmaResp>>
    BY Zenon DEF makeRequest, dirVars, dmaVars
  <1>3. SameValues
    <2>1. \A a \in Addrs : KeepsAcks(a)
      BY <1>2, AcksKept, Zenon
    <2> QED
      BY <1>2, <2>1, KeptValues, Zenon
  <1>4. c0 \in Caches \cup DMAs
    BY Zenon
  <1>5. OtherEntries(c0, x) /\ table'[c0][x] = op
    BY <1>1, <1>2, <1>4, OneEntry, Zenon
  <1>6. PerformedFor(c0, x) = table[c0][x] /\ PerformedFor(c0, x)' = table'[c0][x]
    BY Zenon DEF AtBoth, Laws, EntryLaw
  <1>7. ~Unanswered(PerformedFor(c0, x)) /\ PerformedFor(c0, x)' \in OpsOf[c0]
    BY <1>5, <1>6, Zenon DEF makeRequest, Waiting
  <1> QED
    BY <1>3, <1>4, <1>5, <1>7, SeesAsk, Zenon DEF SeenStep

(* A request is performed on the block that is the line. *)
LEMMA CallbackS ==
    ASSUME AtBoth, NEW c0 \in Caches, NEW x \in Addrs, NEW b \in Block, Waiting(c0, x),
           hitCallback(c0, x, b), LineValue(x) = b, LineValue(x)' = data'[c0][x],
           OtherBlocks(x), UNCHANGED <<dstate, dmaFor, dmaResp>>
    PROVE  SeenStep
  <1>1. PICK e, b1 :
            /\ table' = [table EXCEPT ![c0][x] = e] /\ ~Unanswered(e)
            /\ data' = [data EXCEPT ![c0][x] = b1] /\ b1 \in Block
            /\ IF table[c0][x].op = "Load"
               THEN e = Got(table[c0][x], b) /\ b1 = b
               ELSE /\ table[c0][x].op = "Store"
                    /\ e = Stored /\ b1 = Overlay(b, table[c0][x])
    <2>1. CInv
      BY Zenon DEF AtBoth
    <2> QED
      BY <2>1, Callback, Zenon
  <1>2. c0 \in Caches \cup DMAs
    BY Zenon
  <1>3. OtherEntries(c0, x) /\ table'[c0][x] = e
    <2>1. table' = [table EXCEPT ![c0][x] = e]
      BY <1>1, Zenon
    <2> QED
      BY <1>2, <2>1, OneEntry, Zenon
  <1>4. PerformedFor(c0, x) = table[c0][x] /\ PerformedFor(c0, x)' = e
    BY <1>3, Zenon DEF AtBoth, Laws, EntryLaw
  <1>5. LineValue(x)' = b1
    <2>1. data \in [Caches -> [Addrs -> Block \cup {NoData}]]
      BY Zenon DEF AtBoth, CInv, BlockInv
    <2>2. data'[c0][x] = b1
      BY <1>1, <2>1, Zenon
    <2> QED
      BY <2>2, Zenon
  <1>6. OtherValues(x) /\ (LineValue(x)' = LineValue(x) => SameValues)
    BY KeptOthers, Zenon
  <1>7. CASE table[c0][x].op = "Load"
    <2>1. SameValues
      BY <1>1, <1>5, <1>6, <1>7, Zenon
    <2>2. /\ PerformedFor(c0, x).op = "Load"
          /\ PerformedFor(c0, x)' = Got(PerformedFor(c0, x), LineValue(x))
      BY <1>1, <1>4, <1>7, Zenon
    <2> QED
      BY <1>2, <1>3, <2>1, <2>2, SeesLoad, Zenon DEF SeenStep
  <1>8. CASE table[c0][x].op # "Load"
    <2>1. /\ PerformedFor(c0, x).op = "Store" /\ PerformedFor(c0, x)' = Stored
          /\ LineValue(x)' = Overlay(LineValue(x), PerformedFor(c0, x))
      BY <1>1, <1>4, <1>5, <1>8, Zenon
    <2> QED
      BY <1>2, <1>3, <1>6, <2>1, SeesStore, Zenon DEF SeenStep
  <1> QED
    BY <1>7, <1>8, Zenon

(* A cache that has the line performs the request on it. *)
LEMMA HitS ==
    ASSUME AtBoth, NEW c0 \in Caches, Hit(c0)
    PROVE  SeenStep
  <1>0. IInv /\ CInv /\ Laws /\ Laws'
    BY Zenon DEF AtBoth
  <1>1. PICK x \in Addrs : x = Head(mq[c0]) /\ Waiting(c0, x)
    BY <1>0, QueueTail, Zenon DEF CInv, Hit, Roomy
  <1>2. /\ cstate[c0][x] = "M" /\ hitCallback(c0, x, data[c0][x])
        /\ UNCHANGED <<cstate, fwd, resp, dirVars, dmaVars>>
    BY <1>1, Zenon DEF Hit
  <1>3. PICK b \in Block : b = data[c0][x]
    BY <1>0, <1>2, Zenon DEF CInv, BlockInv
  <1>4. Holds(c0, x) /\ Holds(c0, x)'
    BY <1>2, Zenon DEF Holds
  <1>5. LineValue(x) = b /\ LineValue(x)' = data'[c0][x]
    BY <1>0, <1>3, <1>4, Zenon DEF Laws, ValueLaw
  <1>6. OtherBlocks(x)
    <2>1. PICK b1 : data' = [data EXCEPT ![c0][x] = b1]
      BY <1>2, Zenon DEF hitCallback
    <2>2. PICK s : s = cstate[c0][x]
      OBVIOUS
    <2>3. cstate' = [cstate EXCEPT ![c0][x] = s]
      <3>1. cstate \in [Caches -> [Addrs -> CacheStates]]
        BY <1>0, Zenon DEF IInv, CacheTypes
      <3>2. cstate = [cstate EXCEPT ![c0][x] = s]
        BY <2>2, <3>1
      <3> QED
        BY <1>2, <3>2, Zenon
    <2>4. OtherAcks(x)
      BY <1>2, AcksKept, Zenon DEF OtherAcks
    <2>5. UNCHANGED dirVars /\ OtherResp(x)
      BY <1>2, Zenon DEF OtherResp
    <2> QED
      BY <1>0, <2>1, <2>3, <2>4, <2>5, CacheBlocks, Zenon
  <1>7. UNCHANGED <<dstate, dmaFor, dmaResp>> /\ hitCallback(c0, x, b)
    BY <1>2, <1>3, Zenon DEF dirVars, dmaVars
  <1> QED
    BY <1>1, <1>5, <1>6, <1>7, CallbackS, Zenon

(* A cache gets the line, and performs the request that waited for it. *)
LEMMA DataS ==
    ASSUME AtBoth, NEW c0 \in Caches, Data(c0)
    PROVE  SeenStep
  <1>0. IInv /\ CInv /\ Laws /\ Laws'
    BY Zenon DEF AtBoth
  <1>1. PICK m \in resp :
            /\ m.to = c0 /\ cstate[c0][m.addr] \in {"IS", "IM"}
            /\ cstate' = [cstate EXCEPT ![c0][m.addr] = "M"]
            /\ hitCallback(c0, m.addr, m.data)
            /\ resp' = resp \ {m}
            /\ UNCHANGED <<fwd, dirVars, dmaVars>>
    BY Zenon DEF Data
  <1>2. PICK x \in Addrs, b \in Block : x = m.addr /\ b = m.data
    BY <1>0 DEF CInv, BlockInv
  <1>3. Waiting(c0, x)
    BY <1>0, <1>1, <1>2, Zenon DEF Awaits, CInv, TableInv
  <1>4. OtherBlocks(x) /\ cstate'[c0][x] = "M"
    <2>1. PICK b1 : data' = [data EXCEPT ![c0][x] = b1]
      BY <1>1, <1>2, Zenon DEF hitCallback
    <2>2. PICK s : s = "M"
      OBVIOUS
    <2>3. cstate' = [cstate EXCEPT ![c0][x] = s]
      BY <1>1, <1>2, <2>2, Zenon
    <2>4. OtherAcks(x)
      BY <1>1, AcksKept, Zenon DEF OtherAcks
    <2>5. UNCHANGED dirVars /\ OtherResp(x)
      BY <1>1, <1>2, Zenon DEF OtherResp
    <2>6. OtherBlocks(x) /\ cstate'[c0][x] = s
      BY <1>0, <2>1, <2>3, <2>4, <2>5, CacheBlocks, Zenon
    <2> QED
      BY <2>2, <2>6, Zenon
  <1>5. Holds(c0, x)'
    BY <1>4, Zenon DEF Holds
  <1>6. LineValue(x)' = data'[c0][x]
    BY <1>0, <1>5, Zenon DEF Laws, ValueLaw
  <1>7. LineValue(x) = b
    BY <1>0, <1>2, Zenon DEF Laws, ValueLaw
  <1>8. UNCHANGED <<dstate, dmaFor, dmaResp>> /\ hitCallback(c0, x, b)
    BY <1>1, <1>2, Zenon DEF dirVars, dmaVars
  <1> QED
    BY <1>3, <1>4, <1>6, <1>7, <1>8, CallbackS, Zenon

\* The other caches hear nothing of line x; c0 has it afterwards if it had it
\* before, with the same block.
OthersTold(c0, x) == \A c \in Caches \ {c0} : Ack(c, x)' <=> Ack(c, x)
StillHolds(c0, x) ==
    (Holds(c0, x)' <=> Holds(c0, x)) /\ (Holds(c0, x) => data'[c0][x] = data[c0][x])

(* A step of a cache on line x that performs nothing: the cache has the    *)
(* line after the step if it had it before, with the same block.           *)
LEMMA CacheQuietS ==
    ASSUME AtBoth, NEW c0 \in Caches, NEW x \in Addrs, NEW s, NEW b,
           cstate' = [cstate EXCEPT ![c0][x] = s], data' = [data EXCEPT ![c0][x] = b],
           OtherAcks(x), OthersTold(c0, x), StillHolds(c0, x),
           UNCHANGED <<table, resp, dirVars, dmaVars>>
    PROVE  SeenStep
  <1>0. IInv /\ CInv /\ Laws /\ Laws'
    BY Zenon DEF AtBoth
  <1>1. OtherBlocks(x) /\ OtherCaches(c0, x)
    <2>1. UNCHANGED dirVars /\ OtherResp(x)
      BY Zenon DEF OtherResp
    <2> QED
      BY <1>0, <2>1, CacheBlocks, Zenon
  <1>2. UNCHANGED <<dstate, memOp, mem, dmaFor, dmaResp>>
    BY Zenon DEF dirVars, dmaVars
  <1>3. ASSUME NEW c \in Caches
        PROVE  (Holds(c, x)' <=> Holds(c, x)) /\ (Holds(c, x) => data'[c][x] = data[c][x])
    <2>1. CASE c = c0
      BY <2>1, Zenon DEF StillHolds
    <2>2. CASE c # c0
      <3>1. /\ cstate'[c][x] = cstate[c][x] /\ data'[c][x] = data[c][x] /\ memOp'[x] = memOp[x]
            /\ Ack(c, x)' <=> Ack(c, x)
        BY <1>1, <1>2, <2>2, Zenon DEF OtherCaches, OthersTold
      <3> QED
        BY <3>1, Zenon DEF Holds, WrittenBack, Ack
    <2> QED
      BY <2>1, <2>2, Zenon
  <1>4. SameCopy(x)
    BY <1>2, <1>3, Zenon DEF SameCopy, GivenOut
  <1>5. LineValue(x)' = LineValue(x)
    BY <1>0, <1>4, SameValue, Zenon
  <1>6. SameValues
    BY <1>1, <1>5, KeptOthers, Zenon
  <1>7. SameEntries
    BY <1>2, KeptEntries, Zenon
  <1> QED
    BY <1>6, <1>7, SeesNothing, Zenon DEF SeenStep

(* Nothing that the memory as a whole shows changes. *)
LEMMA QuietS ==
    ASSUME AtBoth, UNCHANGED <<table, cstate, data, resp, dirVars, dmaVars>>,
           \A a \in Addrs : KeepsAcks(a)
    PROVE  SeenStep
  <1>1. UNCHANGED <<table, dstate, memOp, mem, dmaFor, dmaResp>>
    BY Zenon DEF dirVars, dmaVars
  <1>2. SameValues /\ SameEntries
    BY <1>1, KeptValues, KeptEntries, Zenon
  <1> QED
    BY <1>2, SeesNothing, Zenon DEF SeenStep

(* A block that stays, as an update of it with itself. *)
LEMMA SameData ==
    ASSUME CInv, NEW c0 \in Caches, NEW x \in Addrs, UNCHANGED data
    PROVE  \E b : b = data[c0][x] /\ data' = [data EXCEPT ![c0][x] = b]
  <1>1. data \in [Caches -> [Addrs -> Block \cup {NoData}]]
    BY Zenon DEF CInv, BlockInv
  <1> QED
    BY <1>1

(* A cache asks for a line: nobody sees it. *)
LEMMA MissS ==
    ASSUME AtBoth, NEW c0 \in Caches, Miss(c0)
    PROVE  SeenStep
  <1>0. IInv /\ CInv
    BY Zenon DEF AtBoth
  <1>1. PICK x \in Addrs : x = Head(mq[c0])
    BY <1>0, QueueTail, Zenon DEF CInv, Miss, Roomy
  <1>2. PICK s \in {"IS", "IM"} : cstate' = [cstate EXCEPT ![c0][x] = s]
    BY <1>1, Zenon DEF Miss
  <1>3. cstate[c0][x] = "I" /\ UNCHANGED <<table, data, fwd, resp, dirVars, dmaVars>>
    BY <1>1, Zenon DEF Miss
  <1>4. PICK b : b = data[c0][x] /\ data' = [data EXCEPT ![c0][x] = b]
    BY <1>0, <1>3, SameData, Zenon
  <1>5. cstate'[c0][x] = s
    BY <1>0, <1>2, Zenon DEF IInv, CacheTypes
  <1>6. OtherAcks(x) /\ OthersTold(c0, x)
    BY <1>3, AcksKept, Zenon DEF OtherAcks, OthersTold, KeepsAcks
  <1>7. StillHolds(c0, x)
    BY <1>3, <1>5 DEF StillHolds, Holds
  <1>8. data' = [data EXCEPT ![c0][x] = b] /\ UNCHANGED <<table, resp, dirVars, dmaVars>>
    BY <1>3, <1>4, Zenon
  <1> QED
    BY <1>2, <1>6, <1>7, <1>8, CacheQuietS, Zenon

(* A cache offers a line back, and is still the one that has it. *)
LEMMA WriteBackS ==
    ASSUME AtBoth, NEW c0 \in Caches, NEW x \in Addrs, writeBack(c0, x)
    PROVE  SeenStep
  <1>0. IInv /\ CInv
    BY Zenon DEF AtBoth
  <1>1. PICK s : s = "MI" /\ cstate' = [cstate EXCEPT ![c0][x] = s]
    BY Zenon DEF writeBack
  <1>2. cstate[c0][x] = "M" /\ UNCHANGED <<table, data, fwd, resp, dirVars, dmaVars>>
    BY Zenon DEF writeBack
  <1>3. PICK b : b = data[c0][x] /\ data' = [data EXCEPT ![c0][x] = b]
    BY <1>0, <1>2, SameData, Zenon
  <1>4. cstate'[c0][x] = "MI"
    BY <1>0, <1>1, Zenon DEF IInv, CacheTypes
  <1>5. \A a : KeepsAcks(a)
    BY <1>2, AcksKept, Zenon
  <1>6. OtherAcks(x) /\ OthersTold(c0, x)
    BY <1>5, Zenon DEF OtherAcks, OthersTold, KeepsAcks
  <1>7. StillHolds(c0, x)
    <2>1. ReturnInv(x, c0) /\ AskInv(x, c0)
      BY <1>0, Zenon DEF IInv, LineInv
    <2>2. ~WrittenBack(c0, x)
      BY <1>2, <2>1, Zenon DEF WrittenBack, ReturnInv, AskInv, TakenBack, Fetching, Ack, Awaits
    <2>3. ~WrittenBack(c0, x)'
      BY <1>2, <1>5, <2>2, Zenon DEF WrittenBack, KeepsAcks, Ack, dirVars
    <2> QED
      BY <1>2, <1>4, <2>3, Zenon DEF StillHolds, Holds
  <1>8. data' = [data EXCEPT ![c0][x] = b] /\ UNCHANGED <<table, resp, dirVars, dmaVars>>
    BY <1>2, <1>3, Zenon
  <1>9. cstate' = [cstate EXCEPT ![c0][x] = s]
    BY <1>1, Zenon
  <1> QED
    BY <1>6, <1>7, <1>8, <1>9, CacheQuietS, Zenon

(* A cache forgets a line that memory has taken: its value is the one in   *)
(* memory.                                                                 *)
LEMMA Writeback_AckS ==
    ASSUME AtBoth, NEW c0 \in Caches, NEW d \in Dirs, Writeback_Ack(c0, d)
    PROVE  SeenStep
  <1>0. IInv /\ CInv
    BY Zenon DEF AtBoth
  <1>1. PICK m \in ForwardMsgs :
           /\ m = Head(fwd[c0][d])
           /\ Pending(c0, m.addr, m.type)
           /\ FwdInv' /\ FwdTaken(c0, m.addr, m.type)
           /\ \A a \in Addrs \ {m.addr} : KeepsFwd(a)
    BY <1>0, Popped, Zenon DEF Writeback_Ack
  <1>2. PICK x \in Addrs : x = m.addr
    BY Zenon DEF ForwardMsgs
  <1>3. Ack(c0, x) /\ FwdTaken(c0, x, "WB_ACK") /\ cstate[c0][x] = "MI"
    BY <1>1, <1>2, Zenon DEF Writeback_Ack, Ack
  <1>4. PICK s, b : /\ s = "I" /\ cstate' = [cstate EXCEPT ![c0][x] = s]
                    /\ data' = [data EXCEPT ![c0][x] = b]
                    /\ UNCHANGED <<table, resp, dirVars, dmaVars>>
    BY <1>1, <1>2, Zenon DEF Writeback_Ack
  <1>5. OtherAcks(x)
    BY <1>1, <1>2, AcksKept, Zenon DEF OtherAcks
  <1>6. OthersTold(c0, x)
    BY <1>3, Zenon DEF OthersTold, FwdTaken
  <1>7. cstate'[c0][x] = "I"
    BY <1>0, <1>4, Zenon DEF IInv, CacheTypes
  <1>8. StillHolds(c0, x)
    BY <1>3, <1>7 DEF StillHolds, Holds, WrittenBack, Ack
  <1> QED
    BY <1>4, <1>5, <1>6, <1>8, CacheQuietS, Zenon

(* A cache learns that the line was promised to another, and still has it. *)
LEMMA Writeback_NackS ==
    ASSUME AtBoth, NEW c0 \in Caches, NEW d \in Dirs, Writeback_Nack(c0, d)
    PROVE  SeenStep
  <1>0. IInv /\ CInv
    BY Zenon DEF AtBoth
  <1>1. PICK m \in ForwardMsgs :
           /\ m = Head(fwd[c0][d])
           /\ Pending(c0, m.addr, m.type)
           /\ FwdInv' /\ FwdTaken(c0, m.addr, m.type)
           /\ \A a \in Addrs \ {m.addr} : KeepsFwd(a)
    BY <1>0, Popped, Zenon DEF Writeback_Nack
  <1>2. PICK x \in Addrs : x = m.addr
    BY Zenon DEF ForwardMsgs
  <1>3. Nack(c0, x) /\ FwdTaken(c0, x, "WB_NACK") /\ cstate[c0][x] \in {"MI", "II"}
    BY <1>1, <1>2, Zenon DEF Writeback_Nack, Nack, AfterNack
  <1>4. PICK s : s = AfterNack[cstate[c0][x]] /\ cstate' = [cstate EXCEPT ![c0][x] = s]
    BY <1>1, <1>2, Zenon DEF Writeback_Nack
  <1>5. s = IF cstate[c0][x] = "MI" THEN "MII" ELSE "I"
    BY <1>3, <1>4 DEF AfterNack
  <1>6. UNCHANGED <<table, data, resp, dirVars, dmaVars>>
    BY <1>1, <1>2, Zenon DEF Writeback_Nack
  <1>7. PICK b : b = data[c0][x] /\ data' = [data EXCEPT ![c0][x] = b]
    BY <1>0, <1>6, SameData, Zenon
  <1>8. OtherAcks(x)
    BY <1>1, <1>2, AcksKept, Zenon DEF OtherAcks
  <1>9. OthersTold(c0, x)
    BY <1>3, Zenon DEF OthersTold, FwdTaken
  <1>10. cstate'[c0][x] = s
    BY <1>0, <1>4, Zenon DEF IInv, CacheTypes
  <1>11. StillHolds(c0, x)
    <2>1. ReturnInv(x, c0) /\ AskInv(x, c0)
      BY <1>0, Zenon DEF IInv, LineInv
    <2>2. ~WrittenBack(c0, x)
      BY <1>3, <2>1, Zenon DEF WrittenBack, ReturnInv, AskInv, TakenBack, Fetching, Ack, Awaits
    <2>3. CASE cstate[c0][x] = "MI"
      <3>1. Holds(c0, x) /\ Holds(c0, x)'
        BY <1>5, <1>10, <2>2, <2>3, Zenon DEF Holds
      <3> QED
        BY <1>6, <3>1, Zenon DEF StillHolds
    <2>4. CASE cstate[c0][x] = "II"
      <3>1. ~Holds(c0, x) /\ ~Holds(c0, x)'
        BY <1>5, <1>10, <2>4 DEF Holds
      <3> QED
        BY <3>1, Zenon DEF StillHolds
    <2> QED
      BY <1>3, <2>3, <2>4, Zenon
  <1>12. /\ cstate' = [cstate EXCEPT ![c0][x] = s] /\ data' = [data EXCEPT ![c0][x] = b]
         /\ UNCHANGED <<table, resp, dirVars, dmaVars>>
    BY <1>4, <1>6, <1>7, Zenon
  <1> QED
    BY <1>8, <1>9, <1>11, <1>12, CacheQuietS, Zenon

(* A cache sends the line on: the message has it now. *)
LEMMA Fwd_GETXS ==
    ASSUME AtBoth, NEW c0 \in Caches, NEW d \in Dirs, Fwd_GETX(c0, d)
    PROVE  SeenStep
  <1>0. IInv /\ CInv /\ Laws /\ Laws'
    BY Zenon DEF AtBoth
  <1>1. PICK m \in ForwardMsgs :
           /\ m = Head(fwd[c0][d])
           /\ Pending(c0, m.addr, m.type)
           /\ \A a \in Addrs \ {m.addr} : KeepsFwd(a)
    BY <1>0, Popped, Zenon DEF Fwd_GETX
  <1>2. PICK x \in Addrs, r \in Caches : x = m.addr /\ r = m.for
    BY Zenon DEF ForwardMsgs
  <1>3. Told(c0, x) /\ cstate[c0][x] \in {"M", "MI", "MII"}
    BY <1>1, <1>2, Zenon DEF Fwd_GETX, Told, AfterFwdGETX
  <1>4. PICK s, b : /\ cstate' = [cstate EXCEPT ![c0][x] = s] /\ data' = [data EXCEPT ![c0][x] = b]
    BY <1>1, <1>2, Zenon DEF Fwd_GETX
  <1>5. UNCHANGED <<table, dirVars, dmaVars>>
    BY Zenon DEF Fwd_GETX
  <1>6. PICK q : q = ResponseMsg(x, r, data[c0][x])
    OBVIOUS
  <1>7. resp' = resp \cup {q}
    BY <1>1, <1>2, <1>6, Zenon DEF Fwd_GETX
  <1>8. q.addr = x /\ q.data = data[c0][x]
    BY <1>6 DEF ResponseMsg
  <1>9. OtherResp(x)
    BY <1>7, <1>8, Zenon DEF OtherResp
  <1>10. OtherAcks(x)
    BY <1>1, <1>2, AcksKept, Zenon DEF OtherAcks
  <1>11. OtherBlocks(x)
    BY <1>0, <1>4, <1>5, <1>9, <1>10, CacheBlocks, Zenon
  <1>12. Holds(c0, x)
    <2>1. ReturnInv(x, c0) /\ AskInv(x, c0)
      BY <1>0, Zenon DEF IInv, LineInv
    <2>2. ~WrittenBack(c0, x)
      BY <1>3, <2>1, Zenon DEF WrittenBack, ReturnInv, AskInv, TakenBack, Fetching, Ack, Awaits
    <2> QED
      BY <1>3, <2>2, Zenon DEF Holds
  <1>13. LineValue(x) = data[c0][x]
    BY <1>0, <1>12, Zenon DEF Laws, ValueLaw
  <1>14. LineValue(x)' = q.data
    BY <1>0, <1>7, <1>8, Zenon DEF Laws, ValueLaw
  <1>15. SameValues
    BY <1>8, <1>11, <1>13, <1>14, KeptOthers, Zenon
  <1>16. UNCHANGED <<table, dstate, dmaFor, dmaResp>>
    BY <1>5, Zenon DEF dirVars, dmaVars
  <1>17. SameEntries
    BY <1>16, KeptEntries, Zenon
  <1> QED
    BY <1>15, <1>17, SeesNothing, Zenon DEF SeenStep
-----------------------------------------------------------------------------
\* What memory does: nothing, or the write of a whole line.
WholeLine(op) == op.first = 0 /\ op.len = LineSize

(* The requests of DMA controllers that store cover whole lines. *)
WholeLineDma == \A d \in DMAs : \A op \in OpsOf[d] : op.op = "Store" => WholeLine(op)

(* Memory that writes nothing keeps the block, ... *)
LEMMA PerformedNone ==
    ASSUME NEW b \in Block, NEW op, op.len = 0
    PROVE  Performed(b, op) = b
  <1>1. \A w \in Words : ~(w < 0)
    BY MIAssumption DEF Words
  <1> QED
    BY <1>1 DEF Performed, Block

(* ... and one that writes a whole line forgets it. *)
LEMMA PerformedAll ==
    ASSUME NEW b, NEW op, op.data \in Block, op.len = LineSize
    PROVE  Performed(b, op) = op.data
  <1>1. \A w \in Words : w < LineSize
    BY MIAssumption DEF Words
  <1> QED
    BY <1>1 DEF Performed, Block

(* A DMA write of a whole line is the block that the store makes of the    *)
(* line.                                                                   *)
LEMMA WholeOverlay ==
    ASSUME NEW b, NEW op, WholeLine(op)
    PROVE  DmaBlock(op) = Overlay(b, op)
  <1>1. \A w \in Words : w \in OpWords(op)
    BY MIAssumption DEF Words, OpWords, WholeLine
  <1> QED
    BY <1>1, Zenon DEF DmaBlock, Overlay

\* The requests that DMA controller d has for line x stay where they are, ...
StillDma(d, x) ==
    /\ StoreDone(d, x)' <=> StoreDone(d, x)
    /\ \A m : m.addr = x /\ m.to = d => (m \in dmaResp' <=> m \in dmaResp)

\* ... and those of the DMA controllers other than d0.
OtherDmas(d0, x) == \A d \in DMAs \ {d0} : StillDma(d, x)

(* A step of a directory on line x, for DMA controller d0. *)
LEMMA DirEntries ==
    ASSUME AtBoth, NEW x \in Addrs, NEW d0, UNCHANGED table, OtherMemory(x), OtherDma(x),
           OtherDmas(d0, x)
    PROVE  /\ OtherEntries(d0, x)
           /\ StillDma(d0, x) \/ PerformedFor(d0, x)' = PerformedFor(d0, x) => SameEntries
  <1>0. Laws /\ Laws' /\ CInv
    BY Zenon DEF AtBoth
  <1>1. ASSUME NEW p \in Caches \cup DMAs, NEW a \in Addrs, p \in DMAs => StillDma(p, a)
        PROVE  PerformedFor(p, a)' = PerformedFor(p, a)
    <2>1. CASE p \in DMAs
      BY <1>0, <1>1, <2>1, SameEntry, Zenon DEF StillDma
    <2>2. CASE p \in Caches
      <3>1. PerformedFor(p, a) = table[p][a] /\ PerformedFor(p, a)' = table'[p][a]
        BY <1>0, <2>2, Zenon DEF Laws, EntryLaw
      <3> QED
        BY <3>1, Zenon
    <2> QED
      BY <2>1, <2>2, Zenon
  <1>2. ASSUME NEW p \in DMAs, NEW a \in Addrs \ {x} PROVE StillDma(p, a)
    <2>1. dmaFor'[a] = dmaFor[a] /\ \A m : m.addr = a => (m \in dmaResp' <=> m \in dmaResp)
      BY <1>2, Zenon DEF OtherDma
    <2>2. dstate'[a] = dstate[a]
      BY <1>2, Zenon DEF OtherMemory
    <2> QED
      BY <2>1, <2>2, Zenon DEF StillDma, StoreDone
  <1>3. ASSUME NEW p \in Caches \cup DMAs, NEW a \in Addrs, p # d0 \/ a # x
        PROVE  PerformedFor(p, a)' = PerformedFor(p, a)
    <2>1. p \in DMAs => StillDma(p, a)
      BY <1>2, <1>3, Zenon DEF OtherDmas
    <2> QED
      BY <1>1, <2>1, Zenon
  <1>4. OtherEntries(d0, x)
    BY <1>3, Zenon DEF OtherEntries
  <1>5. ASSUME StillDma(d0, x) \/ PerformedFor(d0, x)' = PerformedFor(d0, x) PROVE SameEntries
    <2>1. ASSUME NEW p \in Caches \cup DMAs, NEW a \in Addrs
          PROVE  PerformedFor(p, a)' = PerformedFor(p, a)
      BY <1>1, <1>3, <1>5, Zenon
    <2> QED
      BY <2>1, Zenon DEF SameEntries
  <1> QED
    BY <1>4, <1>5, Zenon

(* It leaves the copies of the other lines alone. *)
LEMMA DirBlocks ==
    ASSUME NEW x \in Addrs, OtherMemory(x), OtherAcks(x), OtherResp(x), UNCHANGED <<cstate, data>>
    PROVE  OtherBlocks(x)
  <1>1. ASSUME NEW a \in Addrs \ {x} PROVE SameBlocks(a)
    <2>1. dstate'[a] = dstate[a] /\ memOp'[a] = memOp[a] /\ mem'[a] = mem[a]
      BY <1>1, Zenon DEF OtherMemory
    <2>2. KeepsAcks(a)
      BY <1>1, Zenon DEF OtherAcks
    <2>3. \A m : m.addr = a => (m \in resp' <=> m \in resp)
      BY <1>1, Zenon DEF OtherResp
    <2> QED
      BY <2>1, <2>2, <2>3, Zenon DEF SameBlocks, KeepsAcks
  <1> QED
    BY <1>1, Zenon DEF OtherBlocks

(* The value of a line that memory has. *)
LEMMA InMemory ==
    ASSUME CInv, NEW x \in Addrs, ValueLaw(x), ~GivenOut(x), memOp[x].len = 0
    PROVE  LineValue(x) = mem[x] /\ mem[x] \in Block
  <1>1. mem[x] \in Block
    BY Zenon DEF CInv, StoreInv
  <1>2. Performed(mem[x], memOp[x]) = mem[x]
    BY <1>1, PerformedNone, Zenon
  <1> QED
    BY <1>1, <1>2, Zenon DEF ValueLaw

(* No operation writes no word. *)
LEMMA NoOpLen == NoOp.len = 0
  BY DEF NoOp, MemoryOp

(* The directory reads a line from memory for a cache, or has its owner    *)
(* send it.                                                                *)
LEMMA GETXS ==
    ASSUME AtBoth, NEW m \in reqs, GETX(m)
    PROVE  SeenStep
  <1>0. IInv /\ CInv /\ Laws /\ Laws'
    BY Zenon DEF AtBoth
  <1>1. PICK x \in Addrs, r \in Caches : x = m.addr /\ r = m.from
    BY <1>0, Zenon DEF IInv, ReqInv
  <1>2. UNCHANGED <<table, cstate, data, resp, dmaFor, mem, dmaVars>>
    BY Zenon DEF GETX, cacheVars
  <1>3. CASE dstate[x] = "I"
    <2>1. PICK op : op = MemoryOp({r}, NoData, 0)
      OBVIOUS
    <2>2. op.len = 0
      BY <2>1 DEF MemoryOp
    <2>3. PICK s : s = "IM"
      OBVIOUS
    <2>4. /\ dstate' = [dstate EXCEPT ![x] = s] /\ memOp' = [memOp EXCEPT ![x] = op]
          /\ UNCHANGED fwd
      BY <1>1, <1>3, <2>1, <2>3 DEF GETX, queueMemoryRead
    <2>5. /\ dstate'[x] = s /\ memOp'[x] = op
          /\ \A a \in Addrs \ {x} : dstate'[a] = dstate[a] /\ memOp'[a] = memOp[a]
      BY <1>0, <2>4, DirEffect, Zenon
    <2>6. OtherMemory(x) /\ OtherResp(x) /\ OtherDma(x)
      BY <1>2, <2>5, Zenon DEF OtherMemory, OtherResp, OtherDma, dmaVars
    <2>7. OtherAcks(x)
      BY <2>4, AcksKept, Zenon DEF OtherAcks
    <2>8. OtherBlocks(x)
      BY <1>2, <2>6, <2>7, DirBlocks, Zenon
    <2>9. LineValue(x) = mem[x]
      <3>1. memOp[x].len = 0
        BY <1>0, <1>3, NoOpLen, Zenon DEF CInv, StoreInv, OpInv
      <3>2. ~GivenOut(x)
        BY <1>3 DEF GivenOut
      <3>3. ValueLaw(x)
        BY <1>0, Zenon DEF Laws
      <3> QED
        BY <1>0, <3>1, <3>2, <3>3, InMemory, Zenon
    <2>10. LineValue(x)' = mem[x]
      <3>1. ~GivenOut(x)'
        BY <2>3, <2>5 DEF GivenOut
      <3>2. LineValue(x)' = Performed(mem'[x], memOp'[x])
        BY <1>0, <3>1, Zenon DEF Laws, ValueLaw
      <3>3. mem[x] \in Block
        BY <1>0, Zenon DEF CInv, StoreInv
      <3>4. Performed(mem[x], op) = mem[x]
        BY <2>2, <3>3, PerformedNone, Zenon
      <3> QED
        BY <1>2, <2>5, <3>2, <3>4, Zenon
    <2>11. SameValues
      BY <2>8, <2>9, <2>10, KeptOthers, Zenon
    <2>12. \A d : StillDma(d, x)
      <3>1. dmaFor[x] = {}
        BY <1>0, <1>3, Zenon DEF CInv, DmaInv, DmaLine, ForInv
      <3> QED
        BY <1>2, <3>1, Zenon DEF StillDma, StoreDone, dmaVars
    <2>13. OtherDmas(r, x)
      BY <2>12, Zenon DEF OtherDmas
    <2>14. SameEntries
      BY <1>2, <2>6, <2>12, <2>13, DirEntries, Zenon
    <2> QED
      BY <2>11, <2>14, SeesNothing, Zenon DEF SeenStep
  <1>4. CASE dstate[x] # "I"
    <2>1. dstate[x] = "M" /\ UNCHANGED <<dstate, memOp>>
      BY <1>1, <1>4, Zenon DEF GETX
    <2>2. PICK o \in owner[x] : Send(x, o, ForwardMsg("GETX", x, r))
      BY <1>1, <1>4, Zenon DEF GETX
    <2>3. o \in Caches /\ FwdInv /\ ReturnInv(x, o)
      BY <1>0, Zenon DEF IInv, DirTypes, LineInv
    <2>4. ~Pending(o, x, "GETX")
      BY <2>3, Zenon DEF ReturnInv, Told
    <2>5. FwdSent(o, x, "GETX", r) /\ \A a \in Addrs \ {x} : KeepsFwd(a)
      BY <2>2, <2>3, <2>4, SendEffect, Zenon
    <2>6. ASSUME NEW a \in Addrs PROVE KeepsAcks(a)
      <3>1. CASE a = x
        BY <2>5, <3>1, Zenon DEF FwdSent, KeepsAcks
      <3>2. CASE a # x
        BY <2>5, <3>2, AcksKept, Zenon
      <3> QED
        BY <3>1, <3>2, Zenon
    <2>7. UNCHANGED <<cstate, data, resp, dstate, memOp, mem>> /\ UNCHANGED <<table, dstate, dmaFor, dmaResp>>
      BY <1>2, <2>1, Zenon DEF dmaVars
    <2>8. SameValues /\ SameEntries
      BY <2>6, <2>7, KeptValues, KeptEntries, Zenon
    <2> QED
      BY <2>8, SeesNothing, Zenon DEF SeenStep
  <1> QED
    BY <1>3, <1>4, Zenon

(* The directory refuses a block that another cache is to get: nobody sees *)
(* it.                                                                     *)
LEMMA PUTX_NotOwnerS ==
    ASSUME AtBoth, NEW m \in reqs, PUTX_NotOwner(m)
    PROVE  SeenStep
  <1>0. IInv
    BY Zenon DEF AtBoth
  <1>1. PICK x \in Addrs, r \in Caches : x = m.addr /\ r = m.from
    BY <1>0, Zenon DEF IInv, ReqInv
  <1>2. UNCHANGED <<table, cstate, data, resp, dirVars, dmaVars>>
    BY Zenon DEF PUTX_NotOwner, cacheVars
  <1>3. Send(x, r, ForwardMsg("WB_NACK", x, r)) /\ Offered(r, x)
    BY <1>1, Zenon DEF PUTX_NotOwner, Offered
  <1>4. FwdInv /\ ReturnInv(x, r)
    BY <1>0, Zenon DEF IInv, LineInv
  <1>5. ~Pending(r, x, "WB_NACK")
    BY <1>3, <1>4, Zenon DEF ReturnInv, Nack
  <1>6. FwdSent(r, x, "WB_NACK", r) /\ \A a \in Addrs \ {x} : KeepsFwd(a)
    BY <1>3, <1>4, <1>5, SendEffect, Zenon
  <1>7. ASSUME NEW a \in Addrs PROVE KeepsAcks(a)
    <2>1. CASE a = x
      BY <1>6, <2>1, Zenon DEF FwdSent, KeepsAcks
    <2>2. CASE a # x
      BY <1>6, <2>2, AcksKept, Zenon
    <2> QED
      BY <2>1, <2>2, Zenon
  <1> QED
    BY <1>2, <1>7, QuietS, Zenon

(* A step of a directory on line x that performs nothing, ... *)
LEMMA DirQuietS ==
    ASSUME AtBoth, NEW x \in Addrs, NEW d0, UNCHANGED table,
           OtherMemory(x), OtherDma(x), OtherBlocks(x), OtherDmas(d0, x),
           LineValue(x)' = LineValue(x),
           StillDma(d0, x) \/ PerformedFor(d0, x)' = PerformedFor(d0, x)
    PROVE  SeenStep
  BY KeptOthers, DirEntries, SeesNothing, Zenon DEF SeenStep

(* ... one that answers a DMA read, ... *)
LEMMA AnswersLoad ==
    ASSUME AtBoth, NEW x \in Addrs, NEW d0 \in DMAs, NEW b \in Block,
           UNCHANGED table, OtherMemory(x), OtherDma(x), OtherBlocks(x),
           dmaFor[x] = {d0}, dstate[x] \in {"ID", "M_DRD"}, dstate'[x] \in {"I", "M_DRDI"},
           dmaResp' = dmaResp \cup {ResponseMsg(x, d0, b)},
           LineValue(x) = b, LineValue(x)' = b
    PROVE  SeenStep
  <1>1. CInv /\ Laws /\ Laws'
    BY Zenon DEF AtBoth
  <1>2. PICK q : q = ResponseMsg(x, d0, b)
    OBVIOUS
  <1>3. q.addr = x /\ q.to = d0 /\ q.data = b
    BY <1>2 DEF ResponseMsg
  <1>4. dmaResp' = dmaResp \cup {q}
    BY <1>2, Zenon
  <1>5. InDir(d0, x) /\ PlaceInv(d0, x) /\ d0 \in Caches \cup DMAs
    BY <1>1, Zenon DEF InDir, CInv, DmaInv, DmaLine
  <1>6. ~InResp(d0, x) /\ table[d0][x].op = "Load"
    BY <1>5, Zenon DEF PlaceInv
  <1>7. ASSUME NEW d PROVE ~StoreDone(d, x) /\ ~StoreDone(d, x)'
    BY DEF StoreDone
  <1>8. PerformedFor(d0, x) = table[d0][x]
    BY <1>1, <1>6, <1>7, Zenon DEF Laws, EntryLaw
  <1>9. PerformedFor(d0, x)' = Got(table'[d0][x], b)
    <2>1. b # NoData
      BY MIAssumption, Zenon
    <2>2. \A m \in dmaResp' : m.addr = x =>
             PerformedFor(m.to, x)' = IF m.data = NoData THEN Stored ELSE Got(table'[m.to][x], m.data)
      BY <1>1, Zenon DEF Laws, EntryLaw
    <2>3. PerformedFor(q.to, x)' = IF q.data = NoData THEN Stored ELSE Got(table'[q.to][x], q.data)
      BY <1>3, <1>4, <2>2, Zenon
    <2>4. PerformedFor(q.to, x)' = Got(table'[q.to][x], q.data)
      BY <1>3, <2>1, <2>3, Zenon
    <2> QED
      BY <1>3, <2>4, Zenon
  <1>10. ASSUME NEW d \in DMAs \ {d0} PROVE StillDma(d, x)
    BY <1>3, <1>4, <1>7, <1>10, Zenon DEF StillDma
  <1>11. OtherDmas(d0, x)
    BY <1>10, Zenon DEF OtherDmas
  <1>12. OtherEntries(d0, x)
    BY <1>11, DirEntries, Zenon
  <1>13. SameValues
    BY KeptOthers, Zenon
  <1>14. PerformedFor(d0, x).op = "Load"
    BY <1>6, <1>8, Zenon
  <1>15. PerformedFor(d0, x)' = Got(PerformedFor(d0, x), LineValue(x))
    BY <1>8, <1>9, Zenon
  <1> QED
    BY <1>5, <1>12, <1>13, <1>14, <1>15, SeesLoad, Zenon DEF SeenStep

(* ... and one that takes a DMA write of a whole line to memory. *)
LEMMA TakesStore ==
    ASSUME AtBoth, WholeLineDma, NEW x \in Addrs, NEW d0 \in DMAs,
           UNCHANGED <<table, dmaResp>>, OtherMemory(x), OtherDma(x), OtherBlocks(x),
           table[d0][x].op = "Store", ~InResp(d0, x), ~StoreDone(d0, x), OtherDmas(d0, x),
           dmaFor'[x] = {d0}, dstate'[x] \in {"ID_W", "M_DWRI"},
           memOp'[x].data = DmaBlock(table[d0][x]), memOp'[x].len = table[d0][x].len
    PROVE  SeenStep
  <1>1. CInv /\ Laws /\ Laws'
    BY Zenon DEF AtBoth
  <1>2. d0 \in Caches \cup DMAs
    BY Zenon
  <1>3. PICK t \in OpsOf[d0] : t = table[d0][x]
    BY <1>1, <1>2, Zenon DEF CInv, TableInv, Waiting, Unanswered
  <1>4. WholeLine(t) /\ t.val \in Val
    BY <1>2, <1>3, OpKinds, Zenon DEF WholeLineDma
  <1>5. PerformedFor(d0, x) = t
    BY <1>1, <1>3, Zenon DEF Laws, EntryLaw
  <1>6. PerformedFor(d0, x)' = Stored
    <2>1. StoreDone(d0, x)'
      BY Zenon DEF StoreDone
    <2>2. ~InResp(d0, x)'
      BY Zenon DEF InResp
    <2> QED
      BY <1>1, <2>1, <2>2, Zenon DEF Laws, EntryLaw
  <1>7. LineValue(x)' = DmaBlock(t)
    <2>1. ~GivenOut(x)'
      BY DEF GivenOut
    <2>2. LineValue(x)' = Performed(mem'[x], memOp'[x])
      BY <1>1, <2>1, Zenon DEF Laws, ValueLaw
    <2>3. DmaBlock(t) \in Block
      BY <1>4, Blocks, Zenon
    <2>4. memOp'[x].data = DmaBlock(t) /\ memOp'[x].data \in Block /\ memOp'[x].len = LineSize
      BY <1>3, <1>4, <2>3, Zenon DEF WholeLine
    <2>5. Performed(mem'[x], memOp'[x]) = memOp'[x].data
      BY <2>4, PerformedAll, Zenon
    <2> QED
      BY <2>2, <2>4, <2>5, Zenon
  <1>8. LineValue(x)' = Overlay(LineValue(x), PerformedFor(d0, x))
    BY <1>4, <1>5, <1>7, WholeOverlay, Zenon
  <1>9. OtherEntries(d0, x)
    BY DirEntries, Zenon
  <1>10. OtherValues(x)
    BY KeptOthers, Zenon
  <1>11. PerformedFor(d0, x).op = "Store"
    BY <1>3, <1>5, Zenon
  <1> QED
    BY <1>2, <1>6, <1>8, <1>9, <1>10, <1>11, SeesStore, Zenon DEF SeenStep

(* The owner gives a line back: a DMA controller that reads it, or writes  *)
(* all of it, is served with it.                                           *)
LEMMA PUTXS ==
    ASSUME AtBoth, WholeLineDma, NEW m \in reqs, PUTX(m)
    PROVE  SeenStep
  <1>0. IInv /\ CInv /\ Laws /\ Laws'
    BY Zenon DEF AtBoth
  <1>1. PICK x \in Addrs, r \in Caches, b \in Block : 
           x = m.addr /\ r = m.from /\ b = m.data /\ b = data[r][x] /\ Holds(r, x)
    BY <1>0, PutxData, Zenon DEF PUTX
  <1>2. UNCHANGED <<table, cstate, data, fwd, resp, dmaFor, mem, dma, dmaReqs>>
    BY Zenon DEF PUTX, cacheVars
  <1>3. LineValue(x) = b
    BY <1>0, <1>1, Zenon DEF Laws, ValueLaw
  <1>4. OtherAcks(x) /\ OtherResp(x)
    BY <1>2, AcksKept, Zenon DEF OtherAcks, OtherResp
  <1>5. ASSUME NEW s, NEW op, dstate' = [dstate EXCEPT ![x] = s], memOp' = [memOp EXCEPT ![x] = op]
        PROVE  dstate'[x] = s /\ memOp'[x] = op /\ OtherMemory(x) /\ OtherBlocks(x)
    <2>1. /\ dstate'[x] = s /\ memOp'[x] = op
          /\ \A a \in Addrs \ {x} : dstate'[a] = dstate[a] /\ memOp'[a] = memOp[a]
      BY <1>0, <1>5, DirEffect, Zenon
    <2>2. OtherMemory(x)
      BY <1>2, <2>1, Zenon DEF OtherMemory
    <2> QED
      BY <1>2, <1>4, <2>1, <2>2, DirBlocks, Zenon
  <1>6. PICK w : w = MemoryOp({r}, b, LineSize)
    OBVIOUS
  <1>7. w.data = b /\ w.len = LineSize
    BY <1>6 DEF MemoryOp
  <1>8. memOp'[x] = w /\ ~GivenOut(x)' => LineValue(x)' = b
    <2>1. Performed(mem'[x], w) = b
      BY <1>7, PerformedAll, Zenon
    <2> QED
      BY <1>0, <2>1, Zenon DEF Laws, ValueLaw
  <1>9. ForInv(x)
    BY <1>0, Zenon DEF CInv, DmaInv, DmaLine
  <1>10. CASE dstate[x] = "M"
    <2>1. PICK s : s = "MI"
      OBVIOUS
    <2>2. /\ dstate' = [dstate EXCEPT ![x] = s] /\ memOp' = [memOp EXCEPT ![x] = w]
          /\ UNCHANGED dmaResp
      BY <1>1, <1>6, <1>10, <2>1, Zenon DEF PUTX, queueMemoryWrite
    <2>3. dstate'[x] = s /\ memOp'[x] = w /\ OtherMemory(x) /\ OtherBlocks(x)
      BY <1>5, <2>2, Zenon
    <2>4. LineValue(x)' = LineValue(x)
      BY <1>3, <1>8, <2>1, <2>3 DEF GivenOut
    <2>5. OtherDma(x)
      BY <1>2, <2>2, Zenon DEF OtherDma
    <2>6. \A d : StillDma(d, x)
      BY <1>2, <1>9, <1>10, <2>2, Zenon DEF ForInv, StillDma, StoreDone
    <2>7. OtherDmas(r, x) /\ StillDma(r, x)
      BY <2>6, Zenon DEF OtherDmas
    <2> QED
      BY <1>2, <2>3, <2>4, <2>5, <2>7, DirQuietS, Zenon
  <1>11. CASE dstate[x] = "M_DRD"
    <2>1. PICK s : s = "M_DRDI"
      OBVIOUS
    <2>2. dstate' = [dstate EXCEPT ![x] = s] /\ memOp' = [memOp EXCEPT ![x] = w]
      BY <1>1, <1>6, <1>11, <2>1, Zenon DEF PUTX, queueMemoryWrite
    <2>3. dstate'[x] = s /\ memOp'[x] = w /\ OtherMemory(x) /\ OtherBlocks(x)
      BY <1>5, <2>2, Zenon
    <2>4. LineValue(x)' = b
      BY <1>8, <2>1, <2>3 DEF GivenOut
    <2>5. PICK d0 \in DMAs : dmaFor[x] = {d0}
      BY <1>9, <1>11 DEF ForInv
    <2>6. dmaResp' = dmaResp \cup {ResponseMsg(x, d0, b)}
      <3>1. dmaResp' = dmaResp \cup {ResponseMsg(m.addr, d, m.data) : d \in dmaFor[m.addr]}
        BY <1>1, <1>11, Zenon DEF PUTX
      <3>2. dmaResp' = dmaResp \cup {ResponseMsg(m.addr, d0, m.data)}
        BY <1>1, <2>5, <3>1, Zenon
      <3> QED
        BY <1>1, <3>2, Zenon
    <2>7. OtherDma(x)
      BY <1>2, <2>6, OtherAnswered, Zenon
    <2>8. dstate[x] \in {"ID", "M_DRD"} /\ dstate'[x] \in {"I", "M_DRDI"} /\ UNCHANGED table
      BY <1>2, <1>11, <2>1, <2>3, Zenon
    <2> QED
      BY <1>3, <2>3, <2>4, <2>5, <2>6, <2>7, <2>8, AnswersLoad, Zenon
  <1>12. CASE dstate[x] = "M_DWR"
    <2>1. PICK s : s = "M_DWRI"
      OBVIOUS
    <2>2. PICK d0 \in DMAs : dmaFor[x] = {d0}
      BY <1>9, <1>12 DEF ForInv
    <2>3. PICK op : op = MemoryOp({r}, DmaBlock(table[d0][x]), table[d0][x].len)
      OBVIOUS
    <2>4. op.data = DmaBlock(table[d0][x]) /\ op.len = table[d0][x].len
      BY <2>3 DEF MemoryOp
    <2>5. /\ dstate' = [dstate EXCEPT ![x] = s] /\ memOp' = [memOp EXCEPT ![x] = op]
          /\ UNCHANGED dmaResp
      BY <1>1, <1>12, <2>1, <2>2, <2>3, Zenon DEF PUTX, queueMemoryWritePartial
    <2>6. dstate'[x] = s /\ memOp'[x] = op /\ OtherMemory(x) /\ OtherBlocks(x)
      BY <1>5, <2>5, Zenon
    <2>7. InDir(d0, x) /\ PlaceInv(d0, x)
      BY <1>0, <1>12, <2>2, Zenon DEF InDir, CInv, DmaInv, DmaLine
    <2>8. table[d0][x].op = "Store" /\ ~InResp(d0, x)
      BY <1>12, <2>7, Zenon DEF PlaceInv
    <2>9. ~StoreDone(d0, x)
      BY <1>12 DEF StoreDone
    <2>10. ASSUME NEW d \in DMAs \ {d0} PROVE StillDma(d, x)
      BY <1>2, <2>2, <2>5, <2>10, Zenon DEF StillDma, StoreDone
    <2>11. OtherDmas(d0, x)
      BY <2>10, Zenon DEF OtherDmas
    <2>12. OtherDma(x)
      BY <1>2, <2>5, Zenon DEF OtherDma
    <2>13. /\ dmaFor'[x] = {d0} /\ dstate'[x] \in {"ID_W", "M_DWRI"} /\ UNCHANGED <<table, dmaResp>>
           /\ memOp'[x].data = DmaBlock(table[d0][x]) /\ memOp'[x].len = table[d0][x].len
      BY <1>2, <2>1, <2>2, <2>4, <2>5, <2>6, Zenon
    <2> QED
      BY <2>6, <2>8, <2>9, <2>11, <2>12, <2>13, TakesStore, Zenon
  <1> QED
    BY <1>1, <1>10, <1>11, <1>12, Zenon DEF PUTX

(* A DMA request is taken: a write of a line that memory has is performed. *)
LEMMA DMA_RequestS ==
    ASSUME AtBoth, WholeLineDma, NEW m \in dmaReqs, DMA_Request(m)
    PROVE  SeenStep
  <1>0. IInv /\ CInv /\ Laws /\ Laws'
    BY Zenon DEF AtBoth
  <1>1. PICK x \in Addrs, d0 \in DMAs : x = m.addr /\ d0 = m.from
    BY <1>0, Zenon DEF IInv, DirTypes
  <1>2. /\ dmaFor' = [dmaFor EXCEPT ![x] = {d0}] /\ dmaReqs' = dmaReqs \ {m}
        /\ UNCHANGED <<table, cstate, data, resp, mem, dma, dmaResp>>
    BY <1>1, Zenon DEF DMA_Request, cacheVars
  <1>3. DmaTypes /\ ForInv(x) /\ PlaceInv(d0, x) /\ InReq(d0, x)
    BY <1>0, <1>1, Zenon DEF CInv, DmaInv, DmaLine, InReq
  <1>4. dmaFor'[x] = {d0} /\ \A a \in Addrs \ {x} : dmaFor'[a] = dmaFor[a]
    BY <1>2, <1>3, Zenon DEF DmaTypes
  <1>5. dstate[x] \in {"I", "M"} /\ dmaFor[x] = {}
    <2>1. dstate[x] \in {"I", "M"}
      BY <1>1, Zenon DEF DMA_Request
    <2> QED
      BY <1>3, <2>1 DEF ForInv
  <1>6. OtherDma(x) /\ OtherResp(x)
    BY <1>1, <1>2, <1>4, Zenon DEF OtherDma, OtherResp
  <1>7. ~StoreDone(d0, x) /\ ~InResp(d0, x)
    BY <1>3, <1>5, Zenon DEF StoreDone, PlaceInv
  <1>8. ASSUME NEW d \in DMAs \ {d0} PROVE StillDma(d, x)
    BY <1>2, <1>4, <1>5, <1>8, Zenon DEF StillDma, StoreDone
  <1>9. OtherDmas(d0, x)
    BY <1>8, Zenon DEF OtherDmas
  <1>10. dstate'[x] \in {"ID", "M_DRD", "M_DWR"} => StillDma(d0, x)
    BY <1>2, <1>7 DEF StillDma, StoreDone
  <1>11. CASE dstate[x] = "I"
    <2>1. OtherAcks(x)
      <3>1. UNCHANGED fwd
        BY <1>1, <1>11, Zenon DEF DMA_Request
      <3> QED
        BY <3>1, AcksKept, Zenon DEF OtherAcks
    <2>2. LineValue(x) = mem[x] /\ mem[x] \in Block
      <3>1. memOp[x].len = 0
        BY <1>0, <1>11, NoOpLen, Zenon DEF CInv, StoreInv, OpInv
      <3>2. ~GivenOut(x)
        BY <1>11 DEF GivenOut
      <3>3. ValueLaw(x)
        BY <1>0, Zenon DEF Laws
      <3> QED
        BY <1>0, <3>1, <3>2, <3>3, InMemory, Zenon
    <2>3. CASE table[d0][x].op = "Load"
      <3>1. PICK s, op : s = "ID" /\ op = MemoryOp({d0}, NoData, 0)
        OBVIOUS
      <3>2. op.len = 0
        BY <3>1 DEF MemoryOp
      <3>3. dstate' = [dstate EXCEPT ![x] = s] /\ memOp' = [memOp EXCEPT ![x] = op]
        BY <1>1, <1>11, <2>3, <3>1 DEF DMA_Request, queueMemoryRead
      <3>4. /\ dstate'[x] = s /\ memOp'[x] = op
            /\ \A a \in Addrs \ {x} : dstate'[a] = dstate[a] /\ memOp'[a] = memOp[a]
        BY <1>0, <3>3, DirEffect, Zenon
      <3>5. OtherMemory(x)
        BY <1>2, <3>4, Zenon DEF OtherMemory
      <3>6. OtherBlocks(x)
        BY <1>2, <1>6, <2>1, <3>5, DirBlocks, Zenon
      <3>7. ~GivenOut(x)'
        BY <3>1, <3>4 DEF GivenOut
      <3>8. LineValue(x)' = Performed(mem'[x], memOp'[x])
        BY <1>0, <3>7, Zenon DEF Laws, ValueLaw
      <3>9. Performed(mem[x], op) = mem[x]
        BY <2>2, <3>2, PerformedNone, Zenon
      <3>10. LineValue(x)' = LineValue(x)
        BY <1>2, <2>2, <3>4, <3>8, <3>9, Zenon
      <3>11. StillDma(d0, x) /\ UNCHANGED table
        BY <1>2, <1>10, <3>1, <3>4, Zenon
      <3> QED
        BY <1>6, <1>9, <3>5, <3>6, <3>10, <3>11, DirQuietS, Zenon
    <2>4. CASE table[d0][x].op # "Load"
      <3>1. PICK s, op : s = "ID_W" /\ op = MemoryOp({d0}, DmaBlock(table[d0][x]), table[d0][x].len)
        OBVIOUS
      <3>2. op.data = DmaBlock(table[d0][x]) /\ op.len = table[d0][x].len
        BY <3>1 DEF MemoryOp
      <3>3. dstate' = [dstate EXCEPT ![x] = s] /\ memOp' = [memOp EXCEPT ![x] = op]
        BY <1>1, <1>11, <2>4, <3>1 DEF DMA_Request, queueMemoryWritePartial
      <3>4. /\ dstate'[x] = s /\ memOp'[x] = op
            /\ \A a \in Addrs \ {x} : dstate'[a] = dstate[a] /\ memOp'[a] = memOp[a]
        BY <1>0, <3>3, DirEffect, Zenon
      <3>5. OtherMemory(x)
        BY <1>2, <3>4, Zenon DEF OtherMemory
      <3>6. OtherBlocks(x)
        BY <1>2, <1>6, <2>1, <3>5, DirBlocks, Zenon
      <3>7. table[d0][x].op = "Store"
        BY <1>3, <2>4 DEF PlaceInv, DmaTypes
      <3>8. /\ dstate'[x] \in {"ID_W", "M_DWRI"} /\ UNCHANGED <<table, dmaResp>>
            /\ memOp'[x].data = DmaBlock(table[d0][x]) /\ memOp'[x].len = table[d0][x].len
        BY <1>2, <3>1, <3>2, <3>4, Zenon
      <3>9. dmaFor'[x] = {d0}
        BY <1>4, Zenon
      <3> QED
        BY <1>6, <1>7, <1>9, <3>5, <3>6, <3>7, <3>8, <3>9, TakesStore, Zenon
    <2> QED
      BY <2>3, <2>4, Zenon
  <1>12. CASE dstate[x] = "M"
    <2>1. PICK o \in owner[x] : Send(x, o, ForwardMsg("INV", x, o))
      BY <1>1, <1>12, Zenon DEF DMA_Request
    <2>2. o \in Caches /\ FwdInv
      BY <1>0, Zenon DEF IInv, DirTypes
    <2>3. PICK t \in {"GETX", "INV", "WB_ACK", "WB_NACK"} : t = "INV" /\ Send(x, o, ForwardMsg(t, x, o))
      BY <2>1, Zenon
    <2>4. FwdSent(o, x, t, o) /\ \A a \in Addrs \ {x} : KeepsFwd(a)
      BY <2>2, <2>3, SendEffect, Zenon
    <2>5. KeepsAcks(x)
      BY <2>3, <2>4, Zenon DEF FwdSent, KeepsAcks
    <2>6. OtherAcks(x)
      BY <2>4, AcksKept, Zenon DEF OtherAcks
    <2>7. PICK s \in {"M_DRD", "M_DWR"} : dstate' = [dstate EXCEPT ![x] = s] /\ UNCHANGED memOp
      BY <1>1, <1>12, Zenon DEF DMA_Request
    <2>8. dstate'[x] = s /\ \A a \in Addrs \ {x} : dstate'[a] = dstate[a]
      BY <1>0, <2>7, Zenon DEF IInv, DirTypes
    <2>9. OtherMemory(x)
      BY <1>2, <2>7, <2>8, Zenon DEF OtherMemory
    <2>10. OtherBlocks(x)
      BY <1>2, <1>6, <2>6, <2>9, DirBlocks, Zenon
    <2>11. SameCopy(x)
      <3>1. GivenOut(x) /\ GivenOut(x)'
        BY <1>12, <2>8, Zenon DEF GivenOut
      <3>2. \A c \in Caches : Holds(c, x)' <=> Holds(c, x)
        BY <1>2, <2>5, <2>7, Zenon DEF Holds, WrittenBack, KeepsAcks, Ack
      <3> QED
        BY <1>2, <3>1, <3>2, Zenon DEF SameCopy
    <2>12. LineValue(x)' = LineValue(x)
      BY <1>0, <2>11, SameValue, Zenon
    <2>13. StillDma(d0, x) /\ UNCHANGED table
      BY <1>2, <1>10, <2>8, Zenon
    <2> QED
      BY <1>6, <1>9, <2>9, <2>10, <2>12, <2>13, DirQuietS, Zenon
  <1> QED
    BY <1>5, <1>11, <1>12, Zenon

(* Memory is done: the line has the value it was to get. *)
LEMMA MemoryDoneS ==
    ASSUME AtBoth, NEW x \in Addrs, NEW s \in {"I", "M"}, memoryDone(x, s), ~GivenOut(x),
           OtherAcks(x), OtherResp(x)
    PROVE  /\ OtherMemory(x) /\ OtherBlocks(x) /\ UNCHANGED table
           /\ LineValue(x) = mem'[x] /\ mem'[x] \in Block
           /\ s = "I" => LineValue(x)' = LineValue(x)
  <1>1. IInv /\ CInv /\ Laws /\ Laws'
    BY Zenon DEF AtBoth
  <1>2. /\ OtherMemory(x) /\ dstate'[x] = s /\ memOp'[x] = NoOp
        /\ mem'[x] = Performed(mem[x], memOp[x]) /\ mem'[x] \in Block
    BY <1>1, MemoryDone, Zenon
  <1>3. UNCHANGED <<table, cstate, data>>
    BY Zenon DEF memoryDone, cacheVars
  <1>4. OtherBlocks(x)
    BY <1>2, <1>3, DirBlocks, Zenon
  <1>5. LineValue(x) = mem'[x]
    BY <1>1, <1>2, Zenon DEF Laws, ValueLaw
  <1>6. ASSUME s = "I" PROVE LineValue(x)' = LineValue(x)
    <2>1. ~GivenOut(x)'
      BY <1>2, <1>6 DEF GivenOut
    <2>2. LineValue(x)' = Performed(mem'[x], memOp'[x])
      BY <1>1, <2>1, Zenon DEF Laws, ValueLaw
    <2>3. memOp'[x].len = 0
      BY <1>2, NoOpLen, Zenon
    <2>4. Performed(mem'[x], memOp'[x]) = mem'[x]
      BY <1>2, <2>3, PerformedNone, Zenon
    <2> QED
      BY <1>5, <2>2, <2>4, Zenon
  <1> QED
    BY <1>2, <1>3, <1>4, <1>5, <1>6, Zenon

(* Memory has read a line: a cache is sent it, or a DMA read is performed. *)
LEMMA Memory_DataS ==
    ASSUME AtBoth, NEW x \in Addrs, Memory_Data(x)
    PROVE  SeenStep
  <1>0. IInv /\ CInv /\ Laws /\ Laws'
    BY Zenon DEF AtBoth
  <1>1. dstate[x] \in {"IM", "ID"} /\ UNCHANGED fwd
    BY Zenon DEF Memory_Data
  <1>2. ~GivenOut(x) /\ OtherAcks(x)
    <2>1. ~GivenOut(x)
      BY <1>1 DEF GivenOut
    <2> QED
      BY <1>1, <2>1, AcksKept, Zenon DEF OtherAcks
  <1>3. ForInv(x) /\ mem[x] \in Block
    BY <1>0, Zenon DEF CInv, StoreInv, DmaInv, DmaLine
  <1>4. Performed(mem[x], memOp[x]) = mem[x]
    <2>1. memOp[x].len = 0
      BY <1>0, <1>1, Zenon DEF CInv, StoreInv, OpInv
    <2> QED
      BY <1>3, <2>1, PerformedNone, Zenon
  <1>5. LineValue(x) = mem[x]
    BY <1>0, <1>2, <1>4, Zenon DEF Laws, ValueLaw
  <1>6. CASE dstate[x] = "IM"
    <2>1. /\ memoryDone(x, "M") /\ UNCHANGED dmaResp
          /\ resp' = resp \cup {ResponseMsg(x, p, mem[x]) : p \in memOp[x].for}
      BY <1>6, Zenon DEF Memory_Data
    <2>2. PICK s \in {"I", "M"} : s = "M" /\ memoryDone(x, s)
      BY <2>1, Zenon
    <2>3. PICK c \in Caches : memOp[x].for = {c}
      BY <1>0, <1>6, Zenon DEF IInv, LineInv, MemInv
    <2>4. PICK q : q = ResponseMsg(x, c, mem[x])
      OBVIOUS
    <2>5. q.addr = x /\ q.data = mem[x]
      BY <2>4 DEF ResponseMsg
    <2>6. resp' = resp \cup {q}
      BY <2>1, <2>3, <2>4, Zenon
    <2>7. OtherResp(x)
      BY <2>5, <2>6, Zenon DEF OtherResp
    <2>8. OtherMemory(x) /\ OtherBlocks(x) /\ UNCHANGED table
      BY <1>2, <2>2, <2>7, MemoryDoneS, Zenon
    <2>9. LineValue(x)' = q.data
      BY <1>0, <2>5, <2>6, Zenon DEF Laws, ValueLaw
    <2>10. LineValue(x)' = LineValue(x)
      BY <1>5, <2>5, <2>9, Zenon
    <2>11. dmaFor'[x] = {} /\ \A a \in Addrs \ {x} : dmaFor'[a] = dmaFor[a]
      BY <1>0, <2>2, MemoryDone, Zenon
    <2>12. OtherDma(x)
      BY <2>1, <2>11, Zenon DEF OtherDma, memoryDone
    <2>13. \A d : StillDma(d, x)
      BY <1>3, <1>6, <2>1, <2>11, Zenon DEF ForInv, StillDma, StoreDone
    <2>14. OtherDmas(c, x) /\ StillDma(c, x)
      BY <2>13, Zenon DEF OtherDmas
    <2> QED
      BY <2>8, <2>10, <2>12, <2>14, DirQuietS, Zenon
  <1>7. CASE dstate[x] = "ID"
    <2>1. /\ memoryDone(x, "I") /\ UNCHANGED resp
          /\ dmaResp' = dmaResp \cup {ResponseMsg(x, p, mem[x]) : p \in memOp[x].for}
      BY <1>7, Zenon DEF Memory_Data
    <2>2. PICK s \in {"I", "M"} : s = "I" /\ memoryDone(x, s)
      BY <2>1, Zenon
    <2>3. OtherResp(x)
      BY <2>1, Zenon DEF OtherResp
    <2>4. OtherMemory(x) /\ OtherBlocks(x) /\ UNCHANGED table
      BY <1>2, <2>2, <2>3, MemoryDoneS, Zenon
    <2>5. LineValue(x)' = LineValue(x)
      BY <1>2, <2>2, <2>3, MemoryDoneS, Zenon
    <2>6. PICK d0 \in DMAs : dmaFor[x] = {d0} /\ memOp[x].for = {d0}
      BY <1>3, <1>7 DEF ForInv
    <2>7. PICK b \in Block : b = mem[x]
      BY <1>3, Zenon
    <2>8. dmaResp' = dmaResp \cup {ResponseMsg(x, d0, b)}
      BY <2>1, <2>6, <2>7, Zenon
    <2>9. dstate'[x] = "I" /\ \A a \in Addrs \ {x} : dmaFor'[a] = dmaFor[a]
      BY <1>0, <2>2, MemoryDone, Zenon
    <2>10. UNCHANGED <<table, dma, dmaReqs>>
      BY <2>1, Zenon DEF memoryDone
    <2>11. OtherDma(x)
      BY <2>8, <2>9, <2>10, OtherAnswered, Zenon
    <2>12. dstate[x] \in {"ID", "M_DRD"} /\ dstate'[x] \in {"I", "M_DRDI"}
      BY <1>7, <2>9, Zenon
    <2>13. LineValue(x) = b /\ LineValue(x)' = b
      BY <1>5, <2>5, <2>7, Zenon
    <2>14. dmaFor[x] = {d0}
      BY <2>6, Zenon
    <2> QED
      BY <2>4, <2>8, <2>11, <2>12, <2>13, <2>14, AnswersLoad, Zenon
  <1> QED
    BY <1>1, <1>6, <1>7, Zenon

(* Memory has written a line, which the DMA controller that asked for it   *)
(* is told only now.                                                       *)
LEMMA Memory_AckS ==
    ASSUME AtBoth, NEW x \in Addrs, Memory_Ack(x)
    PROVE  SeenStep
  <1>0. IInv /\ CInv /\ Laws /\ Laws'
    BY Zenon DEF AtBoth
  <1>1. memoryDone(x, "I") /\ dstate[x] \in {"MI", "M_DRDI", "M_DWRI", "ID_W"} /\ UNCHANGED resp
    BY Zenon DEF Memory_Ack
  <1>2. PICK s \in {"I", "M"} : s = "I" /\ memoryDone(x, s)
    BY <1>1, Zenon
  <1>3. OtherAcks(x)
    <2>1. CASE dstate[x] = "ID_W"
      <3>1. UNCHANGED fwd
        BY <2>1, Zenon DEF Memory_Ack
      <3> QED
        BY <3>1, AcksKept, Zenon DEF OtherAcks
    <2>2. CASE dstate[x] # "ID_W"
      <3>1. PICK c \in memOp[x].for : Send(x, c, ForwardMsg("WB_ACK", x, c))
        BY <2>2, Zenon DEF Memory_Ack
      <3>2. MemInv(x) /\ FwdInv
        BY <1>0, Zenon DEF IInv, LineInv
      <3>3. c \in Caches /\ dstate[x] # "IM"
        BY <1>1, <2>2, <3>1, <3>2 DEF MemInv
      <3>4. ReturnInv(x, c) /\ TakenBack(c, x)
        BY <1>0, <3>1, <3>3, Zenon DEF IInv, LineInv, TakenBack
      <3>5. ~Pending(c, x, "WB_ACK")
        BY <3>4, Zenon DEF ReturnInv, Ack
      <3>6. \A a \in Addrs \ {x} : KeepsFwd(a)
        BY <3>1, <3>2, <3>3, <3>5, SendEffect, Zenon
      <3> QED
        BY <3>6, AcksKept, Zenon DEF OtherAcks
    <2> QED
      BY <2>1, <2>2, Zenon
  <1>4. OtherResp(x) /\ ~GivenOut(x)
    <2>1. ~GivenOut(x)
      BY <1>1 DEF GivenOut
    <2> QED
      BY <1>1, <2>1, Zenon DEF OtherResp
  <1>5. OtherMemory(x) /\ OtherBlocks(x) /\ UNCHANGED table
    BY <1>2, <1>3, <1>4, MemoryDoneS, Zenon
  <1>6. LineValue(x)' = LineValue(x)
    BY <1>2, <1>3, <1>4, MemoryDoneS, Zenon
  <1>7. dmaFor'[x] = {} /\ \A a \in Addrs \ {x} : dmaFor'[a] = dmaFor[a]
    BY <1>0, <1>2, MemoryDone, Zenon
  <1>8. UNCHANGED <<table, dma, dmaReqs>>
    BY <1>1, Zenon DEF memoryDone
  <1>9. CASE dstate[x] \in {"MI", "M_DRDI"}
    <2>1. UNCHANGED dmaResp
      BY <1>9, Zenon DEF Memory_Ack
    <2>2. OtherDma(x)
      BY <1>7, <1>8, <2>1, Zenon DEF OtherDma
    <2>3. \A d : ~StoreDone(d, x) /\ ~StoreDone(d, x)'
      BY <1>7, <1>9 DEF StoreDone
    <2>4. PICK c : c = "I"
      OBVIOUS
    <2>5. OtherDmas(c, x) /\ StillDma(c, x)
      BY <2>1, <2>3, Zenon DEF OtherDmas, StillDma
    <2> QED
      BY <1>5, <1>6, <2>2, <2>5, DirQuietS, Zenon
  <1>10. CASE dstate[x] \in {"M_DWRI", "ID_W"}
    <2>1. dmaResp' = dmaResp \cup {ResponseMsg(x, d, NoData) : d \in dmaFor[x]}
      BY <1>10, Zenon DEF Memory_Ack
    <2>2. DmaLine(x)
      BY <1>0, Zenon DEF CInv, DmaInv
    <2>3. PICK d0 \in DMAs : dmaFor[x] = {d0}
      BY <1>10, <2>2 DEF DmaLine, ForInv
    <2>4. PICK q, b : q = ResponseMsg(x, d0, b) /\ b = NoData
      OBVIOUS
    <2>5. q.addr = x /\ q.to = d0 /\ q.data = NoData
      BY <2>4 DEF ResponseMsg
    <2>6. dmaResp' = dmaResp \cup {q} /\ dmaResp' = dmaResp \cup {ResponseMsg(x, d0, b)}
      BY <2>1, <2>3, <2>4, Zenon
    <2>7. OtherDma(x)
      BY <1>7, <1>8, <2>6, OtherAnswered, Zenon
    <2>8. InDir(d0, x) /\ StoreDone(d0, x)
      BY <1>10, <2>3, Zenon DEF InDir, StoreDone
    <2>9. ~InResp(d0, x)
      BY <2>2, <2>8, Zenon DEF DmaLine, PlaceInv
    <2>10. PerformedFor(d0, x) = Stored
      BY <1>0, <2>8, <2>9, Zenon DEF Laws, EntryLaw
    <2>11. PerformedFor(d0, x)' = Stored
      <3>1. \A m \in dmaResp' : m.addr = x =>
               PerformedFor(m.to, x)' = IF m.data = NoData THEN Stored ELSE Got(table'[m.to][x], m.data)
        BY <1>0, Zenon DEF Laws, EntryLaw
      <3>2. PerformedFor(q.to, x)' = IF q.data = NoData THEN Stored ELSE Got(table'[q.to][x], q.data)
        BY <2>5, <2>6, <3>1, Zenon
      <3> QED
        BY <2>5, <3>2, Zenon
    <2>12. ASSUME NEW d \in DMAs \ {d0} PROVE StillDma(d, x)
      BY <1>7, <2>3, <2>5, <2>6, <2>12, Zenon DEF StillDma, StoreDone
    <2>13. OtherDmas(d0, x)
      BY <2>12, Zenon DEF OtherDmas
    <2>14. StillDma(d0, x) \/ PerformedFor(d0, x)' = PerformedFor(d0, x)
      BY <2>10, <2>11, Zenon
    <2> QED
      BY <1>5, <1>6, <2>7, <2>13, <2>14, DirQuietS, Zenon
  <1> QED
    BY <1>1, <1>9, <1>10, Zenon

(* A DMA controller takes a request, ... *)
LEMMA DmaRequestS ==
    ASSUME AtBoth, NEW d \in DMAs, NEW x \in Addrs, DmaRequest(d, x)
    PROVE  SeenStep
  <1>0. CInv /\ Laws /\ Laws' /\ d \in Caches \cup DMAs
    BY Zenon DEF AtBoth
  <1>1. PICK op \in OpsOf[d] : table' = [table EXCEPT ![d][x] = op]
    BY Zenon DEF DmaRequest
  <1>2. UNCHANGED <<cstate, data, fwd, resp, dstate, dmaFor, memOp, mem, dmaResp>>
    BY Zenon DEF DmaRequest, cacheVars, dirVars
  <1>3. \A a \in Addrs : KeepsAcks(a)
    BY <1>2, AcksKept, Zenon
  <1>4. SameValues
    BY <1>2, <1>3, KeptValues, Zenon
  <1>5. OtherEntries(d, x) /\ table'[d][x] = op
    BY <1>0, <1>1, <1>2, OneEntry, Zenon
  <1>6. dma[d][x] = "READY" /\ AnswerInv(x) /\ PlaceInv(d, x)
    BY <1>0, Zenon DEF DmaRequest, CInv, DmaInv, DmaLine
  <1>7. ~InResp(d, x)
    BY <1>6 DEF InResp, AnswerInv
  <1>8. ~StoreDone(d, x)
    BY <1>6 DEF StoreDone, InDir, PlaceInv
  <1>9. ~InResp(d, x)' /\ ~StoreDone(d, x)'
    BY <1>2, <1>7, <1>8, Zenon DEF InResp, StoreDone
  <1>10. PerformedFor(d, x) = table[d][x]
    BY <1>0, <1>7, <1>8, Zenon DEF Laws, EntryLaw
  <1>11. PerformedFor(d, x)' = table'[d][x]
    BY <1>0, <1>9, Zenon DEF Laws, EntryLaw
  <1>12. ~Unanswered(PerformedFor(d, x)) /\ PerformedFor(d, x)' \in OpsOf[d]
    BY <1>5, <1>6, <1>10, <1>11, Zenon DEF PlaceInv, Waiting
  <1>13. OtherEntries(d, x) /\ d \in Caches \cup DMAs
    BY <1>0, <1>5, Zenon
  <1> QED
    BY <1>4, <1>12, <1>13, SeesAsk, Zenon DEF SeenStep

(* ... and gets the answer to one. *)
LEMMA DmaAnswerS ==
    ASSUME AtBoth, NEW d \in DMAs, DmaAnswer(d)
    PROVE  SeenStep
  <1>0. CInv /\ Laws /\ Laws'
    BY Zenon DEF AtBoth
  <1>1. PICK m \in dmaResp :
            /\ m.to = d
            /\ table' = [table EXCEPT ![d][m.addr] =
                            IF m.data = NoData THEN Stored ELSE Got(table[d][m.addr], m.data)]
            /\ dmaResp' = dmaResp \ {m}
            /\ UNCHANGED <<cacheVars, fwd, resp, dirVars>>
    BY Zenon DEF DmaAnswer
  <1>2. PICK x \in Addrs : x = m.addr
    BY <1>0 DEF CInv, DmaInv, DmaTypes
  <1>3. PICK e : e = IF m.data = NoData THEN Stored ELSE Got(table[d][x], m.data)
    OBVIOUS
  <1>4. table' = [table EXCEPT ![d][x] = e]
    BY <1>1, <1>2, <1>3, Zenon
  <1>5. UNCHANGED <<cstate, data, fwd, resp, dstate, dmaFor, memOp, mem>>
    BY <1>1, Zenon DEF cacheVars, dirVars
  <1>6. \A a \in Addrs : KeepsAcks(a)
    BY <1>5, AcksKept, Zenon
  <1>7. SameValues
    BY <1>5, <1>6, KeptValues, Zenon
  <1>8. table = [p \in Caches \cup DMAs |-> [a \in Addrs |-> table[p][a]]]
    BY <1>0, Zenon DEF CInv, TableInv, TableDom
  <1>9. table'[d][x] = e
    BY <1>4, <1>8
  <1>10. ASSUME NEW p \in Caches \cup DMAs, NEW a \in Addrs, p # d \/ a # x
         PROVE  PerformedFor(p, a)' = PerformedFor(p, a)
    <2>1. table'[p][a] = table[p][a]
      BY <1>4, <1>8, <1>10
    <2>2. p \in DMAs => (StoreDone(p, a)' <=> StoreDone(p, a))
      BY <1>5, Zenon DEF StoreDone
    <2>3. \A q : q.addr = a /\ q.to = p => (q \in dmaResp' <=> q \in dmaResp)
      BY <1>1, <1>2, <1>10, Zenon
    <2> QED
      BY <1>0, <2>1, <2>2, <2>3, SameEntry, Zenon
  <1>11. AnswerInv(x) /\ PlaceInv(d, x) /\ InResp(d, x)
    BY <1>0, <1>1, <1>2, Zenon DEF CInv, DmaInv, DmaLine, InResp
  <1>12. PerformedFor(d, x) = e
    <2>1. PerformedFor(m.to, x) = IF m.data = NoData THEN Stored ELSE Got(table[m.to][x], m.data)
      BY <1>0, <1>2, Zenon DEF Laws, EntryLaw
    <2> QED
      BY <1>1, <1>3, <2>1, Zenon
  <1>13. PerformedFor(d, x)' = e
    <2>1. ~InResp(d, x)'
      BY <1>1, <1>2, <1>11, Zenon DEF InResp, AnswerInv
    <2>2. ~StoreDone(d, x)'
      BY <1>5, <1>11 DEF StoreDone, InDir, PlaceInv
    <2>3. PerformedFor(d, x)' = table'[d][x]
      BY <1>0, <2>1, <2>2, Zenon DEF Laws, EntryLaw
    <2> QED
      BY <1>9, <2>3, Zenon
  <1>14. SameEntries
    BY <1>10, <1>12, <1>13, Zenon DEF SameEntries
  <1> QED
    BY <1>7, <1>14, SeesNothing, Zenon DEF SeenStep

(* All memory is zero at first, and nothing has been asked for. *)
LEMMA InitS ==
    ASSUME Init
    PROVE  Memory!Init
  <1>1. IInv /\ CInv
    BY InitIInv, InitCInv, Zenon
  <1>2. Laws
    BY <1>1, LawsHold, Zenon
  <1>3. ASSUME NEW a \in Addrs PROVE LineValue(a) = [w \in Words |-> 0]
    <2>1. dstate[a] = "I" /\ memOp[a] = NoOp /\ mem[a] = [w \in Words |-> 0]
      BY Zenon DEF Init
    <2>2. ~GivenOut(a)
      BY <2>1 DEF GivenOut
    <2>3. memOp[a].len = 0 /\ ValueLaw(a)
      BY <1>2, <2>1, NoOpLen, Zenon DEF Laws
    <2> QED
      BY <1>1, <2>1, <2>2, <2>3, InMemory, Zenon
  <1>4. ASSUME NEW p \in Caches \cup DMAs, NEW a \in Addrs PROVE PerformedFor(p, a) = Stored
    <2>1. table[p][a] = Stored
      BY Zenon DEF Init
    <2>2. CASE p \in Caches
      BY <1>2, <2>1, <2>2, Zenon DEF Laws, EntryLaw
    <2>3. CASE p \in DMAs
      <3>1. ~InResp(p, a)
        BY Zenon DEF Init, InResp
      <3> QED
        BY <1>2, <2>1, <2>3, <3>1, Zenon DEF Laws, EntryLaw
    <2> QED
      BY <2>2, <2>3, Zenon
  <1>5. Lines = [a \in Addrs |-> [w \in Words |-> 0]]
    BY <1>3, Zenon DEF Lines
  <1>6. Entries = [p \in Caches \cup DMAs |-> [a \in Addrs |-> Stored]]
    BY <1>4, Zenon DEF Entries
  <1> QED
    BY <1>5, <1>6, Zenon DEF Memory!Init, Lines, Entries, Memory!Words, Words, Memory!Stored, Stored

(* Every step of the controllers is a step of one memory, or none. *)
LEMMA NextS ==
    ASSUME AtBoth, WholeLineDma, [Next]_vars
    PROVE  SeenStep
  <1>0. IInv
    BY Zenon DEF AtBoth
  <1>1. ASSUME UNCHANGED <<table, cstate, data, fwd, resp, dirVars, dmaVars>> PROVE SeenStep
    <2>1. \A a \in Addrs : KeepsAcks(a)
      BY <1>1, AcksKept, Zenon
    <2> QED
      BY <1>1, <2>1, QuietS, Zenon
  <1>2. ASSUME NEW c \in Caches, Replacement(c) PROVE SeenStep
    <2>1. PICK a \in Addrs : writeBack(c, a) \/ dropEntry(c, a)
      BY <1>0, <1>2, Zenon DEF Replacement, IInv, CacheTypes
    <2>2. CASE dropEntry(c, a)
      BY <1>1, <2>2, Zenon DEF dropEntry
    <2> QED
      BY <2>1, <2>2, WriteBackS, Zenon
  <1>3. ASSUME NEW c \in Caches, NEW d \in Dirs, StallForward(c, d) PROVE SeenStep
    BY <1>1, <1>3, Zenon DEF StallForward
  <1>4. ASSUME NEW c \in Caches, NEW d \in Dirs, IgnoreInv(c, d) PROVE SeenStep
    <2>1. PICK m \in ForwardMsgs :
             /\ m.type = "INV" /\ FwdTaken(c, m.addr, m.type)
             /\ \A a \in Addrs \ {m.addr} : KeepsFwd(a)
      BY <1>0, <1>4, Popped, Zenon DEF IgnoreInv
    <2>2. ASSUME NEW a \in Addrs PROVE KeepsAcks(a)
      <3>1. CASE a = m.addr
        BY <2>1, <3>1, Zenon DEF FwdTaken, KeepsAcks
      <3>2. CASE a # m.addr
        BY <2>1, <3>2, AcksKept, Zenon
      <3> QED
        BY <3>1, <3>2, Zenon
    <2>3. UNCHANGED <<table, cstate, data, resp, dirVars, dmaVars>>
      BY <1>4, Zenon DEF IgnoreInv
    <2> QED
      BY <2>2, <2>3, QuietS, Zenon
  <1>5. ASSUME NEW c \in Caches, NEW d \in Dirs, Inv(c, d) PROVE SeenStep
    <2>1. Head(fwd[c][d]).addr \in Addrs
      BY <1>0, <1>5, HeadOfQueue, Zenon DEF Inv
    <2>2. PICK a \in Addrs : writeBack(c, a)
      BY <1>5, <2>1, Zenon DEF Inv
    <2> QED
      BY <2>2, WriteBackS, Zenon
  <1>6. ASSUME InvalidTransition \/ UNCHANGED vars PROVE SeenStep
    BY <1>1, <1>6, Zenon DEF InvalidTransition, vars, cacheVars
  <1>7. ASSUME NEW c \in Caches, CacheStep(c) PROVE SeenStep
    BY <1>3, <1>4, <1>5, <1>7, HitS, MissS, DataS, Fwd_GETXS, Writeback_AckS, Writeback_NackS, Zenon
    DEF CacheStep
  <1>8. ASSUME DirStep PROVE SeenStep
    BY <1>8, GETXS, PUTXS, PUTX_NotOwnerS, DMA_RequestS, Memory_DataS, Memory_AckS, Zenon
    DEF DirStep
  <1>9. CASE Issue
    BY <1>2, <1>9, MakeRequestS, DmaRequestS, Zenon DEF Issue, CacheRequest
  <1>10. CASE Step
    BY <1>7, <1>8, <1>10, DmaAnswerS, Zenon DEF Step
  <1> QED
    BY <1>6, <1>9, <1>10, Zenon DEF Next

(* The caches, the directories and the DMA controllers behave as one       *)
(* memory, for any number of them and any requests, as long as a DMA       *)
(* controller that writes, writes whole lines.  A partial write is put at  *)
(* the start of the line (queueMemoryWritePartial), and what the owner of  *)
(* the line gives back for it is dropped: memory then does not hold what   *)
(* was written.                                                            *)
THEOREM ActsAsMemory ==
    ASSUME WholeLineDma
    PROVE  Spec => Coherent
  <1>1. Init => Memory!Init
    BY InitS, Zenon
  <1>2. IInv /\ CInv /\ IInv' /\ CInv' /\ [Next]_vars => [Memory!Next]_(Memory!vars)
    <2> SUFFICES ASSUME IInv, CInv, IInv', CInv', [Next]_vars PROVE [Memory!Next]_(Memory!vars)
      BY Zenon
    <2>1. Laws
      BY LawsHold, Zenon
    <2>2. Laws'
      BY LawsHold, PTL
    <2>3. SeenStep
      BY <2>1, <2>2, NextS, Zenon DEF AtBoth
    <2> QED
      BY <2>3, Zenon DEF SeenStep
  <1> QED
    BY <1>1, <1>2, ContentsHold, PTL DEF Spec, Coherent, Memory!Spec
-----------------------------------------------------------------------------
INSTANCE FiniteSetTheorems

-----------------------------------------------------------------------------
(* There is never a second copy of a line: one while the directory has     *)
(* given it out, none otherwise.                                           *)
THEOREM OneCopyHolds == Spec => []OneCopy
  <1>1. ASSUME IInv, NEW a \in Addrs
        PROVE  Cardinality(Copies(a)) = IF GivenOut(a) THEN 1 ELSE 0
    <2>0. TokenInv(a)
      BY <1>1, Zenon DEF IInv, LineInv
    <2>1. CASE ~GivenOut(a)
      <3>1. /\ {c \in Caches : Holds(c, a)} = {}
            /\ {m \in resp : m.addr = a} = {}
        BY <1>1, <2>0, <2>1, Zenon DEF TokenInv, Sent, IInv, RespInv
      <3>2. Copies(a) = {}
        BY <3>1, Zenon DEF Copies
      <3> QED
        BY <2>1, <3>2, FS_EmptySet, Zenon
    <2>2. CASE \E c \in Caches : Holds(c, a)
      <3>1. PICK c \in Caches : Holds(c, a)
        BY <2>2, Zenon
      <3>2. /\ {x \in Caches : Holds(x, a)} = {c}
            /\ {m \in resp : m.addr = a} = {}
        BY <1>1, <2>0, <3>1, Zenon DEF TokenInv, Sent, IInv, RespInv
      <3>3. Copies(a) = {[at |-> c, data |-> data[c][a]]}
        BY <3>2, Zenon DEF Copies
      <3>4. GivenOut(a)
        BY <2>0, <3>1, Zenon DEF TokenInv
      <3> QED
        BY <3>3, <3>4, FS_Singleton, Zenon
    <2>3. CASE \E c \in Caches : Sent(c, a)
      <3>1. PICK m \in resp : m.addr = a
        BY <2>3, Zenon DEF Sent
      <3>2. /\ {x \in Caches : Holds(x, a)} = {}
            /\ {x \in resp : x.addr = a} = {m}
        BY <1>1, <2>0, <2>3, <3>1, Zenon DEF TokenInv, IInv, RespInv
      <3>3. Copies(a) = {[at |-> "network", data |-> m.data]}
        BY <3>2, Zenon DEF Copies
      <3>4. GivenOut(a)
        BY <2>0, <2>3, Zenon DEF TokenInv
      <3> QED
        BY <3>3, <3>4, FS_Singleton, Zenon
    <2> QED
      BY <2>0, <2>1, <2>2, <2>3, Zenon DEF TokenInv
  <1>2. IInv => OneCopy
    BY <1>1, Zenon DEF OneCopy
  <1> QED
    BY <1>2, Inductive, PTL

(* The owner of a line in the directory holds the line or waits for it,    *)
(* and has not been told to give it away; a line has an owner exactly when *)
(* it is given out or being fetched.                                       *)
THEOREM OwnerIsLastHolds == Spec => []OwnerIsLast
  <1>1. ASSUME IInv, NEW a \in Addrs, GivenOut(a) \/ dstate[a] = "IM"
        PROVE  Cardinality(owner[a]) = 1
    <2>1. PICK c \in Caches : owner[a] = {c}
      BY <1>1, Zenon DEF IInv, LineInv, MemInv, OwnerInv
    <2> QED
      BY <2>1, FS_Singleton, Zenon
  <1>2. ASSUME IInv, NEW a \in Addrs, ~GivenOut(a), dstate[a] # "IM"
        PROVE  owner[a] = {}
    BY <1>2, Zenon DEF IInv, LineInv, OwnerInv
  <1>3. ASSUME IInv, NEW a \in Addrs, NEW c \in owner[a]
        PROVE  /\ Holds(c, a) \/ cstate[c][a] \in {"IS", "IM"}
               /\ ~Pending(c, a, "GETX")
    <2>1. c \in Caches
      BY <1>3, Zenon DEF IInv, DirTypes
    <2>2. ReturnInv(a, c) /\ AskInv(a, c)
      BY <1>3, <2>1, Zenon DEF IInv, LineInv
    <2> QED
      BY <1>3, <2>2, Zenon
      DEF ReturnInv, AskInv, Holds, WrittenBack, Fetching, TakenBack, Awaits, Ack, Told
  <1>4. IInv => OwnerIsLast
    BY <1>1, <1>2, <1>3, Zenon DEF OwnerIsLast
  <1> QED
    BY <1>4, Inductive, PTL
=============================================================================
