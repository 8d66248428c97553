------------------------------ MODULE MemoryOps -----------------------------
(***************************************************************************)
(* Lines of memory, and the requests that ports make of them.              *)
(***************************************************************************)
EXTENDS Integers

CONSTANTS LineSize,    \* the number of words of a line
          Val          \* what a word may hold

Words == 0 .. (LineSize - 1)
Block == [Words -> Val]

\* A request is for len words from word first on; a store gives them all one
\* value.
Load(first, len) == [op |-> "Load", first |-> first, len |-> len]
Store(first, len, v) == [op |-> "Store", first |-> first, len |-> len, val |-> v]
OpWords(op) == op.first .. (op.first + op.len - 1)

\* The requests that stay inside a line (RubyPort::MemSlavePort::recvTimingReq
\* asserts it, DMASequencer::makeRequest cuts the request off).
LineOps ==
    {op \in {Load(f, n) : f \in Words, n \in 1 .. LineSize}
            \cup {Store(f, n, v) : f \in Words, n \in 1 .. LineSize, v \in Val} :
        OpWords(op) \subseteq Words}

Got(op, block) == [op |-> "Done", got |-> [w \in OpWords(op) |-> block[w]]]
Stored == [op |-> "Done", got |-> << >>]

Unanswered(entry) == entry.op # "Done"

Overlay(block, op) ==
    [w \in Words |-> IF w \in OpWords(op) THEN op.val ELSE block[w]]
=============================================================================
