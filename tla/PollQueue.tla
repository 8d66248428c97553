------------------------------ MODULE PollQueue -----------------------------
(***************************************************************************)
(* The queue of polled descriptors (base/pollevent.cc).  events is the     *)
(* vector of PollEvents, named by their descriptors, and poll_fds the      *)
(* array handed to poll(), with an entry per event: every schedule() and   *)
(* remove() copies it anew, so that no entry shows an event any more, also *)
(* when a handler called by service() does it.  enable() and disable()     *)
(* have no callers.                                                        *)
(***************************************************************************)
EXTENDS Naturals, Sequences, SequencesExt, FiniteSets

CONSTANTS Threads,   \* the simulation threads
          Fds,       \* the descriptors
          Listening  \* the events scheduled when the simulation starts

VARIABLES events,    \* the PollEvents in the queue
          revents,   \* revents[i]: poll_fds[i].revents # 0
          input,     \* the descriptors with input no handler has seen
          skipped,   \* those whose entries a removal wiped since the last poll()
          i, ret     \* the local variables of service() on each thread

pollVars == <<events, revents, input, skipped, i, ret>>

PollInit ==
    /\ events = Listening
    /\ revents = [j \in DOMAIN Listening |-> FALSE]
    /\ input = {}
    /\ skipped = {}
    /\ i = [t \in Threads |-> 1]
    /\ ret = [t \in Threads |-> 0]

Queued == ToSet(events)

\* poll_fds takes the pfd of each event, whose revents is 0.
copy == revents' = [j \in DOMAIN events' |-> FALSE]

schedule(f) ==
    /\ f \notin Queued
    /\ events' = Append(events, f)
    /\ copy

removeNoCopy(f) == events' = Remove(events, f) /\ UNCHANGED revents

remove(f) == events' = Remove(events, f) /\ copy

\* poll() and the start of the loop over its results.
poll(t) ==
    /\ revents' = [j \in DOMAIN events |-> events[j] \in input]
    /\ ret' = [ret EXCEPT ![t] = Cardinality(input \cap Queued)]
    /\ i' = [i EXCEPT ![t] = 1]
    /\ skipped' = {}
    /\ UNCHANGED <<events, input>>

\* The entries the loop has still to look at.
Unseen(t) == {j \in DOMAIN revents : j >= i[t] /\ revents[j]}

\* The loop comes to entry j, the next one with an event, and calls process()
\* of the PollEvent in place j.  The handler reads the input there is.
processTaken(t, j) ==
    /\ ret[t] > 0
    /\ j \in Unseen(t)
    /\ \A k \in Unseen(t) : j <= k
    /\ i' = [i EXCEPT ![t] = j + 1]
    /\ ret' = [ret EXCEPT ![t] = @ - 1]
    /\ input' = input \ {events[j]}

\* The loop ends; nobody reads the entries of poll_fds any more.
loopEnd(t) ==
    /\ ret[t] = 0 \/ Unseen(t) = {}
    /\ revents' = [j \in DOMAIN events |-> FALSE]
    /\ i' = [i EXCEPT ![t] = 1]
    /\ ret' = [ret EXCEPT ![t] = 0]
    /\ UNCHANGED <<events, input, skipped>>
=============================================================================
