----------------------------- MODULE AsyncEvent -----------------------------
(***************************************************************************)
(* Signals.  The handlers of sim/init_signals.cc set async_event and then  *)
(* the flag of the request; the simulation threads poll async_event at the *)
(* top of doSimLoop() (sim/simulate.cc) and one of them serves whatever is *)
(* flagged.  A handler interrupts a thread between any two of its accesses *)
(* to the flags, and that thread goes on when the handler is done; the     *)
(* other threads run meanwhile.                                            *)
(***************************************************************************)
EXTENDS PollQueue

VARIABLES async_event,
          flagged,   \* the async_* flags that are set
          owed,      \* an exit was flagged and exitSimLoop not called since
          sigio,     \* a SIGIO is pending
          pc,        \* where each thread is in doSimLoop()
          todo       \* the flags a handler running on the thread will set

vars == <<async_event, flagged, owed, sigio, pc, todo, pollVars>>

Requests == {"statdump", "statreset", "io", "exit"}

(* dumpStatsHandler, dumprstStatsHandler, ioHandler and exitNowHandler *)
Handlers == {<<"event", "statdump">>, <<"event", "statdump", "statreset">>,
             <<"event", "io">>, <<"event", "exit">>}

(* setupAsyncIO has asked for the events scheduled so far to be polled.    *)
Init ==
    /\ async_event = TRUE
    /\ flagged = {"io"}
    /\ owed = FALSE
    /\ sigio = FALSE
    /\ pc = [t \in Threads |-> "poll"]
    /\ todo = [t \in Threads |-> <<>>]
    /\ PollInit
-----------------------------------------------------------------------------
(* Input arrives; the kernel sends SIGIO if the descriptor has FASYNC set, *)
(* as it has from the time its event is scheduled.                         *)
Arrive(f) ==
    /\ f \notin input
    /\ input' = input \cup {f}
    /\ sigio' = (sigio \/ f \in Queued)
    /\ UNCHANGED <<async_event, flagged, owed, pc, todo, events, revents,
                   skipped, i, ret>>

(* The kernel runs a handler on t; one at a time on each thread.           *)
Signal(t) ==
    /\ todo[t] = <<>>
    /\ \E h \in Handlers :
        /\ h[2] # "io"
        /\ todo' = [todo EXCEPT ![t] = h]
    /\ UNCHANGED <<async_event, flagged, owed, sigio, pc, pollVars>>

SignalIo(t) ==
    /\ sigio
    /\ todo[t] = <<>>
    /\ todo' = [todo EXCEPT ![t] = <<"event", "io">>]
    /\ sigio' = FALSE
    /\ UNCHANGED <<async_event, flagged, owed, pc, pollVars>>

HandlerStepOneSet(t) ==
    /\ todo[t] # <<>>
    /\ todo' = [todo EXCEPT ![t] = Tail(@)]
    /\ async_event' = (async_event \/ Head(todo[t]) = "event")
    /\ flagged' = flagged \cup {Head(todo[t])}
    /\ owed' = (owed \/ Head(todo[t]) = "exit")
    /\ UNCHANGED <<sigio, pc, pollVars>>

HandlerStep(t) ==
    /\ todo[t] # <<>>
    /\ todo' = [todo EXCEPT ![t] = Tail(@)]
    /\ async_event' = (async_event \/ Head(todo[t]) = "event")
    /\ flagged' = flagged \cup ({Head(todo[t])} \cap Requests)
    /\ owed' = (owed \/ Head(todo[t]) = "exit")
    /\ UNCHANGED <<sigio, pc, pollVars>>

(* t itself runs on, from pc p to pc q. *)
Goes(t, p, q) ==
    /\ todo[t] = <<>>
    /\ pc[t] = p
    /\ pc' = [pc EXCEPT ![t] = q]
    /\ UNCHANGED <<todo, sigio>>

(* async_event is read without the mutex, then tested again and cleared    *)
(* under it.                                                               *)
Poll(t) ==
    /\ async_event
    /\ Goes(t, "poll", "test")
    /\ UNCHANGED <<async_event, flagged, owed, pollVars>>

testAndClearAsyncEvent(t) ==
    /\ Goes(t, "test", IF async_event THEN "stats" ELSE "poll")
    /\ async_event' = FALSE
    /\ UNCHANGED <<flagged, owed, pollVars>>

(* schedStatEvent(async_statdump, async_statreset), and only then the      *)
(* flags are cleared.                                                      *)
ServeStats(t) ==
    /\ Goes(t, "stats", IF flagged \cap {"statdump", "statreset"} = {}
                        THEN "io" ELSE "clear_dump")
    /\ UNCHANGED <<async_event, flagged, owed, pollVars>>

ClearDump(t) ==
    /\ Goes(t, "clear_dump", "clear_reset")
    /\ flagged' = flagged \ {"statdump"}
    /\ UNCHANGED <<async_event, owed, pollVars>>

ClearResetAndAll(t) ==
    /\ Goes(t, "clear_reset", "io")
    /\ flagged' = {}
    /\ UNCHANGED <<async_event, owed, pollVars>>

ClearReset(t) ==
    /\ Goes(t, "clear_reset", "io")
    /\ flagged' = flagged \ {"statreset"}
    /\ UNCHANGED <<async_event, owed, pollVars>>

(* async_io and async_exit are cleared first and acted upon after that.    *)
ClearIo(t) ==
    /\ Goes(t, "io", IF "io" \in flagged THEN "service" ELSE "exit")
    /\ flagged' = flagged \ {"io"}
    /\ UNCHANGED <<async_event, owed, pollVars>>
-----------------------------------------------------------------------------
(* pollQueue.service(): the call of poll() ... *)
service(t) ==
    /\ Goes(t, "service", IF input \cap Queued = {} THEN "exit" ELSE "loop")
    /\ poll(t)
    /\ UNCHANGED <<async_event, flagged, owed>>

(* ... and the loop over the results.  A handler reads the input of its    *)
(* descriptor; it may also schedule another event (accept() does), or      *)
(* remove its own (detach() does).                                         *)
processRead(t, j) == UNCHANGED <<events, revents, skipped, async_event, flagged>>

processAcceptQuiet(t, j) ==
    \E f \in Fds :
        /\ schedule(f)
        /\ UNCHANGED <<skipped, async_event, flagged>>

(* setupAsyncIO: the new descriptor may have input already.                *)
processAccept(t, j) ==
    \E f \in Fds :
        /\ schedule(f)
        /\ async_event' = TRUE
        /\ flagged' = flagged \cup {"io"}
        /\ UNCHANGED skipped

processDetach(t, j) ==
    /\ events[j] \notin ToSet(Listening)
    /\ remove(events[j])
    /\ skipped' = {events[k] : k \in Unseen(t) \ {j}}
    /\ UNCHANGED <<async_event, flagged>>

process(t) ==
    \E j \in Unseen(t) :
        /\ Goes(t, "loop", "loop")
        /\ processTaken(t, j)
        /\ processRead(t, j) \/ processAccept(t, j) \/ processDetach(t, j)
        /\ UNCHANGED owed

serviceReturn(t) ==
    /\ Goes(t, "loop", "exit")
    /\ loopEnd(t)
    /\ UNCHANGED <<async_event, flagged, owed>>
-----------------------------------------------------------------------------
ClearExit(t) ==
    /\ Goes(t, "exit", IF "exit" \in flagged THEN "exitSimLoop" ELSE "poll")
    /\ flagged' = flagged \ {"exit"}
    /\ UNCHANGED <<async_event, owed, pollVars>>

ServeExit(t) ==
    /\ Goes(t, "exitSimLoop", "poll")
    /\ owed' = FALSE
    /\ UNCHANGED <<async_event, flagged, pollVars>>

LoopStep(t) ==
    \/ Poll(t)
    \/ testAndClearAsyncEvent(t)
    \/ ServeStats(t)
    \/ ClearDump(t)
    \/ ClearReset(t)
    \/ ClearIo(t)
    \/ service(t)
    \/ process(t)
    \/ serviceReturn(t)
    \/ ClearExit(t)
    \/ ServeExit(t)

Next ==
    \/ \E f \in Fds : Arrive(f)
    \/ \E t \in Threads : Signal(t) \/ SignalIo(t) \/ HandlerStep(t) \/ LoopStep(t)

(* A pending SIGIO is delivered between other signals.  The threads run,   *)
(* interrupted now and then but not for ever.                              *)
Fairness ==
    /\ SF_vars(\E t \in Threads : SignalIo(t))
    /\ \A t \in Threads : WF_vars(HandlerStep(t)) /\ SF_vars(LoopStep(t))

FairSpec == Init /\ [][Next]_vars /\ Fairness
-----------------------------------------------------------------------------
(* The values of the flags, and only flags the handlers know about.        *)
TypeOK ==
    /\ async_event \in BOOLEAN /\ owed \in BOOLEAN /\ sigio \in BOOLEAN
    /\ flagged \subseteq Requests
    /\ pc \in [Threads -> {"poll", "test", "stats", "clear_dump",
                           "clear_reset", "io", "service", "loop", "exit",
                           "exitSimLoop"}]
    /\ todo \in [Threads -> {<<>>} \cup
                    {SubSeq(h, k, Len(h)) : h \in Handlers, k \in 1 .. 3}]
    /\ IsInjective(events) /\ Queued \subseteq Fds
    /\ DOMAIN revents \in {1 .. n : n \in 0 .. Cardinality(Fds)}
    /\ input \subseteq Fds /\ skipped \subseteq Fds

(* poll_fds and events stay in step: what service() has still to process   *)
(* is a PollEvent that is in the queue and has input, whatever the         *)
(* handlers before it scheduled or removed.                                *)
ProcessedIsReady ==
    \A t \in Threads : pc[t] = "loop" =>
        \A j \in Unseen(t) : j \in DOMAIN events /\ events[j] \in input

(* A request to exit is served: once flagged, exitSimLoop() is called for  *)
(* it without waiting for another signal.                                  *)
ExitServed == owed ~> ~owed

(* Input on a scheduled descriptor is processed without waiting for more   *)
(* input, except on a descriptor that was ready in a round of service() in *)
(* which the handler of another event removed that event.                  *)
InputServed ==
    \A f \in Fds : f \in input \cap Queued ~> f \notin input \cap Queued \/ f \in skipped
=============================================================================
