---------------------------- MODULE EventRestore ----------------------------
(***************************************************************************)
(* Restoring the events of a checkpoint: what UNSERIALIZE_EVENT does to    *)
(* each of them (Event::unserialize, then checkpointReschedule on the      *)
(* queue), before the simulation starts.                                   *)
(***************************************************************************)
EXTENDS EventQueue

VARIABLES cp,         \* _when and _flags of each event in the checkpoint
          restored    \* the events restored so far

restoreVars == <<vars, cp, restored>>

(* Event::serialize: the checkpoint holds the state of a running queue.    *)
serialize ==
    {image \in [Events -> [when : Ticks, scheduled : BOOLEAN,
                           squashed : BOOLEAN]] :
        \A e \in Events : /\ image[e].scheduled => image[e].when >= curTick
                          /\ image[e].squashed => image[e].scheduled}

RestoreInit ==
    /\ Init
    /\ cp \in serialize
    /\ restored = {}

(* A scheduled event that is not squashed loses its Scheduled flag, every  *)
(* other one takes the flags it had.                                       *)
unserialize(e) ==
    LET running == cp[e].scheduled /\ ~cp[e].squashed
    IN  /\ e \notin scheduled
        /\ when' = [when EXCEPT ![e] = cp[e].when]
        /\ scheduled' = IF cp[e].scheduled /\ ~running
                        THEN scheduled \cup {e} ELSE scheduled
        /\ squashed' = IF cp[e].squashed THEN squashed \cup {e} ELSE squashed

checkpointReschedule(e) ==
    list' = IF e \in scheduled' THEN insert(list, when', e) ELSE list

Restore(e) ==
    /\ e \notin restored
    /\ restored' = restored \cup {e}
    /\ unserialize(e)
    /\ checkpointReschedule(e)
    /\ UNCHANGED <<live, curTick, current, cp>>

RestoreNext == \E e \in Events : Restore(e)

RestoreSpec == RestoreInit /\ [][RestoreNext]_restoreVars
-----------------------------------------------------------------------------
(* "This method conditionally schedules an event that has the Scheduled    *)
(* flag set" (eventq.hh): a restored event is in the queue exactly when it *)
(* was scheduled at the checkpoint.                                        *)
RescheduledAsSaved ==
    \A e \in restored :
        cp[e].scheduled <=> \E i \in DOMAIN Linked : Linked[i] = e
=============================================================================
