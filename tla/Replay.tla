------------------------------- MODULE Replay --------------------------------
(***************************************************************************)
(* What an aggregate rebuilds from the event store: load and the endpoint  *)
(* GET /{entity_type}/{entity_id}/replay of a task, over the events that   *)
(* TaskQueue writes.  Replaying reads only; it is a function of the log.   *)
(*                                                                         *)
(* All of those events have the type "task.state_changed", for which       *)
(* _apply_event takes the state the event names, whatever came before.  So *)
(* the last event decides, and events of one version come in any order.    *)
(***************************************************************************)
EXTENDS TaskQueue

ASSUME NoneIsNoState == None \notin TaskStateNames

\* EventStore.get_events, and of those get_events_for_version: the places in
\* the log of t with a version up to v.
EventsUpTo(t, v) == {i \in DOMAIN log[t] : log[t][i].version <= v}

\* Ordered by version: what may come last.
LastOf(t, places) ==
    {i \in places : \A j \in places : log[t][j].version <= log[t][i].version}

\* _apply_event: the state the event names.
Applied(event) == event.to

\* The states in which a replay up to version v may leave the aggregate; a new
\* aggregate has none.
ReplayedStates(t, v) ==
    IF EventsUpTo(t, v) = {} THEN {None}
    ELSE {Applied(log[t][i]) : i \in LastOf(t, EventsUpTo(t, v))}

\* load_from_history leaves the version of the event that came last.
LoadedVersion(t) == EntityVersion(t)

\* load: no aggregate without events.
Loads(t) == LoadedVersion(t) # 0

\* replay_entity answers for a version that is there: 404 and 400 otherwise.
Replayable(t, v) == Loads(t) /\ v \in 1..LoadedVersion(t)
-----------------------------------------------------------------------------
\* A version can be replayed to one state only, and to the same state ever
\* after, although two processes may have stored two events under it.
ReplayIsStable ==
    [][\A t \in Tasks : \A v \in 1..LoadedVersion(t) :
          /\ Replayable(t, v)'
          /\ \A s \in ReplayedStates(t, v) : ReplayedStates(t, v)' = {s}]_vars

\* A task that its history rebuilds as assigned has been given to a device in
\* the table: the event is written by a coroutine that was handed over before
\* the commit of the assignment, but runs after it.  (If the commit fails, the
\* coroutine runs all the same: this is about commits that succeed.)
ReplayedWasAssigned ==
    "commit" \notin Faults =>
        \A t \in Tasks :
            "assigned" \in ReplayedStates(t, LoadedVersion(t)) => row[t].device # None
=============================================================================
