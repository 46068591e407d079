----------------------------- MODULE TaskQueue ------------------------------
(***************************************************************************)
(* The task queue of omni-server: the HTTP handlers of api/tasks.py, the   *)
(* TaskQueueManager they call, the task state machines each process caches *)
(* and the events they append to the event store.                          *)
(*                                                                         *)
(* A worker is one server process.  It runs its handlers on one event      *)
(* loop: from its first database access to its last a handler does not     *)
(* yield, so a worker has at most one handler under way, and the           *)
(* coroutines the handler hands to asyncio.create_task wait in `ready`     *)
(* until it is over.  Workers share nothing but the database, and          *)
(* interleave between any two database accesses.                           *)
(***************************************************************************)
EXTENDS TaskStates, Naturals, Sequences, FiniteSets

CONSTANTS
    Workers,     \* server processes (uvicorn --workers)
    Tasks,       \* task ids
    Devices,     \* device ids
    Payloads,    \* what two results of one status may still differ in
    Reports,     \* the statuses devices put in their results
    None,        \* SQL NULL, and "no such thing" in a worker's locals
    RcaEnabled,  \* rca_enabled and auto_rca_on_failure are both set
    Faults,      \* which database writes may fail: "commit", "save"
    MaxReady,    \* bound: handlers start while ready is shorter than this
    MaxCrashes   \* bound: process restarts

ASSUME ReportsAreStatuses == Reports \subseteq TaskStatuses
ASSUME NoneIsNothing ==
    None \notin Tasks \cup Devices \cup [status : Reports, payload : Payloads]
ASSUME BoundsAssumption ==
    /\ MaxReady \in Nat \ {0}
    /\ MaxCrashes \in Nat
    /\ RcaEnabled \in BOOLEAN
    /\ Faults \subseteq {"commit", "save"}

VARIABLES
    row,         \* table task_queue, by task id
    log,         \* table state_events of each task, in insertion order
    machine,     \* _state_machine_cache of each worker
    ready,       \* coroutines waiting for each worker's event loop
    pc, req, seen, draft,  \* the handler under way in each worker: its phase,
                           \* its request, the row it loaded, its new event
    channel,     \* the last message published on channel task:{id}
    rcaStarted,  \* tasks whose automatic analysis has been started
    crashes      \* restarts so far

vars == <<row, log, machine, ready, pc, req, seen, draft, channel,
          rcaStarted, crashes>>
local == <<pc, req, seen, draft>>
-----------------------------------------------------------------------------
Results == [status : Reports, payload : Payloads]

\* "absent": the table holds no such task_id.
Row == [status : RowStatuses \cup {"absent"},
        device : Devices \cup {None},
        result : Results \cup {None}]
NoRow == [status |-> "absent", device |-> None, result |-> None]

\* batch: the request is one item of a batch endpoint.
Request == [op : {"none", "create", "assign", "cancel", "record", "save"},
            task : Tasks \cup {None}, device : Devices \cup {None},
            result : Results \cup {None}, batch : BOOLEAN]
NoRequest == [op |-> "none", task |-> None, device |-> None,
              result |-> None, batch |-> FALSE]

\* The columns of a StateEventDB row that the properties read.
Event == [version : Nat, from : TaskStateNames \cup {None},
          to : Targets \cup {None}]
NoEvent == [version |-> 0, from |-> None, to |-> None]

\* sm.transition(to), or trigger_rca_analysis.
Coroutine == [kind : {"transition", "rca"}, task : Tasks,
              to : Targets \cup {None}]

Message == [type : {"none", "task.created", "task.assigned",
                    "task.completed", "task.failed"},
            status : RowStatuses \cup {"absent"},
            device : Devices \cup {None}, result : Results \cup {None}]
NoMessage == [type |-> "none", status |-> "absent", device |-> None,
              result |-> None]

Phases == {"idle", "loaded", "committed", "batch", "saving"}

TypeOK ==
    /\ row \in [Tasks -> Row]
    /\ log \in [Tasks -> Seq(Event)]
    /\ machine \in [Workers -> [Tasks -> TaskStateNames \cup {"none"}]]
    /\ ready \in [Workers -> Seq(Coroutine)]
    /\ pc \in [Workers -> Phases]
    /\ req \in [Workers -> Request]
    /\ seen \in [Workers -> Row]
    /\ draft \in [Workers -> Event]
    /\ channel \in [Tasks -> Message]
    /\ rcaStarted \subseteq Tasks
    /\ crashes \in 0..MaxCrashes

Init ==
    /\ row = [t \in Tasks |-> NoRow]
    /\ log = [t \in Tasks |-> <<>>]
    /\ machine = [w \in Workers |-> [t \in Tasks |-> "none"]]
    /\ ready = [w \in Workers |-> <<>>]
    /\ pc = [w \in Workers |-> "idle"]
    /\ req = [w \in Workers |-> NoRequest]
    /\ seen = [w \in Workers |-> NoRow]
    /\ draft = [w \in Workers |-> NoEvent]
    /\ channel = [t \in Tasks |-> NoMessage]
    /\ rcaStarted = {}
    /\ crashes = 0
-----------------------------------------------------------------------------
\* A worker begins op for a request of its own, or for the next item of the
\* batch it is in.  Nothing else runs in the worker until the batch is over.
Begins(w, op, batch) ==
    \/ pc[w] = "idle"
    \/ pc[w] = "batch" /\ batch /\ req[w].op = op

\* The handler's locals when it moves on to `phase` with nothing loaded.
Leave(w, phase, rq) ==
    /\ pc' = [pc EXCEPT ![w] = phase]
    /\ req' = [req EXCEPT ![w] = rq]
    /\ seen' = [seen EXCEPT ![w] = NoRow]
    /\ draft' = [draft EXCEPT ![w] = NoEvent]

EndRequest(w) == Leave(w, "idle", NoRequest)

NextItem(w, op) == Leave(w, "batch", [NoRequest EXCEPT !.op = op, !.batch = TRUE])

\* The last item of a batch endpoint has been answered.
EndBatch(w) ==
    /\ pc[w] = "batch"
    /\ EndRequest(w)
    /\ UNCHANGED <<row, log, machine, ready, channel, rcaStarted, crashes>>

\* enqueue_task: an INSERT under the unique index of task_id.  The single
\* endpoint then publishes what the request said, without reading the row.
CreateTask(w, t, batch) ==
    /\ Begins(w, "create", batch)
    /\ row[t].status = "absent"
    /\ row' = [row EXCEPT ![t].status = "pending"]
    /\ IF batch
       THEN NextItem(w, "create") /\ UNCHANGED channel
       ELSE /\ EndRequest(w)
            /\ channel' = [channel EXCEPT
                   ![t] = [NoMessage EXCEPT !.type = "task.created"]]
    /\ UNCHANGED <<log, machine, ready, rcaStarted, crashes>>

\* IntegrityError: a single request answers 500.  A batch has lost its
\* session: every later item of it fails without touching the database.
CreateDuplicate(w, t, batch) ==
    /\ Begins(w, "create", batch)
    /\ row[t].status # "absent"
    /\ EndRequest(w)
    /\ UNCHANGED <<row, log, machine, ready, channel, rcaStarted, crashes>>

\* Mutants of Defer: no cache of machines; a coroutine that is never scheduled.
DeferAfresh(w, t, to) ==
    /\ machine' = [machine EXCEPT ![w][t] = "pending"]
    /\ ready' = [ready EXCEPT ![w] =
                     Append(@, [kind |-> "transition", task |-> t, to |-> to])]
DeferUnscheduled(w, t, to) ==
    /\ machine' = [machine EXCEPT ![w][t] = IF @ = "none" THEN "pending" ELSE @]
    /\ ready' = ready

\* _get_task_state_machine, then asyncio.create_task(sm.transition(to)): the
\* cached machine, or a new one in PENDING whatever the row says; the
\* transition itself does not run yet.
Defer(w, t, to) ==
    /\ machine' = [machine EXCEPT ![w][t] =
                       IF @ = "none" THEN "pending" ELSE @]
    /\ ready' = [ready EXCEPT ![w] =
                     Append(@, [kind |-> "transition", task |-> t, to |-> to])]

\* The manager has loaded row t; `to` goes to the machine before the commit.
Load(w, rq, to) ==
    /\ Begins(w, rq.op, rq.batch)
    /\ Len(ready[w]) < MaxReady
    /\ row[rq.task].status # "absent"
    /\ pc' = [pc EXCEPT ![w] = "loaded"]
    /\ req' = [req EXCEPT ![w] = rq]
    /\ seen' = [seen EXCEPT ![w] = row[rq.task]]
    /\ Defer(w, rq.task, to)
    /\ UNCHANGED <<row, log, draft, channel, rcaStarted, crashes>>

\* Mutant: the WHERE clause has lost its condition on status.
LoadForAssignAny(w, t, d, batch) ==
    Load(w, [NoRequest EXCEPT !.op = "assign", !.task = t, !.device = d,
                              !.batch = batch], "assigned")

\* SELECT ... WHERE status = 'pending'; without a match the answer is 404 (or
\* a failed item) and nothing changes.
LoadForAssign(w, t, d, batch) ==
    /\ row[t].status = "pending"
    /\ Load(w, [NoRequest EXCEPT !.op = "assign", !.task = t, !.device = d,
                                 !.batch = batch], "assigned")

\* Mutant: only a task that is already cancelled is refused.
LoadForCancelAny(w, t) ==
    /\ row[t].status # "cancelled"
    /\ Load(w, [NoRequest EXCEPT !.op = "cancel", !.task = t, !.batch = TRUE],
            "cancelled")

\* cancel_tasks_batch looks at the status it has just loaded.
LoadForCancel(w, t) ==
    /\ row[t].status \in {"pending", "assigned"}
    /\ Load(w, [NoRequest EXCEPT !.op = "cancel", !.task = t, !.batch = TRUE],
            "cancelled")

\* record_result: no condition on the status of the row.
LoadForResult(w, t, r) ==
    Load(w, [NoRequest EXCEPT !.op = "record", !.task = t, !.result = r],
         StateOfEnum(r.status))
-----------------------------------------------------------------------------
\* Mutant: the session writes all columns.
FlushWhole(current, loaded, new) == new

\* The session writes the columns whose value differs from the one loaded,
\* WHERE id = ..., and no others.
Flush(current, loaded, new) ==
    [status |-> IF new.status = loaded.status THEN current.status ELSE new.status,
     device |-> IF new.device = loaded.device THEN current.device ELSE new.device,
     result |-> IF new.result = loaded.result THEN current.result ELSE new.result]

\* Mutants: a cancel that also gives the device back, one that writes SKIPPED;
\* a result that leaves a final status alone, one stored under its str(); an
\* assignment that keeps the device.
CancelledUnassigned(loaded, rq) == [loaded EXCEPT !.status = "cancelled",
                                                  !.device = None]
CancelledSkips(loaded, rq) == [loaded EXCEPT !.status = "skipped"]
RecordedOnce(loaded, rq) ==
    [loaded EXCEPT !.status = IF @ \in {"success", "failed"} THEN @
                                                             ELSE rq.result.status,
                   !.result = rq.result]
RecordedAsText(loaded, rq) == [loaded EXCEPT !.status = StateOfEnum(rq.result.status),
                                             !.result = rq.result]
AssignedStatusOnly(loaded, rq) == [loaded EXCEPT !.status = "assigned"]

\* The manager's assignments to the loaded task.
Assigned(loaded, rq) == [loaded EXCEPT !.status = "assigned", !.device = rq.device]
Cancelled(loaded, rq) == [loaded EXCEPT !.status = "cancelled"]
Recorded(loaded, rq) == [loaded EXCEPT !.status = rq.result.status,
                                       !.result = rq.result]

Commit(w, new) ==
    LET t == req[w].task
    IN  row' = [row EXCEPT ![t] = Flush(row[t], seen[w], new)]

\* After its commit the single assign endpoint goes on to publish.
CommitAssign(w) ==
    /\ pc[w] = "loaded" /\ req[w].op = "assign"
    /\ Commit(w, Assigned(seen[w], req[w]))
    /\ IF req[w].batch
       THEN NextItem(w, "assign")
       ELSE Leave(w, "committed", req[w])
    /\ UNCHANGED <<log, machine, ready, channel, rcaStarted, crashes>>

CommitCancel(w) ==
    /\ pc[w] = "loaded" /\ req[w].op = "cancel"
    /\ Commit(w, Cancelled(seen[w], req[w]))
    /\ NextItem(w, "cancel")
    /\ UNCHANGED <<log, machine, ready, channel, rcaStarted, crashes>>

CommitResult(w) ==
    /\ pc[w] = "loaded" /\ req[w].op = "record"
    /\ Commit(w, Recorded(seen[w], req[w]))
    /\ Leave(w, "committed", req[w])
    /\ UNCHANGED <<log, machine, ready, channel, rcaStarted, crashes>>

\* The commit raises: 500, or a batch whose session is lost.  The deferred
\* transition stays in the event loop.
CommitFails(w) ==
    /\ "commit" \in Faults
    /\ pc[w] = "loaded"
    /\ EndRequest(w)
    /\ UNCHANGED <<row, log, machine, ready, channel, rcaStarted, crashes>>

\* The commit expired the object: task.status is read again.
PublishAssigned(w) ==
    LET t == req[w].task
    IN  /\ pc[w] = "committed" /\ req[w].op = "assign"
        /\ channel' = [channel EXCEPT ![t] =
               [type |-> "task.assigned", status |-> row[t].status,
                device |-> req[w].device, result |-> None]]
        /\ EndRequest(w)
        /\ UNCHANGED <<row, log, machine, ready, rcaStarted, crashes>>

\* Mutants: everything but a failure counts as completed; crashes are analysed.
ResultEventUnlessFailed(status) ==
    IF status = "failed" THEN "task.failed" ELSE "task.completed"
AnalysisDueOnCrash(status) == status = "crashed" /\ RcaEnabled

ResultEvent(status) == IF status = "success" THEN "task.completed" ELSE "task.failed"

AnalysisDue(status) == status = "failed" /\ RcaEnabled

\* The row read again decides whether an analysis starts and which event is
\* published, with the result of this request.
PublishResult(w) ==
    LET t == req[w].task
    IN  /\ pc[w] = "committed" /\ req[w].op = "record"
        /\ channel' = [channel EXCEPT ![t] =
               [type |-> ResultEvent(row[t].status),
                status |-> row[t].status, device |-> row[t].device,
                result |-> req[w].result]]
        /\ ready' = IF AnalysisDue(row[t].status)
                    THEN [ready EXCEPT ![w] = Append(@,
                             [kind |-> "rca", task |-> t, to |-> None])]
                    ELSE ready
        /\ EndRequest(w)
        /\ UNCHANGED <<row, log, machine, rcaStarted, crashes>>
-----------------------------------------------------------------------------
\* Mutants: the event inserted last, whatever its version; the next version, to
\* which the caller adds one again.
EntityVersionUnordered(t) ==
    IF log[t] = <<>> THEN 0 ELSE log[t][Len(log[t])].version
EntityVersionNext(t) ==
    1 + Cardinality({log[t][i].version : i \in DOMAIN log[t]})

\* EventStore.get_entity_version: the greatest version of the entity, or 0.
EntityVersion(t) ==
    LET versions == {log[t][i].version : i \in DOMAIN log[t]}
    IN  IF versions = {} THEN 0
        ELSE CHOOSE v \in versions : \A u \in versions : u <= v

\* The event loop runs the coroutine that has waited longest.
Runs(w, kind) ==
    /\ pc[w] = "idle"
    /\ ready[w] # <<>>
    /\ Head(ready[w]).kind = kind
    /\ ready' = [ready EXCEPT ![w] = Tail(@)]

\* StateMachine.transition, valid: the machine moves, then save_event asks
\* for the next version.  Its INSERT is a second access.
RunTransition(w) ==
    LET c == Head(ready[w])
    IN  /\ Runs(w, "transition")
        /\ CanTransition(machine[w][c.task], c.to)
        /\ machine' = [machine EXCEPT ![w][c.task] = c.to]
        /\ pc' = [pc EXCEPT ![w] = "saving"]
        /\ req' = [req EXCEPT ![w] = [NoRequest EXCEPT !.op = "save",
                                                       !.task = c.task]]
        /\ draft' = [draft EXCEPT ![w] =
               [version |-> EntityVersion(c.task) + 1,
                from |-> machine[w][c.task], to |-> c.to]]
        /\ UNCHANGED <<row, log, seen, channel, rcaStarted, crashes>>

\* Not in the table: InvalidStateTransitionError in a task nobody awaits.
RejectTransition(w) ==
    LET c == Head(ready[w])
    IN  /\ Runs(w, "transition")
        /\ ~CanTransition(machine[w][c.task], c.to)
        /\ UNCHANGED <<row, log, machine, local, channel, rcaStarted, crashes>>

SaveEvent(w) ==
    /\ pc[w] = "saving"
    /\ log' = [log EXCEPT ![req[w].task] = Append(@, draft[w])]
    /\ EndRequest(w)
    /\ UNCHANGED <<row, machine, ready, channel, rcaStarted, crashes>>

\* transition() swallows the exception; the machine has already moved.
SaveFails(w) ==
    /\ "save" \in Faults
    /\ pc[w] = "saving"
    /\ EndRequest(w)
    /\ UNCHANGED <<row, log, machine, ready, channel, rcaStarted, crashes>>

\* trigger_rca_analysis: analyze_task with force_refresh, its errors swallowed.
RunRca(w) ==
    /\ Runs(w, "rca")
    /\ rcaStarted' = rcaStarted \cup {Head(ready[w]).task}
    /\ UNCHANGED <<row, log, machine, local, channel, crashes>>

\* The process dies and is started again: its handler, its waiting
\* coroutines and its machines are gone, the database stays.
Crash(w) ==
    /\ crashes < MaxCrashes
    /\ crashes' = crashes + 1
    /\ EndRequest(w)
    /\ machine' = [machine EXCEPT ![w] = [t \in Tasks |-> "none"]]
    /\ ready' = [ready EXCEPT ![w] = <<>>]
    /\ UNCHANGED <<row, log, channel, rcaStarted>>
-----------------------------------------------------------------------------
\* Requests arrive as clients please.
Receive(w) ==
    \E t \in Tasks :
        \/ \E batch \in BOOLEAN : CreateTask(w, t, batch)
        \/ \E batch \in BOOLEAN : CreateDuplicate(w, t, batch)
        \/ \E batch \in BOOLEAN, d \in Devices : LoadForAssign(w, t, d, batch)
        \/ LoadForCancel(w, t)
        \/ \E r \in Results : LoadForResult(w, t, r)

\* The handler that has begun goes on to its end.
Handle(w) ==
    \/ CommitAssign(w) \/ CommitCancel(w) \/ CommitResult(w) \/ CommitFails(w)
    \/ PublishAssigned(w) \/ PublishResult(w) \/ EndBatch(w)
    \/ SaveEvent(w) \/ SaveFails(w)

\* The event loop starts a waiting coroutine.
EventLoop(w) == RunTransition(w) \/ RejectTransition(w) \/ RunRca(w)

Next == \E w \in Workers : Receive(w) \/ Handle(w) \/ EventLoop(w) \/ Crash(w)

Spec == Init /\ [][Next]_vars

\* A handler never waits for anything but the database: weak fairness.  The
\* ready queue of asyncio is first come first served, and a new request is one
\* more entry behind those that wait: a coroutine that is ready again and again
\* whenever a handler ends does run, which is strong fairness.
FairSpec == Spec /\ \A w \in Workers : WF_vars(Handle(w)) /\ SF_vars(EventLoop(w))
-----------------------------------------------------------------------------
\* A task that is assigned is assigned to some device: poll_for_tasks selects
\* on both columns, and a task without a device would never be polled.  The
\* status and the device of a row are written by one UPDATE, but only where
\* they differ from what was loaded.  (A result whose status is "assigned"
\* is the exception: record_result stores it without a device.)
AssignedHasDevice ==
    \A t \in Tasks : row[t].status = "assigned" => row[t].device # None

\* A task that shows a final status carries a result, whatever the workers
\* did in between: record_result writes the two columns in one UPDATE.
FinishedHasResult ==
    \A t \in Tasks :
        row[t].status \in TaskStatuses \ {"pending", "assigned"}
            => row[t].result # None

\* The event store of a task holds its first assignment and nothing else:
\* the targets of results and of cancels are in no machine's table.
OnlyAssignmentsLogged ==
    \A t \in Tasks : \A i \in DOMAIN log[t] :
        log[t][i].from = "pending" /\ log[t][i].to = "assigned"

\* One process logs at most one transition of a task between its start and
\* its end, however often the task goes through the queue.
OneEntryPerLife ==
    \A t \in Tasks : Len(log[t]) <= Cardinality(Workers) + crashes

\* The status of a row that carries a result is that of the result, or one
\* that a later assign or cancel may legally put in its place.
ResultMatchesStatus ==
    \A t \in Tasks : row[t].result # None =>
        LET reported == row[t].result.status
        IN  \/ row[t].status = reported
            \/ row[t].status = "assigned" /\ reported = "pending"
            \/ row[t].status = "cancelled" /\ reported \in {"pending", "assigned"}

\* An assign only takes a pending task: assign_task's WHERE clause and the
\* comment "Second assignment should fail" of tests/test_queue.py.
AssignsOnlyPending ==
    [][\A t \in Tasks : row'[t].device # row[t].device
                            => row[t].status = "pending"]_vars

\* A task leaves the queue by cancellation only before it has a final status:
\* cancel_tasks_batch answers "Task in ... state cannot be cancelled".
CancelSparesFinished ==
    [][\A t \in Tasks : row'[t].status = "cancelled" /\ row[t].status # "cancelled"
                            => row[t].status \in {"pending", "assigned"}]_vars

\* The event published for a result tells one story: its type and its status
\* are those of the result it carries.
PublishedAsReported ==
    \A t \in Tasks : channel[t].result # None =>
        /\ channel[t].status = channel[t].result.status
        /\ channel[t].type = "task.completed" <=> channel[t].result.status = "success"

\* The events of a task are numbered 1, 2, 3, ... in the order of insertion:
\* "Sequential version number for optimistic locking".
VersionsSequential ==
    \A t \in Tasks : \A i \in DOMAIN log[t] : log[t][i].version = i

\* The documented rule SUCCESS/FAILED/CRASHED/TIMEOUT -> (any) is invalid.
TerminalIsFinal ==
    [][\A t \in Tasks : row[t].status \in {"success", "failed", "crashed", "timeout"}
                            => row'[t].status = row[t].status]_vars

\* An assignment reaches the event store, if the process lives and its write
\* succeeds: the deferred transition is not forgotten.
AssignmentReachesLog ==
    \A t \in Tasks : (row[t].status = "assigned") ~> (log[t] # <<>>)

\* A failed task gets its automatic analysis.
FailureIsAnalysed ==
    \A t \in Tasks : (row[t].status = "failed") ~> (t \in rcaStarted)

\* With one process the table behaves as if every request were one atomic step
\* of TaskLedger, taken when its UPDATE commits: no request loses what another
\* one wrote, and a request whose commit fails leaves no trace in the table.
Ledger == INSTANCE TaskLedger WITH row <- row
ImplementsLedger == Ledger!Spec

\* With any number of processes it behaves like SharedLedger, one step for each
\* commit: a request may act on a row that has changed since, so conditions are
\* lost; but every column holds what some request put there, a status that an
\* assignment or a result brings comes with its device or its result in the
\* same step, and neither of these is ever taken out of the row again.
Shared == INSTANCE SharedLedger WITH row <- row
ImplementsSharedLedger == Shared!Spec
=============================================================================
