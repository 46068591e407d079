# A verification project for omni-server

omni-server is a FastAPI server that keeps a queue of test tasks, hands them to
devices, records their results, asks a language model why tasks failed, and
tells clients what happens. This directory holds TLA+ modules that model it,
TLC configurations that check the modules on small instances, and theorems that
TLAPS proves for every instance. All line numbers are of `src/`; `PROJECT.json`
names for each definition the lines it models.

## 1. The system

| Component | State it keeps | Operations | Hard because |
|---|---|---|---|
| task queue (`queue/`, `api/tasks.py`) | table `task_queue` | create, assign, result, cancel; create, assign and cancel in batches | read, then write by id, without a lock or a version check; the state machine runs after the commit |
| state machine (`statemachine/`) | `_state_machine_cache`: a machine per task and process | `transition` | lives in memory, starts in PENDING, moves before its event is stored |
| event store (`eventstore/`) | table `state_events` | `save_event`, `get_entity_version`, queries | version = greatest + 1, in two statements |
| aggregates and replay (`eventstore/aggregate.py`, `api/eventsourcing.py`) | none (folds events) | load, apply, save | depends on what the log lacks |
| dependencies and locks (`api/dependencies.py`) | `task_dependencies`, `device_locks` | create, resolve, delete; acquire, release | check, then insert; no unique constraint; ids that come back |
| root cause analyses (`ai/`) | `task_rca`, `_rate_limit_cache` per process | `analyze_task` | awaits a model for up to 30 s between reading and storing |
| devices and heartbeats (`api/devices.py`, `cleanup/`) | `devices`, `device_heartbeats`, `device_capabilities` | register, update, heartbeat, clean up | upsert around an await; delete races update |
| event bus (`events/`, `api/websocket.py`, `graphql/`) | connections and queues per process | publish, connect, subscribe | iterates a set across an await; unbounded queue |
| accounts and sessions (`auth/`) | `users`, `user_settings`; tokens are signed, not stored | register, GitHub and GitLab callbacks, own profile; log in, refresh | check, then insert; two commits per creation; runs in threads |
| user administration (`admin/users/`) | the same, `audit_logs` | create, update, delete, settings | up to three commits per request, each of its own |
| process (`main.py`, `config.py`, `middleware/`, `api/v*`) | settings | wiring | none after the start |
| observability (`tracing/`, `utils/`, `api/observability.py`) | none | spans, logs | none |

How they interact. The endpoints call `TaskQueueManager`; it changes the row,
hands `sm.transition` to the event loop with `asyncio.create_task`, and the
machine calls `save_event` when the loop gets to it. The endpoint then publishes
on the event bus. A failed result also defers `trigger_rca_analysis`. Locks,
dependencies and heartbeats are tables next to the queue that the queue never
reads.

What runs concurrently. `docs/rca-system/SETUP.md:76` starts several uvicorn
workers. They share the database and nothing else: machines, quota and
subscriptions are per process. Inside a process an async handler runs from one
await to the next undisturbed; `asyncio.Queue.put` on an unbounded queue does
not suspend, so the handlers of the queue run whole unless a WebSocket client is
being sent to, which is after their last database access. The endpoints of
accounts are plain functions and run in threads. Sessions have autoflush off and
write, on commit, `UPDATE ... WHERE id` with the columns that differ from what
was loaded. The models therefore take one step per database access, let other
processes in between, and let the database make each statement atomic. They
assume no isolation beyond READ COMMITTED; SQLite, the default of `config.py`,
allows fewer interleavings between writers.

What makes each component correct: the queue loses no write and hands a task to
one device; a row is never torn; the log agrees with the rows; what is published
agrees with what was reported; a task is rebuilt from its events in one way; a
lock is exclusive; the quota bounds what the model is asked, and what the cache
serves is one analysis; nothing deferred is forgotten; no two accounts share an identity; a deletion is audited; a device and
its heartbeat agree, and an operator's name for a device stays; a listener that
stays is sent every message, and no handler hangs.

## 2. What is modelled

**`TaskStates`** holds the statuses, the state names and the transition table.
One oddity is in `StateOfEnum`: `record_result` turns the `TaskStatus` member of
the result into a `TaskState`, a `str` subclass and no enum. The result is the
text `TaskStatus.success`, a key of no table.

**`TaskQueue`** is the queue with machines, event loop and event store.
`row`, `log` and `channel` are what all processes see; `machine`, `ready` (the
deferred coroutines), `pc`, `req`, `seen` (the row as loaded) and `draft` belong
to a worker. A request is a load (`LoadForAssign`, `LoadForCancel`,
`LoadForResult`, which also `Defer` the transition), a commit (`CommitAssign`,
`CommitCancel`, `CommitResult`, through `Flush`, which writes only changed
columns, or `CommitFails`) and, for the single endpoints, a publication that
reads the row again. `RunTransition`, `RejectTransition` and `RunRca` are the
event loop; `SaveEvent` and `SaveFails` the second half of `save_event`; `Crash`
a restart. A batch keeps the worker between its items.

**`TaskLedger`** is the abstract specification of the queue: each request is one
atomic step on the row. `TaskQueue` with one process implements it
(`ImplementsLedger`); the mapping is the identity on `row`, and each commit is
the step.

**`SharedLedger`** is the abstract specification for any number of processes
(`ImplementsSharedLedger`). A request is still one step, but it acts on the row as
its process loaded it: conditions on the status are lost, and a column ends up
with what the request says or with what is there; no column loses its value.

**`ResourceLocks`** is `api/dependencies.py`. Both tables have the shape check,
then insert; `CheckLock`/`InsertLock` and `CheckDependency`/`InsertDependency`
are separate steps, as are loading a row and updating it by id. With
`ReusesIds` the tables give the id of a deleted last row again, as SQLite does.
The endpoint's check that tasks exist is the choice of `Tasks`: rows of
`task_queue` are never deleted.

**`Permits`** is the abstract specification of both tables: a semaphore per key
(a device, or a dependency) with a permit for each process, taken and given back
one at a time. `ResourceLocks` implements it twice (`ImplementsPermits`); the
mapping counts the locked or active rows of a key.

**`Analyses`** is `ai/rca_service.py` with the OpenAI client. `Ask` is
everything before the await (cache, quota, context), `LlmAnswers` or `LlmFails`
what ends it, `SaveFirst`, `SaveAgain` and `SaveFails` the commit. A row has two
columns of text, `cause` and `advice`, each the number of the result it is about,
and `cache_hit`; `Updated` writes the columns that differ from the ones loaded, so
that two processes' answers over one row may be mixed. Several calls
of a process overlap at the await; `Free` says that the loop is not inside the
synchronous part of another one.

**`Replay`** extends `TaskQueue` with what an aggregate rebuilds from the log:
`get_events` in order of version, `_apply_event`, `load`, and the version check
of `GET /{entity_type}/{entity_id}/replay`. It has no variables: replaying reads.
All events that the server stores have the type `task.state_changed`, so the last
event decides; where versions repeat, events of one version come in any order,
and `ReplayedStates` is the set of the states that may result. (The endpoint
itself cannot answer 200 for a task with events, because `to_dict`,
`aggregate.py:182`, takes `.value` of a text. What is modelled is the aggregate
that stands before that line.)

**`Accounts`** is `auth/service.py` with `admin/users/service.py`. Most endpoints
are plain functions, which FastAPI runs in threads, so requests interleave
between any two database accesses. A request goes from `Begin` (the row behind
the token, still active) through its checks (`CheckRegister`, `Callback`,
`CheckCreate`, `Load`, `LoadForDelete`, `LoadSettings`) to its commits:
`InsertUser`, `AddSettings` and `AddAudit` for a creation, `CommitChange` and
`AddAudit` for an update, `AddAudit` and `DeleteUser` for a deletion. Any of them
may fail, and what was committed before stays (`Fails`). `Conflicts` is the three
unique indexes and NOT NULL of the e-mail address; `Flush` writes the columns
that differ from the ones loaded. `database` chooses at the start between SQLite,
which gives the id of a deleted last row again and, as configured, enforces no
foreign key, and PostgreSQL, where ids never come back and foreign keys hold. `settings[i]` counts the rows of settings.

**`AccountRegistry`** is the abstract specification of the users table: a set of
accounts of which no two share a name, an address or a provider's identity, and
which comes, changes and goes one at a time. `Accounts` implements it under the
mapping that forgets ids, activity, settings and requests.

**`EventBus`** is `events/__init__.py`: connections, the sets of clients, and a
publication as one step per send. It is a component without a `Next` of its own;
`Fleet` composes it with the handlers that publish. `turn` is the coroutine that
has the loop: a send suspends or does not, and only in between do others run.
`LoopBreaks` is Python's RuntimeError for a set whose size changed during the
iteration, `LoopEnds` the removal of those whose send failed, `KeepaliveFails`
the subscription that notices a dead peer. A set that lost one member and gained
another goes unnoticed by Python, and so it does here.

**`Fleet`** is `api/devices.py` and `cleanup/heartbeat.py` over that bus, in one
process. `ReceiveHeartbeat` is the handler up to its publication: `seen` is what
it loaded, the id of the heartbeat among it; then come the steps of the bus;
`StoreHeartbeat` or `HeartbeatRejected` is its commit, the latter also for an
INSERT that meets a row and an UPDATE that finds none. `UpdateBeat` changes the row
that has the loaded id by then, of whichever device. `database` chooses at the start:
SQLite gives the id of a deleted last row again (`models.py:204` has no
AUTOINCREMENT), PostgreSQL gives none twice. `Adds` is the loop over
`supported_step_types`, of which nobody checks the entries: a heartbeat names one
capability up to `MaxNamed` times, nothing is flushed inside the loop, and one that
is missing is added each time. `CreateDevice` commits and then publishes;
`UpdateDevice` and `Cleanup` have no await.

**`DeviceBook`** is the abstract specification of devices and heartbeats: a book
in which registering, renaming, reporting and forgetting old reports are one step
each. On SQLite a report may also be misfiled: its status comes to the heartbeat of
another device. `Fleet` implements it (`ImplementsBook`) under the mapping that
forgets ids, capabilities, ages, the bus and the handlers.

The data are abstracted: a result is a status and a payload, a text of an analysis
the number of the result it is about, an event its version and its two states.

## 3. What TLC checks

| Run | Instance | Shows |
|---|---|---|
| `queue_one_process` | 1 worker, 1 task, 2 devices, 5 statuses, failing commits and saves, 1 restart; 66,556 states | `ImplementsLedger`; `AssignsOnlyPending`; `CancelSparesFinished`; `ResultMatchesStatus`; `PublishedAsReported`; `VersionsSequential` |
| `queue_two_processes` | 2 workers, 1 task, 1 device, faults, 1 restart; 536,849 states | what is left of that with two processes: no torn row (`AssignedHasDevice`, `FinishedHasResult`), `OnlyAssignmentsLogged`, `OneEntryPerLife`, `ReplayIsStable`, `ImplementsSharedLedger` |
| `queue_liveness` | 1 worker, 2 tasks, 2 devices, no faults; 25,207 states | `AssignmentReachesLog`, `FailureIsAnalysed`, `ReplayedWasAssigned` |
| `device_locks_and_dependencies` | 2 workers, 1 device, 2 tasks, reused ids, at most 3 rows before an insert; 623,178 states | `LocksBounded`, `DependenciesBounded`, `ImplementsPermits`, `OnlyOwnersRelease` |
| `analyses` | 2 workers with 2 calls each, quota 1, 1 task with 2 results, restarts; 33,182 states | `CallsBounded`, `CachedTellsOneResult`, `AnalysisEnds` |
| `accounts` | 2 requests at a time and 4 in all, 3 users, 1 name with 2 suffixes, 2 addresses, 1 identity at each provider, both databases, failing commits; 1,507,414 states | `ImplementsRegistry`, `IdentitiesUnique`, `AccountsHaveSettings`, `SettingsBounded`, `DeletionsAudited`, `StaysInactive` |
| `fleet` | 2 handlers and 3 requests, 2 devices, 1 connection, 2 names, 2 statuses, a capability named up to twice, both databases, failing commits; 3,936,430 states | `StatusesAgree`, `CapabilitiesBounded`, `NamesKept`, `ImplementsBook` |
| `event_bus` | 2 handlers and 4 requests, 1 channel, 2 connections; 180,654 states | `HeardBeforeStored`, `HandlersFinish`, `DeadLeave` |

and four that TLC is to find violated, each a sentence of the repository that
the code does not keep:

| Run | Sentence | Counterexample |
|---|---|---|
| `finished_task_changes_again` | STATE_MACHINE_DIAGRAMS.md:65, final states are terminal | the second result overwrites the first: the machine's refusal comes in a coroutine nobody awaits |
| `two_events_one_version` | STATE_MACHINE_DIAGRAMS.md:124, sequential versions | two processes insert version 1 |
| `assigned_twice` | tests/test_queue.py:111, the second assignment fails | two processes assign a task to two devices |
| `quota_never_recovers` | rca-system/API.md:439, 100 analyses per hour | an hour later the quota is still used up |

Bounds. `MaxReady`: handlers start while fewer coroutines than that wait; two
are enough for a transition to wait behind another of the same task.
`MaxCrashes`: one restart shows the machine being made anew; `OneEntryPerLife`
counts restarts, and its companion invariant is proved for any number.
`MaxRows`: three rows leave room for two locks, or for two dependencies and the
reuse of an id. `Slots`, `MaxTime`, `MaxResults`: two calls, two instants and
two results are the least with which calls overlap, an hour passes and an
analysis is out of date; with a quota of one, calls of one process cannot
overlap in this run, those of two processes do; the theorem has any quota and
any number of slots. One task suffices for everything about a row, since rows
share only the event loop; `queue_liveness` has two. `MaxBirths` and
`MaxRequests` in `Accounts`: the first user, one who is created while a third
registers with the same name, and a fourth request that deletes or deactivates
one of them. An update asks for one column, the search for a free OAuth name is
one step, and so are the reads of one check: the unique indexes decide anyway.
`MaxRequests` in `Fleet`: a registration or heartbeat that is over and two that
overlap, of two devices: enough for a heartbeat to be stored, to be loaded, to be
cleaned up, and for the next device to be given its id before the late commit.
`MaxNamed`: twice is the least with which one heartbeat inserts several rows. In
`event_bus` two connections are the least with which one dies or comes while the
other is sent to; its one status and one name say that the run is about delivery
alone. The table behind a Python set is taken not to be resized,
which needs more than four members.

Symmetry is used over sets whose elements are interchangeable, in runs whose
properties TLC checks on states and single steps (a refinement without fairness
among them), never in a run with liveness.

Fairness. `Handle` is weakly fair: a handler waits for nothing but the
database. `EventLoop` is strongly fair: asyncio's ready queue is first come
first served, so a coroutine that is ready whenever a handler ends does run. In
`Analyses` nothing makes the model answer; `LlmFails` is strongly fair, because
the HTTP client gives up after 30 seconds and the loop gets to its timer.
In
`Fleet` each handler (`Continue`) is weakly fair: the loop runs what can run, and
a send that is stuck ends when uvicorn's ping timeout declares the peer dead.
(asyncio's queue would justify strong fairness; with as many requests as the
instance has, the weaker assumption is enough.) The
keepalive of each subscription is weakly fair: its timer comes round every 30
seconds. `HandlersFinish` also rests on `put` never waiting, as the mutant with a
queue of one place shows. Clients, devices, the cleanup, restarts and the decay
of connections are never fair.

Deadlock is checked in every run.

Every property has at least one mutant in `PROJECT.json`: a small plausible bug
in one definition with which TLC finds the property violated. The mutants stand
next to the definitions they change, under a comment.

## 4. What TLAPS proves

Constants are arbitrary (finite where counted), and so are faults and restarts.

* `TaskQueueProofs`. `TypeCorrect`. `AssignedAlwaysHasDevice` and
  `FinishedAlwaysHasResult`, for any number of processes: the invariants are not
  inductive by themselves, since a worker may hold an old row. The strengthening
  says that a device or a result never goes away once it is in a row, and that
  what a worker has loaded is covered by what the row holds now: so a status that
  is not written because it equals the loaded one still finds its companion. Both
  assume that no device reports the status "assigned" (`"assigned" \notin
  Reports`), which the code would store without a device.
* For one process, `OneProcessImplementsLedger`, `OneProcessAssignsOnce`,
  `OneProcessCancelsOnlyUnfinished` and `OneProcessResultMatches` rest on one
  invariant: what the worker has loaded is still what the table holds, because
  nothing else writes between load and commit. With it `Flush` is the plain
  assignment, and each commit is a step of `TaskLedger`; all other steps leave
  `row` alone.
* `LogHoldsOnlyAssignments`, for any number of processes: machines are only in
  states from which no requested target but ASSIGNED can be reached, and the
  draft of a worker that is saving has that shape.
* `SharedLedgerProofs`, for any number of processes.
  `ProcessesImplementSharedLedger`: what a worker has loaded is covered by the row
  (`Copied`), so a column that is not written because it equals the copy has a
  value that the abstract step may leave. `RowsNeverLose`. `OnlyOldCopiesOverwrite` says what
  the counterexample of `assigned_twice` shows is all that can go wrong: a device
  changes only by an assignment that loaded the row as pending, and a final status
  is left only by a result or by a request that loaded the row before.
  `OneProcessOnlyResultsReopen` is the same about `finished_task_changes_again`
  with one process: only a further result leaves a final status.
* `ResourceLocksProofs`. `ResourcesTypeCorrect`; `LocksAlwaysBounded` and
  `DependenciesAlwaysBounded`: rows of a key plus workers about to insert one are
  never more than the workers. A worker passes the check only when there is no
  row, so the sum is then at most the number of workers; an insert moves one from
  the second term to the first; everything else shrinks both.
  `OneProcessLocksExclude`: with one worker this is mutual exclusion.
  `PermitsImplemented`: the same bound makes each insert a `Take` below the limit;
  an UPDATE or DELETE by id changes one row, so it is one `Give` or none.
  `OnlyOwnersFree` (`OnlyOwnersRelease`): the row that a release has loaded is the
  one its request named, and locks are never deleted. `FreshIdsHitTheirRow`, where
  ids do not come back: the row that a resolve or delete has loaded is still the
  one it hits, or is gone. TLC finds this false with reused ids, hence the
  assumption.
* `AnalysesProofs`. `AnalysesTypeCorrect`; `CallsAlwaysBounded`: the calls under
  way of a process are at most the requests in its list, and the list never
  exceeds the quota. `CachedAlwaysOneResult` (`CachedTellsOneResult`): a row that a
  saving call has found in the cache leaves it with that call's UPDATE, and one that
  is out stays out, since no UPDATE sets `cache_hit`; so a row in the cache is as it
  was inserted, whatever other calls have loaded. `ReplacedNeverCached`: a task that
  was analysed twice is never served from the cache again. `QuotaNeverRecovers`: the
  list of requests only grows until a restart, which is why the run
  `quota_never_recovers` ends as it does, for any quota and however much time
  passes.

* `OneProcessPublishesAsReported`: every message that is in a worker's hands or
  published tells one result, the one that the request carries; with one process
  the row that is read again after the commit is the row that was committed.
* `TaskLogProofs`. `OneProcessNumbersEvents` (`VersionsSequential`): the version
  that a saving worker has read is the length of the log. `LogsOncePerLife`
  (`OneEntryPerLife`), for any number of processes: the entries of a task are at
  most the processes whose machine has moved and is not about to log it, plus the
  restarts, each of which resets the machines of one process. `ReplaysStable`
  (`ReplayIsStable`): every entry is a move to ASSIGNED, the first has version 1,
  the next is inserted with at most one more than the greatest, and in every
  prefix by version some entry is last; so what a version replays to is the same
  now and later. `ReplaysOnlyAssigned` (`ReplayedWasAssigned`), without
  failing commits: a device, once in a row, is never taken out, and a deferred
  transition, a machine past PENDING or an entry implies that it is there or that
  the worker which deferred it has its commit before it.
* `DeferredWorkProofs`, for any number of processes and until one dies. These are
  the safety halves of the two liveness properties of the queue.
  `AssignmentsNeverForgotten`, if no write to the event store fails: a task with a
  device is in the log, or some process `Owes` the entry, that is, saves it or has
  a transition waiting for a machine in PENDING. It is inductive with two more
  cases, a handler before its commit and a machine that has moved (and will refuse
  the transition of a second assignment). `AssignedTasksHaveHistory`: so once
  nothing is under way each task that was given to a device has its history, and
  without failing commits no other has. With `LogHoldsOnlyAssignments` it is what
  is true of STATE_MACHINE_DIAGRAMS.md:115, "All state transitions are automatically
  logged to the EventStore". `FailuresNeverForgotten`: a failed row has had
  its analysis started, or the handler that will read the row again or a waiting
  coroutine owes it. A process may read the result of another one there, but then
  the row is not failed, or fails again by a handler that owes the analysis.
* `AccountsProofs`, for any number of requests, either database and any failing
  commit. `TypeCorrect`, with what a request in each phase has loaded (`Sound`)
  and the arithmetic of ids (`BirthsOK`; that SQLite's next id exists needs the
  maximum of a finite set, lemma `Greatest`). `IdentitiesStayUnique`, and on top
  of it `RegistryImplemented`: that each UPDATE replaces one account needs that
  no two rows are the same account. `AccountsGetSettings`: a user without settings
  is being created or is `interrupted`. `SettingsStayBounded`: the rows of a user,
  the requests about to add one and the births add up to at most the bound.
  `DeletionsAlwaysAudited`: a request that is deleting has its entry in the log,
  which only grows. `InactiveStays`: by `Flush`, a step that writes the column
  asks for it.
* `FleetProofs`, for any handlers, devices, connections, statuses and `MaxNamed`.
  `TypeCorrect`. `StatusesAlwaysAgree`, on PostgreSQL, rests on `IdsOK` (an id is one
  device's, also the id that a handler has loaded, so a late UPDATE hits its own row or
  none) and on `LoadedOK`: what a handler loaded from the two tables agreed; and if it
  found no heartbeat, either the device has the status it had then, or a heartbeat has
  come that is too young to be cleaned up. `NamesStay`. `CapabilitiesStayBounded`: rows
  plus `MaxNamed` for each handler about to insert. `ListenersHear`
  (`HeardBeforeStored`) rests on `BusInv`: whoever the iteration has passed has heard,
  has failed or is being sent to, and a set never gains a connection that an audience
  already holds. `BookImplemented` (`ImplementsBook`): on PostgreSQL a commit gives
  both rows of its device one status (by the invariant of `StatusesAlwaysAgree`): the
  one it heard, or, where that equals the loaded one and is not written, the one that an
  overlapping report has put there. On SQLite the heartbeat is that of whoever has the
  id. It never writes the name; an INSERT that succeeds meets no row, so it is a first
  report.

`AssignmentRemembered`, `HistoryComplete` and `FailureRemembered` are stated by
theorems alone; TLC agrees with the two invariants on two workers.

Only model-checked: `AssignmentReachesLog`, `FailureIsAnalysed`, `AnalysisEnds`,
`HandlersFinish` and `DeadLeave`. They are liveness, and fairness and ENABLED are
out of the prover's reach. No module has a recursive definition. Every other
property of a passing run is stated by a theorem; those of the queue that hold
for one process only say so.

## 5. What is not modelled, and why

* Reads without effect; texts, prompts, token counts, spans and log lines.
* Sessions and the connection pool: the models begin where a statement reaches
  the database. That a cached machine keeps the session of its first request
  (`queue/__init__.py:37`) is therefore out of sight.
* `poll_for_tasks`, which no endpoint calls; device machines, device
  aggregates and `create_new`, `transition_state` and `record_heartbeat` of the
  aggregates, which nothing calls outside tests and which raise before they save.
* The GraphQL schema, its queues and its subscriptions, which `main.py` does not
  mount; notifications, which nothing creates; migrations as steps (their indexes
  and keys are in `Accounts`, `ResourceLocks` and `Fleet`).
* Roles and permissions. No route checks one: every route of `admin/users/routes.py`
  depends on `get_current_user` alone, which is what a request of `Accounts` begins
  with, and a `role_id` is only looked up.
* Wiring, settings, header negotiation. A restart is the `Crash` of a module.
* Locks and dependencies are not composed with the queue, because the code does
  not consult them there: a lock outlives its timeout and its task.
* Several processes in `Fleet`. The bus is per process; between processes
  `StatusesAgree` is not claimed, since the load of a heartbeat is then several
  statements that another process's commit may fall between.

* The start of the process. At this commit `api/eventsourcing.py:10` imports
  `TaskAggregate` and `DeviceAggregate` from `omni_server.eventstore`, which does not
  export them, so `main.py` cannot be imported as it stands. The modules model the
  server as it runs once the two names are imported from
  `omni_server.eventstore.aggregate`, where they are.

Facts met while modelling that are in the model and that no violated property states,
because no run is about them:

* STATE_MACHINE_DIAGRAMS.md:115 says that all state transitions are logged.
  `record_result` asks for states that are no keys of the table (`queue/__init__.py:173`),
  and a restart asks again for an assignment: `OnlyAssignmentsLogged` says that the
  event store holds moves from pending to assigned and nothing else.
* `docs/rca-system/API.md:464` says that a forced refresh "Stores new results in cache".
  `SaveAgain` stores it with `cache_hit = False`, and it is never served
  (`ReplacedNeverCached`). A reset is also what keeps `CachedTellsOneResult` true: if
  replaced rows stayed in the cache, as the sentence has it, the UPDATE would have to
  write all columns. Line 459 promises an expiry after 24 hours; nothing sets one.
* `docs/rca-system/DEVELOPER_GUIDE.md:406` promises the automatic analysis for the statuses
  failed, crashed and timeout. `queue/__init__.py:189` starts it for failed alone, and
  `FailureIsAnalysed` and `FailuresNeverForgotten` are about failed alone.
* On SQLite a heartbeat may overwrite another device's: it has loaded a row and waits in
  `publish`, the cleanup deletes the row, the next device's first heartbeat is given its
  id, and the commit finds that row. With `StatusesAgree` asked of SQLite too, TLC shows it.
* On PostgreSQL a user with settings or audit entries cannot be deleted, and each
  attempt leaves an entry that says it was (the comment at `admin/users/service.py:285`
  expects a cascade that no model defines); on SQLite the settings stay and the id may
  go to the next user.
* The own profile of a user without settings is stored and answered with 500
  (`auth/service.py:591`).
