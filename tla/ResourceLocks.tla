---------------------------- MODULE ResourceLocks ----------------------------
(***************************************************************************)
(* api/dependencies.py: the locks that tasks take on devices, and the      *)
(* dependencies between tasks.  Both are rows that an endpoint inserts     *)
(* after a SELECT has found no active row with the same key; neither table *)
(* has a unique constraint.  A handler does not await, so one process runs *)
(* it whole; processes interleave between a handler's SELECT and its       *)
(* commit.                                                                 *)
(***************************************************************************)
EXTENDS Naturals, Sequences, FiniteSets

CONSTANTS
    Workers,   \* server processes
    Devices,   \* device ids; DeviceLockDB.device_id is no foreign key
    Tasks,     \* ids of rows of task_queue, which are never deleted
    Kinds,     \* dependency types
    ReusesIds, \* SQLite without AUTOINCREMENT gives the greatest id plus one
    None,
    MaxRows    \* bound: with so many rows the tables take no further inserts

ASSUME WorkersAssumption == IsFiniteSet(Workers)
ASSUME RowsAssumption == MaxRows \in Nat
ASSUME ReuseAssumption == ReusesIds \in BOOLEAN
ASSUME NoneAssumption == None \notin Devices \cup (Tasks \X Tasks \X Kinds)

VARIABLES
    locks,     \* table device_locks, by id
    deps,      \* table task_dependencies, by id
    pc, key, id, owner  \* the handler in each worker: its phase, the key it checked,
                        \* the row it loaded and the task that asks

vars == <<locks, deps, pc, key, id, owner>>
-----------------------------------------------------------------------------
Edges == Tasks \X Tasks \X Kinds   \* task_id_one, task_id_two, dependency_type

Lock == [key : Devices, owner : Tasks, status : {"locked", "released"}]
Dependency == [key : Edges, status : {"active", "resolved", "deleted"}]

Phases == {"idle", "locking", "releasing", "depending", "resolving", "deleting"}

TypeOK ==
    /\ locks \in Seq(Lock)
    /\ deps \in Seq(Dependency)
    /\ pc \in [Workers -> Phases]
    /\ key \in [Workers -> Devices \cup Edges \cup {None}]
    /\ id \in [Workers -> Nat]
    /\ owner \in [Workers -> Tasks \cup {None}]

Init ==
    /\ locks = <<>>
    /\ deps = <<>>
    /\ pc = [w \in Workers |-> "idle"]
    /\ key = [w \in Workers |-> None]
    /\ id = [w \in Workers |-> 0]
    /\ owner = [w \in Workers |-> None]

\* The rows that an endpoint looks for before it inserts one more.
LockedRows(d) == {i \in DOMAIN locks : locks[i].key = d /\ locks[i].status = "locked"}
ActiveRows(e) == {i \in DOMAIN deps : deps[i].key = e /\ deps[i].status = "active"}
-----------------------------------------------------------------------------
\* A handler moves on to `phase`; only it knows what it has read so far.
Goes(w, phase, k, i, t) ==
    /\ pc' = [pc EXCEPT ![w] = phase]
    /\ key' = [key EXCEPT ![w] = k]
    /\ id' = [id EXCEPT ![w] = i]
    /\ owner' = [owner EXCEPT ![w] = t]

Ends(w) == Goes(w, "idle", None, 0, None)

HasRoom == Len(locks) + Len(deps) < MaxRows

\* Mutants: only the same task is refused; the check reads the wrong status; a
\* lock is released under a name of its own; a release is for the whole device,
\* or is anybody's.
CheckLockOfTask(w, d, t) ==
    /\ pc[w] = "idle" /\ HasRoom
    /\ \A i \in LockedRows(d) : locks[i].owner # t
    /\ Goes(w, "locking", d, 0, t)
    /\ UNCHANGED <<locks, deps>>
CheckDependencyResolved(w, e) ==
    /\ pc[w] = "idle" /\ HasRoom
    /\ \A i \in DOMAIN deps : deps[i].key = e => deps[i].status # "resolved"
    /\ Goes(w, "depending", e, 0, None)
    /\ UNCHANGED <<locks, deps>>

ReleaseLockAsFree(w) ==
    /\ pc[w] = "releasing"
    /\ locks' = [locks EXCEPT ![id[w]].status = "free"]
    /\ Ends(w)
    /\ UNCHANGED deps

ReleaseLocksOfKey(w) ==
    /\ pc[w] = "releasing"
    /\ locks' = [i \in DOMAIN locks |-> IF locks[i].key = key[w]
                                        THEN [locks[i] EXCEPT !.status = "released"]
                                        ELSE locks[i]]
    /\ Ends(w)
    /\ UNCHANGED deps

LoadLockOfAnyone(w, d, t) ==
    /\ pc[w] = "idle"
    /\ \E i \in LockedRows(d) : Goes(w, "releasing", d, i, t)
    /\ UNCHANGED <<locks, deps>>

\* acquire_device_lock: the task exists and no row locks the device; otherwise
\* the answer is 404 or 409.
CheckLock(w, d, t) ==
    /\ pc[w] = "idle" /\ HasRoom
    /\ LockedRows(d) = {}
    /\ Goes(w, "locking", d, 0, t)
    /\ UNCHANGED <<locks, deps>>

InsertLock(w) ==
    /\ pc[w] = "locking"
    /\ locks' = Append(locks, [key |-> key[w], owner |-> owner[w], status |-> "locked"])
    /\ Ends(w)
    /\ UNCHANGED deps

\* release_device_lock: some locked row of this device and this task.
LoadLock(w, d, t) ==
    /\ pc[w] = "idle"
    /\ \E i \in LockedRows(d) :
           /\ locks[i].owner = t
           /\ Goes(w, "releasing", d, i, t)
    /\ UNCHANGED <<locks, deps>>

\* UPDATE ... WHERE id = ...: whoever has released the row in between.
ReleaseLock(w) ==
    /\ pc[w] = "releasing"
    /\ locks' = [locks EXCEPT ![id[w]].status = "released"]
    /\ Ends(w)
    /\ UNCHANGED deps
-----------------------------------------------------------------------------
\* create_task_dependency: both tasks exist, the type is known, and no active
\* row has the same key.  A task may depend on itself, and cycles are allowed.
CheckDependency(w, e) ==
    /\ pc[w] = "idle" /\ HasRoom
    /\ ActiveRows(e) = {}
    /\ Goes(w, "depending", e, 0, None)
    /\ UNCHANGED <<locks, deps>>

\* The id of the next row: one more than the greatest id ever given, or than
\* the greatest still in the table.
NextIds ==
    IF ReusesIds
    THEN {n \in 1..Len(deps) + 1 :
             /\ \A i \in n..Len(deps) : deps[i].status = "deleted"
             /\ n > 1 => deps[n - 1].status # "deleted"}
    ELSE {Len(deps) + 1}

InsertDependency(w) ==
    /\ pc[w] = "depending"
    /\ \E n \in NextIds :
           deps' = Append(SubSeq(deps, 1, n - 1), [key |-> key[w], status |-> "active"])
    /\ Ends(w)
    /\ UNCHANGED locks

LoadDependency(w, i, phase) ==
    /\ pc[w] = "idle"
    /\ i \in DOMAIN deps /\ deps[i].status # "deleted"
    /\ Goes(w, phase, deps[i].key, i, None)
    /\ UNCHANGED <<locks, deps>>

\* resolve_task_dependency: an UPDATE that matches no row raises, 500.
ResolveDependency(w) ==
    /\ pc[w] = "resolving"
    /\ deps' = IF id[w] \in DOMAIN deps /\ deps[id[w]].status # "deleted"
               THEN [deps EXCEPT ![id[w]].status = "resolved"]
               ELSE deps
    /\ Ends(w)
    /\ UNCHANGED locks

\* delete_task_dependency: a DELETE that matches no row is only warned about.
DeleteDependency(w) ==
    /\ pc[w] = "deleting"
    /\ deps' = IF id[w] \in DOMAIN deps
               THEN [deps EXCEPT ![id[w]].status = "deleted"]
               ELSE deps
    /\ Ends(w)
    /\ UNCHANGED locks
-----------------------------------------------------------------------------
\* The commit raises, or the process dies and is started again.
Abandon(w) ==
    /\ pc[w] # "idle"
    /\ Ends(w)
    /\ UNCHANGED <<locks, deps>>

\* 404 or 409: what the request names is not there, or already is.
Refuse(w) ==
    /\ pc[w] = "idle"
    /\ UNCHANGED vars

Next ==
    \E w \in Workers :
        \/ \E d \in Devices, t \in Tasks : CheckLock(w, d, t) \/ LoadLock(w, d, t)
        \/ \E e \in Edges : CheckDependency(w, e)
        \/ \E i \in DOMAIN deps, phase \in {"resolving", "deleting"} :
               LoadDependency(w, i, phase)
        \/ InsertLock(w) \/ ReleaseLock(w)
        \/ InsertDependency(w) \/ ResolveDependency(w) \/ DeleteDependency(w)
        \/ Abandon(w) \/ Refuse(w)

Spec == Init /\ [][Next]_vars
-----------------------------------------------------------------------------
\* A device is locked at most once for each server process.  With one process
\* that is mutual exclusion, which the 409 of acquire_device_lock promises;
\* every further process lets one more task believe that it has the device, and
\* no number of requests, failures or releases makes it worse.
LocksBounded ==
    \A d \in Devices : Cardinality(LockedRows(d)) <= Cardinality(Workers)

\* The same dependency is active at most once for each server process, also when
\* rows are deleted and their ids come back: "Dependency already exists".
DependenciesBounded ==
    \A e \in Edges : Cardinality(ActiveRows(e)) <= Cardinality(Workers)

\* Both tables are semaphores with a permit for each server process.  A request
\* takes one permit of its key and no more, though it inserts long after it has
\* looked; and an UPDATE or a DELETE by id gives back one at most, also when the
\* row was given back before or its id belongs to another row by now.
LockPermits == INSTANCE Permits WITH
    Keys <- Devices, Limit <- Cardinality(Workers),
    held <- [d \in Devices |-> Cardinality(LockedRows(d))]
DependencyPermits == INSTANCE Permits WITH
    Keys <- Edges, Limit <- Cardinality(Workers),
    held <- [e \in Edges |-> Cardinality(ActiveRows(e))]
ImplementsPermits == LockPermits!Spec /\ DependencyPermits!Spec

\* A row of device_locks changes only for a release that names its device and
\* its task: lock_timeout_seconds is never looked at, so that nobody else frees
\* the device, and an UPDATE by id that comes late is not another task's.
OnlyOwnersRelease ==
    [][\A i \in DOMAIN locks : locks'[i] # locks[i] =>
          \E w \in Workers : pc[w] = "releasing" /\ key[w] = locks[i].key
                                                /\ owner[w] = locks[i].owner]_vars
=============================================================================
