--------------------------- MODULE TaskLogProofs ----------------------------
(***************************************************************************)
(* Theorems about the event store of TaskQueue and about what Replay makes *)
(* of it, for every set of processes, tasks and devices.                   *)
(***************************************************************************)
EXTENDS Replay, TaskQueueProofs, FiniteSetTheorems

(***************************************************************************)
(* Which steps touch the log.                                              *)
(***************************************************************************)
\* Only SaveEvent appends; a handler is in its phase "saving" from
\* RunTransition on, with one task and one event in its hands.
LEMMA LogMoves ==
    ASSUME TypeInv, [Next]_vars
    PROVE  /\ log' = log \/ \E w \in Workers : SaveEvent(w)
           /\ crashes' = crashes \/ \E w \in Workers : Crash(w)
<1>1. ASSUME NEW w \in Workers, Receive(w) PROVE log' = log /\ crashes' = crashes
  <2>1. ASSUME NEW rq, NEW to, Load(w, rq, to) PROVE log' = log /\ crashes' = crashes
    BY <2>1 DEF Load
  <2>2. ASSUME NEW t \in Tasks, NEW batch \in BOOLEAN,
               CreateTask(w, t, batch) \/ CreateDuplicate(w, t, batch)
        PROVE  log' = log /\ crashes' = crashes
    BY <2>2 DEF CreateTask, CreateDuplicate
  <2> QED BY <1>1, <2>1, <2>2, LoadsAlike DEF Receive
<1>2. ASSUME NEW w \in Workers, Handle(w)
      PROVE  crashes' = crashes /\ (SaveEvent(w) \/ log' = log)
  BY <1>2 DEF Handle, CommitAssign, CommitCancel, CommitResult, CommitFails,
              PublishAssigned, PublishResult, EndBatch, SaveEvent, SaveFails
<1>3. ASSUME NEW w \in Workers, EventLoop(w) PROVE log' = log /\ crashes' = crashes
  BY <1>3 DEF EventLoop, RunTransition, RejectTransition, RunRca
<1>4. ASSUME NEW w \in Workers, Crash(w) PROVE log' = log
  BY <1>4 DEF Crash
<1> QED BY <1>1, <1>2, <1>3, <1>4 DEF Next, vars

LEMMA SavingMoves ==
    ASSUME TypeInv, [Next]_vars, NEW w \in Workers
    PROVE  \/ RunTransition(w)
           \/ SaveEvent(w) \/ SaveFails(w) \/ Crash(w)
           \/ /\ pc[w] = "saving" <=> pc'[w] = "saving"
              /\ pc[w] = "saving" => req'[w] = req[w] /\ draft'[w] = draft[w]
              /\ \A t \in Tasks : machine'[w][t] = "assigned" <=> machine[w][t] = "assigned"
<1> DEFINE Same(v) ==
      /\ pc[v] = "saving" <=> pc'[v] = "saving"
      /\ pc[v] = "saving" => req'[v] = req[v] /\ draft'[v] = draft[v]
      /\ \A t \in Tasks : machine'[v][t] = "assigned" <=> machine[v][t] = "assigned"
<1>1. CASE UNCHANGED vars
  BY <1>1 DEF vars
<1>2. ASSUME NEW v \in Workers, NEW phase \in {"idle", "batch", "committed"}, NEW rq,
             pc[v] # "saving", Leave(v, phase, rq), UNCHANGED machine
      PROVE  Same(w)
  BY <1>2 DEF Leave, TypeInv, TypeOK
<1>3. ASSUME NEW v \in Workers, NEW rq, NEW to, rq.task \in Tasks, Load(v, rq, to)
      PROVE  Same(w)
  <2>1. pc[v] # "saving" /\ pc'[v] # "saving"
    BY <1>3 DEF Load, Begins, TypeInv, TypeOK
  <2>2. \A t \in Tasks : machine'[v][t] = "assigned" <=> machine[v][t] = "assigned"
    BY <1>3 DEF Load, Defer, TypeInv, TypeOK
  <2>3. w # v => /\ pc'[w] = pc[w] /\ req'[w] = req[w]
                 /\ machine'[w] = machine[w] /\ draft' = draft
    BY <1>3 DEF Load, Defer, TypeInv, TypeOK
  <2> QED BY <2>1, <2>2, <2>3
<1>4. ASSUME NEW v \in Workers, Receive(v) PROVE Same(w)
  <2>1. ASSUME NEW t \in Tasks, NEW batch \in BOOLEAN,
               CreateTask(v, t, batch) \/ CreateDuplicate(v, t, batch)
        PROVE  Same(w)
    BY <1>2, <2>1 DEF CreateTask, CreateDuplicate, Begins, NextItem, EndRequest
  <2> QED BY <1>3, <1>4, <2>1, LoadsAlike DEF Receive
<1>5. ASSUME NEW v \in Workers, Handle(v)
      PROVE  SaveEvent(v) \/ SaveFails(v) \/ Same(w)
  BY <1>2, <1>5 DEF Handle, CommitAssign, CommitCancel, CommitResult, CommitFails,
                    PublishAssigned, PublishResult, EndBatch, NextItem, EndRequest
<1>6. ASSUME NEW v \in Workers, v # w, SaveEvent(v) \/ SaveFails(v) \/ Crash(v)
      PROVE  Same(w)
  BY <1>6 DEF SaveEvent, SaveFails, Crash, EndRequest, Leave, TypeInv, TypeOK
<1>7. ASSUME NEW v \in Workers, EventLoop(v) PROVE RunTransition(v) \/ Same(w)
  BY <1>7 DEF EventLoop, RejectTransition, RunRca, local
<1>8. ASSUME NEW v \in Workers, v # w, RunTransition(v) PROVE Same(w)
  BY <1>8 DEF RunTransition, TypeInv, TypeOK
<1> QED BY <1>1, <1>4, <1>5, <1>6, <1>7, <1>8 DEF Next

LEMMA SaveAppends ==
    ASSUME TypeInv, NEW w \in Workers, SaveEvent(w)
    PROVE  /\ req[w].task \in Tasks
           /\ log[req[w].task] \in Seq(Event) /\ draft[w] \in Event
           /\ log'[req[w].task] = Append(log[req[w].task], draft[w])
           /\ \A u \in Tasks : u # req[w].task => log'[u] = log[u]
           /\ pc[w] = "saving" /\ pc'[w] = "idle"
           /\ UNCHANGED <<machine, crashes>>
           /\ \A v \in Workers : v # w => pc'[v] = pc[v] /\ req'[v] = req[v]
BY DEF SaveEvent, EndRequest, Leave, TypeInv, TypeOK, HandlerOK

(***************************************************************************)
(* Versions.                                                               *)
(***************************************************************************)
LEMMA SequentialVersion ==
    ASSUME TypeInv, VersionsSequential, NEW t \in Tasks
    PROVE  EntityVersion(t) = Len(log[t])
<1> DEFINE n == Len(log[t])
           versions == {log[t][i].version : i \in DOMAIN log[t]}
<1>1. n \in Nat /\ DOMAIN log[t] = 1..n
  BY DEF TypeInv, TypeOK
<1>2. versions = 1..n
  <2>1. \A i \in 1..n : log[t][i].version = i
    BY <1>1 DEF VersionsSequential
  <2> QED BY <1>1, <2>1
<1>3. CASE n = 0
  BY <1>1, <1>2, <1>3 DEF EntityVersion
<1>4. CASE n # 0
  <2>1. n \in 1..n /\ \A u \in 1..n : u <= n
    BY <1>1, <1>4
  <2>2. \A v \in 1..n : (\A u \in 1..n : u <= v) => v = n
    BY <1>1, <2>1
  <2>3. (CHOOSE v \in 1..n : \A u \in 1..n : u <= v) = n
    BY <2>1, <2>2
  <2>4. 1..n # {}
    BY <2>1
  <2> QED BY <1>2, <2>3, <2>4 DEF EntityVersion
<1> QED BY <1>3, <1>4

\* The version that waits to be inserted is still the next one: with one
\* process nothing is inserted between reading the greatest and inserting.
VersionInv ==
    /\ VersionsSequential
    /\ \A w \in Workers : pc[w] = "saving" =>
           draft[w].version = Len(log[req[w].task]) + 1

LEMMA VersionInvStep ==
    ASSUME OneProcess
    PROVE  TypeInv /\ VersionInv /\ [Next]_vars => VersionInv'
<1> SUFFICES ASSUME TypeInv, VersionInv, [Next]_vars PROVE VersionInv'
  OBVIOUS
<1>1. ASSUME NEW w \in Workers, SaveEvent(w) PROVE VersionInv'
  <2> DEFINE t == req[w].task
  <2>1. /\ t \in Tasks /\ log[t] \in Seq(Event)
        /\ log'[t] = Append(log[t], draft[w])
        /\ \A u \in Tasks : u # t => log'[u] = log[u]
        /\ pc[w] = "saving" /\ pc'[w] = "idle"
    BY <1>1, SaveAppends
  <2>2. draft[w].version = Len(log[t]) + 1
    BY <2>1 DEF VersionInv
  <2>3. \A i \in DOMAIN log'[t] : log'[t][i].version = i
    <3>1. \A i \in DOMAIN log[t] : log[t][i].version = i
      BY <2>1 DEF VersionInv, VersionsSequential
    <3> QED BY <2>1, <2>2, <3>1
  <2>4. VersionsSequential'
    BY <2>1, <2>3 DEF VersionInv, VersionsSequential
  <2> QED BY <2>1, <2>4 DEF VersionInv, OneProcess
<1>2. ASSUME NEW w \in Workers, RunTransition(w) PROVE VersionInv'
  <2> DEFINE t == Head(ready[w]).task
  <2>1. ready[w] \in Seq(Coroutine) /\ ready[w] # <<>>
    BY <1>2 DEF RunTransition, Runs, TypeInv, TypeOK
  <2>2. t \in Tasks
    <3>1. Head(ready[w]) \in Coroutine
      BY <2>1
    <3> QED BY <3>1 DEF Coroutine
  <2>3. EntityVersion(t) = Len(log[t])
    BY <2>2, SequentialVersion DEF VersionInv
  <2>4. log' = log /\ req'[w].task = t /\ draft'[w].version = Len(log[t]) + 1
    BY <1>2, <2>3 DEF RunTransition, NoRequest, TypeInv, TypeOK
  <2> QED BY <2>4 DEF VersionInv, VersionsSequential, OneProcess
<1>3. ASSUME log' = log, NEW w \in Workers,
             pc'[w] = "saving" => /\ pc[w] = "saving" /\ req'[w] = req[w]
                                  /\ draft'[w] = draft[w]
      PROVE  VersionInv'
  BY <1>3 DEF VersionInv, VersionsSequential, OneProcess
<1>4. ASSUME NEW w \in Workers, SaveFails(w) \/ Crash(w)
      PROVE  log' = log /\ pc'[w] = "idle"
  BY <1>4 DEF SaveFails, Crash, EndRequest, Leave, TypeInv, TypeOK
<1>5. CASE Workers = {}
  <2>1. log' = log
    BY <1>5, LogMoves
  <2> QED BY <1>5, <2>1 DEF VersionInv, VersionsSequential
<1>6. CASE Workers # {}
  <2>1. PICK w \in Workers : \A v \in Workers : v = w
    BY <1>6 DEF OneProcess
  <2>2. SaveEvent(w) \/ log' = log
    BY <2>1, LogMoves
  <2> QED BY <1>1, <1>2, <1>3, <1>4, <2>2, SavingMoves
<1> QED BY <1>5, <1>6

\* With one process the events of a task are numbered without gap or
\* repetition, whatever writes fail and however often the process restarts.
THEOREM OneProcessNumbersEvents ==
    ASSUME OneProcess
    PROVE  Spec => []VersionsSequential
<1>1. Init => VersionInv
  BY DEF Init, VersionInv, VersionsSequential
<1>2. TypeInv /\ VersionInv /\ [Next]_vars => VersionInv'
  BY VersionInvStep
<1>3. VersionInv => VersionsSequential
  BY DEF VersionInv
<1> QED BY <1>1, <1>2, <1>3, TypeInvAlways, PTL DEF Spec

(***************************************************************************)
(* One entry per life.                                                     *)
(***************************************************************************)
\* The processes whose machine of t has moved and that are not about to log it.
Done(t) == {w \in Workers : /\ machine[w][t] = "assigned"
                            /\ ~(pc[w] = "saving" /\ req[w].task = t)}

\* A machine moves once in a life, so a process that is about to log is one
\* whose machine has just moved.
LifeInv ==
    /\ \A t \in Tasks : Len(log[t]) <= Cardinality(Done(t)) + crashes
    /\ \A w \in Workers : pc[w] = "saving" => machine[w][req[w].task] = "assigned"

LEMMA LifeInvStep ==
    ASSUME IsFiniteSet(Workers)
    PROVE  TypeInv /\ LogInv /\ LifeInv /\ [Next]_vars => LifeInv'
<1> SUFFICES ASSUME TypeInv, LogInv, LifeInv, [Next]_vars PROVE LifeInv'
  OBVIOUS
<1>1. \A t \in Tasks : /\ IsFiniteSet(Done(t)) /\ Cardinality(Done(t)) \in Nat
                       /\ IsFiniteSet(Done(t)') /\ Cardinality(Done(t)') \in Nat
                       /\ Len(log[t]) \in Nat
  <2> SUFFICES ASSUME NEW t \in Tasks
               PROVE  /\ IsFiniteSet(Done(t)) /\ Cardinality(Done(t)) \in Nat
                      /\ IsFiniteSet(Done(t)') /\ Cardinality(Done(t)') \in Nat
                      /\ Len(log[t]) \in Nat
    OBVIOUS
  <2>1. Done(t) \in SUBSET Workers /\ Done(t)' \in SUBSET Workers
    BY DEF Done
  <2>2. IsFiniteSet(Done(t)) /\ IsFiniteSet(Done(t)')
    BY <2>1, FS_Subset
  <2> QED BY <2>2, FS_CardinalityType DEF TypeInv, TypeOK
<1>2. crashes \in Nat /\ crashes' \in Nat
  <2>1. TypeInv'
    BY TypeInvStep
  <2> QED BY <2>1, BoundsAssumption DEF TypeInv, TypeOK
\* How Done may change with the steps of one process.
<1>3. ASSUME NEW t \in Tasks, NEW w \in Workers, Done(t)' = Done(t) \cup {w}
      PROVE  Cardinality(Done(t)') >= Cardinality(Done(t))
  <2>1. \/ Cardinality(Done(t) \cup {w}) = Cardinality(Done(t))
        \/ Cardinality(Done(t) \cup {w}) = Cardinality(Done(t)) + 1
    BY <1>1, FS_AddElement
  <2> QED BY <1>1, <1>3, <2>1
<1>4. ASSUME NEW w \in Workers, SaveEvent(w) PROVE LifeInv'
  <2>1. PICK t \in Tasks : t = req[w].task
    BY <1>4, SaveAppends
  <2>2. /\ log[t] \in Seq(Event) /\ draft[w] \in Event
        /\ log'[t] = Append(log[t], draft[w])
        /\ \A u \in Tasks : u # t => log'[u] = log[u]
        /\ pc[w] = "saving" /\ pc'[w] = "idle"
        /\ UNCHANGED <<machine, crashes>>
        /\ \A v \in Workers : v # w => pc'[v] = pc[v] /\ req'[v] = req[v]
    BY <1>4, <2>1, SaveAppends
  <2>3. machine[w][t] = "assigned"
    BY <2>1, <2>2 DEF LifeInv
  <2>4. w \notin Done(t) /\ Done(t)' = Done(t) \cup {w}
    BY <2>1, <2>2, <2>3 DEF Done
  <2>5. Cardinality(Done(t)') = Cardinality(Done(t)) + 1
    <3>1. Cardinality(Done(t) \cup {w}) = Cardinality(Done(t)) + 1
      BY <1>1, <2>1, <2>4, FS_AddElement
    <3> QED BY <2>4, <3>1
  <2>6. Len(log'[t]) = Len(log[t]) + 1
    BY <2>2
  <2>7. \A u \in Tasks : u # t => Done(u)' = Done(u)
    BY <2>1, <2>2 DEF Done
  <2>8. \A u \in Tasks : Len(log'[u]) <= Cardinality(Done(u)') + crashes'
    <3> SUFFICES ASSUME NEW u \in Tasks
                 PROVE  Len(log'[u]) <= Cardinality(Done(u)') + crashes'
      OBVIOUS
    <3>1. Len(log[u]) <= Cardinality(Done(u)) + crashes
      BY DEF LifeInv
    <3>2. CASE u = t
      BY <1>1, <1>2, <2>2, <2>5, <2>6, <3>1, <3>2
    <3>3. CASE u # t
      <4>1. Done(u)' = Done(u) /\ log'[u] = log[u] /\ crashes' = crashes
        BY <2>2, <2>7, <3>3
      <4> QED BY <3>1, <4>1
    <3> QED BY <3>2, <3>3
  <2> QED BY <2>2, <2>8 DEF LifeInv
<1>5. ASSUME NEW w \in Workers, SaveFails(w) PROVE LifeInv'
  <2>1. PICK t \in Tasks : t = req[w].task
    BY <1>5 DEF SaveFails, TypeInv, HandlerOK
  <2>2. /\ pc[w] = "saving" /\ pc'[w] = "idle"
        /\ UNCHANGED <<log, machine, crashes>>
        /\ \A v \in Workers : v # w => pc'[v] = pc[v] /\ req'[v] = req[v]
    BY <1>5 DEF SaveFails, EndRequest, Leave, TypeInv, TypeOK
  <2>3. machine[w][t] = "assigned"
    BY <2>1, <2>2 DEF LifeInv
  <2>4. Done(t)' = Done(t) \cup {w}
    BY <2>1, <2>2, <2>3 DEF Done
  <2>5. Cardinality(Done(t)') >= Cardinality(Done(t))
    BY <1>3, <2>4
  <2>6. \A u \in Tasks : u # t => Done(u)' = Done(u)
    BY <2>1, <2>2 DEF Done
  <2>7. \A u \in Tasks : Len(log'[u]) <= Cardinality(Done(u)') + crashes'
    <3> SUFFICES ASSUME NEW u \in Tasks
                 PROVE  Len(log'[u]) <= Cardinality(Done(u)') + crashes'
      OBVIOUS
    <3>1. Len(log[u]) <= Cardinality(Done(u)) + crashes
      BY DEF LifeInv
    <3>2. CASE u = t
      BY <1>1, <1>2, <2>2, <2>5, <3>1, <3>2
    <3>3. CASE u # t
      <4>1. Done(u)' = Done(u)
        BY <2>6, <3>3
      <4> QED BY <2>2, <3>1, <4>1
    <3> QED BY <3>2, <3>3
  <2> QED BY <2>2, <2>7 DEF LifeInv
<1>6. ASSUME NEW w \in Workers, Crash(w) PROVE LifeInv'
  <2>1. /\ UNCHANGED log /\ crashes' = crashes + 1 /\ pc'[w] = "idle"
        /\ \A t \in Tasks : machine'[w][t] = "none"
        /\ \A v \in Workers : v # w => /\ pc'[v] = pc[v] /\ req'[v] = req[v]
                                       /\ machine'[v] = machine[v]
    BY <1>6 DEF Crash, EndRequest, Leave, TypeInv, TypeOK
  <2>2. ASSUME NEW t \in Tasks
        PROVE  Len(log'[t]) <= Cardinality(Done(t)') + crashes'
    <3>1. Done(t)' = Done(t) \ {w}
      BY <2>1 DEF Done
    <3>2. \/ Cardinality(Done(t) \ {w}) = Cardinality(Done(t))
          \/ Cardinality(Done(t) \ {w}) = Cardinality(Done(t)) - 1
      BY <1>1, FS_RemoveElement
    <3>3. Cardinality(Done(t)') >= Cardinality(Done(t)) - 1
      BY <1>1, <3>1, <3>2
    <3> QED BY <1>1, <1>2, <2>1, <3>3 DEF LifeInv
  <2> QED BY <2>1, <2>2 DEF LifeInv
<1>7. ASSUME NEW w \in Workers, RunTransition(w) PROVE LifeInv'
  <2> DEFINE c == Head(ready[w])
  <2>1. ready[w] \in Seq(Coroutine) /\ ready[w] # <<>>
    BY <1>7 DEF RunTransition, Runs, TypeInv, TypeOK
  <2>2. c \in Coroutine /\ 1 \in DOMAIN ready[w] /\ c = ready[w][1]
    BY <2>1
  <2>3. /\ c.task \in Tasks
        /\ c.to \in {"assigned", "cancelled", "TaskStatus.*"}
    BY <1>7, <2>2 DEF RunTransition, Runs, Coroutine, LogInv
  <2>4. machine[w][c.task] \in {"none", "pending", "assigned"}
    BY <2>3 DEF LogInv
  <2>5. CanTransition(machine[w][c.task], c.to)
    BY <1>7 DEF RunTransition
  <2>6. machine[w][c.task] = "pending" /\ c.to = "assigned"
    BY <2>3, <2>4, <2>5 DEF CanTransition, TaskTransitions
  <2>7. /\ UNCHANGED <<log, crashes>>
        /\ pc[w] = "idle" /\ pc'[w] = "saving" /\ req'[w].task = c.task
        /\ machine'[w][c.task] = "assigned"
        /\ \A t \in Tasks : t # c.task => machine'[w][t] = machine[w][t]
        /\ \A v \in Workers : v # w => /\ pc'[v] = pc[v] /\ req'[v] = req[v]
                                       /\ machine'[v] = machine[v]
    BY <1>7, <2>3, <2>6 DEF RunTransition, Runs, NoRequest, TypeInv, TypeOK
  <2>8. \A t \in Tasks : Done(t)' = Done(t)
    BY <2>3, <2>6, <2>7 DEF Done
  <2> QED BY <2>7, <2>8 DEF LifeInv
<1>8. CASE /\ \A w \in Workers : ~(RunTransition(w) \/ SaveEvent(w)
                                   \/ SaveFails(w) \/ Crash(w))
  <2>1. \A w \in Workers :
            /\ pc[w] = "saving" <=> pc'[w] = "saving"
            /\ pc[w] = "saving" => req'[w] = req[w]
            /\ \A t \in Tasks : machine'[w][t] = "assigned" <=> machine[w][t] = "assigned"
    BY <1>8, SavingMoves
  <2>2. \A t \in Tasks : Done(t)' = Done(t)
    BY <2>1 DEF Done
  <2>3. log' = log
    BY <1>8, LogMoves
  <2>4. crashes' = crashes
    BY <1>8, LogMoves
  <2>5. \A w \in Workers : pc'[w] = "saving" => machine'[w][req'[w].task] = "assigned"
    <3> SUFFICES ASSUME NEW w \in Workers, pc'[w] = "saving"
                 PROVE  machine'[w][req'[w].task] = "assigned"
      OBVIOUS
    <3>1. pc[w] = "saving" /\ req'[w] = req[w] /\ req[w].task \in Tasks
      BY <2>1 DEF TypeInv, HandlerOK
    <3> QED BY <2>1, <3>1 DEF LifeInv
  <2> QED BY <2>2, <2>3, <2>4, <2>5 DEF LifeInv
<1> QED BY <1>4, <1>5, <1>6, <1>7, <1>8

\* However many processes there are, a task has at most one logged transition
\* for each of them and for each restart.
THEOREM LogsOncePerLife ==
    ASSUME IsFiniteSet(Workers)
    PROVE  Spec => []OneEntryPerLife
<1>1. Init => LifeInv
  <2> SUFFICES ASSUME Init PROVE LifeInv
    OBVIOUS
  <2>1. \A t \in Tasks : Done(t) = {}
    BY DEF Init, Done
  <2> QED BY <2>1, FS_EmptySet DEF Init, LifeInv
<1>2. TypeInv /\ LogInv /\ LifeInv /\ [Next]_vars => LifeInv'
  BY LifeInvStep
<1>3. TypeInv /\ LifeInv => OneEntryPerLife
  <2> SUFFICES ASSUME TypeInv, LifeInv, NEW t \in Tasks
               PROVE  Len(log[t]) <= Cardinality(Workers) + crashes
    BY DEF OneEntryPerLife
  <2>1. Done(t) \in SUBSET Workers
    BY DEF Done
  <2>2. IsFiniteSet(Done(t)) /\ Cardinality(Done(t)) <= Cardinality(Workers)
    BY <2>1, FS_Subset
  <2>3. Cardinality(Done(t)) \in Nat /\ Cardinality(Workers) \in Nat
    BY <2>2, FS_CardinalityType
  <2>4. Len(log[t]) \in Nat /\ crashes \in Nat
    BY BoundsAssumption DEF TypeInv, TypeOK
  <2> QED BY <2>2, <2>3, <2>4 DEF LifeInv
<1> QED BY <1>1, <1>2, <1>3, TypeInvAlways, LogInvAlways, PTL DEF Spec

(***************************************************************************)
(* Replays.                                                                *)
(***************************************************************************)
\* The log of a task starts at version 1, and of the events up to any version
\* there is a last one; an event that waits to be inserted keeps that so.
ReplayInv ==
    /\ \A t \in Tasks :
        /\ \A i \in DOMAIN log[t] : log[t][i].version >= 1
        /\ log[t] # <<>> => \E i \in DOMAIN log[t] : log[t][i].version = 1
        /\ \A v \in Nat : EventsUpTo(t, v) # {} => LastOf(t, EventsUpTo(t, v)) # {}
    /\ \A w \in Workers : pc[w] = "saving" =>
        /\ draft[w].version >= 1
        /\ draft[w].version = 1 \/ log[req[w].task] # <<>>

LEMMA VersionOfLog ==
    ASSUME TypeInv, NEW t \in Tasks
    PROVE  /\ log[t] \in Seq(Event)
           /\ \A i \in DOMAIN log[t] : log[t][i].version \in Nat
           /\ EntityVersion(t) \in Nat
           /\ log[t] = <<>> => EntityVersion(t) = 0
           /\ log[t] # <<>> =>
                 /\ \E i \in DOMAIN log[t] : log[t][i].version = EntityVersion(t)
                 /\ \A i \in DOMAIN log[t] : log[t][i].version <= EntityVersion(t)
<1> DEFINE versions == {log[t][i].version : i \in DOMAIN log[t]}
<1>1. log[t] \in Seq(Event) /\ EntityVersion(t) \in Nat
  BY EntityVersionIsNat DEF TypeInv, TypeOK
<1>2. ASSUME NEW i \in DOMAIN log[t] PROVE log[t][i].version \in Nat
  <2>1. log[t][i] \in Event
    BY <1>1
  <2> QED BY <2>1 DEF Event
<1>3. CASE log[t] = <<>>
  BY <1>1, <1>2, <1>3 DEF EntityVersion
<1>4. CASE log[t] # <<>>
  <2>1. PICK g \in DOMAIN log[t] :
            \A j \in DOMAIN log[t] : log[t][j].version <= log[t][g].version
    BY <1>4 DEF TypeInv, LogHasGreatest, HasGreatest
  <2>2. \E v \in versions : \A u \in versions : u <= v
    BY <2>1
  <2>3. EntityVersion(t) = CHOOSE v \in versions : \A u \in versions : u <= v
    BY <2>2 DEF EntityVersion
  <2>4. EntityVersion(t) \in versions /\ \A u \in versions : u <= EntityVersion(t)
    BY <2>2, <2>3
  <2> QED BY <1>1, <1>2, <1>4, <2>4
<1> QED BY <1>3, <1>4

LEMMA ReplayInvStep == TypeInv /\ ReplayInv /\ [Next]_vars => ReplayInv'
<1> SUFFICES ASSUME TypeInv, ReplayInv, [Next]_vars PROVE ReplayInv'
  OBVIOUS
<1>1. ASSUME NEW w \in Workers, SaveEvent(w) PROVE ReplayInv'
  <2>1. PICK t \in Tasks : t = req[w].task
    BY <1>1, SaveAppends
  <2>2. /\ log[t] \in Seq(Event) /\ draft[w] \in Event
        /\ log'[t] = Append(log[t], draft[w])
        /\ \A u \in Tasks : u # t => log'[u] = log[u]
        /\ pc[w] = "saving" /\ pc'[w] = "idle"
    BY <1>1, <2>1, SaveAppends
  <2>3. draft[w].version >= 1 /\ (draft[w].version = 1 \/ log[t] # <<>>)
    BY <2>1, <2>2 DEF ReplayInv
  <2>4. PICK n \in Nat : n = Len(log[t])
    BY <2>2
  <2>5. /\ DOMAIN log[t] = 1..n /\ DOMAIN log'[t] = 1..(n + 1)
        /\ \A i \in 1..n : log'[t][i] = log[t][i]
        /\ log'[t][n + 1] = draft[w]
        /\ draft[w].version \in Nat
        /\ \A i \in 1..n : log[t][i].version \in Nat
        /\ log[t] # <<>> => n >= 1
    BY <2>2, <2>4, VersionOfLog DEF Event
  <2>6. \A i \in DOMAIN log'[t] : log'[t][i].version >= 1
    BY <2>3, <2>5 DEF ReplayInv
  <2>7. \E i \in DOMAIN log'[t] : log'[t][i].version = 1
    BY <2>3, <2>5 DEF ReplayInv
  <2>8. ASSUME NEW v \in Nat, EventsUpTo(t, v)' # {}
        PROVE  LastOf(t, EventsUpTo(t, v))' # {}
    <3> DEFINE old == {i \in 1..n : log[t][i].version <= v}
               new == {i \in 1..(n + 1) : log'[t][i].version <= v}
               last == {i \in new : \A j \in new : log'[t][j].version <= log'[t][i].version}
    <3>1. EventsUpTo(t, v) = old /\ EventsUpTo(t, v)' = new
      BY <2>5 DEF EventsUpTo
    <3>2. LastOf(t, EventsUpTo(t, v))' = last
      BY <3>1 DEF LastOf
    <3>3. CASE draft[w].version > v
      <4>1. new = old
        BY <2>5, <3>3
      <4>2. PICK i \in old : \A j \in old : log[t][j].version <= log[t][i].version
        BY <2>8, <3>1, <4>1 DEF ReplayInv, LastOf
      <4>3. i \in last
        BY <2>5, <4>1, <4>2
      <4> QED BY <3>2, <4>3
    <3>4. CASE draft[w].version <= v /\ old = {}
      <4>1. new = {n + 1}
        BY <2>5, <3>4
      <4>2. n + 1 \in last
        BY <2>5, <4>1
      <4> QED BY <3>2, <4>2
    <3>5. CASE draft[w].version <= v /\ old # {}
      <4>1. new = old \cup {n + 1}
        BY <2>5, <3>5
      <4>2. PICK i \in old : \A j \in old : log[t][j].version <= log[t][i].version
        BY <3>1, <3>5 DEF ReplayInv, LastOf
      <4> DEFINE e == draft[w].version
                 top == log[t][i].version
      <4>5. /\ e \in Nat /\ top \in Nat /\ e <= v
            /\ \A j \in old : /\ log'[t][j].version \in Nat
                             /\ log'[t][j].version <= top
            /\ log'[t][n + 1].version = e /\ log'[t][i].version = top
        BY <2>5, <3>5, <4>2
      <4> HIDE DEF e, top, old, new
      <4>3. CASE e >= top
        <5>1. \A j \in new : log'[t][j].version <= log'[t][n + 1].version
          BY <4>1, <4>3, <4>5
        <5> QED BY <3>2, <4>1, <5>1
      <4>4. CASE e < top
        <5>1. \A j \in new : log'[t][j].version <= log'[t][i].version
          BY <4>1, <4>4, <4>5
        <5> QED BY <3>2, <4>1, <4>2, <5>1
      <4> QED BY <4>3, <4>4, <4>5
    <3> QED BY <2>5, <3>3, <3>4, <3>5
  <2>9. ASSUME NEW u \in Tasks, u # t, NEW v \in Nat
        PROVE  /\ EventsUpTo(u, v)' = EventsUpTo(u, v)
               /\ LastOf(u, EventsUpTo(u, v))' = LastOf(u, EventsUpTo(u, v))
    BY <2>2, <2>9 DEF EventsUpTo, LastOf
  <2>10. \A u \in Tasks :
            /\ \A i \in DOMAIN log'[u] : log'[u][i].version >= 1
            /\ log'[u] # <<>> => \E i \in DOMAIN log'[u] : log'[u][i].version = 1
    BY <2>2, <2>6, <2>7 DEF ReplayInv
  <2>11. \A u \in Tasks : \A v \in Nat :
            EventsUpTo(u, v)' # {} => LastOf(u, EventsUpTo(u, v))' # {}
    BY <2>8, <2>9 DEF ReplayInv
  <2>12. ASSUME NEW x \in Workers, pc'[x] = "saving"
         PROVE  draft'[x].version >= 1 /\ (draft'[x].version = 1 \/ log'[req'[x].task] # <<>>)
    <3>1. pc[x] = "saving" /\ req'[x] = req[x] /\ draft'[x] = draft[x] /\ x # w
      BY <1>1, <2>2, <2>12, SaveAppends DEF SaveEvent, EndRequest, Leave, TypeInv, TypeOK
    <3>2. PICK u \in Tasks : u = req[x].task
      BY <3>1 DEF TypeInv, HandlerOK
    <3>3. log[u] # <<>> => log'[u] # <<>>
      BY <2>2
    <3> QED BY <3>1, <3>2, <3>3 DEF ReplayInv
  <2> QED BY <2>10, <2>11, <2>12 DEF ReplayInv
<1>2. ASSUME log' = log,
             \A w \in Workers : pc'[w] = "saving" =>
                 \/ pc[w] = "saving" /\ req'[w] = req[w] /\ draft'[w] = draft[w]
                 \/ /\ draft'[w].version >= 1
                    /\ draft'[w].version = 1 \/ log[req'[w].task] # <<>>
      PROVE  ReplayInv'
  BY <1>2 DEF ReplayInv, EventsUpTo, LastOf
<1>3. ASSUME NEW w \in Workers, RunTransition(w)
      PROVE  /\ draft'[w].version >= 1
             /\ draft'[w].version = 1 \/ log[req'[w].task] # <<>>
  <2>1. ready[w] \in Seq(Coroutine) /\ ready[w] # <<>>
    BY <1>3 DEF RunTransition, Runs, TypeInv, TypeOK
  <2>2. PICK t \in Tasks : t = Head(ready[w]).task
    <3>1. Head(ready[w]) \in Coroutine
      BY <2>1
    <3> QED BY <3>1 DEF Coroutine
  <2>3. req'[w].task = t /\ draft'[w].version = EntityVersion(t) + 1
    BY <1>3, <2>2 DEF RunTransition, NoRequest, TypeInv, TypeOK
  <2> QED BY <2>2, <2>3, VersionOfLog
<1>4. ASSUME NEW w \in Workers, SaveFails(w) \/ Crash(w) PROVE pc'[w] = "idle"
  BY <1>4 DEF SaveFails, Crash, EndRequest, Leave, TypeInv, TypeOK
<1>5. CASE \A w \in Workers : ~SaveEvent(w)
  <2>1. log' = log
    BY <1>5, LogMoves
  <2> QED BY <1>2, <1>3, <1>4, <1>5, <2>1, SavingMoves
<1> QED BY <1>1, <1>5

\* Every event of a task names the state "assigned".
LEMMA ReplaysAssigned ==
    ASSUME TypeInv, LogInv, ReplayInv, NEW t \in Tasks, log[t] # <<>>,
           NEW v \in Nat, v >= 1
    PROVE  ReplayedStates(t, v) = {"assigned"}
<1>1. PICK i \in DOMAIN log[t] : log[t][i].version = 1
  BY DEF ReplayInv
<1>2. i \in EventsUpTo(t, v)
  BY <1>1 DEF EventsUpTo
<1>3. LastOf(t, EventsUpTo(t, v)) # {}
  BY <1>2 DEF ReplayInv
<1>4. \A j \in LastOf(t, EventsUpTo(t, v)) : Applied(log[t][j]) = "assigned"
  BY DEF LastOf, EventsUpTo, Applied, LogInv, OnlyAssignmentsLogged
<1> QED BY <1>2, <1>3, <1>4 DEF ReplayedStates

\* No event is above the version of the aggregate.
BelowVersion ==
    \A t \in Tasks : log[t] # <<>> =>
        \A j \in DOMAIN log[t] : log[t][j].version <= EntityVersion(t)

\* The log only grows, and so does the version of the aggregate.
LEMMA VersionGrows ==
    ASSUME TypeInv, BelowVersion', [Next]_vars, NEW t \in Tasks, log[t] # <<>>
    PROVE  log'[t] # <<>> /\ EntityVersion(t)' >= EntityVersion(t)
<1>1. CASE log'[t] = log[t]
  <2>1. EntityVersion(t)' = EntityVersion(t)
    BY <1>1 DEF EntityVersion
  <2> QED BY <1>1, <2>1, VersionOfLog
<1>2. ASSUME log'[t] # log[t], NEW w \in Workers, SaveEvent(w)
      PROVE  log'[t] # <<>> /\ EntityVersion(t)' >= EntityVersion(t)
  <2>1. log[t] \in Seq(Event) /\ log'[t] = Append(log[t], draft[w])
    BY <1>2, SaveAppends
  <2>2. PICK i \in DOMAIN log[t] : log[t][i].version = EntityVersion(t)
    BY VersionOfLog
  <2>3. i \in DOMAIN log'[t] /\ log'[t][i] = log[t][i] /\ log'[t] # <<>>
    BY <2>1
  <2>4. \A j \in DOMAIN log'[t] : log'[t][j].version <= EntityVersion(t)'
    BY <2>3 DEF BelowVersion
  <2>5. log'[t][i].version <= EntityVersion(t)'
    BY <2>3, <2>4
  <2>6. EntityVersion(t) <= EntityVersion(t)'
    BY <2>2, <2>3, <2>5
  <2> QED BY <2>3, <2>6
<1> QED BY <1>1, <1>2, LogMoves

\* What ReplayIsStable needs of a state.
ReplaysAlike ==
    \A t \in Tasks :
        /\ EntityVersion(t) \in Nat
        /\ EntityVersion(t) # 0 => log[t] # <<>>
        /\ log[t] # <<>> => /\ EntityVersion(t) # 0
                            /\ \A v \in Nat \ {0} : ReplayedStates(t, v) = {"assigned"}

LEMMA ReplayInvReplaysAlike == TypeInv /\ LogInv /\ ReplayInv => ReplaysAlike
<1> SUFFICES ASSUME TypeInv, LogInv, ReplayInv, NEW t \in Tasks
             PROVE  /\ EntityVersion(t) \in Nat
                    /\ EntityVersion(t) # 0 => log[t] # <<>>
                    /\ log[t] # <<>> =>
                          /\ EntityVersion(t) # 0
                          /\ \A v \in Nat \ {0} : ReplayedStates(t, v) = {"assigned"}
  BY DEF ReplaysAlike
<1>1. ASSUME log[t] # <<>> PROVE EntityVersion(t) # 0
  <2>1. PICK i \in DOMAIN log[t] : log[t][i].version = EntityVersion(t)
    BY <1>1, VersionOfLog
  <2> QED BY <2>1, VersionOfLog DEF ReplayInv
<1>2. ASSUME log[t] # <<>>, NEW v \in Nat \ {0}
      PROVE  ReplayedStates(t, v) = {"assigned"}
  BY <1>2, ReplaysAssigned
<1> QED BY <1>1, <1>2, VersionOfLog

LEMMA ReplayInvAlways == Spec => []ReplayInv
<1>1. Init => ReplayInv
  <2> SUFFICES ASSUME Init PROVE ReplayInv
    OBVIOUS
  <2>1. \A t \in Tasks : log[t] = <<>> /\ DOMAIN log[t] = {}
    BY DEF Init
  <2>2. \A t \in Tasks, v \in Nat : EventsUpTo(t, v) = {}
    BY <2>1 DEF EventsUpTo
  <2> QED BY <2>1, <2>2 DEF Init, ReplayInv
<1>2. TypeInv /\ ReplayInv /\ [Next]_vars => ReplayInv'
  BY ReplayInvStep
<1> QED BY <1>1, <1>2, TypeInvAlways, PTL DEF Spec

\* Replaying a version of a task's aggregate gives one answer, and the same
\* one ever after, although two processes may number two events alike: of
\* whatever writes come, none changes what a version stands for.
THEOREM ReplaysStable == Spec => ReplayIsStable
<1>1. TypeInv => BelowVersion
  BY VersionOfLog DEF BelowVersion
<1>2. TypeInv /\ LogInv /\ ReplayInv => ReplaysAlike
  BY ReplayInvReplaysAlike
<1>3. ASSUME TypeInv, BelowVersion', ReplaysAlike, ReplaysAlike', Next,
             NEW t \in Tasks, NEW v \in 1..LoadedVersion(t)
      PROVE  /\ Replayable(t, v)'
             /\ \A s \in ReplayedStates(t, v) : ReplayedStates(t, v)' = {s}
  <2>1. EntityVersion(t) \in Nat /\ v \in Nat \ {0} /\ v <= EntityVersion(t)
    BY <1>3 DEF ReplaysAlike, LoadedVersion
  <2>2. log[t] # <<>>
    BY <1>3, <2>1 DEF ReplaysAlike
  <2>3. log'[t] # <<>> /\ EntityVersion(t)' >= EntityVersion(t)
    BY <1>3, <2>2, VersionGrows
  <2>4. EntityVersion(t)' \in Nat
    BY <1>3 DEF ReplaysAlike
  <2>5. ReplayedStates(t, v) = {"assigned"} /\ ReplayedStates(t, v)' = {"assigned"}
    BY <1>3, <2>1, <2>2, <2>3 DEF ReplaysAlike
  <2>6. v \in 1..LoadedVersion(t)' /\ LoadedVersion(t)' # 0
    BY <2>1, <2>3, <2>4 DEF LoadedVersion
  <2> QED BY <2>5, <2>6 DEF Replayable, Loads
<1>4. TypeInv /\ BelowVersion' /\ ReplaysAlike /\ ReplaysAlike' /\ [Next]_vars
        => [\A t \in Tasks : \A v \in 1..LoadedVersion(t) :
               /\ Replayable(t, v)'
               /\ \A s \in ReplayedStates(t, v) : ReplayedStates(t, v)' = {s}]_vars
  BY <1>3
<1> QED BY <1>1, <1>2, <1>4, TypeInvAlways, LogInvAlways, ReplayInvAlways, PTL
        DEF Spec, ReplayIsStable

(***************************************************************************)
(* What a replay shows has been in the table.                              *)
(***************************************************************************)
\* An event of t may be on its way: t has its device, or the handler that
\* handed the transition over has not come to its commit.
Covered(w, t) ==
    \/ row[t].device # None
    \/ pc[w] = "loaded" /\ req[w].op = "assign" /\ req[w].task = t

Waiting(w, t) ==
    \E i \in DOMAIN ready[w] : /\ ready[w][i].kind = "transition"
                               /\ ready[w][i].to = "assigned"
                               /\ ready[w][i].task = t

\* A device seen by a handler is still there when it writes, so that no commit
\* takes back a device.
DeviceInv ==
    /\ \A t \in Tasks : log[t] # <<>> => row[t].device # None
    /\ \A w \in Workers :
        /\ pc[w] = "saving" => row[req[w].task].device # None
        /\ pc[w] = "loaded" /\ seen[w].device # None => row[req[w].task].device # None
        /\ \A t \in Tasks : Waiting(w, t) => Covered(w, t)

\* A step after which handlers are where they were or over keeps DeviceInv,
\* if devices stay and an assignment only leaves its load with its device.
LEMMA OtherDevicesKept ==
    ASSUME TypeInv, DeviceInv,
           \A t \in Tasks : row[t].device # None => row'[t].device # None,
           \A t \in Tasks : log'[t] # <<>> => log[t] # <<>> \/ row[t].device # None,
           \A w \in Workers :
               /\ pc'[w] \in {"loaded", "saving"} =>
                      pc'[w] = pc[w] /\ req'[w] = req[w] /\ seen'[w] = seen[w]
               /\ \A t \in Tasks : Waiting(w, t)' => Waiting(w, t)
               /\ pc[w] = "loaded" /\ req[w].op = "assign" =>
                      \/ pc'[w] = "loaded" \/ row'[req[w].task].device # None
                      \/ \A t \in Tasks : ~Waiting(w, t)'
    PROVE  DeviceInv'
<1>1. \A t \in Tasks : log'[t] # <<>> => row'[t].device # None
  BY DEF DeviceInv
<1>2. ASSUME NEW w \in Workers
      PROVE  /\ pc'[w] = "saving" => row'[req'[w].task].device # None
             /\ pc'[w] = "loaded" /\ seen'[w].device # None =>
                    row'[req'[w].task].device # None
  BY DEF DeviceInv, TypeInv, HandlerOK
<1>3. ASSUME NEW w \in Workers, NEW t \in Tasks, Waiting(w, t)'
      PROVE  Covered(w, t)'
  <2>1. Waiting(w, t) /\ Covered(w, t)
    BY <1>3 DEF DeviceInv
  <2>2. CASE row[t].device # None
    BY <2>2 DEF Covered
  <2>3. CASE pc[w] = "loaded" /\ req[w].op = "assign" /\ req[w].task = t
    BY <1>3, <2>3 DEF Covered
  <2> QED BY <2>1, <2>2, <2>3 DEF Covered
<1> QED BY <1>1, <1>2, <1>3 DEF DeviceInv

\* The two other commits leave the device column alone; an assignment fills it.
LEMMA CommitsKeepDevices ==
    ASSUME TypeInv, DeviceInv, NEW w \in Workers,
           CommitAssign(w) \/ CommitCancel(w) \/ CommitResult(w)
    PROVE  /\ \A t \in Tasks : row[t].device # None => row'[t].device # None
           /\ req[w].op = "assign" => row'[req[w].task].device # None
<1>1. PICK t \in Tasks : t = req[w].task
  BY DEF TypeInv, HandlerOK, CommitAssign, CommitCancel, CommitResult
<1>2. /\ pc[w] = "loaded" /\ row[t] \in Row /\ seen[w] \in Row
      /\ seen[w].device # None => row[t].device # None
  BY <1>1 DEF TypeInv, TypeOK, DeviceInv, CommitAssign, CommitCancel, CommitResult
<1>3. \A u \in Tasks : u # t => row'[u] = row[u]
  BY <1>1 DEF TypeInv, TypeOK, CommitAssign, CommitCancel, CommitResult, Commit
<1>4. CASE CommitAssign(w)
  <2>1. req[w].device \in Devices /\ req[w].device # None
    BY <1>4, NoneIsNothing DEF CommitAssign, TypeInv, HandlerOK
  <2>2. row'[t] = Flush(row[t], seen[w], Assigned(seen[w], req[w]))
    BY <1>1, <1>4 DEF CommitAssign, Commit, TypeInv, TypeOK
  <2>3. row'[t].device # None
    BY <1>2, <2>1, <2>2 DEF Flush, Assigned, Row
  <2> QED BY <1>1, <1>3, <2>3
<1>5. CASE CommitCancel(w)
  <2>1. row'[t] = Flush(row[t], seen[w], Cancelled(seen[w], req[w]))
    BY <1>1, <1>5 DEF CommitCancel, Commit, TypeInv, TypeOK
  <2>2. row'[t].device = row[t].device
    BY <1>2, <2>1 DEF Flush, Cancelled, Row
  <2> QED BY <1>3, <1>5, <2>2 DEF CommitCancel
<1>6. CASE CommitResult(w)
  <2>1. row'[t] = Flush(row[t], seen[w], Recorded(seen[w], req[w]))
    BY <1>1, <1>6 DEF CommitResult, Commit, TypeInv, TypeOK
  <2>2. row'[t].device = row[t].device
    BY <1>2, <2>1 DEF Flush, Recorded, Row
  <2> QED BY <1>3, <1>6, <2>2 DEF CommitResult
<1> QED BY <1>4, <1>5, <1>6

LEMMA DeviceInvStep ==
    ASSUME "commit" \notin Faults
    PROVE  TypeInv /\ LogInv /\ DeviceInv /\ [Next]_vars => DeviceInv'
<1> SUFFICES ASSUME TypeInv, LogInv, DeviceInv, [Next]_vars PROVE DeviceInv'
  OBVIOUS
<1>1. CASE UNCHANGED vars
  BY <1>1 DEF vars, DeviceInv, Waiting, Covered
\* Steps that end a phase other than a load, and leave the queues alone.
<1>2. ASSUME NEW w \in Workers, pc[w] # "loaded", UNCHANGED <<log, ready>>,
             NEW phase \in {"idle", "batch", "committed"}, NEW rq, Leave(w, phase, rq),
             \A t \in Tasks : row'[t].device = row[t].device
      PROVE  DeviceInv'
  <2>1. \A v \in Workers :
            /\ pc'[v] \in {"loaded", "saving"} =>
                   pc'[v] = pc[v] /\ req'[v] = req[v] /\ seen'[v] = seen[v]
            /\ pc[v] = "loaded" => pc'[v] = "loaded"
    BY <1>2 DEF Leave, TypeInv, TypeOK
  <2>2. \A v \in Workers : \A t \in Tasks : Waiting(v, t)' => Waiting(v, t)
    BY <1>2 DEF Waiting
  <2> QED BY <1>2, <2>1, <2>2, OtherDevicesKept
<1>3. ASSUME NEW w \in Workers, CommitAssign(w) \/ CommitCancel(w) \/ CommitResult(w)
      PROVE  DeviceInv'
  <2>1. /\ UNCHANGED <<log, ready>>
        /\ \A v \in Workers :
              /\ v # w => pc'[v] = pc[v] /\ req'[v] = req[v] /\ seen'[v] = seen[v]
              /\ v = w => pc'[v] \notin {"loaded", "saving"}
    BY <1>3 DEF CommitAssign, CommitCancel, CommitResult, NextItem, Leave,
                TypeInv, TypeOK
  <2>2. \A v \in Workers : \A t \in Tasks : Waiting(v, t)' => Waiting(v, t)
    BY <2>1 DEF Waiting
  <2> QED BY <1>3, <2>1, <2>2, CommitsKeepDevices, OtherDevicesKept
<1>4. ASSUME NEW w \in Workers, NEW t \in Tasks, NEW rq, NEW to,
             Load(w, rq, to), rq.task = t, to = "assigned" => rq.op = "assign"
      PROVE  DeviceInv'
  <2>1. /\ UNCHANGED <<row, log>>
        /\ pc[w] \in {"idle", "batch"} /\ pc'[w] = "loaded"
        /\ req'[w] = rq /\ seen'[w] = row[t]
        /\ \A v \in Workers : v # w =>
              /\ pc'[v] = pc[v] /\ req'[v] = req[v] /\ seen'[v] = seen[v]
              /\ ready'[v] = ready[v]
    BY <1>4 DEF Load, Begins, Defer, TypeInv, TypeOK
  <2>2. /\ ready[w] \in Seq(Coroutine)
        /\ ready'[w] = Append(ready[w], [kind |-> "transition", task |-> t, to |-> to])
    BY <1>4 DEF Load, Defer, TypeInv, TypeOK
  <2>3. ASSUME NEW u \in Tasks, Waiting(w, u)' PROVE Covered(w, u)'
    <3>1. Waiting(w, u) \/ (u = t /\ to = "assigned")
      BY <2>2, <2>3 DEF Waiting
    <3>2. CASE Waiting(w, u)
      BY <2>1, <3>2 DEF DeviceInv, Covered
    <3>3. CASE u = t /\ to = "assigned"
      BY <1>4, <2>1, <3>3 DEF Covered
    <3> QED BY <3>1, <3>2, <3>3
  <2>4. ASSUME NEW v \in Workers, v # w, NEW u \in Tasks, Waiting(v, u)'
        PROVE  Covered(v, u)'
    BY <2>1, <2>4 DEF DeviceInv, Waiting, Covered
  <2> QED BY <1>4, <2>1, <2>3, <2>4 DEF DeviceInv
<1>5. ASSUME NEW w \in Workers, NEW t \in Tasks, NEW d \in Devices, NEW batch \in BOOLEAN,
             LoadForAssign(w, t, d, batch)
      PROVE  DeviceInv'
  <2> DEFINE rq == [NoRequest EXCEPT !.op = "assign", !.task = t, !.device = d,
                                     !.batch = batch]
  <2>1. rq.task = t /\ rq.op = "assign"
    BY DEF NoRequest
  <2>2. Load(w, rq, "assigned")
    BY <1>5 DEF LoadForAssign
  <2> HIDE DEF rq
  <2> QED BY <1>4, <2>1, <2>2
<1>6. ASSUME NEW w \in Workers, NEW t \in Tasks, LoadForCancel(w, t) PROVE DeviceInv'
  <2> DEFINE rq == [NoRequest EXCEPT !.op = "cancel", !.task = t, !.batch = TRUE]
  <2>1. rq.task = t
    BY DEF NoRequest
  <2>2. Load(w, rq, "cancelled")
    BY <1>6 DEF LoadForCancel
  <2> HIDE DEF rq
  <2> QED BY <1>4, <2>1, <2>2
<1>7. ASSUME NEW w \in Workers, NEW t \in Tasks, NEW r \in Results,
             LoadForResult(w, t, r)
      PROVE  DeviceInv'
  <2> DEFINE rq == [NoRequest EXCEPT !.op = "record", !.task = t, !.result = r]
  <2>1. rq.task = t
    BY DEF NoRequest
  <2>2. Load(w, rq, "TaskStatus.*")
    BY <1>7 DEF LoadForResult, StateOfEnum
  <2> HIDE DEF rq
  <2> QED BY <1>4, <2>1, <2>2
<1>8. ASSUME NEW w \in Workers, Receive(w) PROVE DeviceInv'
  <2>1. ASSUME NEW t \in Tasks, NEW batch \in BOOLEAN,
               CreateTask(w, t, batch) \/ CreateDuplicate(w, t, batch)
        PROVE  DeviceInv'
    <3>1. pc[w] # "loaded" /\ UNCHANGED <<log, ready>>
      BY <2>1 DEF CreateTask, CreateDuplicate, Begins
    <3>2. \A u \in Tasks : row'[u].device = row[u].device
      <4>1. CASE row' = [row EXCEPT ![t].status = "pending"]
        BY <4>1 DEF TypeInv, TypeOK, Row
      <4>2. CASE row' = row
        BY <4>2
      <4> QED BY <2>1, <4>1, <4>2 DEF CreateTask, CreateDuplicate
    <3>3. \E phase \in {"idle", "batch"} : \E rq : Leave(w, phase, rq)
      BY <2>1 DEF CreateTask, CreateDuplicate, NextItem, EndRequest
    <3> QED BY <1>2, <3>1, <3>2, <3>3
  <2> QED BY <1>5, <1>6, <1>7, <1>8, <2>1 DEF Receive
<1>9. ASSUME NEW w \in Workers, SaveEvent(w) PROVE DeviceInv'
  <2>1. PICK t \in Tasks : t = req[w].task
    BY <1>9, SaveAppends
  <2>2. row[t].device # None
    BY <1>9, <2>1 DEF SaveEvent, DeviceInv
  <2>3. /\ UNCHANGED <<row, ready>> /\ pc[w] = "saving" /\ pc'[w] = "idle"
        /\ \A v \in Workers : v # w =>
              pc'[v] = pc[v] /\ req'[v] = req[v] /\ seen'[v] = seen[v]
    BY <1>9 DEF SaveEvent, EndRequest, Leave, TypeInv, TypeOK
  <2>4. \A u \in Tasks : log'[u] # <<>> => log[u] # <<>> \/ row[u].device # None
    BY <1>9, <2>1, <2>2, SaveAppends
  <2>5. \A v \in Workers : \A u \in Tasks : Waiting(v, u)' => Waiting(v, u)
    BY <2>3 DEF Waiting
  <2> QED BY <2>3, <2>4, <2>5, OtherDevicesKept
<1>10. ASSUME NEW w \in Workers, PublishResult(w) PROVE DeviceInv'
  <2>1. /\ UNCHANGED <<row, log>> /\ pc[w] = "committed" /\ pc'[w] = "idle"
        /\ \A v \in Workers : v # w =>
              pc'[v] = pc[v] /\ req'[v] = req[v] /\ seen'[v] = seen[v]
    BY <1>10 DEF PublishResult, EndRequest, Leave, TypeInv, TypeOK
  <2>2. \A v \in Workers : \A u \in Tasks : Waiting(v, u)' => Waiting(v, u)
    <3>1. CASE ready' = ready
      BY <3>1 DEF Waiting
    <3>2. CASE ready' = [ready EXCEPT ![w] = Append(ready[w],
                   [kind |-> "rca", task |-> req[w].task, to |-> None])]
      <4>1. \A v \in Workers : ready[v] \in Seq(Coroutine)
        BY DEF TypeInv, TypeOK
      <4>2. \A v \in Workers : v # w => ready'[v] = ready[v]
        BY <3>2 DEF TypeInv, TypeOK
      <4>3. ready'[w] = Append(ready[w], [kind |-> "rca", task |-> req[w].task, to |-> None])
        BY <3>2 DEF TypeInv, TypeOK
      <4>4. \A i \in DOMAIN ready'[w] : ready'[w][i].kind = "transition" =>
                i \in DOMAIN ready[w] /\ ready'[w][i] = ready[w][i]
        BY <4>1, <4>3
      <4> QED BY <4>2, <4>4 DEF Waiting
    <3> QED BY <1>10, <3>1, <3>2 DEF PublishResult
  <2> QED BY <2>1, <2>2, OtherDevicesKept
<1>11. ASSUME NEW w \in Workers, Handle(w) PROVE DeviceInv'
  BY <1>2, <1>3, <1>9, <1>10, <1>11
     DEF Handle, CommitFails, PublishAssigned, EndBatch, SaveFails, EndRequest
<1>12. ASSUME NEW w \in Workers, Crash(w) PROVE DeviceInv'
  <2>1. /\ UNCHANGED <<row, log>> /\ pc'[w] = "idle" /\ ready'[w] = <<>>
        /\ \A v \in Workers : v # w =>
              /\ pc'[v] = pc[v] /\ req'[v] = req[v] /\ seen'[v] = seen[v]
              /\ ready'[v] = ready[v]
    BY <1>12 DEF Crash, EndRequest, Leave, TypeInv, TypeOK
  <2>2. /\ \A u \in Tasks : ~Waiting(w, u)'
        /\ \A v \in Workers : v # w => \A u \in Tasks : Waiting(v, u)' = Waiting(v, u)
    BY <2>1 DEF Waiting
  <2> QED BY <2>1, <2>2, OtherDevicesKept
<1>13. ASSUME NEW w \in Workers, EventLoop(w) PROVE DeviceInv'
  <2>1. ready[w] \in Seq(Coroutine) /\ ready[w] # <<>> /\ pc[w] = "idle"
    BY <1>13 DEF EventLoop, RunTransition, RejectTransition, RunRca, Runs, TypeInv, TypeOK
  <2>2. ready' = [ready EXCEPT ![w] = Tail(ready[w])] /\ UNCHANGED <<row, log>>
    BY <1>13 DEF EventLoop, RunTransition, RejectTransition, RunRca, Runs
  <2>3. \A v \in Workers : \A u \in Tasks : Waiting(v, u)' => Waiting(v, u)
    <3>1. \A i \in DOMAIN Tail(ready[w]) :
              i + 1 \in DOMAIN ready[w] /\ Tail(ready[w])[i] = ready[w][i + 1]
      BY <2>1
    <3>2. /\ \A v \in Workers : v # w => ready'[v] = ready[v]
          /\ ready'[w] = Tail(ready[w])
      BY <2>2 DEF TypeInv, TypeOK
    <3>3. ASSUME NEW u \in Tasks, Waiting(w, u)' PROVE Waiting(w, u)
      BY <3>1, <3>2, <3>3 DEF Waiting
    <3>4. \A v \in Workers : v # w => \A u \in Tasks : Waiting(v, u)' = Waiting(v, u)
      BY <3>2 DEF Waiting
    <3> QED BY <3>3, <3>4
  <2>4. CASE RejectTransition(w) \/ RunRca(w)
    <3>1. UNCHANGED <<pc, req, seen>>
      BY <2>4 DEF RejectTransition, RunRca, local
    <3> QED BY <2>2, <2>3, <3>1, OtherDevicesKept
  <2>5. CASE RunTransition(w)
    <3> DEFINE c == Head(ready[w])
    <3>1. 1 \in DOMAIN ready[w] /\ c = ready[w][1] /\ c \in Coroutine
      BY <2>1
    <3>2. /\ c.kind = "transition"
          /\ c.to \in {"assigned", "cancelled", "TaskStatus.*"}
      BY <2>5, <3>1 DEF RunTransition, Runs, LogInv
    <3>3. PICK t \in Tasks : t = c.task
      BY <3>1 DEF Coroutine
    <3>4. machine[w][t] \in {"none", "pending", "assigned"}
      BY DEF LogInv
    <3>5. c.to = "assigned"
      BY <2>5, <3>2, <3>3, <3>4 DEF RunTransition, CanTransition, TaskTransitions
    <3>6. row[t].device # None
      BY <2>1, <3>1, <3>2, <3>3, <3>5 DEF DeviceInv, Waiting, Covered
    <3>7. /\ pc'[w] = "saving" /\ req'[w].task = t
          /\ \A v \in Workers : v # w =>
                pc'[v] = pc[v] /\ req'[v] = req[v] /\ seen'[v] = seen[v]
      BY <2>5, <3>3 DEF RunTransition, NoRequest, TypeInv, TypeOK
    <3>8. ASSUME NEW v \in Workers, NEW u \in Tasks, Waiting(v, u)' PROVE Covered(v, u)'
      BY <2>1, <2>2, <2>3, <3>7, <3>8 DEF DeviceInv, Covered
    <3> QED BY <2>2, <3>6, <3>7, <3>8 DEF DeviceInv
  <2> QED BY <1>13, <2>4, <2>5 DEF EventLoop
<1> QED BY <1>1, <1>8, <1>11, <1>12, <1>13 DEF Next

\* If commits succeed, a task that its history rebuilds as assigned has been
\* given to a device in the table, although the coroutine that logs the
\* assignment was handed over before the commit.
THEOREM ReplaysOnlyAssigned == Spec => []ReplayedWasAssigned
<1>1. CASE "commit" \in Faults
  <2>1. ReplayedWasAssigned
    BY <1>1 DEF ReplayedWasAssigned
  <2> QED BY <2>1, PTL
<1>2. CASE "commit" \notin Faults
  <2>1. Init => DeviceInv
    BY DEF Init, DeviceInv, Waiting, Covered
  <2>2. TypeInv /\ LogInv /\ DeviceInv /\ [Next]_vars => DeviceInv'
    BY <1>2, DeviceInvStep
  <2>3. DeviceInv => ReplayedWasAssigned
    <3> SUFFICES ASSUME DeviceInv, NEW t \in Tasks,
                        "assigned" \in ReplayedStates(t, LoadedVersion(t))
                 PROVE  row[t].device # None
      BY DEF ReplayedWasAssigned
    <3>1. EventsUpTo(t, LoadedVersion(t)) # {}
      BY NoneIsNoState DEF ReplayedStates, TaskStateNames
    <3>2. log[t] # <<>>
      BY <3>1 DEF EventsUpTo
    <3> QED BY <3>2 DEF DeviceInv
  <2> QED BY <2>1, <2>2, <2>3, TypeInvAlways, LogInvAlways, PTL DEF Spec
<1> QED BY <1>1, <1>2
=============================================================================
