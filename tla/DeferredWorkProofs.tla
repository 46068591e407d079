------------------------- MODULE DeferredWorkProofs -------------------------
(***************************************************************************)
(* Theorems about the work that handlers of TaskQueue hand to their event  *)
(* loop: until a process dies, what it owes is waiting somewhere.  They    *)
(* are what AssignmentReachesLog and FailureIsAnalysed rest on besides     *)
(* fairness, for every set of processes, tasks and devices.                *)
(***************************************************************************)
EXTENDS TaskLogProofs

Saves(w, t) == pc[w] = "saving" /\ req[w].task = t

\* Process w is about to log a transition of t, or will be when it comes to
\* its waiting transition: the machine of t can still make it.
Owes(w, t) == Saves(w, t) \/ (machine[w][t] = "pending" /\ Waiting(w, t))

Remembered(t) == log[t] # <<>> \/ \E w \in Workers : Owes(w, t)

\* As long as no process has died, an assignment is remembered: that of a row
\* with a device, that of a handler which has not committed yet, and that of a
\* machine which has moved and will refuse to move again.
AssignmentRemembered ==
    crashes = 0 => \A t \in Tasks :
        /\ row[t].device # None => Remembered(t)
        /\ \A w \in Workers :
              /\ machine[w][t] = "assigned" => Remembered(t)
              /\ pc[w] = "loaded" /\ req[w].op = "assign" /\ req[w].task = t
                     => Remembered(t)

\* The handler that will look at the row after its commit, or the coroutine.
OwesAnalysis(w, t) ==
    \/ pc[w] = "committed" /\ req[w].op = "record" /\ req[w].task = t
    \/ \E i \in DOMAIN ready[w] : ready[w][i].kind = "rca" /\ ready[w][i].task = t

FailureRemembered ==
    crashes = 0 => \A t \in Tasks : row[t].status = "failed" =>
        t \in rcaStarted \/ \E w \in Workers : OwesAnalysis(w, t)

(***************************************************************************)
(* How the queue of a process moves.                                       *)
(***************************************************************************)
\* Handlers only append, and leave a machine that is in PENDING there.
LEMMA QueueGrows ==
    ASSUME TypeInv, [Next]_vars, NEW w \in Workers, ~EventLoop(w), ~Crash(w)
    PROVE  /\ \A i \in DOMAIN ready[w] : i \in DOMAIN ready'[w] /\ ready'[w][i] = ready[w][i]
           /\ \A t \in Tasks : machine[w][t] = "pending" => machine'[w][t] = "pending"
<1> DEFINE Grows(v) ==
      /\ \A i \in DOMAIN ready[v] : i \in DOMAIN ready'[v] /\ ready'[v][i] = ready[v][i]
      /\ \A t \in Tasks : machine[v][t] = "pending" => machine'[v][t] = "pending"
<1>1. CASE UNCHANGED <<ready, machine>>
  BY <1>1
<1>2. ASSUME NEW v \in Workers, NEW c, UNCHANGED machine,
             ready' = [ready EXCEPT ![v] = Append(@, c)]
      PROVE  Grows(w)
  <2>1. ready[v] \in Seq(Coroutine)
    BY DEF TypeInv, TypeOK
  <2>2. ready'[w] = ready[w] \/ (v = w /\ ready'[w] = Append(ready[w], c))
    BY <1>2 DEF TypeInv, TypeOK
  <2> QED BY <1>2, <2>1, <2>2
<1>3. ASSUME NEW v \in Workers, NEW rq, NEW to, Load(v, rq, to)
      PROVE  Grows(w)
  <2> DEFINE c == [kind |-> "transition", task |-> rq.task, to |-> to]
  <2>1. ready[w] \in Seq(Coroutine)
    BY DEF TypeInv, TypeOK
  <2>2. ready'[w] = ready[w] \/ ready'[w] = Append(ready[w], c)
    BY <1>3 DEF Load, Defer, TypeInv, TypeOK
  <2>3. \A t \in Tasks : machine[w][t] = "pending" => machine'[w][t] = "pending"
    BY <1>3 DEF Load, Defer, TypeInv, TypeOK
  <2> HIDE DEF c
  <2>4. \A i \in DOMAIN ready[w] : i \in DOMAIN ready'[w] /\ ready'[w][i] = ready[w][i]
    BY <2>1, <2>2
  <2> QED BY <2>3, <2>4
<1>4. ASSUME NEW v \in Workers, Receive(v) PROVE Grows(w)
  BY <1>1, <1>3, <1>4, LoadsAlike DEF Receive, CreateTask, CreateDuplicate
<1>5. ASSUME NEW v \in Workers, Handle(v) PROVE Grows(w)
  BY <1>1, <1>2, <1>5
     DEF Handle, CommitAssign, CommitCancel, CommitResult, CommitFails,
         PublishAssigned, PublishResult, EndBatch, SaveEvent, SaveFails
<1>6. ASSUME NEW v \in Workers, v # w, EventLoop(v) \/ Crash(v) PROVE Grows(w)
  <2>1. ready'[w] = ready[w] /\ machine'[w] = machine[w]
    BY <1>6 DEF EventLoop, RunTransition, RejectTransition, RunRca, Runs, Crash,
                TypeInv, TypeOK
  <2> QED BY <2>1
<1> QED BY <1>1, <1>4, <1>5, <1>6 DEF Next, vars

\* The event loop takes the head off and nothing else.
LEMMA LoopTakesHead ==
    ASSUME TypeInv, NEW w \in Workers, EventLoop(w)
    PROVE  /\ ready[w] \in Seq(Coroutine) /\ ready[w] # <<>> /\ pc[w] = "idle"
           /\ Head(ready[w]) = ready[w][1] /\ Head(ready[w]) \in Coroutine
           /\ \A i \in DOMAIN ready[w] : i # 1 =>
                  i - 1 \in DOMAIN ready'[w] /\ ready'[w][i - 1] = ready[w][i]
<1>1. /\ ready[w] \in Seq(Coroutine) /\ ready[w] # <<>> /\ pc[w] = "idle"
      /\ ready'[w] = Tail(ready[w])
  BY DEF EventLoop, RunTransition, RejectTransition, RunRca, Runs, TypeInv, TypeOK
<1>2. Head(ready[w]) = ready[w][1] /\ Head(ready[w]) \in Coroutine
  BY <1>1
<1>3. \A i \in DOMAIN ready[w] : i # 1 =>
          i - 1 \in DOMAIN Tail(ready[w]) /\ Tail(ready[w])[i - 1] = ready[w][i]
  BY <1>1
<1> QED BY <1>1, <1>2, <1>3

(***************************************************************************)
(* Assignments.                                                            *)
(***************************************************************************)
\* A transition of t that comes to the head of the queue is made and then to
\* be saved; any other coroutine leaves it waiting.
LEMMA LoopKeepsDebt ==
    ASSUME TypeInv, LogInv, NEW w \in Workers, EventLoop(w), NEW t \in Tasks,
           machine[w][t] = "pending", Waiting(w, t)
    PROVE  Owes(w, t)'
<1> DEFINE c == Head(ready[w])
<1>1. /\ ready[w] \in Seq(Coroutine) /\ c = ready[w][1] /\ c \in Coroutine
      /\ 1 \in DOMAIN ready[w]
      /\ \A i \in DOMAIN ready[w] : i # 1 =>
             i - 1 \in DOMAIN ready'[w] /\ ready'[w][i - 1] = ready[w][i]
  BY LoopTakesHead
<1>2. PICK i \in DOMAIN ready[w] : /\ ready[w][i].kind = "transition"
                                   /\ ready[w][i].to = "assigned"
                                   /\ ready[w][i].task = t
  BY DEF Waiting
<1>3. i # 1 => Waiting(w, t)'
  BY <1>1, <1>2 DEF Waiting
<1>4. CASE RunTransition(w) /\ c.task = t
  <2>1. pc'[w] = "saving" /\ req'[w].task = t
    BY <1>4 DEF RunTransition, NoRequest, TypeInv, TypeOK
  <2> QED BY <2>1 DEF Owes, Saves
<1>5. CASE RunTransition(w) /\ c.task # t
  <2>1. machine'[w][t] = "pending"
    BY <1>5 DEF RunTransition, TypeInv, TypeOK
  <2> QED BY <1>1, <1>2, <1>3, <1>5, <2>1 DEF Owes
<1>6. CASE RejectTransition(w)
  <2>1. machine' = machine /\ ~CanTransition(machine[w][c.task], c.to)
    BY <1>6 DEF RejectTransition
  <2>2. i # 1
    BY <1>1, <1>2, <2>1 DEF CanTransition, TaskTransitions
  <2> QED BY <1>3, <2>1, <2>2 DEF Owes
<1>7. CASE RunRca(w)
  <2>1. machine' = machine /\ c.kind = "rca"
    BY <1>7 DEF RunRca, Runs
  <2> QED BY <1>1, <1>2, <1>3, <2>1 DEF Owes
<1> QED BY <1>4, <1>5, <1>6, <1>7 DEF EventLoop

LEMMA StaysRemembered ==
    ASSUME "save" \notin Faults, TypeInv, LogInv, [Next]_vars,
           \A w \in Workers : ~Crash(w), NEW t \in Tasks, Remembered(t)
    PROVE  Remembered(t)'
<1>1. CASE log[t] # <<>>
  <2>1. log'[t] # <<>>
    BY <1>1, LogMoves, SaveAppends
  <2> QED BY <2>1 DEF Remembered
<1>2. ASSUME NEW w \in Workers, Saves(w, t) PROVE Remembered(t)'
  <2>1. ~RunTransition(w) /\ ~SaveFails(w)
    BY <1>2 DEF Saves, RunTransition, Runs, SaveFails
  <2>2. CASE SaveEvent(w)
    <3>1. log'[t] # <<>>
      BY <1>2, <2>2, SaveAppends DEF Saves
    <3> QED BY <3>1 DEF Remembered
  <2>3. CASE ~SaveEvent(w)
    <3>1. Saves(w, t)'
      BY <1>2, <2>1, <2>3, SavingMoves DEF Saves
    <3> QED BY <3>1 DEF Remembered, Owes
  <2> QED BY <2>2, <2>3
<1>3. ASSUME NEW w \in Workers, machine[w][t] = "pending", Waiting(w, t)
      PROVE  Remembered(t)'
  <2>1. CASE EventLoop(w)
    BY <1>3, <2>1, LoopKeepsDebt DEF Remembered
  <2>2. CASE ~EventLoop(w)
    <3>1. Waiting(w, t)' /\ machine'[w][t] = "pending"
      BY <1>3, <2>2, QueueGrows DEF Waiting
    <3> QED BY <3>1 DEF Remembered, Owes
  <2> QED BY <2>1, <2>2
<1> QED BY <1>1, <1>2, <1>3 DEF Remembered, Owes

\* Only an assignment fills the device column.
LEMMA OnlyAssignsFill ==
    ASSUME TypeInv, [Next]_vars, NEW t \in Tasks,
           row[t].device = None, row'[t].device # None
    PROVE  \E w \in Workers : /\ pc[w] = "loaded" /\ req[w].op = "assign"
                              /\ req[w].task = t
<1>1. ASSUME NEW w \in Workers, CommitCancel(w) \/ CommitResult(w) PROVE FALSE
  <2>1. PICK u \in Tasks : u = req[w].task
    BY <1>1 DEF TypeInv, HandlerOK, CommitCancel, CommitResult
  <2>2. PICK new : /\ new.device = seen[w].device
                   /\ row' = [row EXCEPT ![u] = Flush(row[u], seen[w], new)]
    <3>1. seen[w] \in Row
      BY DEF TypeInv, TypeOK
    <3>2. /\ Cancelled(seen[w], req[w]).device = seen[w].device
          /\ Recorded(seen[w], req[w]).device = seen[w].device
      BY <3>1 DEF Cancelled, Recorded, Row
    <3> QED BY <1>1, <2>1, <3>2 DEF CommitCancel, CommitResult, Commit
  <2>3. row'[t].device = row[t].device
    BY <2>2 DEF Flush, TypeInv, TypeOK
  <2> QED BY <2>3
<1>2. ASSUME NEW w \in Workers, CommitAssign(w)
      PROVE  pc[w] = "loaded" /\ req[w].op = "assign" /\ req[w].task = t
  <2>1. PICK u \in Tasks : u = req[w].task
    BY <1>2 DEF TypeInv, HandlerOK, CommitAssign
  <2>2. u # t => row'[t] = row[t]
    BY <1>2, <2>1 DEF CommitAssign, Commit, TypeInv, TypeOK
  <2> QED BY <1>2, <2>1, <2>2 DEF CommitAssign
<1>3. ASSUME NEW w \in Workers, NEW u \in Tasks, NEW batch \in BOOLEAN,
             CreateTask(w, u, batch)
      PROVE  FALSE
  <2>1. row'[t].device = row[t].device
    BY <1>3 DEF CreateTask, TypeInv, TypeOK, Row
  <2> QED BY <2>1
<1>4. ASSUME NEW w \in Workers, NEW rq, NEW to, Load(w, rq, to) PROVE FALSE
  BY <1>4 DEF Load
<1>5. ASSUME NEW w \in Workers, Receive(w) PROVE FALSE
  BY <1>3, <1>4, <1>5, LoadsAlike DEF Receive, CreateDuplicate
<1>6. ASSUME NEW w \in Workers, Handle(w) PROVE CommitAssign(w)
  BY <1>1, <1>6 DEF Handle, CommitFails, PublishAssigned, PublishResult, EndBatch,
                    SaveEvent, SaveFails
<1>7. ASSUME NEW w \in Workers, EventLoop(w) \/ Crash(w) PROVE FALSE
  BY <1>7 DEF EventLoop, RunTransition, RejectTransition, RunRca, Crash
<1> QED BY <1>2, <1>5, <1>6, <1>7 DEF Next, vars

\* A load for an assignment leaves a waiting transition and its machine.
LEMMA LoadDefers ==
    ASSUME TypeInv, LogInv, NEW w \in Workers, NEW t \in Tasks,
           NEW d \in Devices, NEW batch \in BOOLEAN, LoadForAssign(w, t, d, batch)
    PROVE  Waiting(w, t)' /\ machine'[w][t] \in {"pending", machine[w][t]}
                          /\ machine'[w][t] # "none"
<1> DEFINE rq == [NoRequest EXCEPT !.op = "assign", !.task = t, !.device = d,
                                   !.batch = batch]
           c == [kind |-> "transition", task |-> t, to |-> "assigned"]
<1>1. rq.task = t
  BY DEF NoRequest
<1>2. Load(w, rq, "assigned")
  BY DEF LoadForAssign
<1> HIDE DEF rq
<1>3. /\ ready[w] \in Seq(Coroutine) /\ ready'[w] = Append(ready[w], c)
      /\ machine'[w][t] = IF machine[w][t] = "none" THEN "pending" ELSE machine[w][t]
  BY <1>1, <1>2 DEF Load, Defer, TypeInv, TypeOK
<1>4. /\ Len(ready[w]) + 1 \in DOMAIN ready'[w]
      /\ ready'[w][Len(ready[w]) + 1] = c
  BY <1>3
<1> QED BY <1>3, <1>4 DEF Waiting

\* A handler that is to commit an assignment was there before, or has just
\* loaded the task.
LEMMA WhoAssigns ==
    ASSUME TypeInv, [Next]_vars, NEW w \in Workers, NEW t \in Tasks,
           pc'[w] = "loaded", req'[w].op = "assign", req'[w].task = t
    PROVE  \/ pc[w] = "loaded" /\ req[w].op = "assign" /\ req[w].task = t
           \/ \E d \in Devices, batch \in BOOLEAN : LoadForAssign(w, t, d, batch)
<1> DEFINE Was == pc[w] = "loaded" /\ req[w].op = "assign" /\ req[w].task = t
<1>1. ASSUME NEW v \in Workers, NEW phase \in {"idle", "batch", "committed"}, NEW rq,
             Leave(v, phase, rq)
      PROVE  Was
  BY <1>1 DEF Leave, TypeInv, TypeOK
<1>2. ASSUME NEW v \in Workers, NEW rq, NEW to, Load(v, rq, to), v # w PROVE Was
  BY <1>2 DEF Load, TypeInv, TypeOK
<1>3. ASSUME NEW rq, NEW to, Load(w, rq, to) PROVE rq = req'[w]
  BY <1>3 DEF Load, TypeInv, TypeOK
<1>4. ASSUME NEW u \in Tasks, LoadForCancel(w, u) PROVE FALSE
  <2> DEFINE rq == [NoRequest EXCEPT !.op = "cancel", !.task = u, !.batch = TRUE]
  <2>1. Load(w, rq, "cancelled")
    BY <1>4 DEF LoadForCancel
  <2>2. rq.op = "cancel"
    BY DEF NoRequest
  <2> HIDE DEF rq
  <2> QED BY <1>3, <2>1, <2>2
<1>5. ASSUME NEW u \in Tasks, NEW r \in Results, LoadForResult(w, u, r) PROVE FALSE
  <2> DEFINE rq == [NoRequest EXCEPT !.op = "record", !.task = u, !.result = r]
  <2>1. Load(w, rq, StateOfEnum(r.status))
    BY <1>5 DEF LoadForResult
  <2>2. rq.op = "record"
    BY DEF NoRequest
  <2> HIDE DEF rq
  <2> QED BY <1>3, <2>1, <2>2
<1>6. ASSUME NEW u \in Tasks, NEW d \in Devices, NEW batch \in BOOLEAN,
             LoadForAssign(w, u, d, batch)
      PROVE  u = t
  <2> DEFINE rq == [NoRequest EXCEPT !.op = "assign", !.task = u, !.device = d,
                                     !.batch = batch]
  <2>1. Load(w, rq, "assigned")
    BY <1>6 DEF LoadForAssign
  <2>2. rq.task = u
    BY DEF NoRequest
  <2> HIDE DEF rq
  <2> QED BY <1>3, <2>1, <2>2
<1>7. ASSUME NEW v \in Workers, NEW u \in Tasks, NEW batch \in BOOLEAN,
             CreateTask(v, u, batch) \/ CreateDuplicate(v, u, batch)
      PROVE  Was
  BY <1>1, <1>7 DEF CreateTask, CreateDuplicate, NextItem, EndRequest
<1>8. ASSUME NEW v \in Workers, Receive(v), v # w PROVE Was
  BY <1>2, <1>7, <1>8, LoadsAlike DEF Receive
<1>9. ASSUME Receive(w)
      PROVE  Was \/ \E d \in Devices, batch \in BOOLEAN : LoadForAssign(w, t, d, batch)
  BY <1>4, <1>5, <1>6, <1>7, <1>9 DEF Receive
<1>10. ASSUME NEW v \in Workers, Handle(v) \/ Crash(v) PROVE Was
  BY <1>1, <1>10
     DEF Handle, CommitAssign, CommitCancel, CommitResult, CommitFails,
         PublishAssigned, PublishResult, EndBatch, SaveEvent, SaveFails, Crash,
         NextItem, EndRequest
<1>11. ASSUME NEW v \in Workers, EventLoop(v) PROVE Was
  BY <1>11 DEF EventLoop, RunTransition, RejectTransition, RunRca, local, TypeInv, TypeOK
<1> QED BY <1>8, <1>9, <1>10, <1>11 DEF Next, vars

LEMMA AssignmentRememberedStep ==
    ASSUME "save" \notin Faults
    PROVE  TypeInv /\ LogInv /\ AssignmentRemembered /\ [Next]_vars
             => AssignmentRemembered'
<1> SUFFICES ASSUME TypeInv, LogInv, AssignmentRemembered, [Next]_vars, crashes' = 0,
                    NEW t \in Tasks
             PROVE  /\ row'[t].device # None => Remembered(t)'
                    /\ \A w \in Workers :
                          /\ machine'[w][t] = "assigned" => Remembered(t)'
                          /\ pc'[w] = "loaded" /\ req'[w].op = "assign"
                               /\ req'[w].task = t => Remembered(t)'
  BY DEF AssignmentRemembered
<1>1. crashes \in Nat /\ crashes = 0 /\ \A w \in Workers : ~Crash(w)
  <2>1. crashes \in Nat
    BY BoundsAssumption DEF TypeInv, TypeOK
  <2>2. \A w \in Workers : Crash(w) => crashes' = crashes + 1
    BY DEF Crash
  <2>3. \A w \in Workers : ~Crash(w)
    BY <2>1, <2>2
  <2> QED BY <2>1, <2>3, LogMoves
<1>2. Remembered(t) => Remembered(t)'
  BY <1>1, StaysRemembered
<1>3. ASSUME row'[t].device # None PROVE Remembered(t)
  BY <1>1, <1>3, OnlyAssignsFill DEF AssignmentRemembered
<1>4. ASSUME NEW w \in Workers, machine'[w][t] = "assigned" PROVE Remembered(t)'
  <2>1. CASE RunTransition(w) /\ Head(ready[w]).task = t
    <3>1. Saves(w, t)'
      BY <2>1 DEF RunTransition, NoRequest, TypeInv, TypeOK, Saves
    <3> QED BY <3>1 DEF Remembered, Owes
  <2>2. CASE RunTransition(w) /\ Head(ready[w]).task # t
    <3>1. machine[w][t] = "assigned"
      BY <1>4, <2>2 DEF RunTransition, TypeInv, TypeOK
    <3> QED BY <1>1, <1>2, <3>1 DEF AssignmentRemembered
  <2>3. CASE ~RunTransition(w)
    <3>1. SaveEvent(w) \/ SaveFails(w) => machine' = machine
      BY DEF SaveEvent, SaveFails
    <3>2. machine[w][t] = "assigned"
      BY <1>1, <1>4, <2>3, <3>1, SavingMoves
    <3> QED BY <1>1, <1>2, <3>2 DEF AssignmentRemembered
  <2> QED BY <2>1, <2>2, <2>3
<1>5. ASSUME NEW w \in Workers, pc'[w] = "loaded", req'[w].op = "assign",
             req'[w].task = t
      PROVE  Remembered(t)'
  <2>1. CASE pc[w] = "loaded" /\ req[w].op = "assign" /\ req[w].task = t
    BY <1>1, <1>2, <2>1 DEF AssignmentRemembered
  <2>2. ASSUME NEW d \in Devices, NEW batch \in BOOLEAN, LoadForAssign(w, t, d, batch)
        PROVE  Remembered(t)'
    <3>1. /\ Waiting(w, t)' /\ machine'[w][t] \in {"pending", machine[w][t]}
          /\ machine'[w][t] # "none"
      BY <2>2, LoadDefers
    <3>2. CASE machine'[w][t] = "pending"
      BY <3>1, <3>2 DEF Remembered, Owes
    <3>3. CASE machine'[w][t] # "pending"
      <4>1. machine'[w][t] = "assigned"
        BY <3>1, <3>3 DEF LogInv
      <4> QED BY <1>4, <4>1
    <3> QED BY <3>2, <3>3
  <2> QED BY <1>5, <2>1, <2>2, WhoAssigns
<1> QED BY <1>2, <1>3, <1>4, <1>5

\* With writes to the event store that succeed, an assignment is never
\* forgotten while the processes live: a task that has been given to a device
\* is in the event store, or some process still owes the entry.
THEOREM AssignmentsNeverForgotten ==
    ASSUME "save" \notin Faults
    PROVE  Spec => []AssignmentRemembered
<1>1. Init => AssignmentRemembered
  BY DEF Init, AssignmentRemembered, NoRow
<1>2. TypeInv /\ LogInv /\ AssignmentRemembered /\ [Next]_vars => AssignmentRemembered'
  BY AssignmentRememberedStep
<1> QED BY <1>1, <1>2, TypeInvAlways, LogInvAlways, PTL DEF Spec

Quiescent == \A w \in Workers : pc[w] = "idle" /\ ready[w] = <<>>

\* What a user finds once nothing is under way: every task that was given to a
\* device has its history, and, if commits succeed, no other task has one.
HistoryComplete ==
    Quiescent /\ crashes = 0 =>
        \A t \in Tasks :
            /\ row[t].device # None => log[t] # <<>>
            /\ "commit" \notin Faults => (log[t] # <<>> => row[t].device # None)

THEOREM AssignedTasksHaveHistory ==
    ASSUME "save" \notin Faults
    PROVE  Spec => []HistoryComplete
<1>1. AssignmentRemembered /\ ("commit" \notin Faults => DeviceInv) => HistoryComplete
  <2> SUFFICES ASSUME AssignmentRemembered, "commit" \notin Faults => DeviceInv,
                      Quiescent, crashes = 0, NEW t \in Tasks
               PROVE  /\ row[t].device # None => log[t] # <<>>
                      /\ "commit" \notin Faults => (log[t] # <<>> => row[t].device # None)
    BY DEF HistoryComplete
  <2>1. \A w \in Workers : ~Owes(w, t)
    BY DEF Quiescent, Owes, Saves, Waiting
  <2>2. row[t].device # None => log[t] # <<>>
    BY <2>1 DEF AssignmentRemembered, Remembered
  <2> QED BY <2>2 DEF DeviceInv
<1>2. CASE "commit" \in Faults
  <2>1. AssignmentRemembered => HistoryComplete
    BY <1>1, <1>2
  <2> QED BY <2>1, AssignmentsNeverForgotten, PTL
<1>3. CASE "commit" \notin Faults
  <2>1. Init => DeviceInv
    BY DEF Init, DeviceInv, Waiting, Covered
  <2>2. TypeInv /\ LogInv /\ DeviceInv /\ [Next]_vars => DeviceInv'
    BY <1>3, DeviceInvStep
  <2>3. AssignmentRemembered /\ DeviceInv => HistoryComplete
    BY <1>1
  <2> QED BY <2>1, <2>2, <2>3, AssignmentsNeverForgotten, TypeInvAlways, LogInvAlways,
             PTL DEF Spec
<1> QED BY <1>2, <1>3

(***************************************************************************)
(* Analyses of failures.                                                   *)
(***************************************************************************)
\* Only a result makes a row failed, and its handler has the look at the row
\* after the commit before it.
LEMMA OnlyResultsFail ==
    ASSUME TypeInv, [Next]_vars, NEW t \in Tasks,
           row[t].status # "failed", row'[t].status = "failed"
    PROVE  \E w \in Workers : OwesAnalysis(w, t)'
<1>1. ASSUME NEW w \in Workers, CommitAssign(w) \/ CommitCancel(w) PROVE FALSE
  <2>1. PICK u \in Tasks : u = req[w].task
    BY <1>1 DEF TypeInv, HandlerOK, CommitAssign, CommitCancel
  <2>2. PICK new : /\ new.status # "failed"
                   /\ row' = [row EXCEPT ![u] = Flush(row[u], seen[w], new)]
    <3>1. seen[w] \in Row
      BY DEF TypeInv, TypeOK
    <3>2. /\ Assigned(seen[w], req[w]).status = "assigned"
          /\ Cancelled(seen[w], req[w]).status = "cancelled"
      BY <3>1 DEF Assigned, Cancelled, Row
    <3> QED BY <1>1, <2>1, <3>2 DEF CommitAssign, CommitCancel, Commit
  <2>3. row'[t].status # "failed"
    BY <2>2 DEF Flush, TypeInv, TypeOK
  <2> QED BY <2>3
<1>2. ASSUME NEW w \in Workers, CommitResult(w) PROVE OwesAnalysis(w, t)'
  <2>1. PICK u \in Tasks : u = req[w].task
    BY <1>2 DEF TypeInv, HandlerOK, CommitResult
  <2>2. u # t => row'[t] = row[t]
    BY <1>2, <2>1 DEF CommitResult, Commit, TypeInv, TypeOK
  <2>3. pc'[w] = "committed" /\ req'[w] = req[w] /\ req[w].op = "record"
    BY <1>2 DEF CommitResult, Leave, TypeInv, TypeOK
  <2> QED BY <2>1, <2>2, <2>3 DEF OwesAnalysis
<1>3. ASSUME NEW w \in Workers, NEW u \in Tasks, NEW batch \in BOOLEAN,
             CreateTask(w, u, batch)
      PROVE  FALSE
  <2>1. row'[t].status \in {"pending", row[t].status}
    BY <1>3 DEF CreateTask, TypeInv, TypeOK, Row
  <2> QED BY <2>1
<1>4. ASSUME NEW w \in Workers, NEW rq, NEW to, Load(w, rq, to) PROVE FALSE
  BY <1>4 DEF Load
<1>5. ASSUME NEW w \in Workers, Receive(w) PROVE FALSE
  BY <1>3, <1>4, <1>5, LoadsAlike DEF Receive, CreateDuplicate
<1>6. ASSUME NEW w \in Workers, Handle(w) PROVE CommitResult(w)
  BY <1>1, <1>6 DEF Handle, CommitFails, PublishAssigned, PublishResult, EndBatch,
                    SaveEvent, SaveFails
<1>7. ASSUME NEW w \in Workers, EventLoop(w) \/ Crash(w) PROVE FALSE
  BY <1>7 DEF EventLoop, RunTransition, RejectTransition, RunRca, Crash
<1> QED BY <1>2, <1>5, <1>6, <1>7 DEF Next, vars

\* An analysis that is owed for a task which stays failed is started or stays
\* owed: the handler reads the row as failed, the coroutine keeps its place.
LEMMA StaysOwed ==
    ASSUME RcaEnabled, TypeInv, [Next]_vars, NEW w \in Workers, ~Crash(w),
           NEW t \in Tasks, OwesAnalysis(w, t), row[t].status = "failed"
    PROVE  t \in rcaStarted' \/ OwesAnalysis(w, t)'
<1>1. ASSUME pc[w] = "committed", req[w].op = "record", req[w].task = t
      PROVE  OwesAnalysis(w, t)'
  <2>1. CASE PublishResult(w)
    <3> DEFINE c == [kind |-> "rca", task |-> t, to |-> None]
    <3>1. ready[w] \in Seq(Coroutine) /\ ready'[w] = Append(ready[w], c)
      BY <1>1, <2>1 DEF PublishResult, AnalysisDue, TypeInv, TypeOK
    <3>2. /\ Len(ready[w]) + 1 \in DOMAIN ready'[w]
          /\ ready'[w][Len(ready[w]) + 1] = c
      BY <3>1
    <3> QED BY <3>2 DEF OwesAnalysis
  <2>2. CASE ~PublishResult(w)
    <3>1. pc'[w] = pc[w] /\ req'[w] = req[w]
      <4>1. ASSUME NEW v \in Workers, v # w, NEW phase, NEW rq, Leave(v, phase, rq)
            PROVE  pc'[w] = pc[w] /\ req'[w] = req[w]
        BY <4>1 DEF Leave, TypeInv, TypeOK
      <4>2. ASSUME NEW v \in Workers, NEW rq, NEW to, Load(v, rq, to)
            PROVE  pc'[w] = pc[w] /\ req'[w] = req[w]
        BY <1>1, <4>2 DEF Load, Begins, TypeInv, TypeOK
      <4>3. ASSUME NEW v \in Workers, NEW u \in Tasks, NEW batch \in BOOLEAN,
                   CreateTask(v, u, batch) \/ CreateDuplicate(v, u, batch)
            PROVE  pc'[w] = pc[w] /\ req'[w] = req[w]
        <5>1. v # w
          BY <1>1, <4>3 DEF CreateTask, CreateDuplicate, Begins
        <5> QED BY <4>1, <4>3, <5>1 DEF CreateTask, CreateDuplicate, NextItem, EndRequest
      <4>4. ASSUME NEW v \in Workers, Receive(v)
            PROVE  pc'[w] = pc[w] /\ req'[w] = req[w]
        BY <4>2, <4>3, <4>4, LoadsAlike DEF Receive
      <4>5. ASSUME NEW v \in Workers, v # w, Handle(v) \/ Crash(v)
            PROVE  pc'[w] = pc[w] /\ req'[w] = req[w]
        BY <4>1, <4>5
           DEF Handle, CommitAssign, CommitCancel, CommitResult, CommitFails,
               PublishAssigned, PublishResult, EndBatch, SaveEvent, SaveFails, Crash,
               NextItem, EndRequest
      <4>6. ~Handle(w)
        BY <1>1, <2>2
           DEF Handle, CommitAssign, CommitCancel, CommitResult, CommitFails,
               PublishAssigned, EndBatch, SaveEvent, SaveFails
      <4>7. ASSUME NEW v \in Workers, EventLoop(v)
            PROVE  pc'[w] = pc[w] /\ req'[w] = req[w]
        BY <1>1, <4>7 DEF EventLoop, RunTransition, RejectTransition, RunRca, Runs,
                          local, TypeInv, TypeOK
      <4> QED BY <4>4, <4>5, <4>6, <4>7 DEF Next, vars
    <3> QED BY <1>1, <3>1 DEF OwesAnalysis
  <2> QED BY <2>1, <2>2
<1>2. ASSUME NEW i \in DOMAIN ready[w], ready[w][i].kind = "rca", ready[w][i].task = t
      PROVE  t \in rcaStarted' \/ OwesAnalysis(w, t)'
  <2>1. CASE ~EventLoop(w)
    BY <1>2, <2>1, QueueGrows DEF OwesAnalysis
  <2>2. CASE EventLoop(w) /\ i # 1
    BY <1>2, <2>2, LoopTakesHead DEF OwesAnalysis
  <2>3. CASE EventLoop(w) /\ i = 1
    <3>1. Head(ready[w]).kind = "rca" /\ Head(ready[w]).task = t
      BY <1>2, <2>3, LoopTakesHead
    <3>2. RunRca(w)
      BY <2>3, <3>1 DEF EventLoop, RunTransition, RejectTransition, Runs
    <3> QED BY <3>1, <3>2 DEF RunRca
  <2> QED BY <2>1, <2>2, <2>3
<1> QED BY <1>1, <1>2 DEF OwesAnalysis

\* With automatic analyses switched on, a failure that the table shows has had
\* its analysis started, or some process still owes it: neither another
\* process that writes the row between the commit and the look at it, nor
\* anything that waits in front of the coroutine, makes it lost.
THEOREM FailuresNeverForgotten ==
    ASSUME RcaEnabled
    PROVE  Spec => []FailureRemembered
<1>1. Init => FailureRemembered
  BY DEF Init, FailureRemembered, NoRow
<1>2. ASSUME TypeInv, FailureRemembered, [Next]_vars PROVE FailureRemembered'
  <2> SUFFICES ASSUME crashes' = 0, NEW t \in Tasks, row'[t].status = "failed"
               PROVE  t \in rcaStarted' \/ \E w \in Workers : OwesAnalysis(w, t)'
    BY DEF FailureRemembered
  <2>1. crashes \in Nat /\ \A w \in Workers : Crash(w) => crashes' = crashes + 1
    BY <1>2, BoundsAssumption DEF TypeInv, TypeOK, Crash
  <2>2. \A w \in Workers : ~Crash(w)
    BY <2>1
  <2>3. crashes = 0
    BY <1>2, <2>2, LogMoves
  <2>4. CASE row[t].status # "failed"
    BY <1>2, <2>4, OnlyResultsFail
  <2>5. CASE row[t].status = "failed" /\ t \in rcaStarted
    <3>1. rcaStarted \subseteq rcaStarted'
      <4>1. ASSUME NEW w \in Workers, Receive(w) PROVE rcaStarted' = rcaStarted
        BY <4>1, LoadsAlike DEF Receive, CreateTask, CreateDuplicate, Load
      <4>2. ASSUME NEW w \in Workers, Handle(w) PROVE rcaStarted' = rcaStarted
        BY <4>2 DEF Handle, CommitAssign, CommitCancel, CommitResult, CommitFails,
                    PublishAssigned, PublishResult, EndBatch, SaveEvent, SaveFails
      <4>3. ASSUME NEW w \in Workers, EventLoop(w) PROVE rcaStarted \subseteq rcaStarted'
        BY <4>3 DEF EventLoop, RunTransition, RejectTransition, RunRca
      <4> QED BY <1>2, <2>2, <4>1, <4>2, <4>3 DEF Next, vars
    <3> QED BY <2>5, <3>1
  <2>6. ASSUME row[t].status = "failed", NEW w \in Workers, OwesAnalysis(w, t)
        PROVE  t \in rcaStarted' \/ OwesAnalysis(w, t)'
    BY <1>2, <2>2, <2>6, StaysOwed
  <2> QED BY <1>2, <2>3, <2>4, <2>5, <2>6 DEF FailureRemembered
<1>3. TypeInv /\ FailureRemembered /\ [Next]_vars => FailureRemembered'
  BY <1>2
<1> QED BY <1>1, <1>3, TypeInvAlways, PTL DEF Spec
=============================================================================
