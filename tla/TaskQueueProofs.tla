-------------------------- MODULE TaskQueueProofs ---------------------------
(***************************************************************************)
(* Theorems about TaskQueue, for every set of workers, tasks, devices and  *)
(* payloads, and proofs of them.                                           *)
(***************************************************************************)
EXTENDS TaskQueue, TLAPS

(***************************************************************************)
(* Types.                                                                  *)
(***************************************************************************)
USE DEF Phases

LEMMA NullsHaveTheirTypes ==
    /\ NoRow \in Row
    /\ NoRequest \in Request
    /\ NoEvent \in Event
    /\ NoMessage \in Message
BY DEF NoRow, Row, NoRequest, Request, NoEvent, Event, NoMessage, Message,
       RowStatuses, TaskStatuses, TaskStateNames, Targets

\* A handler that leaves for a phase leaves well-typed locals behind.
LEMMA LeaveTyped ==
    ASSUME TypeOK, NEW w \in Workers, NEW phase \in Phases, NEW rq \in Request,
           Leave(w, phase, rq)
    PROVE  /\ pc' \in [Workers -> Phases]
           /\ req' \in [Workers -> Request]
           /\ seen' \in [Workers -> Row]
           /\ draft' \in [Workers -> Event]
BY NullsHaveTheirTypes DEF Leave, TypeOK

\* What TypeOK needs to be inductive: a handler past its load works on a task
\* that exists in the request, with the device or the result its endpoint gives.
HandlerOK ==
    \A w \in Workers :
        /\ pc[w] \in {"loaded", "committed", "saving"} => req[w].task \in Tasks
        /\ pc[w] \in {"loaded", "committed"} =>
               req[w].op \in {"assign", "cancel", "record"}
        /\ pc[w] = "loaded" /\ req[w].op = "assign" => req[w].device \in Devices
        /\ pc[w] \in {"loaded", "committed"} /\ req[w].op = "record" =>
               req[w].result \in Results

\* get_entity_version finds a greatest version: the log of a task that has
\* events has one with the greatest version.
HasGreatest(events) ==
    events # <<>> =>
        \E i \in DOMAIN events : \A j \in DOMAIN events :
            events[j].version <= events[i].version

LogHasGreatest == \A t \in Tasks : HasGreatest(log[t])

TypeInv == TypeOK /\ HandlerOK /\ LogHasGreatest

LEMMA EntityVersionIsNat ==
    ASSUME TypeOK, LogHasGreatest, NEW t \in Tasks
    PROVE  EntityVersion(t) \in Nat
<1> DEFINE versions == {log[t][i].version : i \in DOMAIN log[t]}
<1>1. log[t] \in Seq(Event)
  BY DEF TypeOK
<1>2. \A i \in DOMAIN log[t] : log[t][i].version \in Nat
  <2> SUFFICES ASSUME NEW i \in DOMAIN log[t]
               PROVE  log[t][i].version \in Nat
    OBVIOUS
  <2>1. log[t][i] \in Event
    BY <1>1
  <2> QED BY <2>1 DEF Event
<1>3. versions \subseteq Nat
  BY <1>2
<1>4. CASE versions = {}
  BY <1>4 DEF EntityVersion
<1>5. CASE versions # {}
  <2>1. log[t] # <<>>
    BY <1>5
  <2>2. \E v \in versions : \A u \in versions : u <= v
    BY <2>1 DEF LogHasGreatest, HasGreatest
  <2> QED BY <1>3, <1>5, <2>2 DEF EntityVersion
<1> QED BY <1>4, <1>5

LEMMA LoadTyped ==
    ASSUME TypeOK, NEW w \in Workers, NEW rq \in Request, rq.task \in Tasks,
           NEW to \in Targets, Load(w, rq, to)
    PROVE  TypeOK'
<1>1. [kind |-> "transition", task |-> rq.task, to |-> to] \in Coroutine
  BY DEF Coroutine
<1>2. ready' \in [Workers -> Seq(Coroutine)]
  BY <1>1 DEF Load, Defer, TypeOK
<1>3. machine' \in [Workers -> [Tasks -> TaskStateNames \cup {"none"}]]
  BY DEF Load, Defer, TypeOK, TaskStateNames
<1>4. /\ pc' \in [Workers -> Phases]
      /\ req' \in [Workers -> Request]
      /\ seen' \in [Workers -> Row]
  BY DEF Load, TypeOK
<1>5. UNCHANGED <<row, log, draft, channel, rcaStarted, crashes>>
  BY DEF Load
<1> QED BY <1>2, <1>3, <1>4, <1>5 DEF TypeOK

\* A commit stores a row if the manager's assignments make one.
LEMMA CommitTyped ==
    ASSUME TypeOK, NEW w \in Workers, NEW new \in Row, Commit(w, new),
           req[w].task \in Tasks
    PROVE  row' \in [Tasks -> Row]
<1>1. row[req[w].task] \in Row /\ seen[w] \in Row
  BY DEF TypeOK
<1>2. Flush(row[req[w].task], seen[w], new) \in Row
  BY <1>1 DEF Flush, Row
<1> QED BY <1>2 DEF Commit, TypeOK

\* The three handlers load with a request of their own kind.
LEMMA LoadKeepsTypes ==
    ASSUME TypeInv, NEW w \in Workers, NEW t \in Tasks,
           \/ \E d \in Devices, batch \in BOOLEAN : LoadForAssign(w, t, d, batch)
           \/ LoadForCancel(w, t)
           \/ \E r \in Results : LoadForResult(w, t, r)
    PROVE  TypeInv'
<1>1. ASSUME NEW d \in Devices, NEW batch \in BOOLEAN, LoadForAssign(w, t, d, batch)
      PROVE  TypeInv'
  <2> DEFINE rq == [NoRequest EXCEPT !.op = "assign", !.task = t, !.device = d,
                                     !.batch = batch]
  <2>1. /\ rq \in Request /\ rq.task = t
        /\ rq.op = "assign" /\ rq.device = d
    BY DEF NoRequest, Request
  <2>2. Load(w, rq, "assigned")
    BY <1>1 DEF LoadForAssign
  <2> HIDE DEF rq
  <2>3. TypeOK'
    BY <2>1, <2>2, LoadTyped DEF Targets, TaskStateNames, TypeInv
  <2>4. HandlerOK'
    BY <2>1, <2>2 DEF Load, HandlerOK, TypeOK, TypeInv
  <2>5. LogHasGreatest'
    BY <2>2 DEF Load, LogHasGreatest, TypeInv
  <2> QED BY <2>3, <2>4, <2>5 DEF TypeInv
<1>2. CASE LoadForCancel(w, t)
  <2> DEFINE rq == [NoRequest EXCEPT !.op = "cancel", !.task = t, !.batch = TRUE]
  <2>1. rq \in Request /\ rq.task = t /\ rq.op = "cancel"
    BY DEF NoRequest, Request
  <2>2. Load(w, rq, "cancelled")
    BY <1>2 DEF LoadForCancel
  <2> HIDE DEF rq
  <2>3. TypeOK'
    BY <2>1, <2>2, LoadTyped DEF Targets, TaskStateNames, TypeInv
  <2>4. HandlerOK'
    BY <2>1, <2>2 DEF Load, HandlerOK, TypeOK, TypeInv
  <2>5. LogHasGreatest'
    BY <2>2 DEF Load, LogHasGreatest, TypeInv
  <2> QED BY <2>3, <2>4, <2>5 DEF TypeInv
<1>3. ASSUME NEW r \in Results, LoadForResult(w, t, r)
      PROVE  TypeInv'
  <2> DEFINE rq == [NoRequest EXCEPT !.op = "record", !.task = t, !.result = r]
  <2>1. rq \in Request /\ rq.task = t /\ rq.op = "record" /\ rq.result = r
    BY DEF NoRequest, Request
  <2>2. Load(w, rq, "TaskStatus.*")
    BY <1>3 DEF LoadForResult, StateOfEnum
  <2> HIDE DEF rq
  <2>3. TypeOK'
    BY <2>1, <2>2, LoadTyped DEF Targets, TaskStateNames, TypeInv
  <2>4. HandlerOK'
    BY <2>1, <2>2 DEF Load, HandlerOK, TypeOK, TypeInv
  <2>5. LogHasGreatest'
    BY <2>2 DEF Load, LogHasGreatest, TypeInv
  <2> QED BY <2>3, <2>4, <2>5 DEF TypeInv
<1> QED BY <1>1, <1>2, <1>3

\* A handler that leaves is past its load only with the request it had.
LEMMA LeaveKeepsHandlerOK ==
    ASSUME TypeInv, NEW w \in Workers, NEW phase \in {"idle", "batch", "committed"},
           NEW rq \in Request, Leave(w, phase, rq),
           phase = "committed" => pc[w] = "loaded" /\ rq = req[w]
    PROVE  HandlerOK'
BY DEF Leave, HandlerOK, TypeOK, TypeInv

LEMMA CommitKeepsTypes ==
    ASSUME TypeInv, NEW w \in Workers,
           CommitAssign(w) \/ CommitCancel(w) \/ CommitResult(w)
    PROVE  TypeInv'
<1>1. req[w] \in Request /\ seen[w] \in Row /\ req[w].task \in Tasks
  BY DEF TypeInv, TypeOK, HandlerOK, CommitAssign, CommitCancel, CommitResult
<1>2. NoRequest \in Request
  BY NullsHaveTheirTypes
<1>3. \A op \in {"assign", "cancel"} :
          [NoRequest EXCEPT !.op = op, !.batch = TRUE] \in Request
  BY DEF NoRequest, Request
<1>4. UNCHANGED <<log, machine, ready, channel, rcaStarted, crashes>>
  BY DEF CommitAssign, CommitCancel, CommitResult
<1>5. \E phase \in {"batch", "committed"}, rq \in Request :
          /\ Leave(w, phase, rq)
          /\ phase = "committed" => pc[w] = "loaded" /\ rq = req[w]
  BY <1>1, <1>3 DEF CommitAssign, CommitCancel, CommitResult, NextItem
<1>6. row' \in [Tasks -> Row]
  <2>1. CASE CommitAssign(w)
    <3>1. req[w].device \in Devices
      BY <2>1 DEF CommitAssign, TypeInv, HandlerOK
    <3>2. Assigned(seen[w], req[w]) \in Row
      BY <1>1, <3>1 DEF Assigned, Row, RowStatuses, TaskStatuses
    <3> QED BY <1>1, <2>1, <3>2, CommitTyped DEF CommitAssign, TypeInv
  <2>2. CASE CommitCancel(w)
    <3>1. Cancelled(seen[w], req[w]) \in Row
      BY <1>1 DEF Cancelled, Row, RowStatuses
    <3> QED BY <1>1, <2>2, <3>1, CommitTyped DEF CommitCancel, TypeInv
  <2>3. CASE CommitResult(w)
    <3>1. req[w].result \in Results
      BY <2>3 DEF CommitResult, TypeInv, HandlerOK
    <3>2. req[w].result.status \in RowStatuses
      BY <3>1, ReportsAreStatuses DEF Results, RowStatuses
    <3>3. Recorded(seen[w], req[w]) \in Row
      BY <1>1, <3>1, <3>2 DEF Recorded, Row
    <3> QED BY <1>1, <2>3, <3>3, CommitTyped DEF CommitResult, TypeInv
  <2> QED BY <2>1, <2>2, <2>3
<1>7. /\ pc' \in [Workers -> Phases] /\ req' \in [Workers -> Request]
      /\ seen' \in [Workers -> Row] /\ draft' \in [Workers -> Event]
  BY <1>5, LeaveTyped DEF TypeInv
<1>8. HandlerOK'
  BY <1>5, LeaveKeepsHandlerOK
<1> QED BY <1>4, <1>6, <1>7, <1>8 DEF TypeInv, TypeOK, LogHasGreatest

\* The handlers that end here change, besides their locals, only the table
\* (a creation) or the channel.
LEMMA EndKeepsTypes ==
    ASSUME TypeInv, NEW w \in Workers, NEW phase \in {"idle", "batch"},
           NEW rq \in Request, Leave(w, phase, rq),
           row' \in [Tasks -> Row], channel' \in [Tasks -> Message],
           machine' \in [Workers -> [Tasks -> TaskStateNames \cup {"none"}]],
           ready' \in [Workers -> Seq(Coroutine)], crashes' \in 0..MaxCrashes,
           UNCHANGED <<log, rcaStarted>>
    PROVE  TypeInv'
<1>1. HandlerOK'
  BY LeaveKeepsHandlerOK
<1>2. /\ pc' \in [Workers -> Phases] /\ req' \in [Workers -> Request]
      /\ seen' \in [Workers -> Row] /\ draft' \in [Workers -> Event]
  BY LeaveTyped DEF TypeInv
<1> QED BY <1>1, <1>2 DEF TypeInv, TypeOK, LogHasGreatest

LEMMA BatchRequestTyped ==
    \A op \in {"create", "assign", "cancel"} :
        [NoRequest EXCEPT !.op = op, !.batch = TRUE] \in Request
BY DEF NoRequest, Request

LEMMA OthersKeepTypes ==
    ASSUME TypeInv, NEW w \in Workers,
           \/ \E t \in Tasks, batch \in BOOLEAN :
                  CreateTask(w, t, batch) \/ CreateDuplicate(w, t, batch)
           \/ EndBatch(w) \/ CommitFails(w) \/ SaveFails(w) \/ Crash(w)
           \/ PublishAssigned(w) \/ PublishResult(w)
    PROVE  TypeInv'
<1> USE NullsHaveTheirTypes
<1>1. ASSUME NEW t \in Tasks, NEW batch \in BOOLEAN, CreateTask(w, t, batch)
      PROVE  TypeInv'
  <2>1. row' \in [Tasks -> Row]
    BY <1>1 DEF CreateTask, TypeInv, TypeOK, Row, RowStatuses, TaskStatuses
  <2>2. channel' \in [Tasks -> Message]
    <3>1. [NoMessage EXCEPT !.type = "task.created"] \in Message
      BY DEF NoMessage, Message
    <3> QED BY <1>1, <3>1 DEF CreateTask, TypeInv, TypeOK
  <2>3. \E phase \in {"idle", "batch"}, rq \in Request : Leave(w, phase, rq)
    BY <1>1, BatchRequestTyped DEF CreateTask, NextItem, EndRequest
  <2>4. UNCHANGED <<log, machine, ready, rcaStarted, crashes>>
    BY <1>1 DEF CreateTask
  <2> QED BY <2>1, <2>2, <2>3, <2>4, EndKeepsTypes DEF TypeInv, TypeOK
<1>2. CASE \/ \E t \in Tasks, batch \in BOOLEAN : CreateDuplicate(w, t, batch)
           \/ EndBatch(w) \/ CommitFails(w) \/ SaveFails(w)
  <2>1. /\ Leave(w, "idle", NoRequest)
        /\ UNCHANGED <<row, log, machine, ready, channel, rcaStarted, crashes>>
    BY <1>2 DEF CreateDuplicate, EndBatch, CommitFails, SaveFails, EndRequest
  <2> QED BY <2>1, EndKeepsTypes DEF TypeInv, TypeOK
<1>3. CASE Crash(w)
  <2>1. Leave(w, "idle", NoRequest) /\ UNCHANGED <<row, log, channel, rcaStarted>>
    BY <1>3 DEF Crash, EndRequest
  <2>2. machine' \in [Workers -> [Tasks -> TaskStateNames \cup {"none"}]]
    BY <1>3 DEF Crash, TypeInv, TypeOK
  <2>3. ready' \in [Workers -> Seq(Coroutine)]
    BY <1>3 DEF Crash, TypeInv, TypeOK
  <2>4. crashes' \in 0..MaxCrashes
    BY <1>3, BoundsAssumption DEF Crash, TypeInv, TypeOK
  <2> QED BY <2>1, <2>2, <2>3, <2>4, EndKeepsTypes DEF TypeInv, TypeOK
<1>4. CASE PublishAssigned(w)
  <2>1. req[w].task \in Tasks /\ req[w] \in Request
    BY <1>4 DEF PublishAssigned, TypeInv, TypeOK, HandlerOK
  <2>2. row[req[w].task] \in Row
    BY <2>1 DEF TypeInv, TypeOK
  <2>3. [type |-> "task.assigned", status |-> row[req[w].task].status,
         device |-> req[w].device, result |-> None] \in Message
    BY <2>1, <2>2 DEF Message, Row, Request
  <2>4. channel' \in [Tasks -> Message]
    BY <1>4, <2>3 DEF PublishAssigned, TypeInv, TypeOK
  <2>5. /\ Leave(w, "idle", NoRequest)
        /\ UNCHANGED <<row, log, machine, ready, rcaStarted, crashes>>
    BY <1>4 DEF PublishAssigned, EndRequest
  <2> QED BY <2>4, <2>5, EndKeepsTypes DEF TypeInv, TypeOK
<1>5. CASE PublishResult(w)
  <2> DEFINE t == req[w].task
  <2>1. t \in Tasks /\ req[w] \in Request
    BY <1>5 DEF PublishResult, TypeInv, TypeOK, HandlerOK
  <2>2. row[t] \in Row
    BY <2>1 DEF TypeInv, TypeOK
  <2>3. \A type \in {"task.completed", "task.failed"} :
            [type |-> type, status |-> row[t].status, device |-> row[t].device,
             result |-> req[w].result] \in Message
    BY <2>1, <2>2 DEF Message, Row, Request
  <2>4. channel' \in [Tasks -> Message]
    BY <1>5, <2>3 DEF PublishResult, ResultEvent, TypeInv, TypeOK
  <2>5. [kind |-> "rca", task |-> t, to |-> None] \in Coroutine
    BY <2>1 DEF Coroutine
  <2>6. ready' \in [Workers -> Seq(Coroutine)]
    BY <1>5, <2>5 DEF PublishResult, TypeInv, TypeOK
  <2>7. /\ Leave(w, "idle", NoRequest)
        /\ UNCHANGED <<row, log, machine, rcaStarted, crashes>>
    BY <1>5 DEF PublishResult, EndRequest
  <2> QED BY <2>4, <2>6, <2>7, EndKeepsTypes DEF TypeInv, TypeOK
<1> QED BY <1>1, <1>2, <1>3, <1>4, <1>5

\* Appending an event keeps a greatest version: the old one or the new one.
LEMMA AppendHasGreatest ==
    ASSUME NEW s \in Seq(Event), NEW e \in Event, HasGreatest(s)
    PROVE  HasGreatest(Append(s, e))
<1> DEFINE n == Len(s)
           v(i) == Append(s, e)[i].version
<1>1. n \in Nat /\ DOMAIN s = 1..n /\ DOMAIN Append(s, e) = 1..(n + 1)
  OBVIOUS
<1>2. \A i \in 1..n : s[i] \in Event /\ Append(s, e)[i] = s[i]
  OBVIOUS
<1>3. \A i \in 1..n : v(i) = s[i].version /\ v(i) \in Nat
  BY <1>2 DEF Event
<1>4. v(n + 1) = e.version /\ v(n + 1) \in Nat
  BY DEF Event
<1>5. \A j \in 1..(n + 1) : j \in 1..n \/ j = n + 1
  BY <1>1
<1>6. n + 1 \in 1..(n + 1)
  BY <1>1
<1>7. SUFFICES \E i \in 1..(n + 1) : \A j \in 1..(n + 1) : v(j) <= v(i)
  BY <1>1 DEF HasGreatest
<1>8. CASE n = 0
  <2>1. \A j \in 1..(n + 1) : j = n + 1
    BY <1>8
  <2> QED BY <1>4, <1>6, <2>1
<1>9. CASE n # 0
  <2>1. s # <<>>
    BY <1>9
  <2>2. PICK g \in 1..n : \A j \in 1..n : s[j].version <= s[g].version
    BY <1>1, <2>1 DEF HasGreatest
  <2>3. \A j \in 1..n : v(j) <= v(g)
    BY <1>3, <2>2
  <2>4. g \in 1..(n + 1)
    BY <1>1
  <2> HIDE DEF v
  <2>5. CASE v(n + 1) <= v(g)
    BY <1>5, <2>3, <2>4, <2>5
  <2>6. CASE ~(v(n + 1) <= v(g))
    <3>1. \A j \in 1..n : v(j) <= v(n + 1)
      BY <1>3, <1>4, <2>3, <2>6
    <3> QED BY <1>4, <1>5, <1>6, <3>1
  <2> QED BY <2>5, <2>6
<1> QED BY <1>8, <1>9

LEMMA SaveKeepsTypes ==
    ASSUME TypeInv, NEW w \in Workers, SaveEvent(w)
    PROVE  TypeInv'
<1> DEFINE t == req[w].task
<1>1. t \in Tasks /\ draft[w] \in Event /\ log[t] \in Seq(Event)
  BY DEF SaveEvent, TypeInv, TypeOK, HandlerOK
<1>2. /\ Leave(w, "idle", NoRequest)
      /\ UNCHANGED <<row, machine, ready, channel, rcaStarted, crashes>>
      /\ log' = [log EXCEPT ![t] = Append(log[t], draft[w])]
  BY DEF SaveEvent, EndRequest
<1>3. log' \in [Tasks -> Seq(Event)]
  BY <1>1, <1>2 DEF TypeInv, TypeOK
<1>4. /\ pc' \in [Workers -> Phases] /\ req' \in [Workers -> Request]
      /\ seen' \in [Workers -> Row] /\ draft' \in [Workers -> Event]
  BY <1>2, LeaveTyped, NullsHaveTheirTypes DEF TypeInv
<1>5. HandlerOK'
  BY <1>2, LeaveKeepsHandlerOK, NullsHaveTheirTypes
<1>6. LogHasGreatest'
  <2> SUFFICES ASSUME NEW u \in Tasks
               PROVE  HasGreatest(log'[u])
    BY DEF LogHasGreatest
  <2>1. CASE u # t
    BY <1>2, <2>1 DEF TypeInv, TypeOK, LogHasGreatest
  <2>2. CASE u = t
    <3>1. log'[t] = Append(log[t], draft[w])
      BY <1>1, <1>2 DEF TypeInv, TypeOK
    <3>2. HasGreatest(log[t])
      BY <1>1 DEF TypeInv, LogHasGreatest
    <3>3. HasGreatest(log'[t])
      BY <1>1, <3>1, <3>2, AppendHasGreatest
    <3> QED BY <2>2, <3>3
  <2> QED BY <2>1, <2>2
<1> QED BY <1>2, <1>3, <1>4, <1>5, <1>6 DEF TypeInv, TypeOK

LEMMA LoopKeepsTypes ==
    ASSUME TypeInv, NEW w \in Workers, EventLoop(w)
    PROVE  TypeInv'
<1> DEFINE c == Head(ready[w])
<1>1. c \in Coroutine /\ ready' \in [Workers -> Seq(Coroutine)]
  <2>1. ready[w] # <<>> /\ ready' = [ready EXCEPT ![w] = Tail(ready[w])]
    BY DEF EventLoop, RunTransition, RejectTransition, RunRca, Runs
  <2>2. ready[w] \in Seq(Coroutine)
    BY DEF TypeInv, TypeOK
  <2> QED BY <2>1, <2>2 DEF TypeInv, TypeOK
<1>2. CASE RunTransition(w)
  <2>1. c.to \in TaskStateNames /\ machine[w][c.task] \in TaskStateNames
    BY <1>2 DEF RunTransition, CanTransition, TaskTransitions, TaskStateNames
  <2>2. c.task \in Tasks /\ c.to \in Targets
    BY <1>1, <2>1 DEF Coroutine, Targets
  <2>3. EntityVersion(c.task) \in Nat
    BY <2>2, EntityVersionIsNat DEF TypeInv
  <2>4. [version |-> EntityVersion(c.task) + 1, from |-> machine[w][c.task],
         to |-> c.to] \in Event
    BY <2>1, <2>2, <2>3 DEF Event
  <2>5. [NoRequest EXCEPT !.op = "save", !.task = c.task] \in Request
    BY <2>2 DEF NoRequest, Request
  <2>6. machine' \in [Workers -> [Tasks -> TaskStateNames \cup {"none"}]]
    BY <1>2, <2>1, <2>2 DEF RunTransition, TypeInv, TypeOK
  <2>7. pc' \in [Workers -> Phases] /\ req' \in [Workers -> Request]
        /\ draft' \in [Workers -> Event]
    BY <1>2, <2>4, <2>5 DEF RunTransition, TypeInv, TypeOK
  <2>8. HandlerOK'
    BY <1>2, <2>2 DEF RunTransition, TypeInv, TypeOK, HandlerOK, NoRequest
  <2> QED BY <1>1, <1>2, <2>6, <2>7, <2>8
          DEF RunTransition, TypeInv, TypeOK, LogHasGreatest
<1>3. CASE RejectTransition(w)
  BY <1>1, <1>3 DEF RejectTransition, local, TypeInv, TypeOK, HandlerOK, LogHasGreatest
<1>4. CASE RunRca(w)
  <2>1. c.task \in Tasks
    BY <1>1 DEF Coroutine
  <2> QED BY <1>1, <1>4, <2>1
          DEF RunRca, local, TypeInv, TypeOK, HandlerOK, LogHasGreatest
<1> QED BY <1>2, <1>3, <1>4 DEF EventLoop

LEMMA TypeInvStep == TypeInv /\ [Next]_vars => TypeInv'
<1> SUFFICES ASSUME TypeInv, [Next]_vars PROVE TypeInv'
  OBVIOUS
<1>1. CASE UNCHANGED vars
  BY <1>1 DEF vars, TypeInv, TypeOK, HandlerOK, LogHasGreatest
<1>2. ASSUME NEW w \in Workers, Receive(w) PROVE TypeInv'
  BY <1>2, LoadKeepsTypes, OthersKeepTypes DEF Receive
<1>3. ASSUME NEW w \in Workers, Handle(w) PROVE TypeInv'
  BY <1>3, CommitKeepsTypes, OthersKeepTypes, SaveKeepsTypes DEF Handle
<1>4. ASSUME NEW w \in Workers, EventLoop(w) PROVE TypeInv'
  BY <1>4, LoopKeepsTypes
<1>5. ASSUME NEW w \in Workers, Crash(w) PROVE TypeInv'
  BY <1>5, OthersKeepTypes
<1> QED BY <1>1, <1>2, <1>3, <1>4, <1>5 DEF Next

LEMMA TypeInvInit == Init => TypeInv
<1> SUFFICES ASSUME Init PROVE TypeInv
  OBVIOUS
<1>1. TypeOK
  BY NullsHaveTheirTypes, BoundsAssumption DEF Init, TypeOK
<1>2. HandlerOK /\ LogHasGreatest
  BY DEF Init, HandlerOK, LogHasGreatest, HasGreatest
<1> QED BY <1>1, <1>2 DEF TypeInv

LEMMA TypeInvAlways == Spec => []TypeInv
BY TypeInvInit, TypeInvStep, PTL DEF Spec

\* Every variable keeps its type, for any number of workers: rows show only
\* known statuses, machines only states of the task machine, and the log only
\* well-formed events.
THEOREM TypeCorrect == Spec => []TypeOK
<1>1. TypeInv => TypeOK
  BY DEF TypeInv
<1> QED BY <1>1, TypeInvAlways, PTL

(***************************************************************************)
(* What every number of workers guarantees about a row.  A handler writes  *)
(* back a row it loaded earlier, but only the columns it changed; so what  *)
(* matters of the loaded copy is that a device or a result it has seen is  *)
(* still there: neither column ever goes back to NULL.                     *)
(***************************************************************************)
Finished == TaskStatuses \ {"pending", "assigned"}

RowOK(r) ==
    /\ r.status = "assigned" => r.device # None
    /\ r.status \in Finished => r.result # None

\* What w has loaded has not been lost from the table since.
CopyOK(w) ==
    pc[w] = "loaded" =>
        LET current == row[req[w].task]
        IN  /\ seen[w].device # None => current.device # None
            /\ seen[w].result # None => current.result # None

RowInv == /\ \A t \in Tasks : RowOK(row[t])
          /\ \A w \in Workers : CopyOK(w)

\* Neither column is ever reset.
Keeps(old, new) == /\ old.device # None => new.device # None
                   /\ old.result # None => new.result # None

\* One flush: the manager's assignment gives a row that is fit, and the copy it
\* started from has seen nothing the table has lost.
LEMMA FlushKeepsRow ==
    ASSUME "assigned" \notin Reports, TypeInv, RowInv, NEW w \in Workers,
           CommitAssign(w) \/ CommitCancel(w) \/ CommitResult(w)
    PROVE  /\ RowOK(row'[req[w].task])
           /\ Keeps(row[req[w].task], row'[req[w].task])
           /\ \A u \in Tasks : u # req[w].task => row'[u] = row[u]
<1> DEFINE t == req[w].task
           old == row[t]
           was == seen[w]
<1>1. /\ t \in Tasks /\ pc[w] = "loaded"
      /\ old \in Row /\ was \in Row
  BY DEF TypeInv, TypeOK, HandlerOK, CommitAssign, CommitCancel, CommitResult
<1>2. RowOK(old) /\ Keeps(was, old)
  BY <1>1 DEF RowInv, CopyOK, Keeps
<1>3. \A u \in Tasks : u # t => row'[u] = row[u]
  BY <1>1 DEF TypeInv, TypeOK, CommitAssign, CommitCancel, CommitResult, Commit
<1>4. CASE CommitAssign(w)
  <2>1. req[w].device \in Devices /\ req[w].device # None
    BY <1>4, NoneIsNothing DEF CommitAssign, TypeInv, HandlerOK
  <2>2. row'[t] = Flush(old, was, Assigned(was, req[w]))
    BY <1>1, <1>4 DEF CommitAssign, Commit, TypeInv, TypeOK
  <2>3. /\ row'[t].status \in {old.status, "assigned"}
        /\ row'[t].device \in {old.device, req[w].device}
        /\ row'[t].device # None
        /\ row'[t].result = old.result
    BY <1>1, <1>2, <2>1, <2>2 DEF Flush, Assigned, Row, Keeps
  <2>4. RowOK(row'[t]) /\ Keeps(old, row'[t])
    BY <1>2, <2>3 DEF RowOK, Keeps, Finished
  <2> QED BY <1>3, <2>4
<1>5. CASE CommitCancel(w)
  <2>1. row'[t] = Flush(old, was, Cancelled(was, req[w]))
    BY <1>1, <1>5 DEF CommitCancel, Commit, TypeInv, TypeOK
  <2>2. /\ row'[t].status \in {old.status, "cancelled"}
        /\ row'[t].device = old.device
        /\ row'[t].result = old.result
    BY <1>1, <2>1 DEF Flush, Cancelled, Row
  <2>3. RowOK(row'[t]) /\ Keeps(old, row'[t])
    BY <1>2, <2>2 DEF RowOK, Keeps, Finished, TaskStatuses
  <2> QED BY <1>3, <2>3
<1>6. CASE CommitResult(w)
  <2>1. req[w].result \in Results /\ req[w].result # None
    BY <1>6, NoneIsNothing DEF CommitResult, TypeInv, HandlerOK, Results
  <2>2. req[w].result.status \in Reports
    BY <2>1 DEF Results
  <2>3. row'[t] = Flush(old, was, Recorded(was, req[w]))
    BY <1>1, <1>6 DEF CommitResult, Commit, TypeInv, TypeOK
  <2>4. /\ row'[t].status \in {old.status, req[w].result.status}
        /\ row'[t].device = old.device
        /\ row'[t].result # None
    BY <1>1, <1>2, <2>1, <2>3 DEF Flush, Recorded, Row, Keeps
  <2>5. RowOK(row'[t]) /\ Keeps(old, row'[t])
    BY <1>2, <2>2, <2>4 DEF RowOK, Keeps
  <2> QED BY <1>3, <2>5
<1> QED BY <1>4, <1>5, <1>6

\* Every step but a load: rows keep what they have and are fit, and a handler
\* that is still at its load is where it was.
LEMMA OtherRowsKept ==
    ASSUME TypeInv, RowInv, \A t \in Tasks : RowOK(row'[t]) /\ Keeps(row[t], row'[t]),
           \A v \in Workers : pc'[v] = "loaded" =>
               pc[v] = "loaded" /\ req'[v] = req[v] /\ seen'[v] = seen[v]
    PROVE  RowInv'
<1> SUFFICES ASSUME NEW v \in Workers, pc'[v] = "loaded" PROVE CopyOK(v)'
  BY DEF RowInv, CopyOK
<1>1. req'[v].task \in Tasks
  BY DEF TypeInv, HandlerOK
<1> QED BY <1>1 DEF RowInv, CopyOK, Keeps

\* The three handlers load alike, each under its own condition on the row.
LEMMA LoadsAlike ==
    ASSUME NEW w \in Workers, NEW t \in Tasks,
           \/ \E d \in Devices, batch \in BOOLEAN : LoadForAssign(w, t, d, batch)
           \/ LoadForCancel(w, t)
           \/ \E r \in Results : LoadForResult(w, t, r)
    PROVE  \E rq, to :
               /\ Load(w, rq, to) /\ rq.task = t
               /\ rq.op \in {"assign", "cancel", "record"}
               /\ rq.op = "assign" => row[t].status = "pending"
               /\ rq.op = "cancel" => row[t].status \in {"pending", "assigned"}
<1>1. ASSUME NEW d \in Devices, NEW batch \in BOOLEAN, LoadForAssign(w, t, d, batch)
      PROVE  \E rq, to : /\ Load(w, rq, to) /\ rq.task = t /\ rq.op = "assign"
                         /\ row[t].status = "pending"
  <2> DEFINE rq == [NoRequest EXCEPT !.op = "assign", !.task = t, !.device = d,
                                     !.batch = batch]
  <2>1. rq.task = t /\ rq.op = "assign"
    BY DEF NoRequest
  <2>2. Load(w, rq, "assigned") /\ row[t].status = "pending"
    BY <1>1 DEF LoadForAssign
  <2> HIDE DEF rq
  <2> QED BY <2>1, <2>2
<1>2. CASE LoadForCancel(w, t)
  <2> DEFINE rq == [NoRequest EXCEPT !.op = "cancel", !.task = t, !.batch = TRUE]
  <2>1. rq.task = t /\ rq.op = "cancel"
    BY DEF NoRequest
  <2>2. Load(w, rq, "cancelled") /\ row[t].status \in {"pending", "assigned"}
    BY <1>2 DEF LoadForCancel
  <2> HIDE DEF rq
  <2> QED BY <2>1, <2>2
<1>3. ASSUME NEW r \in Results, LoadForResult(w, t, r)
      PROVE  \E rq, to : Load(w, rq, to) /\ rq.task = t /\ rq.op = "record"
  <2> DEFINE rq == [NoRequest EXCEPT !.op = "record", !.task = t, !.result = r]
  <2>1. rq.task = t /\ rq.op = "record"
    BY DEF NoRequest
  <2>2. Load(w, rq, StateOfEnum(r.status))
    BY <1>3 DEF LoadForResult
  <2> HIDE DEF rq
  <2> QED BY <2>1, <2>2
<1> QED BY <1>1, <1>2, <1>3

\* A load copies the row as it is.
LEMMA LoadKeepsRows ==
    ASSUME TypeInv, RowInv, NEW w \in Workers, NEW t \in Tasks,
           \/ \E d \in Devices, batch \in BOOLEAN : LoadForAssign(w, t, d, batch)
           \/ LoadForCancel(w, t)
           \/ \E r \in Results : LoadForResult(w, t, r)
    PROVE  RowInv'
<1>1. /\ row' = row
      /\ \A v \in Workers : v # w =>
             pc'[v] = pc[v] /\ req'[v] = req[v] /\ seen'[v] = seen[v]
      /\ req'[w].task = t /\ seen'[w] = row[t]
  <2>1. PICK rq, to : Load(w, rq, to) /\ rq.task = t
    BY LoadsAlike
  <2> QED BY <2>1 DEF Load, TypeInv, TypeOK
<1> QED BY <1>1 DEF RowInv, CopyOK

LEMMA RowInvStep ==
    ASSUME "assigned" \notin Reports
    PROVE  TypeInv /\ RowInv /\ [Next]_vars => RowInv'
<1> SUFFICES ASSUME TypeInv, RowInv, [Next]_vars PROVE RowInv'
  OBVIOUS
<1>1. ASSUME NEW w \in Workers, NEW phase \in {"idle", "batch", "committed"},
             NEW rq, Leave(w, phase, rq)
      PROVE  \A v \in Workers : pc'[v] = "loaded" =>
                 pc[v] = "loaded" /\ req'[v] = req[v] /\ seen'[v] = seen[v]
  BY <1>1 DEF Leave, TypeInv, TypeOK
<1>2. CASE UNCHANGED vars
  BY <1>2 DEF vars, RowInv, CopyOK
<1>3. ASSUME NEW w \in Workers, NEW t \in Tasks, NEW batch \in BOOLEAN,
             CreateTask(w, t, batch)
      PROVE  RowInv'
  <2>1. \A u \in Tasks : RowOK(row'[u]) /\ Keeps(row[u], row'[u])
    BY <1>3 DEF CreateTask, TypeInv, TypeOK, Row, RowInv, RowOK, Keeps, Finished
  <2> QED BY <1>1, <1>3, <2>1, OtherRowsKept DEF CreateTask, NextItem, EndRequest
<1>4. ASSUME NEW w \in Workers, NEW t \in Tasks,
             \/ \E d \in Devices, batch \in BOOLEAN : LoadForAssign(w, t, d, batch)
             \/ LoadForCancel(w, t)
             \/ \E r \in Results : LoadForResult(w, t, r)
      PROVE  RowInv'
  BY <1>4, LoadKeepsRows
<1>5. ASSUME NEW w \in Workers, CommitAssign(w) \/ CommitCancel(w) \/ CommitResult(w)
      PROVE  RowInv'
  <2>1. \A u \in Tasks : RowOK(row'[u]) /\ Keeps(row[u], row'[u])
    BY <1>5, FlushKeepsRow DEF RowInv, Keeps
  <2>2. \E phase \in {"batch", "committed"} : \E rq : Leave(w, phase, rq)
    BY <1>5 DEF CommitAssign, CommitCancel, CommitResult, NextItem
  <2> QED BY <1>1, <2>1, <2>2, OtherRowsKept
<1>6. ASSUME NEW w \in Workers, UNCHANGED row, Leave(w, "idle", NoRequest)
      PROVE  RowInv'
  <2>1. \A u \in Tasks : RowOK(row'[u]) /\ Keeps(row[u], row'[u])
    BY <1>6 DEF RowInv, Keeps
  <2> QED BY <1>1, <1>6, <2>1, OtherRowsKept
<1>7. ASSUME NEW w \in Workers, EventLoop(w) PROVE RowInv'
  <2>1. \A u \in Tasks : RowOK(row'[u]) /\ Keeps(row[u], row'[u])
    BY <1>7 DEF EventLoop, RunTransition, RejectTransition, RunRca, RowInv, Keeps
  <2>2. \A v \in Workers : pc'[v] = "loaded" =>
            pc[v] = "loaded" /\ req'[v] = req[v] /\ seen'[v] = seen[v]
    BY <1>7 DEF EventLoop, RunTransition, RejectTransition, RunRca, local,
                TypeInv, TypeOK
  <2> QED BY <2>1, <2>2, OtherRowsKept
<1>8. ASSUME NEW w \in Workers, Receive(w) PROVE RowInv'
  BY <1>3, <1>4, <1>6, <1>8 DEF Receive, CreateDuplicate, EndRequest
<1>9. ASSUME NEW w \in Workers, Handle(w) PROVE RowInv'
  BY <1>5, <1>6, <1>9 DEF Handle, CommitFails, PublishAssigned, PublishResult,
                          EndBatch, SaveEvent, SaveFails, EndRequest
<1>10. ASSUME NEW w \in Workers, Crash(w) PROVE RowInv'
  BY <1>6, <1>10 DEF Crash, EndRequest
<1> QED BY <1>2, <1>7, <1>8, <1>9, <1>10 DEF Next

LEMMA RowInvAlways ==
    ASSUME "assigned" \notin Reports
    PROVE  Spec => []RowInv
<1>1. Init => RowInv
  BY DEF Init, RowInv, RowOK, CopyOK, NoRow, Finished, TaskStatuses
<1>2. TypeInv /\ RowInv /\ [Next]_vars => RowInv'
  BY RowInvStep
<1> QED BY <1>1, <1>2, TypeInvAlways, PTL DEF Spec

\* Whatever the number of workers and however their handlers interleave, a
\* task shown as assigned names a device, provided no result says "assigned".
THEOREM AssignedAlwaysHasDevice ==
    ASSUME "assigned" \notin Reports
    PROVE  Spec => []AssignedHasDevice
<1>1. RowInv => AssignedHasDevice
  BY DEF RowInv, RowOK, AssignedHasDevice
<1> QED BY <1>1, RowInvAlways, PTL

\* Under the same condition a task shown in a final status carries a result:
\* the partial UPDATEs of racing workers never separate one from the other.
THEOREM FinishedAlwaysHasResult ==
    ASSUME "assigned" \notin Reports
    PROVE  Spec => []FinishedHasResult
<1>1. RowInv => FinishedHasResult
  BY DEF RowInv, RowOK, FinishedHasResult, Finished
<1> QED BY <1>1, RowInvAlways, PTL

(***************************************************************************)
(* One process.  Its handlers do not overlap, so the row a handler writes  *)
(* is the row it loaded: the queue implements TaskLedger, and what holds of *)
(* the ledger's steps holds of the table.                                  *)
(***************************************************************************)
OneProcess == \A v, w \in Workers : v = w

SoloInv ==
    \A w \in Workers : pc[w] = "loaded" =>
        /\ seen[w] = row[req[w].task]
        /\ seen[w].status # "absent"
        /\ req[w].op = "assign" => seen[w].status = "pending"
        /\ req[w].op = "cancel" => seen[w].status \in {"pending", "assigned"}

LEMMA SoloInvStep ==
    ASSUME OneProcess
    PROVE  TypeInv /\ SoloInv /\ [Next]_vars => SoloInv'
<1> SUFFICES ASSUME TypeInv, SoloInv, [Next]_vars PROVE SoloInv'
  OBVIOUS
<1>1. ASSUME NEW w \in Workers, NEW phase \in {"idle", "batch", "committed"},
             NEW rq, Leave(w, phase, rq)
      PROVE  SoloInv'
  BY <1>1 DEF Leave, TypeInv, TypeOK, SoloInv, OneProcess
<1>2. CASE UNCHANGED vars
  BY <1>2 DEF vars, SoloInv
<1>3. ASSUME NEW w \in Workers, NEW t \in Tasks,
             \/ \E d \in Devices, batch \in BOOLEAN : LoadForAssign(w, t, d, batch)
             \/ LoadForCancel(w, t)
             \/ \E r \in Results : LoadForResult(w, t, r)
      PROVE  SoloInv'
  <2>1. PICK rq, to : /\ Load(w, rq, to) /\ rq.task = t
                      /\ rq.op = "assign" => row[t].status = "pending"
                      /\ rq.op = "cancel" => row[t].status \in {"pending", "assigned"}
    BY <1>3, LoadsAlike
  <2> QED BY <2>1 DEF Load, TypeInv, TypeOK, SoloInv, OneProcess
<1>4. ASSUME NEW w \in Workers, EventLoop(w) PROVE SoloInv'
  BY <1>4 DEF EventLoop, RunTransition, RejectTransition, RunRca, local, Runs,
              TypeInv, TypeOK, SoloInv, OneProcess
<1>5. ASSUME NEW w \in Workers, Receive(w) PROVE SoloInv'
  BY <1>1, <1>3, <1>5 DEF Receive, CreateTask, CreateDuplicate, NextItem, EndRequest
<1>6. ASSUME NEW w \in Workers, Handle(w) PROVE SoloInv'
  BY <1>1, <1>6 DEF Handle, CommitAssign, CommitCancel, CommitResult, CommitFails,
                    PublishAssigned, PublishResult, EndBatch, SaveEvent, SaveFails,
                    NextItem, EndRequest
<1>7. ASSUME NEW w \in Workers, Crash(w) PROVE SoloInv'
  BY <1>1, <1>7 DEF Crash, EndRequest
<1> QED BY <1>2, <1>4, <1>5, <1>6, <1>7 DEF Next

LEMMA SoloInvAlways ==
    ASSUME OneProcess
    PROVE  Spec => []SoloInv
<1>1. Init => SoloInv
  BY DEF Init, SoloInv
<1>2. TypeInv /\ SoloInv /\ [Next]_vars => SoloInv'
  BY SoloInvStep
<1> QED BY <1>1, <1>2, TypeInvAlways, PTL DEF Spec

\* Every step of the queue is a step of the ledger, or leaves the table alone.
LEMMA StepIsLedgerStep ==
    TypeInv /\ SoloInv /\ [Next]_vars => [Ledger!Next]_row
<1> SUFFICES ASSUME TypeInv, SoloInv, [Next]_vars PROVE [Ledger!Next]_row
  OBVIOUS
<1>1. ASSUME NEW w \in Workers, NEW t \in Tasks, NEW batch \in BOOLEAN,
             CreateTask(w, t, batch)
      PROVE  Ledger!Next
  BY <1>1 DEF CreateTask, Ledger!Next, Ledger!Create
<1>2. ASSUME NEW w \in Workers, NEW new \in Row, pc[w] = "loaded", Commit(w, new)
      PROVE  row' = [row EXCEPT ![req[w].task] = new]
  <2>1. req[w].task \in Tasks /\ seen[w] = row[req[w].task]
    BY <1>2 DEF TypeInv, HandlerOK, SoloInv
  <2>2. Flush(row[req[w].task], seen[w], new) = new
    BY <2>1 DEF Flush, Row
  <2> QED BY <1>2, <2>2 DEF Commit
<1>3. ASSUME NEW w \in Workers, CommitAssign(w) PROVE Ledger!Next
  <2> DEFINE t == req[w].task  d == req[w].device
  <2>1. /\ t \in Tasks /\ d \in Devices /\ row[t] \in Row
        /\ seen[w] = row[t] /\ row[t].status = "pending" /\ pc[w] = "loaded"
    BY <1>3 DEF CommitAssign, TypeInv, TypeOK, HandlerOK, SoloInv
  <2>2. Assigned(row[t], req[w]) \in Row
    BY <2>1 DEF Assigned, Row, RowStatuses, TaskStatuses
  <2>3. row' = [row EXCEPT ![t] = Assigned(row[t], req[w])]
    BY <1>2, <1>3, <2>1, <2>2 DEF CommitAssign
  <2>4. Ledger!Assign(t, d)
    BY <2>1, <2>3 DEF Ledger!Assign, Assigned, TypeInv, TypeOK, Row
  <2> QED BY <2>1, <2>4 DEF Ledger!Next
<1>4. ASSUME NEW w \in Workers, CommitCancel(w) PROVE Ledger!Next
  <2> DEFINE t == req[w].task
  <2>1. /\ t \in Tasks /\ row[t] \in Row /\ pc[w] = "loaded"
        /\ seen[w] = row[t] /\ row[t].status \in {"pending", "assigned"}
    BY <1>4 DEF CommitCancel, TypeInv, TypeOK, HandlerOK, SoloInv
  <2>2. Cancelled(row[t], req[w]) \in Row
    BY <2>1 DEF Cancelled, Row, RowStatuses
  <2>3. row' = [row EXCEPT ![t] = Cancelled(row[t], req[w])]
    BY <1>2, <1>4, <2>1, <2>2 DEF CommitCancel
  <2>4. Ledger!Cancel(t)
    BY <2>1, <2>3 DEF Ledger!Cancel, Cancelled, TypeInv, TypeOK, Row
  <2> QED BY <2>1, <2>4 DEF Ledger!Next
<1>5. ASSUME NEW w \in Workers, CommitResult(w) PROVE Ledger!Next
  <2> DEFINE t == req[w].task  r == req[w].result
  <2>1. /\ t \in Tasks /\ row[t] \in Row /\ pc[w] = "loaded" /\ r \in Results
        /\ seen[w] = row[t] /\ row[t].status # "absent"
    BY <1>5 DEF CommitResult, TypeInv, TypeOK, HandlerOK, SoloInv
  <2>2. r.status \in RowStatuses
    BY <2>1, ReportsAreStatuses DEF Results, RowStatuses
  <2>3. Recorded(row[t], req[w]) \in Row
    BY <2>1, <2>2 DEF Recorded, Row
  <2>4. row' = [row EXCEPT ![t] = Recorded(row[t], req[w])]
    BY <1>2, <1>5, <2>1, <2>3 DEF CommitResult
  <2>5. Ledger!Record(t, r)
    BY <2>1, <2>4 DEF Ledger!Record, Recorded, TypeInv, TypeOK, Row
  <2> QED BY <2>1, <2>5 DEF Ledger!Next, Results
<1>6. CASE UNCHANGED row
  BY <1>6
<1>7. ASSUME NEW w \in Workers, Receive(w) PROVE Ledger!Next \/ UNCHANGED row
  BY <1>1, <1>7 DEF Receive, CreateDuplicate, LoadForAssign, LoadForCancel,
                    LoadForResult, Load
<1>8. ASSUME NEW w \in Workers, Handle(w) PROVE Ledger!Next \/ UNCHANGED row
  BY <1>3, <1>4, <1>5, <1>8 DEF Handle, CommitFails, PublishAssigned, PublishResult,
                                EndBatch, SaveEvent, SaveFails
<1>9. ASSUME NEW w \in Workers, EventLoop(w) \/ Crash(w) PROVE UNCHANGED row
  BY <1>9 DEF EventLoop, RunTransition, RejectTransition, RunRca, Crash
<1> QED BY <1>6, <1>7, <1>8, <1>9 DEF Next, vars

\* One process implements the ledger: the task table changes as if each
\* request were a single step, through crashes, failed commits and batches.
THEOREM OneProcessImplementsLedger ==
    ASSUME OneProcess
    PROVE  Spec => ImplementsLedger
<1>1. Init => Ledger!Init
  BY DEF Init, NoRow, Ledger!Init
<1>2. TypeInv /\ SoloInv /\ [Next]_vars => [Ledger!Next]_row
  BY StepIsLedgerStep
<1> QED BY <1>1, <1>2, TypeInvAlways, SoloInvAlways, PTL
        DEF Spec, ImplementsLedger, Ledger!Spec

\* What one step of the ledger may do to a row.
LedgerMove(old, new) ==
    \/ new = old
    \/ old.status = "absent" /\ new = [old EXCEPT !.status = "pending"]
    \/ old.status = "pending" /\ new.status = "assigned" /\ new.result = old.result
    \/ \E r \in Results : new = [old EXCEPT !.status = r.status, !.result = r]
    \/ /\ old.status \in {"pending", "assigned"}
       /\ new = [old EXCEPT !.status = "cancelled"]

LEMMA LedgerMoves ==
    ASSUME TypeInv, [Ledger!Next]_row
    PROVE  \A t \in Tasks : LedgerMove(row[t], row'[t])
<1>1. row \in [Tasks -> Row]
  BY DEF TypeInv, TypeOK
<1>2. CASE UNCHANGED row
  BY <1>2 DEF LedgerMove
<1>3. ASSUME NEW t \in Tasks, Ledger!Create(t)
      PROVE  \A u \in Tasks : LedgerMove(row[u], row'[u])
  BY <1>1, <1>3 DEF Ledger!Create, LedgerMove, Row
<1>4. ASSUME NEW t \in Tasks, NEW d \in Devices, Ledger!Assign(t, d)
      PROVE  \A u \in Tasks : LedgerMove(row[u], row'[u])
  BY <1>1, <1>4 DEF Ledger!Assign, LedgerMove, Row
<1>5. ASSUME NEW t \in Tasks, NEW r \in Results, Ledger!Record(t, r)
      PROVE  \A u \in Tasks : LedgerMove(row[u], row'[u])
  <2>1. row'[t] = [row[t] EXCEPT !.status = r.status, !.result = r]
    BY <1>1, <1>5 DEF Ledger!Record, Row
  <2>2. \A u \in Tasks : u # t => row'[u] = row[u]
    BY <1>1, <1>5 DEF Ledger!Record
  <2> QED BY <2>1, <2>2 DEF LedgerMove
<1>6. ASSUME NEW t \in Tasks, Ledger!Cancel(t)
      PROVE  \A u \in Tasks : LedgerMove(row[u], row'[u])
  BY <1>1, <1>6 DEF Ledger!Cancel, LedgerMove, Row
<1> QED BY <1>2, <1>3, <1>4, <1>5, <1>6 DEF Ledger!Next, Results

\* With one process a second assignment fails: a device is only ever put in
\* the row of a pending task.
THEOREM OneProcessAssignsOnce ==
    ASSUME OneProcess
    PROVE  Spec => AssignsOnlyPending
<1> DEFINE A == \A t \in Tasks : row'[t].device # row[t].device
                                     => row[t].status = "pending"
<1>1. TypeInv /\ SoloInv /\ [Next]_vars => [A]_vars
  <2> SUFFICES ASSUME TypeInv, SoloInv, [Next]_vars PROVE A
    OBVIOUS
  <2>1. \A t \in Tasks : LedgerMove(row[t], row'[t])
    BY StepIsLedgerStep, LedgerMoves
  <2>2. \A t \in Tasks : row[t] \in Row
    BY DEF TypeInv, TypeOK
  <2> QED BY <2>1, <2>2 DEF LedgerMove, Row
<1> QED BY <1>1, TypeInvAlways, SoloInvAlways, PTL DEF Spec, AssignsOnlyPending

\* With one process a cancel never hides the final status of a task.
THEOREM OneProcessCancelsOnlyUnfinished ==
    ASSUME OneProcess
    PROVE  Spec => CancelSparesFinished
<1> DEFINE A == \A t \in Tasks :
                    row'[t].status = "cancelled" /\ row[t].status # "cancelled"
                        => row[t].status \in {"pending", "assigned"}
<1>1. TypeInv /\ SoloInv /\ [Next]_vars => [A]_vars
  <2> SUFFICES ASSUME TypeInv, SoloInv, [Next]_vars, NEW t \in Tasks,
                      row'[t].status = "cancelled", row[t].status # "cancelled"
               PROVE  row[t].status \in {"pending", "assigned"}
    OBVIOUS
  <2>1. LedgerMove(row[t], row'[t])
    BY StepIsLedgerStep, LedgerMoves
  <2>2. row[t] \in Row
    BY DEF TypeInv, TypeOK
  <2>3. \A r \in Results : r.status # "cancelled"
    BY ReportsAreStatuses DEF Results, TaskStatuses
  <2> QED BY <2>1, <2>2, <2>3 DEF LedgerMove, Row
<1> QED BY <1>1, TypeInvAlways, SoloInvAlways, PTL DEF Spec, CancelSparesFinished

\* With one process the status of a row agrees with the result it carries.
THEOREM OneProcessResultMatches ==
    ASSUME OneProcess
    PROVE  Spec => []ResultMatchesStatus
<1> DEFINE Inv == /\ ResultMatchesStatus
                  /\ \A t \in Tasks : row[t].status = "absent" => row[t].result = None
<1>1. Init => Inv
  BY DEF Init, ResultMatchesStatus, NoRow
<1>2. TypeInv /\ SoloInv /\ Inv /\ [Next]_vars => Inv'
  <2> SUFFICES ASSUME TypeInv, SoloInv, Inv, [Next]_vars,
                      NEW t \in Tasks
               PROVE  /\ row'[t].result # None =>
                            LET reported == row'[t].result.status
                            IN  \/ row'[t].status = reported
                                \/ row'[t].status = "assigned" /\ reported = "pending"
                                \/ /\ row'[t].status = "cancelled"
                                   /\ reported \in {"pending", "assigned"}
                      /\ row'[t].status = "absent" => row'[t].result = None
    BY DEF ResultMatchesStatus
  <2>1. LedgerMove(row[t], row'[t])
    BY StepIsLedgerStep, LedgerMoves
  <2>2. row[t] \in Row
    BY DEF TypeInv, TypeOK
  <2>3. \A r \in Results : r.status # "absent" /\ r.status # "cancelled"
    BY ReportsAreStatuses DEF Results, TaskStatuses
  <2> QED BY <2>1, <2>2, <2>3 DEF LedgerMove, Row, ResultMatchesStatus
<1> QED BY <1>1, <1>2, TypeInvAlways, SoloInvAlways, PTL DEF Spec

\* With one process the row that is read again after the commit of a result
\* still shows that result.
PublishInv ==
    /\ PublishedAsReported
    /\ \A w \in Workers : pc[w] = "committed" /\ req[w].op = "record" =>
           row[req[w].task].status = req[w].result.status

LEMMA PublishInvStep ==
    ASSUME OneProcess
    PROVE  TypeInv /\ SoloInv /\ PublishInv /\ [Next]_vars => PublishInv'
<1> SUFFICES ASSUME TypeInv, SoloInv, PublishInv, [Next]_vars PROVE PublishInv'
  OBVIOUS
<1>1. ASSUME NEW w \in Workers, pc'[w] # "committed", UNCHANGED channel
      PROVE  PublishInv'
  BY <1>1 DEF PublishInv, PublishedAsReported, OneProcess
<1>2. ASSUME NEW w \in Workers, pc'[w] # "committed", NEW t \in Tasks, NEW m,
             channel' = [channel EXCEPT ![t] = m],
             m.result # None => /\ m.status = m.result.status
                                /\ m.type = "task.completed" <=> m.result.status = "success"
      PROVE  PublishInv'
  <2>1. \A u \in Tasks : channel'[u] = IF u = t THEN m ELSE channel[u]
    BY <1>2 DEF TypeInv, TypeOK
  <2>2. PublishedAsReported'
    BY <1>2, <2>1 DEF PublishInv, PublishedAsReported
  <2> QED BY <1>2, <2>2 DEF PublishInv, OneProcess
<1>3. CASE UNCHANGED vars
  BY <1>3 DEF vars, PublishInv, PublishedAsReported
<1>4. ASSUME NEW w \in Workers, NEW t \in Tasks, NEW batch \in BOOLEAN,
             CreateTask(w, t, batch)
      PROVE  PublishInv'
  <2>1. pc'[w] # "committed"
    BY <1>4 DEF CreateTask, NextItem, EndRequest, Leave, TypeInv, TypeOK
  <2>2. CASE batch
    BY <1>1, <1>4, <2>1, <2>2 DEF CreateTask
  <2>3. CASE ~batch
    <3> DEFINE m == [NoMessage EXCEPT !.type = "task.created"]
    <3>1. m.result = None
      BY DEF NoMessage
    <3>2. channel' = [channel EXCEPT ![t] = m]
      BY <1>4, <2>3 DEF CreateTask
    <3> HIDE DEF m
    <3> QED BY <1>2, <2>1, <3>1, <3>2
  <2> QED BY <2>2, <2>3
<1>5. ASSUME NEW w \in Workers, Receive(w) PROVE PublishInv'
  <2>1. ASSUME NEW rq, NEW to, Load(w, rq, to) PROVE PublishInv'
    BY <1>1, <2>1 DEF Load, TypeInv, TypeOK
  <2>2. ASSUME NEW t \in Tasks, NEW batch \in BOOLEAN, CreateDuplicate(w, t, batch)
        PROVE  PublishInv'
    BY <1>1, <2>2 DEF CreateDuplicate, EndRequest, Leave, TypeInv, TypeOK
  <2> QED BY <1>4, <1>5, <2>1, <2>2, LoadsAlike DEF Receive
<1>6. ASSUME NEW w \in Workers, CommitResult(w) PROVE PublishInv'
  <2> DEFINE t == req[w].task  r == req[w].result
  <2>1. t \in Tasks /\ r \in Results /\ row[t] \in Row /\ seen[w] = row[t]
    BY <1>6 DEF CommitResult, TypeInv, TypeOK, HandlerOK, SoloInv
  <2>2. row' = [row EXCEPT ![t] = Flush(row[t], row[t], Recorded(row[t], req[w]))]
    BY <1>6, <2>1 DEF CommitResult, Commit
  <2>3. row'[t].status = r.status
    BY <2>1, <2>2 DEF Flush, Recorded, Row, TypeInv, TypeOK
  <2>4. req' = req /\ channel' = channel
    BY <1>6 DEF CommitResult, Leave, TypeInv, TypeOK
  <2> QED BY <2>3, <2>4 DEF PublishInv, PublishedAsReported, OneProcess
<1>7. ASSUME NEW w \in Workers, CommitAssign(w) \/ CommitCancel(w) PROVE PublishInv'
  <2>1. channel' = channel
    BY <1>7 DEF CommitAssign, CommitCancel
  <2>2. pc'[w] = "committed" => req'[w].op # "record"
    BY <1>7 DEF CommitAssign, CommitCancel, NextItem, Leave, TypeInv, TypeOK
  <2> QED BY <2>1, <2>2 DEF PublishInv, PublishedAsReported, OneProcess
<1>8. ASSUME NEW w \in Workers, PublishAssigned(w) PROVE PublishInv'
  <2> DEFINE t == req[w].task
             m == [type |-> "task.assigned", status |-> row[t].status,
                   device |-> req[w].device, result |-> None]
  <2>1. t \in Tasks /\ pc'[w] # "committed"
    BY <1>8 DEF PublishAssigned, EndRequest, Leave, TypeInv, TypeOK, HandlerOK
  <2>2. m.result = None /\ channel' = [channel EXCEPT ![t] = m]
    BY <1>8 DEF PublishAssigned
  <2> HIDE DEF m
  <2> QED BY <1>2, <2>1, <2>2
<1>9. ASSUME NEW w \in Workers, PublishResult(w) PROVE PublishInv'
  <2> DEFINE t == req[w].task
             m == [type |-> ResultEvent(row[t].status), status |-> row[t].status,
                   device |-> row[t].device, result |-> req[w].result]
  <2>1. t \in Tasks /\ pc'[w] # "committed"
    BY <1>9 DEF PublishResult, EndRequest, Leave, TypeInv, TypeOK, HandlerOK
  <2>2. channel' = [channel EXCEPT ![t] = m]
    BY <1>9 DEF PublishResult
  <2>3. /\ m.status = m.result.status
        /\ m.type = "task.completed" <=> m.result.status = "success"
    BY <1>9 DEF PublishResult, PublishInv, ResultEvent
  <2> HIDE DEF m
  <2> QED BY <1>2, <2>1, <2>2, <2>3
<1>10. ASSUME NEW w \in Workers,
              CommitFails(w) \/ EndBatch(w) \/ SaveEvent(w) \/ SaveFails(w) \/ Crash(w)
       PROVE  PublishInv'
  BY <1>1, <1>10 DEF CommitFails, EndBatch, SaveEvent, SaveFails, Crash, EndRequest,
                     Leave, TypeInv, TypeOK
<1>11. ASSUME NEW w \in Workers, EventLoop(w) PROVE PublishInv'
  BY <1>1, <1>11 DEF EventLoop, RunTransition, RejectTransition, RunRca, Runs, local,
                     TypeInv, TypeOK
<1> QED BY <1>3, <1>5, <1>6, <1>7, <1>8, <1>9, <1>10, <1>11 DEF Next, Handle

\* With one process the message published for a result tells one story.
THEOREM OneProcessPublishesAsReported ==
    ASSUME OneProcess
    PROVE  Spec => []PublishedAsReported
<1>1. Init => PublishInv
  BY DEF Init, PublishInv, PublishedAsReported, NoMessage
<1>2. TypeInv /\ SoloInv /\ PublishInv /\ [Next]_vars => PublishInv'
  BY PublishInvStep
<1>3. PublishInv => PublishedAsReported
  BY DEF PublishInv
<1> QED BY <1>1, <1>2, <1>3, TypeInvAlways, SoloInvAlways, PTL DEF Spec

(***************************************************************************)
(* The event store.                                                        *)
(***************************************************************************)
\* A machine that only gets requests for "assigned", "cancelled" and the text
\* of an enumeration member never leaves PENDING but for ASSIGNED.
LogInv ==
    /\ OnlyAssignmentsLogged
    /\ \A w \in Workers :
        /\ \A t \in Tasks : machine[w][t] \in {"none", "pending", "assigned"}
        /\ \A i \in DOMAIN ready[w] : ready[w][i].kind = "transition" =>
               ready[w][i].to \in {"assigned", "cancelled", "TaskStatus.*"}
        /\ pc[w] = "saving" => draft[w].from = "pending" /\ draft[w].to = "assigned"

\* Leaving a phase for one that is not "saving" needs only the log and queues.
LEMMA LogInvStep == TypeInv /\ LogInv /\ [Next]_vars => LogInv'
<1> SUFFICES ASSUME TypeInv, LogInv, [Next]_vars PROVE LogInv'
  OBVIOUS
<1>1. ASSUME NEW w \in Workers, NEW phase \in {"idle", "batch", "committed"},
             NEW rq, Leave(w, phase, rq), UNCHANGED <<log, machine, ready>>
      PROVE  LogInv'
  BY <1>1 DEF Leave, LogInv, OnlyAssignmentsLogged, TypeInv, TypeOK
<1>2. CASE UNCHANGED vars
  BY <1>2 DEF vars, LogInv, OnlyAssignmentsLogged
<1>3. ASSUME NEW w \in Workers, NEW t \in Tasks, NEW rq,
             NEW to \in {"assigned", "cancelled", "TaskStatus.*"},
             rq.task = t, Load(w, rq, to)
      PROVE  LogInv'
  <2>1. /\ UNCHANGED <<log, draft>>
        /\ \A v \in Workers : pc'[v] = "saving" => pc[v] = "saving"
    BY <1>3 DEF Load, TypeInv, TypeOK
  <2>2. \A v \in Workers, u \in Tasks :
            machine'[v][u] \in {"none", "pending", "assigned"}
    BY <1>3 DEF Load, Defer, LogInv, TypeInv, TypeOK
  <2>3. \A v \in Workers : v # w => ready'[v] = ready[v]
    BY <1>3 DEF Load, Defer, TypeInv, TypeOK
  <2>4. /\ ready[w] \in Seq(Coroutine)
        /\ ready'[w] = Append(ready[w], [kind |-> "transition", task |-> t, to |-> to])
    BY <1>3 DEF Load, Defer, TypeInv, TypeOK
  <2>5. \A i \in DOMAIN ready'[w] : ready'[w][i].kind = "transition" =>
            ready'[w][i].to \in {"assigned", "cancelled", "TaskStatus.*"}
    BY <2>4 DEF LogInv
  <2> QED BY <2>1, <2>2, <2>3, <2>5 DEF LogInv, OnlyAssignmentsLogged
<1>4. ASSUME NEW w \in Workers, EventLoop(w) PROVE LogInv'
  <2> DEFINE c == Head(ready[w])
  <2>1. ready[w] \in Seq(Coroutine) /\ ready[w] # <<>> /\ pc[w] = "idle"
    BY <1>4 DEF EventLoop, RunTransition, RejectTransition, RunRca, Runs, TypeInv, TypeOK
  <2>2. ready' = [ready EXCEPT ![w] = Tail(ready[w])]
    BY <1>4 DEF EventLoop, RunTransition, RejectTransition, RunRca, Runs
  <2>3. \A v \in Workers : \A i \in DOMAIN ready'[v] : ready'[v][i].kind = "transition" =>
            ready'[v][i].to \in {"assigned", "cancelled", "TaskStatus.*"}
    <3>1. \A i \in DOMAIN Tail(ready[w]) :
              i + 1 \in DOMAIN ready[w] /\ Tail(ready[w])[i] = ready[w][i + 1]
      BY <2>1
    <3> QED BY <2>2, <3>1 DEF LogInv, TypeInv, TypeOK
  <2>4. 1 \in DOMAIN ready[w] /\ c = ready[w][1] /\ c \in Coroutine
    BY <2>1
  <2>5. CASE RunTransition(w)
    <3>1. /\ c.kind = "transition" /\ c.task \in Tasks
          /\ c.to \in {"assigned", "cancelled", "TaskStatus.*"}
      BY <2>4, <2>5 DEF RunTransition, Runs, Coroutine, LogInv
    <3>2. machine[w][c.task] \in {"none", "pending", "assigned"}
      BY <3>1 DEF LogInv
    <3>3. CanTransition(machine[w][c.task], c.to)
      BY <2>5 DEF RunTransition
    <3>4. machine[w][c.task] = "pending" /\ c.to = "assigned"
      BY <3>1, <3>2, <3>3 DEF CanTransition, TaskTransitions
    <3>5. \A v \in Workers, u \in Tasks :
              machine'[v][u] \in {"none", "pending", "assigned"}
      BY <2>5, <3>1, <3>4 DEF RunTransition, LogInv, TypeInv, TypeOK
    <3>6. \A v \in Workers : pc'[v] = "saving" =>
              draft'[v].from = "pending" /\ draft'[v].to = "assigned"
      BY <2>5, <3>4 DEF RunTransition, LogInv, TypeInv, TypeOK
    <3> QED BY <2>3, <2>5, <3>5, <3>6 DEF RunTransition, LogInv, OnlyAssignmentsLogged
  <2>6. CASE RejectTransition(w) \/ RunRca(w)
    BY <2>3, <2>6 DEF RejectTransition, RunRca, local, LogInv, OnlyAssignmentsLogged,
                      TypeInv, TypeOK
  <2> QED BY <1>4, <2>5, <2>6 DEF EventLoop
<1>5. ASSUME NEW w \in Workers, SaveEvent(w) PROVE LogInv'
  <2> DEFINE t == req[w].task
  <2>1. t \in Tasks /\ log[t] \in Seq(Event) /\ draft[w] \in Event
        /\ draft[w].from = "pending" /\ draft[w].to = "assigned"
    BY <1>5 DEF SaveEvent, TypeInv, TypeOK, HandlerOK, LogInv
  <2>2. log' = [log EXCEPT ![t] = Append(log[t], draft[w])]
    BY <1>5 DEF SaveEvent
  <2>3. \A i \in DOMAIN Append(log[t], draft[w]) :
            /\ Append(log[t], draft[w])[i].from = "pending"
            /\ Append(log[t], draft[w])[i].to = "assigned"
    BY <2>1 DEF LogInv, OnlyAssignmentsLogged
  <2>4. OnlyAssignmentsLogged'
    BY <2>1, <2>2, <2>3 DEF LogInv, OnlyAssignmentsLogged, TypeInv, TypeOK
  <2>5. /\ UNCHANGED <<machine, ready>>
        /\ \A v \in Workers : pc'[v] = "saving" => pc[v] = "saving" /\ draft'[v] = draft[v]
    BY <1>5 DEF SaveEvent, EndRequest, Leave, TypeInv, TypeOK
  <2> QED BY <2>4, <2>5 DEF LogInv
<1>6. ASSUME NEW w \in Workers, Crash(w) PROVE LogInv'
  BY <1>6 DEF Crash, EndRequest, Leave, LogInv, OnlyAssignmentsLogged, TypeInv, TypeOK
<1>7. ASSUME NEW w \in Workers, PublishResult(w) PROVE LogInv'
  <2>1. /\ UNCHANGED <<log, machine>> /\ Leave(w, "idle", NoRequest)
    BY <1>7 DEF PublishResult, EndRequest
  <2>2. \A v \in Workers : \A i \in DOMAIN ready'[v] : ready'[v][i].kind = "transition" =>
            ready'[v][i].to \in {"assigned", "cancelled", "TaskStatus.*"}
    <3>1. CASE ready' = ready
      BY <3>1 DEF LogInv
    <3>2. CASE ready' = [ready EXCEPT ![w] = Append(ready[w],
                   [kind |-> "rca", task |-> req[w].task, to |-> None])]
      BY <3>2 DEF LogInv, TypeInv, TypeOK
    <3> QED BY <1>7, <3>1, <3>2 DEF PublishResult
  <2> QED BY <2>1, <2>2 DEF Leave, LogInv, OnlyAssignmentsLogged, TypeInv, TypeOK
<1>8. ASSUME NEW w \in Workers, Handle(w) PROVE LogInv'
  BY <1>1, <1>5, <1>7, <1>8 DEF Handle, CommitAssign, CommitCancel, CommitResult,
         CommitFails, PublishAssigned, EndBatch, SaveFails, NextItem, EndRequest
<1>9. ASSUME NEW w \in Workers, Receive(w) PROVE LogInv'
  <2>1. ASSUME NEW t \in Tasks, NEW d \in Devices, NEW batch \in BOOLEAN,
               LoadForAssign(w, t, d, batch)
        PROVE  LogInv'
    <3> DEFINE rq == [NoRequest EXCEPT !.op = "assign", !.task = t, !.device = d,
                                       !.batch = batch]
    <3>1. rq.task = t
      BY DEF NoRequest
    <3>2. Load(w, rq, "assigned")
      BY <2>1 DEF LoadForAssign
    <3> HIDE DEF rq
    <3> QED BY <1>3, <3>1, <3>2
  <2>2. ASSUME NEW t \in Tasks, LoadForCancel(w, t) PROVE LogInv'
    <3> DEFINE rq == [NoRequest EXCEPT !.op = "cancel", !.task = t, !.batch = TRUE]
    <3>1. rq.task = t
      BY DEF NoRequest
    <3>2. Load(w, rq, "cancelled")
      BY <2>2 DEF LoadForCancel
    <3> HIDE DEF rq
    <3> QED BY <1>3, <3>1, <3>2
  <2>3. ASSUME NEW t \in Tasks, NEW r \in Results, LoadForResult(w, t, r)
        PROVE  LogInv'
    <3> DEFINE rq == [NoRequest EXCEPT !.op = "record", !.task = t, !.result = r]
    <3>1. rq.task = t
      BY DEF NoRequest
    <3>2. Load(w, rq, "TaskStatus.*")
      BY <2>3 DEF LoadForResult, StateOfEnum
    <3> HIDE DEF rq
    <3> QED BY <1>3, <3>1, <3>2
  <2>4. ASSUME NEW t \in Tasks, NEW batch \in BOOLEAN,
               CreateTask(w, t, batch) \/ CreateDuplicate(w, t, batch)
        PROVE  LogInv'
    BY <1>1, <2>4 DEF CreateTask, CreateDuplicate, NextItem, EndRequest
  <2> QED BY <1>9, <2>1, <2>2, <2>3, <2>4 DEF Receive
<1> QED BY <1>2, <1>4, <1>6, <1>8, <1>9 DEF Next

LEMMA LogInvAlways == Spec => []LogInv
<1>1. Init => LogInv
  BY DEF Init, LogInv, OnlyAssignmentsLogged
<1>2. TypeInv /\ LogInv /\ [Next]_vars => LogInv'
  BY LogInvStep
<1> QED BY <1>1, <1>2, TypeInvAlways, PTL DEF Spec

\* However many workers, requests and restarts there are, the event store of a
\* task never holds anything but assignments.
THEOREM LogHoldsOnlyAssignments == Spec => []OnlyAssignmentsLogged
<1>1. LogInv => OnlyAssignmentsLogged
  BY DEF LogInv
<1> QED BY <1>1, LogInvAlways, PTL

=============================================================================
