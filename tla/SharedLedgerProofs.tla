-------------------------- MODULE SharedLedgerProofs -------------------------
(***************************************************************************)
(* TaskQueue implements SharedLedger, for every set of workers, tasks,     *)
(* devices and payloads; and what follows from the two ledgers for the     *)
(* steps of the queue.                                                     *)
(***************************************************************************)
EXTENDS TaskQueueProofs

(***************************************************************************)
(* Any number of processes.  A handler that has loaded a row may find      *)
(* another one when it commits.  What it has loaded still says something:  *)
(* the row exists; a device or a result it has seen is covered by one that *)
(* is there now; and it has seen a status that its endpoint accepts, which *)
(* is another one than it writes.                                          *)
(***************************************************************************)
Copied(w) ==
    LET current == row[req[w].task]
    IN  /\ current.status # "absent" /\ seen[w].status # "absent"
        /\ seen[w].device # None => current.device # None
        /\ seen[w].result # None => current.result # None
        /\ req[w].op = "assign" => seen[w].status = "pending"
        /\ req[w].op = "cancel" => seen[w].status \in {"pending", "assigned"}

SharedInv == \A w \in Workers : pc[w] = "loaded" => Copied(w)

\* What the row of a task never loses.
Lasts(old, new) == /\ old.status # "absent" => new.status # "absent"
                   /\ Keeps(old, new)

\* Mapping a commit: the flushed row as a step of the shared ledger.
LEMMA CommitIsSharedStep ==
    ASSUME TypeInv, SharedInv, NEW w \in Workers,
           CommitAssign(w) \/ CommitCancel(w) \/ CommitResult(w)
    PROVE  Shared!Next
<1> DEFINE t == req[w].task
           old == row[t]
           was == seen[w]
<1>1. /\ t \in Tasks /\ pc[w] = "loaded"
      /\ old \in Row /\ was \in Row /\ row \in [Tasks -> Row]
  BY DEF TypeInv, TypeOK, HandlerOK, CommitAssign, CommitCancel, CommitResult
<1>2. Copied(w)
  BY <1>1 DEF SharedInv
<1>3. CASE CommitAssign(w)
  <2> DEFINE d == req[w].device
             e == IF d = was.device THEN old.device ELSE d
  <2>1. d \in Devices /\ d # None /\ was.status = "pending"
    BY <1>2, <1>3, NoneIsNothing DEF CommitAssign, TypeInv, HandlerOK, Copied
  <2>2. e \in {d, old.device} \ {None}
    BY <1>2, <2>1 DEF Copied
  <2>3. Flush(old, was, Assigned(was, req[w])) =
            [status |-> "assigned", device |-> e, result |-> old.result]
    BY <1>1, <2>1 DEF Flush, Assigned, Row
  <2>4. row' = [row EXCEPT ![t] = [status |-> "assigned", device |-> e,
                                   result |-> old.result]]
    BY <1>3, <2>3 DEF CommitAssign, Commit
  <2> HIDE DEF e
  <2>5. row' = [row EXCEPT ![t].status = "assigned", ![t].device = e]
    BY <1>1, <2>4 DEF Row
  <2>6. Shared!Assign(t, d)
    BY <1>2, <2>2, <2>5 DEF Shared!Assign, Shared!Exists, Copied
  <2> QED BY <1>1, <2>1, <2>6 DEF Shared!Next
<1>4. CASE CommitCancel(w)
  <2>1. was.status # "cancelled"
    BY <1>2, <1>4 DEF CommitCancel, Copied
  <2>2. Flush(old, was, Cancelled(was, req[w])) =
            [status |-> "cancelled", device |-> old.device, result |-> old.result]
    BY <1>1, <2>1 DEF Flush, Cancelled, Row
  <2>3. row' = [row EXCEPT ![t] = [status |-> "cancelled", device |-> old.device,
                                   result |-> old.result]]
    BY <1>4, <2>2 DEF CommitCancel, Commit
  <2>4. row' = [row EXCEPT ![t].status = "cancelled"]
    BY <1>1, <2>3 DEF Row
  <2>5. Shared!Cancel(t)
    BY <1>2, <2>4 DEF Shared!Cancel, Shared!Exists, Copied
  <2> QED BY <1>1, <2>5 DEF Shared!Next
<1>5. CASE CommitResult(w)
  <2> DEFINE r == req[w].result
             s == IF r.status = was.status THEN old.status ELSE r.status
             q == IF r = was.result THEN old.result ELSE r
  <2>1. r \in Results /\ r # None
    BY <1>5, NoneIsNothing DEF CommitResult, TypeInv, HandlerOK, Results
  <2>2. s \in {r.status, old.status} /\ q \in {r, old.result} \ {None}
    BY <1>2, <2>1 DEF Copied
  <2>3. Flush(old, was, Recorded(was, req[w])) =
            [status |-> s, device |-> old.device, result |-> q]
    BY <1>1 DEF Flush, Recorded, Row
  <2>4. row' = [row EXCEPT ![t] = [status |-> s, device |-> old.device, result |-> q]]
    BY <1>5, <2>3 DEF CommitResult, Commit
  <2> HIDE DEF s, q
  <2>5. row' = [row EXCEPT ![t].status = s, ![t].result = q]
    BY <1>1, <2>4 DEF Row
  <2>6. Shared!Record(t, r)
    BY <1>2, <2>2, <2>5 DEF Shared!Record, Shared!Exists, Copied
  <2> QED BY <1>1, <2>1, <2>6 DEF Shared!Next, Results
<1> QED BY <1>3, <1>4, <1>5

\* Every step of the queue is a step of the shared ledger, or leaves the table
\* alone.
LEMMA StepIsSharedStep ==
    TypeInv /\ SharedInv /\ [Next]_vars => [Shared!Next]_row
<1> SUFFICES ASSUME TypeInv, SharedInv, [Next]_vars PROVE [Shared!Next]_row
  OBVIOUS
<1>1. ASSUME NEW w \in Workers, NEW t \in Tasks, NEW batch \in BOOLEAN,
             CreateTask(w, t, batch)
      PROVE  Shared!Next
  BY <1>1 DEF CreateTask, Shared!Next, Shared!Create, Shared!Exists
<1>2. ASSUME NEW w \in Workers, Receive(w) PROVE Shared!Next \/ UNCHANGED row
  BY <1>1, <1>2 DEF Receive, CreateDuplicate, LoadForAssign, LoadForCancel,
                    LoadForResult, Load
<1>3. ASSUME NEW w \in Workers, Handle(w) PROVE Shared!Next \/ UNCHANGED row
  BY <1>3, CommitIsSharedStep DEF Handle, CommitFails, PublishAssigned,
                                  PublishResult, EndBatch, SaveEvent, SaveFails
<1>4. ASSUME NEW w \in Workers, EventLoop(w) \/ Crash(w) PROVE UNCHANGED row
  BY <1>4 DEF EventLoop, RunTransition, RejectTransition, RunRca, Crash
<1> QED BY <1>2, <1>3, <1>4 DEF Next, vars

\* Whatever the shared ledger does, a row keeps what it has.
LEMMA SharedRowsLast ==
    ASSUME TypeInv, [Shared!Next]_row
    PROVE  \A t \in Tasks : Lasts(row[t], row'[t])
<1> USE DEF Lasts, Keeps
<1>1. row \in [Tasks -> Row]
  BY DEF TypeInv, TypeOK
<1>2. CASE UNCHANGED row
  BY <1>2
<1>3. ASSUME NEW t \in Tasks, Shared!Create(t) \/ Shared!Cancel(t)
      PROVE  \A u \in Tasks : Lasts(row[u], row'[u])
  BY <1>1, <1>3 DEF Shared!Create, Shared!Cancel, Shared!Exists, Row
<1>4. ASSUME NEW t \in Tasks, NEW d \in Devices, Shared!Assign(t, d)
      PROVE  \A u \in Tasks : Lasts(row[u], row'[u])
  <2>1. PICK e \in {d, row[t].device} \ {None} :
            row' = [row EXCEPT ![t].status = "assigned", ![t].device = e]
    BY <1>4 DEF Shared!Assign
  <2> QED BY <1>1, <2>1 DEF Row
<1>5. ASSUME NEW t \in Tasks, NEW r \in Results, Shared!Record(t, r)
      PROVE  \A u \in Tasks : Lasts(row[u], row'[u])
  <2>1. PICK s \in {r.status, row[t].status}, q \in {r, row[t].result} \ {None} :
            row' = [row EXCEPT ![t].status = s, ![t].result = q]
    BY <1>5 DEF Shared!Record
  <2>2. row[t].status # "absent" /\ r.status # "absent"
    BY <1>5, ReportsAreStatuses DEF Shared!Record, Shared!Exists, Results, TaskStatuses
  <2> QED BY <1>1, <2>1, <2>2 DEF Row
<1> QED BY <1>2, <1>3, <1>4, <1>5 DEF Shared!Next, Results

\* A handler at its load has just loaded the row as it is, or is where it was.
LEMMA LoadedOrThere ==
    ASSUME TypeInv, [Next]_vars, NEW v \in Workers, pc'[v] = "loaded"
    PROVE  \/ /\ pc[v] = "loaded" /\ req'[v] = req[v] /\ seen'[v] = seen[v]
           \/ /\ row' = row
              /\ seen'[v] = row[req'[v].task] /\ seen'[v].status # "absent"
              /\ req'[v].op = "assign" => seen'[v].status = "pending"
              /\ req'[v].op = "cancel" => seen'[v].status \in {"pending", "assigned"}
<1> DEFINE There == pc[v] = "loaded" /\ req'[v] = req[v] /\ seen'[v] = seen[v]
           Loaded == /\ row' = row
                     /\ seen'[v] = row[req'[v].task] /\ seen'[v].status # "absent"
                     /\ req'[v].op = "assign" => seen'[v].status = "pending"
                     /\ req'[v].op = "cancel" => seen'[v].status \in {"pending", "assigned"}
<1>1. ASSUME NEW w \in Workers, NEW phase \in {"idle", "batch", "committed"},
             NEW rq, Leave(w, phase, rq)
      PROVE  There
  BY <1>1 DEF Leave, TypeInv, TypeOK
<1>2. ASSUME UNCHANGED vars PROVE There
  BY <1>2 DEF vars
<1>3. ASSUME NEW w \in Workers, NEW t \in Tasks,
             \/ \E d \in Devices, batch \in BOOLEAN : LoadForAssign(w, t, d, batch)
             \/ LoadForCancel(w, t)
             \/ \E r \in Results : LoadForResult(w, t, r)
      PROVE  There \/ Loaded
  <2>1. PICK rq, to : /\ Load(w, rq, to) /\ rq.task = t
                      /\ rq.op = "assign" => row[t].status = "pending"
                      /\ rq.op = "cancel" => row[t].status \in {"pending", "assigned"}
    BY <1>3, LoadsAlike
  <2>2. CASE w = v
    BY <2>1, <2>2 DEF Load, TypeInv, TypeOK
  <2>3. CASE w # v
    BY <2>1, <2>3 DEF Load, TypeInv, TypeOK
  <2> QED BY <2>2, <2>3
<1>4. ASSUME NEW w \in Workers, EventLoop(w) PROVE There
  BY <1>4 DEF EventLoop, RunTransition, RejectTransition, RunRca, local, TypeInv, TypeOK
<1> HIDE DEF There, Loaded
<1>5. ASSUME NEW w \in Workers, Receive(w) PROVE There \/ Loaded
  BY <1>1, <1>3, <1>5 DEF Receive, CreateTask, CreateDuplicate, NextItem, EndRequest
<1>6. ASSUME NEW w \in Workers, Handle(w) PROVE There
  BY <1>1, <1>6 DEF Handle, CommitAssign, CommitCancel, CommitResult, CommitFails,
                    PublishAssigned, PublishResult, EndBatch, SaveEvent, SaveFails,
                    NextItem, EndRequest
<1>7. ASSUME NEW w \in Workers, Crash(w) PROVE There
  BY <1>1, <1>7 DEF Crash, EndRequest
<1>8. There \/ Loaded
  BY <1>2, <1>4, <1>5, <1>6, <1>7 DEF Next
<1> QED BY <1>8 DEF There, Loaded

LEMMA SharedInvStep ==
    TypeInv /\ SharedInv /\ [Next]_vars => SharedInv'
<1> SUFFICES ASSUME TypeInv, SharedInv, [Next]_vars, NEW v \in Workers,
                    pc'[v] = "loaded"
             PROVE  Copied(v)'
  BY DEF SharedInv
<1>1. TypeInv'
  BY TypeInvStep
<1>2. req'[v].task \in Tasks
  BY <1>1 DEF TypeInv, HandlerOK
<1>3. \A t \in Tasks : Lasts(row[t], row'[t])
  BY StepIsSharedStep, SharedRowsLast
<1>4. CASE pc[v] = "loaded" /\ req'[v] = req[v] /\ seen'[v] = seen[v]
  BY <1>2, <1>3, <1>4 DEF SharedInv, Copied, Lasts, Keeps
<1>5. CASE ~(pc[v] = "loaded" /\ req'[v] = req[v] /\ seen'[v] = seen[v])
  BY <1>5, LoadedOrThere DEF Copied
<1> QED BY <1>4, <1>5

LEMMA SharedInvAlways == Spec => []SharedInv
<1>1. Init => SharedInv
  BY DEF Init, SharedInv
<1>2. TypeInv /\ SharedInv /\ [Next]_vars => SharedInv'
  BY SharedInvStep
<1> QED BY <1>1, <1>2, TypeInvAlways, PTL DEF Spec

\* Any number of processes implement the shared ledger: each commit changes a
\* row as one request could have changed it in one step, stale as its copy of
\* the row may be, and nothing else changes the table.
THEOREM ProcessesImplementSharedLedger == Spec => ImplementsSharedLedger
<1>1. Init => Shared!Init
  BY DEF Init, NoRow, Shared!Init
<1>2. TypeInv /\ SharedInv /\ [Next]_vars => [Shared!Next]_row
  BY StepIsSharedStep
<1> QED BY <1>1, <1>2, TypeInvAlways, SharedInvAlways, PTL
        DEF Spec, ImplementsSharedLedger, Shared!Spec

\* A row, once created, is never gone, and a device or a result that it has is
\* only ever replaced by another one, whatever the processes overlap in.
THEOREM RowsNeverLose == Spec => [][\A t \in Tasks : Lasts(row[t], row'[t])]_vars
<1>1. TypeInv /\ SharedInv /\ [Next]_vars => \A t \in Tasks : Lasts(row[t], row'[t])
  BY StepIsSharedStep, SharedRowsLast
<1> QED BY <1>1, TypeInvAlways, SharedInvAlways, PTL DEF Spec

(***************************************************************************)
(* What AssignsOnlyPending and CancelSparesFinished become with several    *)
(* processes: the conditions hold of the copy, so only a handler that      *)
(* loaded the row before it changed can break them.                        *)
(***************************************************************************)

\* w commits op on t in this step, having seen a status in `statuses`.
Commits(w, t, op, statuses) ==
    /\ pc[w] = "loaded" /\ pc'[w] # "loaded"
    /\ req[w].task = t /\ req[w].op = op
    /\ seen[w].status \in statuses

Unfinished == {"pending", "assigned"}

WrittenBy(t) ==
    /\ row'[t].device # row[t].device =>
           \E w \in Workers : Commits(w, t, "assign", {"pending"})
    /\ row[t].status \notin Unfinished \cup {"absent"} /\ row'[t].status # row[t].status =>
           \/ \E w \in Workers : Commits(w, t, "assign", {"pending"})
           \/ \E w \in Workers : Commits(w, t, "cancel", Unfinished)
           \/ \E w \in Workers : /\ Commits(w, t, "record", RowStatuses)
                                 /\ row'[t].status = req[w].result.status

LEMMA StepIsWrittenBy ==
    ASSUME TypeInv, SharedInv, [Next]_vars, NEW t \in Tasks
    PROVE  WrittenBy(t)
<1> USE DEF WrittenBy
<1>1. row \in [Tasks -> Row] /\ pc \in [Workers -> Phases]
  BY DEF TypeInv, TypeOK
<1>2. CASE UNCHANGED row
  BY <1>2
<1>3. ASSUME NEW w \in Workers, NEW u \in Tasks, NEW batch \in BOOLEAN,
             CreateTask(w, u, batch)
      PROVE  WrittenBy(t)
  BY <1>1, <1>3 DEF CreateTask, Row
<1>4. ASSUME NEW w \in Workers, CommitAssign(w) \/ CommitCancel(w) \/ CommitResult(w)
      PROVE  WrittenBy(t)
  <2>1. pc[w] = "loaded" /\ pc'[w] # "loaded" /\ req[w].task \in Tasks
    BY <1>1, <1>4 DEF CommitAssign, CommitCancel, CommitResult, NextItem, Leave,
                      TypeInv, HandlerOK
  <2>2. Copied(w) /\ seen[w] \in Row
    BY <2>1 DEF SharedInv, TypeInv, TypeOK
  <2>3. CASE req[w].task # t
    BY <1>1, <1>4, <2>3 DEF CommitAssign, CommitCancel, CommitResult, Commit
  <2>4. CASE req[w].task = t /\ CommitAssign(w)
    <3>1. Commits(w, t, "assign", {"pending"})
      BY <2>1, <2>2, <2>4 DEF CommitAssign, Commits, Copied
    <3> QED BY <3>1
  <2>5. CASE req[w].task = t /\ CommitCancel(w)
    <3>1. Commits(w, t, "cancel", Unfinished)
      BY <2>1, <2>2, <2>5 DEF CommitCancel, Commits, Copied, Unfinished
    <3>2. row'[t].device = row[t].device
      BY <1>1, <2>2, <2>5 DEF CommitCancel, Commit, Flush, Cancelled, Row
    <3> QED BY <3>1, <3>2
  <2>6. CASE req[w].task = t /\ CommitResult(w)
    <3>1. Commits(w, t, "record", RowStatuses)
      <4>1. seen[w].status # "absent"
        BY <2>2 DEF Copied
      <4> QED BY <2>1, <2>2, <2>6, <4>1 DEF CommitResult, Commits, Row
    <3>2. /\ row'[t].device = row[t].device
          /\ row'[t].status \in {row[t].status, req[w].result.status}
      BY <1>1, <2>2, <2>6 DEF CommitResult, Commit, Flush, Recorded, Row
    <3> QED BY <3>1, <3>2
  <2> QED BY <1>4, <2>3, <2>4, <2>5, <2>6
<1>5. ASSUME NEW w \in Workers, Receive(w) PROVE WrittenBy(t)
  BY <1>2, <1>3, <1>5 DEF Receive, CreateDuplicate, LoadForAssign, LoadForCancel,
                          LoadForResult, Load
<1>6. ASSUME NEW w \in Workers, Handle(w) PROVE WrittenBy(t)
  BY <1>2, <1>4, <1>6 DEF Handle, CommitFails, PublishAssigned, PublishResult,
                          EndBatch, SaveEvent, SaveFails
<1>7. ASSUME NEW w \in Workers, EventLoop(w) \/ Crash(w) PROVE WrittenBy(t)
  BY <1>2, <1>7 DEF EventLoop, RunTransition, RejectTransition, RunRca, Crash
<1> QED BY <1>2, <1>5, <1>6, <1>7 DEF Next, vars

\* With any number of processes, a task changes its device only by an assignment
\* that saw it pending, and leaves a final status only by a result, or by an
\* assignment or a cancel that saw it pending or assigned, before it was final.
THEOREM OnlyOldCopiesOverwrite == Spec => [][\A t \in Tasks : WrittenBy(t)]_vars
<1>1. TypeInv /\ SharedInv /\ [Next]_vars => \A t \in Tasks : WrittenBy(t)
  BY StepIsWrittenBy
<1> QED BY <1>1, TypeInvAlways, SharedInvAlways, PTL DEF Spec

\* With one process a final status is left only for the status of a new result,
\* which comes with that result in the same step: what is left of the rule that
\* final states are terminal.
THEOREM OneProcessOnlyResultsReopen ==
    ASSUME OneProcess
    PROVE  Spec => [][\A t \in Tasks :
               row[t].status \notin Unfinished \cup {"absent"} /\ row'[t] # row[t] =>
                   \E r \in Results :
                       row'[t] = [row[t] EXCEPT !.status = r.status, !.result = r]]_vars
<1> DEFINE A == \A t \in Tasks :
               row[t].status \notin Unfinished \cup {"absent"} /\ row'[t] # row[t] =>
                   \E r \in Results :
                       row'[t] = [row[t] EXCEPT !.status = r.status, !.result = r]
<1>1. TypeInv /\ SoloInv /\ [Next]_vars => A
  <2> SUFFICES ASSUME TypeInv, SoloInv, [Next]_vars PROVE A
    OBVIOUS
  <2>1. \A t \in Tasks : LedgerMove(row[t], row'[t])
    BY StepIsLedgerStep, LedgerMoves
  <2> QED BY <2>1 DEF LedgerMove, Unfinished
<1> QED BY <1>1, TypeInvAlways, SoloInvAlways, PTL DEF Spec
=============================================================================
