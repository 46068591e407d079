----------------------------- MODULE TaskStates -----------------------------
(***************************************************************************)
(* The vocabulary of a task's life: the statuses a result may carry, the   *)
(* statuses a row of task_queue may show, and the states and moves of the  *)
(* task StateMachine.                                                      *)
(***************************************************************************)

\* TaskStatus: what ExecutionResult.status accepts.
TaskStatuses == {"success", "failed", "crashed", "timeout", "skipped",
                 "pending", "assigned", "running"}

\* TaskQueueDB.status is a plain String column: the batch cancel endpoint also
\* writes "cancelled", which is no TaskStatus.
RowStatuses == TaskStatuses \cup {"cancelled"}

\* TaskState: the states of the task machine.
TaskStateNames == {"pending", "assigned", "running", "success", "failed",
                   "crashed", "timeout", "skipped"}

\* Mutant: an assigned task may be assigned again.
ReassignTransitions ==
    { <<"pending", "assigned">>, <<"assigned", "assigned">>,
      <<"assigned", "running">>, <<"running", "success">> }

\* The pairs add_transitions_map registers for a task.
TaskTransitions ==
    { <<"pending", "assigned">>, <<"assigned", "running">>,
      <<"running", "success">>, <<"running", "failed">>,
      <<"running", "timeout">>, <<"running", "crashed">> }

\* StateMachine.can_transition: no task transition carries a guard.
CanTransition(from, to) == <<from, to>> \in TaskTransitions

(***************************************************************************)
(* record_result builds TaskState(status) from the member of the TaskStatus *)
(* enumeration that model_dump leaves in the dictionary.  TaskState is a   *)
(* str and has no members of its own, so this is str(TaskStatus.failed) =  *)
(* "TaskStatus.failed" and the like: a string that is no key of the table. *)
(* One value stands for all eight.                                         *)
(***************************************************************************)
StateOfEnum(status) == "TaskStatus.*"

\* Everything transition() may be asked to move to.
Targets == TaskStateNames \cup {"cancelled", "TaskStatus.*"}
=============================================================================
