----------------------------- MODULE TaskLedger -----------------------------
(***************************************************************************)
(* What the queue promises about a task: its row changes as if each        *)
(* request were one step on the table.  A task is created once; a pending  *)
(* task is given to one device; a result puts its own status in the row,   *)
(* whatever was there; a task that is pending or assigned can be           *)
(* cancelled.  TaskQueue implements this with one server process.          *)
(***************************************************************************)
EXTENDS TaskStates

CONSTANTS Tasks, Devices, Payloads, Reports, None

VARIABLE row

Create(t) ==
    /\ row[t].status = "absent"
    /\ row' = [row EXCEPT ![t].status = "pending"]

Assign(t, d) ==
    /\ row[t].status = "pending"
    /\ row' = [row EXCEPT ![t].status = "assigned", ![t].device = d]

Record(t, r) ==
    /\ row[t].status # "absent"
    /\ row' = [row EXCEPT ![t].status = r.status, ![t].result = r]

Cancel(t) ==
    /\ row[t].status \in {"pending", "assigned"}
    /\ row' = [row EXCEPT ![t].status = "cancelled"]

Init == row = [t \in Tasks |-> [status |-> "absent", device |-> None,
                                result |-> None]]

Next == \E t \in Tasks :
    \/ Create(t) \/ Cancel(t)
    \/ \E d \in Devices : Assign(t, d)
    \/ \E r \in [status : Reports, payload : Payloads] : Record(t, r)

Spec == Init /\ [][Next]_row
=============================================================================
