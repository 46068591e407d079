---------------------------- MODULE SharedLedger -----------------------------
(***************************************************************************)
(* What is left of TaskLedger when several server processes write one      *)
(* table.  A request still changes a row in one step, but it acts on the   *)
(* row as it was when the process loaded it: a column whose value it does  *)
(* not change against that copy is left as another process has written it  *)
(* since.  So the conditions on the status are gone, and a column ends up  *)
(* with what the request says or with what is there; but no column that    *)
(* has a value loses it, and no row goes away.                             *)
(***************************************************************************)
EXTENDS TaskStates

CONSTANTS Tasks, Devices, Payloads, Reports, None

VARIABLE row

Exists(t) == row[t].status # "absent"

Create(t) ==
    /\ ~Exists(t)
    /\ row' = [row EXCEPT ![t].status = "pending"]

Assign(t, d) ==
    /\ Exists(t)
    /\ \E e \in {d, row[t].device} \ {None} :
           row' = [row EXCEPT ![t].status = "assigned", ![t].device = e]

Record(t, r) ==
    /\ Exists(t)
    /\ \E s \in {r.status, row[t].status} : \E q \in {r, row[t].result} \ {None} :
           row' = [row EXCEPT ![t].status = s, ![t].result = q]

Cancel(t) ==
    /\ Exists(t)
    /\ row' = [row EXCEPT ![t].status = "cancelled"]

Init == row = [t \in Tasks |-> [status |-> "absent", device |-> None,
                                result |-> None]]

Next == \E t \in Tasks :
    \/ Create(t) \/ Cancel(t)
    \/ \E d \in Devices : Assign(t, d)
    \/ \E r \in [status : Reports, payload : Payloads] : Record(t, r)

Spec == Init /\ [][Next]_row
=============================================================================
