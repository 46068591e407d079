------------------------------ MODULE DeviceBook -----------------------------
(***************************************************************************)
(* What the tables devices and device_heartbeats promise: a book of the    *)
(* devices, in which each entry is made in one step.  A device is entered  *)
(* by an operator, or under the default name by its first report; it keeps *)
(* the name until an operator gives it another; a report gives one status  *)
(* to the device and to its heartbeat.  Old reports are forgotten, devices *)
(* never.  On SQLite, where the id of a forgotten report may be another's  *)
(* by now, a report may be filed with the wrong device's, whose status is  *)
(* then wrong; nothing else is.  Fleet implements this with any number of  *)
(* heartbeats at once.                                                     *)
(***************************************************************************)
CONSTANTS Devices, Names, DefaultName, Statuses, None

VARIABLES database, device, beat

NoDevice == [status |-> None, name |-> None]

Enter(d, n) ==
    /\ device[d] = NoDevice
    /\ device' = [device EXCEPT ![d] = [status |-> "offline", name |-> n]]
    /\ UNCHANGED <<database, beat>>

Rename(d, n) ==
    /\ device[d] # NoDevice
    /\ device' = [device EXCEPT ![d].name = n]
    /\ UNCHANGED <<database, beat>>

\* A device that nobody has entered comes with its first report.
Reported(d, s) ==
    device' = [device EXCEPT ![d] =
        [status |-> s, name |-> IF device[d] = NoDevice THEN DefaultName ELSE @.name]]

Report(d, s) ==
    /\ Reported(d, s)
    /\ beat' = [beat EXCEPT ![d] = s]
    /\ UNCHANGED database

\* The status t comes to the heartbeat of e, which is another device or one whose
\* two statuses an earlier such report has left different.
Misfile(d, s, e, t) ==
    /\ database = "sqlite"
    /\ Reported(d, s)
    /\ e # d => beat[e] # None
    /\ beat' = [beat EXCEPT ![e] = t]
    /\ UNCHANGED database

Forget(old) ==
    /\ beat' = [d \in Devices |-> IF d \in old THEN None ELSE beat[d]]
    /\ UNCHANGED <<database, device>>

Init == /\ database \in {"sqlite", "postgresql"}
        /\ device = [d \in Devices |-> NoDevice]
        /\ beat = [d \in Devices |-> None]

Next ==
    \/ \E d \in Devices :
          \/ \E n \in Names : Enter(d, n) \/ Rename(d, n)
          \/ \E s \in Statuses :
                \/ Report(d, s)
                \/ \E e \in Devices : \E t \in Statuses : Misfile(d, s, e, t)
    \/ \E old \in SUBSET Devices : Forget(old)

Spec == Init /\ [][Next]_<<database, device, beat>>
=============================================================================
