---------------------------- MODULE MCTaskQueue -----------------------------
(***************************************************************************)
(* Instances of TaskQueue and Replay for TLC: values of their constants.   *)
(***************************************************************************)
EXTENDS Replay, TLC

CONSTANTS w1, w2, t1, t2, d1, d2

OneWorker == {w1}
TwoWorkers == {w1, w2}
OneTask == {t1}
TwoTasks == {t1, t2}
OneDevice == {d1}
TwoDevices == {d1, d2}

FinalReports == {"success", "failed"}
RepeatableReports == {"pending", "success"}
AllReports == {"pending", "assigned", "running", "success", "failed"}

\* Devices are interchangeable, and so are workers.
Symmetry == Permutations(Devices) \cup Permutations(Workers)
=============================================================================
