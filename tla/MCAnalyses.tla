------------------------------ MODULE MCAnalyses -----------------------------
(***************************************************************************)
(* Instances of Analyses for TLC: the values of its constants.             *)
(***************************************************************************)
EXTENDS Analyses, TLC

CONSTANTS w1, w2, s1, s2, t1

OneWorker == {w1}
TwoWorkers == {w1, w2}
OneSlot == {s1}
TwoSlots == {s1, s2}
OneTask == {t1}
=============================================================================
