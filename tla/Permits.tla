------------------------------- MODULE Permits -------------------------------
(***************************************************************************)
(* What a table of things to take and give back promises: a semaphore for  *)
(* each key.  `held` counts the permits that are out; one is taken at a    *)
(* time, while there are fewer than Limit, and given back once.  With a    *)
(* limit of one this is mutual exclusion.  ResourceLocks implements it for *)
(* its locks and for its dependencies, with a permit per server process.   *)
(***************************************************************************)
EXTENDS Naturals

CONSTANTS Keys, Limit

VARIABLE held

Take(k) ==
    /\ held[k] < Limit
    /\ held' = [held EXCEPT ![k] = @ + 1]

Give(k) ==
    /\ held[k] > 0
    /\ held' = [held EXCEPT ![k] = @ - 1]

Init == held = [k \in Keys |-> 0]

Next == \E k \in Keys : Take(k) \/ Give(k)

Spec == Init /\ [][Next]_held
=============================================================================
