------------------------------- MODULE MCFleet -------------------------------
(***************************************************************************)
(* Instances of Fleet for TLC: the values of its constants.                *)
(***************************************************************************)
EXTENDS Fleet, TLC

CONSTANTS h1, h2, c1, c2, d1, d2, n1, n2

TwoHandlers == {h1, h2}
TwoConnections == {c1, c2}
OneDevice == {d1}
TwoDevices == {d1, d2}
OneConnection == {c1}
OneName == {n1}
TwoNames == {n1, n2}
=============================================================================
