----------------------------- MODULE MCAccounts ------------------------------
(***************************************************************************)
(* Instances of Accounts for TLC: the values of its constants.             *)
(***************************************************************************)
EXTENDS Accounts, TLC

CONSTANTS r1, r2, l1, e1, e2, g1

TwoRequests == {r1, r2}
OneLogin == {l1}
TwoEmails == {e1, e2}
OneIdentity == {g1}

\* Requests are interchangeable, and so are addresses.
Symmetry == Permutations(Requests) \cup Permutations(Emails)
=============================================================================
