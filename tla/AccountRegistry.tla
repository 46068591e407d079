-------------------------- MODULE AccountRegistry ---------------------------
(***************************************************************************)
(* What the users table promises: a set of accounts, no two of which share *)
(* a name, an e-mail address or an identity at a provider.  An account     *)
(* comes, changes its name or its address, and goes, one at a time.        *)
(* Accounts implements this with any number of concurrent requests.        *)
(***************************************************************************)
CONSTANTS Names, Emails, Providers, None

VARIABLE accounts

Account == [name : Names, email : Emails, provider : Providers \cup {None}]

\* a can stand beside the accounts of others.
Fresh(a, others) ==
    \A b \in others : /\ a.name # b.name
                      /\ a.email # b.email
                      /\ a.provider = b.provider => a.provider = None

Come ==
    \E a \in Account : Fresh(a, accounts) /\ accounts' = accounts \cup {a}

Change ==
    \E a \in accounts : \E b \in Account :
        /\ b.provider = a.provider
        /\ Fresh(b, accounts \ {a})
        /\ accounts' = (accounts \ {a}) \cup {b}

Go == \E a \in accounts : accounts' = accounts \ {a}

Init == accounts = {}

Next == Come \/ Change \/ Go

Spec == Init /\ [][Next]_accounts
=============================================================================
