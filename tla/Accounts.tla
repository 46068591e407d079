------------------------------ MODULE Accounts ------------------------------
(***************************************************************************)
(* User accounts: auth/service.py and admin/users/service.py with their    *)
(* endpoints.  Most endpoints are plain functions, which FastAPI runs in a *)
(* thread pool; the OAuth callbacks are coroutines that await the provider *)
(* before their first database access.  So requests interleave between any *)
(* two database accesses, whether of one process or of several.            *)
(*                                                                         *)
(* A request reads, and then commits once to three times: the user row,    *)
(* its settings row, an audit entry.  Each commit stands or falls alone.   *)
(*                                                                         *)
(* Passwords, roles, avatars and what the settings say are left out;       *)
(* tokens are not stored.  A thread that dies between two commits is a     *)
(* commit that fails.                                                      *)
(***************************************************************************)
EXTENDS Naturals, FiniteSets

CONSTANTS
    Requests,   \* threads and coroutines that serve account requests
    Logins,     \* user names as people and providers choose them
    Suffixes,   \* 0: the name as chosen; k: with k appended
    Emails,     \* e-mail addresses
    Identities, \* people as GitHub and GitLab number them
    None,       \* SQL NULL, and "not in this request"
    Databases,  \* what DATABASE_URL may name: "sqlite", "postgresql"
    Faults,     \* which steps may fail by themselves: "commit"
    MaxBirths,  \* bound: user rows ever inserted
    MaxRequests \* bound: requests that get as far as a row of the database

ASSUME RequestsFinite == IsFiniteSet(Requests)
ASSUME AccountBounds ==
    /\ Suffixes \subseteq Nat
    /\ MaxBirths \in Nat
    /\ MaxRequests \in Nat
    /\ Databases \subseteq {"sqlite", "postgresql"}
    /\ Faults \subseteq {"commit"}

VARIABLES
    database,    \* the kind of database; never changes
    user,        \* table users, by primary key
    born,        \* user rows inserted so far
    settings,    \* how many rows of user_settings have this user_id
    audit,       \* table audit_logs
    pc, req, seen,  \* per request: its phase, what it asks, the row it loaded
    interrupted, \* users left without settings by a creation that failed
    served       \* requests begun so far

vars == <<database, user, born, settings, audit, pc, req, seen, interrupted, served>>
tables == <<database, user, born, settings, audit, interrupted>>
-----------------------------------------------------------------------------
Ids == 1..MaxBirths
Names == Logins \X Suffixes
Providers == {"github", "gitlab"} \X Identities

ASSUME NoneIsNobody == None \notin Names \cup Emails \cup Providers \cup BOOLEAN \cup Nat

Row == [name : Names, email : Emails, provider : Providers \cup {None},
        active : BOOLEAN]
NoRow == [name |-> None, email |-> None, provider |-> None, active |-> FALSE]

Operations == {"none", "register", "oauth", "create", "update", "profile",
               "delete", "settings"}

\* id: whom it is about; active: TRUE or FALSE, or None to leave it.
Request == [op : Operations, actor : Ids \cup {None}, id : Ids \cup {None},
            name : Names \cup {None}, email : Emails \cup {None},
            provider : Providers \cup {None}, active : BOOLEAN \cup {None}]
NoRequest == [op |-> "none", actor |-> None, id |-> None, name |-> None,
              email |-> None, provider |-> None, active |-> None]

\* An audit entry: who did it, and which user it says was deleted, if any.
Entry == [actor : Ids, deleted : Ids \cup {None}]

Phases == {"idle", "begun", "checked", "loaded", "settings", "audit", "deleting"}

TypeOK ==
    /\ database \in Databases
    /\ user \in [Ids -> Row \cup {NoRow}]
    /\ born \in 0..MaxBirths
    /\ settings \in [Ids -> Nat]
    /\ audit \subseteq Entry
    /\ pc \in [Requests -> Phases]
    /\ req \in [Requests -> Request]
    /\ seen \in [Requests -> Row \cup {NoRow}]
    /\ interrupted \subseteq Ids
    /\ served \in 0..MaxRequests

Init ==
    /\ database \in Databases
    /\ user = [i \in Ids |-> NoRow]
    /\ born = 0
    /\ settings = [i \in Ids |-> 0]
    /\ audit = {}
    /\ pc = [r \in Requests |-> "idle"]
    /\ req = [r \in Requests |-> NoRequest]
    /\ seen = [r \in Requests |-> NoRow]
    /\ interrupted = {}
    /\ served = 0
-----------------------------------------------------------------------------
Present(i) == user[i] # NoRow

Taken(n, others) == \E i \in others : user[i].name = n
Registered(e, others) == \E i \in others : user[i].email = e
Claimed(p, others) == p # None /\ \E i \in others : user[i].provider = p

\* Mutants: no unique index on the e-mail; a column that accepts NULL.
ConflictsExceptEmail(row, i) ==
    \/ row.email = None
    \/ Taken(row.name, Ids \ {i})
    \/ Claimed(row.provider, Ids \ {i})
ConflictsNullable(row, i) ==
    \/ Taken(row.name, Ids \ {i})
    \/ /\ row.email # None
       /\ Registered(row.email, Ids \ {i})
    \/ Claimed(row.provider, Ids \ {i})

\* The unique indexes of users, and email NOT NULL: row cannot be stored as i.
Conflicts(row, i) ==
    \/ row.email = None
    \/ Taken(row.name, Ids \ {i})
    \/ Registered(row.email, Ids \ {i})
    \/ Claimed(row.provider, Ids \ {i})

\* SQLite gives the id after the greatest that is there, a serial one never
\* comes back.
NextId ==
    IF database = "sqlite"
    THEN CHOOSE i \in 1..(MaxBirths + 1) :
            /\ \A j \in Ids : Present(j) => j < i
            /\ i > 1 => Present(i - 1)
    ELSE born + 1

\* SQLite is left with its default, which does not enforce foreign keys.
Refers(i) == (database = "sqlite") \/ Present(i)
Unreferenced(i) ==
    \/ database = "sqlite"
    \/ settings[i] = 0 /\ \A e \in audit : e.actor # i

Goes(r, phase, rq, row) ==
    /\ pc' = [pc EXCEPT ![r] = phase]
    /\ req' = [req EXCEPT ![r] = rq]
    /\ seen' = [seen EXCEPT ![r] = row]

Ends(r) == Goes(r, "idle", NoRequest, NoRow)

Starts(r, phase, rq, row) ==
    /\ pc[r] = "idle"
    /\ served < MaxRequests /\ served' = served + 1
    /\ Goes(r, phase, rq, row)
    /\ UNCHANGED tables

\* Bound: rows that are or may yet be inserted.
Expecting == {r \in Requests : /\ req[r].op \in {"register", "oauth", "create"}
                               /\ pc[r] \in {"begun", "checked"}}
Room == born + Cardinality(Expecting) < MaxBirths
-----------------------------------------------------------------------------
\* get_current_user: the row behind the token, which must be active.  Reads of
\* the same row by the same session later return what it saw here.
Begin(r, rq) ==
    /\ Present(rq.actor) /\ user[rq.actor].active
    /\ Starts(r, "begun", rq, user[rq.actor])

BeginCreate(r, a, n, e) ==
    /\ Room
    /\ Begin(r, [NoRequest EXCEPT !.op = "create", !.actor = a, !.name = n, !.email = e])
BeginUpdate(r, a, i, n, e, active) ==
    Begin(r, [NoRequest EXCEPT !.op = "update", !.actor = a, !.id = i, !.name = n,
                               !.email = e, !.active = active])
BeginProfile(r, a, e) ==
    Begin(r, [NoRequest EXCEPT !.op = "profile", !.actor = a, !.id = a, !.email = e])
BeginDelete(r, a, i) ==
    Begin(r, [NoRequest EXCEPT !.op = "delete", !.actor = a, !.id = i])
BeginSettings(r, a, i) ==
    Begin(r, [NoRequest EXCEPT !.op = "settings", !.actor = a, !.id = i])

\* register_user: the reads before the INSERT.  Whatever they saw, the unique
\* indexes decide when it is committed.
CheckRegister(r, n, e) ==
    /\ Room
    /\ ~Taken(n, Ids) /\ ~Registered(e, Ids)
    /\ Starts(r, "checked", [NoRequest EXCEPT !.op = "register", !.name = n, !.email = e], NoRow)

\* An OAuth callback that finds nobody with this identity: the first name of
\* the family that is free, the address the provider tells, which may be null.
Callback(r, p, l, e) ==
    /\ Room
    /\ ~Claimed(p, Ids)
    /\ \E k \in Suffixes :
          /\ ~Taken(<<l, k>>, Ids)
          /\ \A j \in Suffixes : j < k => Taken(<<l, j>>, Ids)
          /\ Starts(r, "checked", [NoRequest EXCEPT !.op = "oauth", !.name = <<l, k>>,
                                                    !.email = e, !.provider = p], NoRow)

GithubCallback(r, u, l, e) == Callback(r, <<"github", u>>, l, e)
GitlabCallback(r, u, l, e) == Callback(r, <<"gitlab", u>>, l, e)

CheckCreate(r) ==
    /\ pc[r] = "begun" /\ req[r].op = "create"
    /\ ~Taken(req[r].name, Ids) /\ ~Registered(req[r].email, Ids)
    /\ Goes(r, "checked", req[r], NoRow)
    /\ UNCHANGED <<tables, served>>

\* The checks of both update_user functions: a name or an address that is
\* given must not be another user's.
Changeable(r) ==
    /\ Present(req[r].id)
    /\ req[r].name # None => ~Taken(req[r].name, Ids \ {req[r].id})
    /\ req[r].email # None => ~Registered(req[r].email, Ids \ {req[r].id})

Load(r) ==
    /\ pc[r] = "begun" /\ req[r].op \in {"update", "profile"}
    /\ Changeable(r)
    /\ Goes(r, "loaded", req[r],
            IF req[r].id = req[r].actor THEN seen[r] ELSE user[req[r].id])
    /\ UNCHANGED <<tables, served>>

\* Mutant: the user goes first, and the audit entry never comes.
LoadForDeleteUnaudited(r) ==
    /\ pc[r] = "begun" /\ req[r].op = "delete"
    /\ req[r].id # req[r].actor /\ Present(req[r].id)
    /\ Goes(r, "deleting", req[r], NoRow)
    /\ UNCHANGED <<tables, served>>

LoadForDelete(r) ==
    /\ pc[r] = "begun" /\ req[r].op = "delete"
    /\ req[r].id # req[r].actor /\ Present(req[r].id)
    /\ Goes(r, "audit", req[r], NoRow)
    /\ UNCHANGED <<tables, served>>

\* Mutant: a row of settings for every request.
LoadSettingsAlways(r) ==
    /\ pc[r] = "begun" /\ req[r].op = "settings"
    /\ Goes(r, "settings", req[r], NoRow)
    /\ UNCHANGED <<tables, served>>

\* update_user_settings: whether the user is there is not asked.
LoadSettings(r) ==
    /\ pc[r] = "begun" /\ req[r].op = "settings"
    /\ settings[req[r].id] = 0
    /\ Goes(r, "settings", req[r], NoRow)
    /\ UNCHANGED <<tables, served>>

\* 400, 404, 409; or settings that exist and are updated in place.
Answer(r) ==
    /\ pc[r] = "begun"
    /\ \/ /\ req[r].op = "create"
          /\ Taken(req[r].name, Ids) \/ Registered(req[r].email, Ids)
       \/ req[r].op \in {"update", "profile"} /\ ~Changeable(r)
       \/ /\ req[r].op = "delete"
          /\ (req[r].id = req[r].actor) \/ ~Present(req[r].id)
       \/ req[r].op = "settings" /\ settings[req[r].id] > 0
    /\ Ends(r)
    /\ UNCHANGED <<tables, served>>
-----------------------------------------------------------------------------
NewRow(rq) == [name |-> rq.name, email |-> rq.email, provider |-> rq.provider,
               active |-> TRUE]

InsertUser(r) ==
    LET i == NextId
        row == NewRow(req[r])
    IN  /\ pc[r] = "checked"
        /\ ~Conflicts(row, i)
        /\ user' = [user EXCEPT ![i] = row]
        /\ born' = born + 1
        /\ Goes(r, "settings", [req[r] EXCEPT !.id = i], NoRow)
        /\ UNCHANGED <<database, settings, audit, interrupted, served>>

\* Somebody else was faster, or there is no address: IntegrityError, 500.
InsertRejected(r) ==
    /\ pc[r] = "checked"
    /\ Conflicts(NewRow(req[r]), NextId)
    /\ Ends(r)
    /\ UNCHANGED <<tables, served>>

\* Mutant: an OAuth account gets its settings when they are first changed.
AddSettingsRegistered(r) ==
    /\ pc[r] = "settings" /\ Refers(req[r].id)
    /\ settings' = IF req[r].op = "oauth" THEN settings
                   ELSE [settings EXCEPT ![req[r].id] = @ + 1]
    /\ IF req[r].op = "create" THEN Goes(r, "audit", req[r], NoRow) ELSE Ends(r)
    /\ interrupted' = interrupted \ {req[r].id}
    /\ UNCHANGED <<database, user, born, audit, served>>

\* The second commit of a creation, and that of get-or-create.
AddSettings(r) ==
    /\ pc[r] = "settings" /\ Refers(req[r].id)
    /\ settings' = [settings EXCEPT ![req[r].id] = @ + 1]
    /\ IF req[r].op = "create" THEN Goes(r, "audit", req[r], NoRow) ELSE Ends(r)
    /\ interrupted' = interrupted \ {req[r].id}
    /\ UNCHANGED <<database, user, born, audit, served>>

\* create_audit_log: after a creation and an update, before a deletion.
AddAudit(r) ==
    /\ pc[r] = "audit" /\ Refers(req[r].actor)
    /\ audit' = audit \cup
          {[actor |-> req[r].actor,
            deleted |-> IF req[r].op = "delete" THEN req[r].id ELSE None]}
    /\ IF req[r].op = "delete" THEN Goes(r, "deleting", req[r], NoRow) ELSE Ends(r)
    /\ UNCHANGED <<database, user, born, settings, interrupted, served>>

Chosen(asked, loaded) == IF asked = None THEN loaded ELSE asked

\* Mutant: the whole row is written back.
FlushRow(current, loaded, rq) ==
    [name |-> Chosen(rq.name, loaded.name), email |-> Chosen(rq.email, loaded.email),
     provider |-> loaded.provider, active |-> Chosen(rq.active, loaded.active)]

\* A column is written if it is asked for and differs from the one loaded.
Written(asked, loaded, current) ==
    IF Chosen(asked, loaded) = loaded THEN current ELSE asked

\* Mutant: what the request does not have is cleared.
FlushDetached(current, loaded, rq) ==
    [name |-> Written(rq.name, loaded.name, current.name),
     email |-> Written(rq.email, loaded.email, current.email),
     provider |-> rq.provider,
     active |-> Written(rq.active, loaded.active, current.active)]

Flush(current, loaded, rq) ==
    [name |-> Written(rq.name, loaded.name, current.name),
     email |-> Written(rq.email, loaded.email, current.email),
     provider |-> current.provider,
     active |-> Written(rq.active, loaded.active, current.active)]

\* UPDATE users WHERE id; the administrator's is audited, one's own is not.
CommitChange(r) ==
    LET i == req[r].id
        row == Flush(user[i], seen[r], req[r])
    IN  /\ pc[r] = "loaded"
        /\ Present(i) /\ ~Conflicts(row, i)
        /\ user' = [user EXCEPT ![i] = row]
        /\ IF req[r].op = "update" THEN Goes(r, "audit", req[r], NoRow) ELSE Ends(r)
        /\ UNCHANGED <<database, born, settings, audit, interrupted, served>>

\* The UPDATE meets a unique index, or no row any more (StaleDataError).
ChangeRejected(r) ==
    LET i == req[r].id
    IN  /\ pc[r] = "loaded"
        /\ Present(i) => Conflicts(Flush(user[i], seen[r], req[r]), i)
        /\ Ends(r)
        /\ UNCHANGED <<tables, served>>

\* No relationship of UserDB cascades: rows of settings stay as they are.
DeleteUser(r) ==
    /\ pc[r] = "deleting"
    /\ Present(req[r].id) /\ Unreferenced(req[r].id)
    /\ user' = [user EXCEPT ![req[r].id] = NoRow]
    /\ interrupted' = interrupted \ {req[r].id}
    /\ Ends(r)
    /\ UNCHANGED <<database, born, settings, audit, served>>

DeleteRejected(r) ==
    /\ pc[r] = "deleting"
    /\ ~(Present(req[r].id) /\ Unreferenced(req[r].id))
    /\ Ends(r)
    /\ UNCHANGED <<tables, served>>

\* What was committed is read back from the table, where the row may be gone.
RereadFails(r) == req[r].op \notin {"settings", "delete"} /\ ~Present(req[r].id)

\* A commit fails: by itself, or by a foreign key whose user is gone.  What
\* the request has committed before stays.
Fails(r) ==
    /\ pc[r] \in {"checked", "loaded", "settings", "audit", "deleting"}
    /\ \/ "commit" \in Faults
       \/ pc[r] = "settings" /\ ~Refers(req[r].id)
       \/ pc[r] = "audit" /\ ~Refers(req[r].actor)
       \/ pc[r] \in {"settings", "audit"} /\ RereadFails(r)
    /\ interrupted' = IF pc[r] = "settings" /\ req[r].op # "settings"
                         /\ Present(req[r].id) /\ settings[req[r].id] = 0
                      THEN interrupted \cup {req[r].id} ELSE interrupted
    /\ Ends(r)
    /\ UNCHANGED <<database, user, born, settings, audit, served>>
-----------------------------------------------------------------------------
\* Requests that change nothing: logging in, refreshing a token, reading
\* profiles and lists, and all that are refused for what they ask.
ReadOnly(r) == pc[r] = "idle" /\ UNCHANGED vars

\* Bound: an update asks for one column.
Receive(r) ==
    \/ ReadOnly(r)
    \/ \E n \in Names : \E e \in Emails : CheckRegister(r, n, e)
    \/ \E u \in Identities : \E l \in Logins : \E e \in Emails \cup {None} :
          GithubCallback(r, u, l, e) \/ GitlabCallback(r, u, l, e)
    \/ \E a \in Ids : \E n \in Names : \E e \in Emails : BeginCreate(r, a, n, e)
    \/ \E a \in Ids : \E e \in Emails \cup {None} : BeginProfile(r, a, e)
    \/ \E a \in Ids : \E i \in Ids : BeginDelete(r, a, i) \/ BeginSettings(r, a, i)
    \/ \E a \in Ids : \E i \in Ids :
          \/ \E n \in Names : BeginUpdate(r, a, i, n, None, None)
          \/ \E e \in Emails : BeginUpdate(r, a, i, None, e, None)
          \/ \E active \in BOOLEAN : BeginUpdate(r, a, i, None, None, active)

Handle(r) ==
    \/ CheckCreate(r) \/ Load(r) \/ LoadForDelete(r) \/ LoadSettings(r) \/ Answer(r)
    \/ InsertUser(r) \/ InsertRejected(r) \/ AddSettings(r) \/ AddAudit(r)
    \/ CommitChange(r) \/ ChangeRejected(r) \/ DeleteUser(r) \/ DeleteRejected(r)
    \/ Fails(r)

Next == \E r \in Requests : Receive(r) \/ Handle(r)

Spec == Init /\ [][Next]_vars
-----------------------------------------------------------------------------
(***************************************************************************)
(* Properties.                                                             *)
(***************************************************************************)

\* However many requests have checked the same name or address before either
\* wrote: no two users share a name, an address or a provider's identity, and
\* none is stored without an address.
IdentitiesUnique ==
    \A i \in Ids : Present(i) =>
        /\ user[i].email # None
        /\ \A j \in Ids \ {i} : Present(j) =>
              /\ user[i].name # user[j].name
              /\ user[i].email # user[j].email
              /\ user[i].provider = user[j].provider => user[i].provider = None

\* The table, seen as a set of accounts, moves only as AccountRegistry says:
\* one account comes, changes or goes, and a change leaves the provider.
Registry ==
    INSTANCE AccountRegistry
    WITH accounts <- {[name |-> user[i].name, email |-> user[i].email,
                       provider |-> user[i].provider] : i \in {j \in Ids : Present(j)}}

ImplementsRegistry == Registry!Spec

\* A user without settings is one whose creation is still between its two
\* commits, or was cut off there: every other way in ends with settings.
AccountsHaveSettings ==
    \A i \in Ids : Present(i) /\ settings[i] = 0 =>
        \/ i \in interrupted
        \/ \E r \in Requests : pc[r] = "settings" /\ req[r].id = i

\* Get-or-create is no upsert: requests that find no settings at the same
\* time insert a row each.  Only those; rows do not pile up with every change.
SettingsBounded ==
    \A i \in Ids : settings[i] <= Cardinality(Requests) + born

\* No user goes without an entry in audit_logs that is already committed.
DeletionsAudited ==
    [][\A i \in Ids : Present(i) /\ user'[i] = NoRow =>
          \E e \in audit : e.deleted = i]_vars

\* A deactivated account comes back only by an update that asks for it: never
\* by one that loaded the row before and writes something else.
StaysInactive ==
    [][\A i \in Ids : Present(i) /\ ~user[i].active /\ user'[i].active =>
          \E r \in Requests : /\ pc[r] = "loaded" /\ req[r].id = i
                              /\ req[r].op = "update" /\ req[r].active = TRUE]_vars
=============================================================================
