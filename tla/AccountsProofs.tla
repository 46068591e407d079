--------------------------- MODULE AccountsProofs ---------------------------
(***************************************************************************)
(* Theorems about Accounts, for every set of requests, names, addresses    *)
(* and identities, either database, and whatever commits fail.             *)
(***************************************************************************)
EXTENDS Accounts, FiniteSetTheorems, TLAPS

(***************************************************************************)
(* Types.                                                                  *)
(***************************************************************************)
\* What a request in a phase has: each has asked for something, and has loaded
\* what the phase works on.
Sound(phase, rq, row) ==
    /\ phase = "begun" => /\ rq.op \in {"create", "update", "profile", "delete", "settings"}
                          /\ row \in Row
    /\ phase = "checked" => rq.op \in {"register", "oauth", "create"}
    /\ phase = "loaded" => rq.op \in {"update", "profile"} /\ row \in Row
    /\ phase = "settings" => rq.op \in {"register", "oauth", "create", "settings"}
    /\ phase = "audit" => rq.op \in {"create", "update", "delete"}
    /\ phase = "deleting" => rq.op = "delete"
    /\ phase \in {"loaded", "settings", "audit", "deleting"} => rq.id \in Ids
    /\ rq.op \in {"create", "update", "profile", "delete", "settings"} => rq.actor \in Ids
    /\ rq.op \in {"register", "oauth", "create"} => rq.name \in Names
    /\ rq.op \in {"update", "profile", "delete", "settings"} => rq.id \in Ids
    /\ rq.op = "profile" => rq.active = None

HandlerOK == \A r \in Requests : Sound(pc[r], req[r], seen[r])

\* The bound on births covers the rows that are still to come.
BirthsOK ==
    /\ \A i \in Ids : Present(i) => i <= born
    /\ born + Cardinality(Expecting) <= MaxBirths

TypeInv == TypeOK /\ HandlerOK /\ BirthsOK

Waits(phase, rq) ==
    rq.op \in {"register", "oauth", "create"} /\ phase \in {"begun", "checked"}

LEMMA NoneTypes ==
    /\ None \notin Names /\ None \notin Emails /\ None \notin Providers
    /\ None \notin BOOLEAN /\ None \notin Nat /\ None \notin Ids
    /\ NoRow \notin Row
BY NoneIsNobody, AccountBounds DEF Ids, NoRow, Row

\* Every step that moves a request moves it to a sound phase.
LEMMA GoesKeepsHandlers ==
    ASSUME TypeOK, HandlerOK, NEW r \in Requests, NEW phase \in Phases,
           NEW rq \in Request, NEW row \in Row \cup {NoRow},
           Sound(phase, rq, row), Goes(r, phase, rq, row)
    PROVE  /\ pc' \in [Requests -> Phases]
           /\ req' \in [Requests -> Request]
           /\ seen' \in [Requests -> Row \cup {NoRow}]
           /\ HandlerOK'
BY DEF TypeOK, HandlerOK, Goes

LEMMA ExpectingMoves ==
    ASSUME TypeOK, NEW r \in Requests, NEW phase, NEW rq, NEW row,
           Goes(r, phase, rq, row)
    PROVE  /\ IsFiniteSet(Expecting) /\ Cardinality(Expecting) \in Nat
           /\ Waits(phase, rq) => Expecting' = Expecting \cup {r}
           /\ ~Waits(phase, rq) => Expecting' = Expecting \ {r}
           /\ ~Waits(phase, rq) => Cardinality(Expecting') <= Cardinality(Expecting)
           /\ Cardinality(Expecting') <= Cardinality(Expecting) + 1
           /\ Waits(pc[r], req[r]) => Cardinality(Expecting') <= Cardinality(Expecting)
           /\ Waits(pc[r], req[r]) /\ ~Waits(phase, rq) =>
                  Cardinality(Expecting') + 1 <= Cardinality(Expecting)
           /\ Cardinality(Expecting') \in Nat
<1>1. IsFiniteSet(Expecting)
  <2>1. Expecting \in SUBSET Requests
    BY DEF Expecting
  <2> QED BY <2>1, FS_Subset, RequestsFinite
<1>2. Cardinality(Expecting) \in Nat
  BY <1>1, FS_CardinalityType
<1>3. /\ pc'[r] = phase /\ req'[r] = rq
      /\ \A s \in Requests : s # r => pc'[s] = pc[s] /\ req'[s] = req[s]
  BY DEF Goes, TypeOK
<1>4. Waits(phase, rq) => Expecting' = Expecting \cup {r}
  BY <1>3 DEF Expecting, Waits
<1>5. ~Waits(phase, rq) => Expecting' = Expecting \ {r}
  BY <1>3 DEF Expecting, Waits
<1>6. r \in Expecting <=> Waits(pc[r], req[r])
  BY DEF Expecting, Waits
<1>7. /\ Cardinality(Expecting \cup {r}) = IF r \in Expecting THEN Cardinality(Expecting)
                                          ELSE Cardinality(Expecting) + 1
      /\ Cardinality(Expecting \ {r}) = IF r \in Expecting THEN Cardinality(Expecting) - 1
                                        ELSE Cardinality(Expecting)
  BY <1>1, FS_AddElement, FS_RemoveElement
<1>8. IsFiniteSet(Expecting \ {r}) /\ Cardinality(Expecting \ {r}) \in Nat
  BY <1>1, FS_RemoveElement, FS_CardinalityType
<1>9. CASE Waits(phase, rq)
  BY <1>1, <1>2, <1>4, <1>6, <1>7, <1>9
<1>10. CASE ~Waits(phase, rq)
  BY <1>1, <1>2, <1>5, <1>6, <1>7, <1>8, <1>10
<1> QED BY <1>9, <1>10

\* A finite set of numbers that is not empty has a greatest: the sets of what
\* is above each are ordered by inclusion, which is well-founded.
LEMMA Greatest ==
    ASSUME NEW X, X \subseteq Nat, IsFiniteSet(X), X # {}
    PROVE  \E x \in X : \A y \in X : y <= x
<1> DEFINE Above(x) == {y \in X : y > x}
<1>1. PICK U : U = {Above(x) : x \in X}
  OBVIOUS
<1>2. U \subseteq SUBSET X /\ U # {}
  BY <1>1
<1>3. PICK A \in U : \A B \in U : B \subseteq A => B = A
  <2>1. IsWellFoundedOn(StrictSubsetOrdering(X), SUBSET X)
    BY FS_StrictSubsetOrderingWellFounded, FS_FiniteSubsetsOfFinite
  <2>2. \E A \in U : \A B \in U : ~(<<B, A>> \in StrictSubsetOrdering(X))
    BY <1>2, <2>1, WFMin
  <2> QED BY <1>2, <2>2 DEF StrictSubsetOrdering
<1>4. PICK x \in X : A = Above(x)
  BY <1>1, <1>3
<1>5. ASSUME NEW y \in X, y > x PROVE FALSE
  <2>1. x \in Nat /\ y \in Nat
    OBVIOUS
  <2>2. \A z \in X : z > y => z > x
    BY <1>5, <2>1
  <2>3. Above(y) \subseteq Above(x)
    BY <2>2
  <2>4. y \in Above(x) /\ y \notin Above(y)
    BY <1>5, <2>1
  <2>5. Above(y) = A
    <3>1. Above(y) \in U
      BY <1>1
    <3> QED BY <1>3, <1>4, <2>3, <3>1
  <2> QED BY <1>4, <2>4, <2>5
<1> QED BY <1>5

\* The new id is above every id that is in the table.
LEMMA NextIdAbove ==
    ASSUME TypeOK, BirthsOK
    PROVE  /\ NextId \in 1..(born + 1)
           /\ \A j \in Ids : Present(j) => j < NextId
<1>1. born \in Nat /\ MaxBirths \in Nat /\ born <= MaxBirths
  BY AccountBounds DEF TypeOK
<1>2. Ids \subseteq Nat /\ \A j \in Ids : Present(j) => j <= born
  BY <1>1 DEF BirthsOK, Ids
<1>3. CASE database # "sqlite"
  BY <1>1, <1>2, <1>3 DEF NextId
<1>4. CASE database = "sqlite"
  <2> DEFINE Next1(i) == /\ \A j \in Ids : Present(j) => j < i
                         /\ i > 1 => Present(i - 1)
  <2>1. NextId = CHOOSE i \in 1..(MaxBirths + 1) : Next1(i)
    BY <1>4 DEF NextId
  <2>2. \A i \in 1..(MaxBirths + 1) : Next1(i) => i <= born + 1
    <3> SUFFICES ASSUME NEW i \in 1..(MaxBirths + 1), Next1(i), i > 1
                 PROVE  i <= born + 1
      BY <1>1
    <3>1. i - 1 \in Ids /\ Present(i - 1)
      BY <1>1 DEF Ids
    <3> QED BY <1>1, <1>2, <3>1
  <2>3. \E i \in 1..(MaxBirths + 1) : Next1(i)
    <3> DEFINE X == {j \in Ids : Present(j)}
    <3>1. CASE X = {}
      <4>1. 1 \in 1..(MaxBirths + 1) /\ Next1(1)
        BY <1>1, <3>1
      <4> QED BY <4>1
    <3>2. CASE X # {}
      <4>1. IsFiniteSet(Ids)
        BY <1>1, FS_Interval DEF Ids
      <4>2. X \in SUBSET Ids
        OBVIOUS
      <4>3. IsFiniteSet(X) /\ X \subseteq Nat
        BY <1>2, <4>1, <4>2, FS_Subset
      <4> HIDE DEF X
      <4>4. PICK x \in X : \A y \in X : y <= x
        BY <3>2, <4>3, Greatest
      <4> USE DEF X
      <4>5. x \in Ids /\ Present(x) /\ x \in Nat /\ x >= 1 /\ x <= MaxBirths
        BY <1>1, <4>4 DEF Ids
      <4>6. \A j \in Ids : Present(j) => j < x + 1
        BY <1>2, <4>4, <4>5
      <4>7. x + 1 \in 1..(MaxBirths + 1) /\ (x + 1) - 1 = x
        BY <1>1, <4>5
      <4>8. Next1(x + 1)
        BY <4>5, <4>6, <4>7
      <4> QED BY <4>7, <4>8
    <3> QED BY <3>1, <3>2
  <2> HIDE DEF Next1
  <2>4. NextId \in 1..(MaxBirths + 1) /\ Next1(NextId)
    BY <2>1, <2>3
  <2>5. NextId <= born + 1
    BY <2>2, <2>4
  <2> USE DEF Next1
  <2>6. NextId \in Nat /\ NextId >= 1
    BY <1>1, <2>4
  <2> QED BY <1>1, <2>4, <2>5, <2>6
<1> QED BY <1>3, <1>4

\* A step that leaves the tables alone.
LEMMA QuietKeepsTypes ==
    ASSUME TypeInv, NEW r \in Requests, NEW phase \in Phases,
           NEW rq \in Request, NEW row \in Row \cup {NoRow},
           Sound(phase, rq, row), Goes(r, phase, rq, row),
           UNCHANGED <<database, user, born, settings, audit>>,
           interrupted' \subseteq Ids, served' \in 0..MaxRequests,
           Waits(phase, rq) => Waits(pc[r], req[r]) \/ Room
    PROVE  TypeInv'
<1>1. TypeOK'
  BY GoesKeepsHandlers DEF TypeInv, TypeOK
<1>2. HandlerOK'
  BY GoesKeepsHandlers DEF TypeInv
<1>3. BirthsOK'
  <2>1. \A i \in Ids : Present(i)' => i <= born'
    BY DEF TypeInv, BirthsOK, Present
  <2>2. born \in Nat /\ MaxBirths \in Nat
    BY AccountBounds DEF TypeInv, TypeOK
  <2>3. /\ Cardinality(Expecting) \in Nat /\ Cardinality(Expecting') \in Nat
        /\ Cardinality(Expecting') <= Cardinality(Expecting) + 1
        /\ ~Waits(phase, rq) \/ Waits(pc[r], req[r]) =>
               Cardinality(Expecting') <= Cardinality(Expecting)
    BY ExpectingMoves DEF TypeInv
  <2>4. born + Cardinality(Expecting') <= MaxBirths
    BY <2>2, <2>3 DEF TypeInv, BirthsOK, Room
  <2> QED BY <2>1, <2>4 DEF BirthsOK
<1> QED BY <1>1, <1>2, <1>3 DEF TypeInv

\* A request that begins has what its operation needs.
LEMMA BeginKeepsTypes ==
    ASSUME TypeInv, NEW r \in Requests, NEW rq \in Request,
           rq.op \in {"create", "update", "profile", "delete", "settings"},
           rq.actor \in Ids,
           rq.op = "create" => rq.name \in Names /\ Room,
           rq.op \in {"update", "profile", "delete", "settings"} => rq.id \in Ids,
           rq.op = "profile" => rq.active = None,
           Begin(r, rq)
    PROVE  TypeInv'
<1>1. user[rq.actor] \in Row
  BY DEF Begin, Present, TypeInv, TypeOK
<1>2. Sound("begun", rq, user[rq.actor])
  BY <1>1 DEF Sound
<1>3. served \in Nat /\ MaxRequests \in Nat /\ served < MaxRequests /\ served' = served + 1
  BY AccountBounds DEF Begin, Starts, TypeInv, TypeOK
<1>4. /\ Goes(r, "begun", rq, user[rq.actor]) /\ UNCHANGED tables
  BY DEF Begin, Starts
<1>5. Waits("begun", rq) => Room
  BY DEF Waits
<1>6. served' \in 0..MaxRequests /\ interrupted' \subseteq Ids
  BY <1>3, <1>4 DEF tables, TypeInv, TypeOK
<1>7. "begun" \in Phases /\ user[rq.actor] \in Row \cup {NoRow}
  BY <1>1 DEF Phases
<1> QED BY <1>2, <1>4, <1>5, <1>6, <1>7, QuietKeepsTypes DEF tables

LEMMA NoRequestTyped == NoRequest \in Request /\ Sound("idle", NoRequest, NoRow)
BY DEF NoRequest, Request, Operations, Sound

LEMMA CheckedKeepsTypes ==
    ASSUME TypeInv, NEW r \in Requests, NEW rq \in Request, Room,
           rq.op \in {"register", "oauth"}, rq.name \in Names,
           Starts(r, "checked", rq, NoRow)
    PROVE  TypeInv'
<1>1. Sound("checked", rq, NoRow)
  BY DEF Sound
<1>2. served \in Nat /\ MaxRequests \in Nat /\ served < MaxRequests /\ served' = served + 1
  BY AccountBounds DEF Starts, TypeInv, TypeOK
<1>3. served' \in 0..MaxRequests /\ interrupted' \subseteq Ids
  BY <1>2 DEF Starts, tables, TypeInv, TypeOK
<1>4. "checked" \in Phases
  BY DEF Phases
<1> QED BY <1>1, <1>3, <1>4, QuietKeepsTypes DEF Starts, tables

LEMMA ReceiveKeepsTypes ==
    ASSUME TypeInv, NEW r \in Requests, Receive(r)
    PROVE  TypeInv'
<1>1. CASE ReadOnly(r)
  BY <1>1 DEF ReadOnly, vars, TypeInv, TypeOK, HandlerOK, BirthsOK, Present, Expecting
<1>2. ASSUME NEW n \in Names, NEW e \in Emails, CheckRegister(r, n, e) PROVE TypeInv'
  <2> DEFINE rq == [NoRequest EXCEPT !.op = "register", !.name = n, !.email = e]
  <2>1. rq \in Request /\ rq.op = "register" /\ rq.name = n
    BY DEF NoRequest, Request, Operations
  <2>2. Room /\ Starts(r, "checked", rq, NoRow)
    BY <1>2 DEF CheckRegister
  <2> HIDE DEF rq
  <2> QED BY <2>1, <2>2, CheckedKeepsTypes
<1>3. ASSUME NEW p \in Providers, NEW l \in Logins, NEW e \in Emails \cup {None},
             Callback(r, p, l, e)
      PROVE  TypeInv'
  <2>1. PICK k \in Suffixes :
            Starts(r, "checked", [NoRequest EXCEPT !.op = "oauth", !.name = <<l, k>>,
                                                   !.email = e, !.provider = p], NoRow)
    BY <1>3 DEF Callback
  <2> DEFINE rq == [NoRequest EXCEPT !.op = "oauth", !.name = <<l, k>>,
                                     !.email = e, !.provider = p]
  <2>2. <<l, k>> \in Names
    BY DEF Names
  <2>3. rq \in Request /\ rq.op = "oauth" /\ rq.name = <<l, k>>
    BY <2>2 DEF NoRequest, Request, Operations
  <2>4. Room /\ Starts(r, "checked", rq, NoRow)
    BY <1>3, <2>1 DEF Callback
  <2> HIDE DEF rq
  <2> QED BY <2>2, <2>3, <2>4, CheckedKeepsTypes
<1>4. ASSUME NEW a \in Ids, NEW n \in Names, NEW e \in Emails, BeginCreate(r, a, n, e)
      PROVE  TypeInv'
  <2> DEFINE rq == [NoRequest EXCEPT !.op = "create", !.actor = a, !.name = n, !.email = e]
  <2>1. rq \in Request /\ rq.op = "create" /\ rq.name = n /\ rq.actor = a
    BY DEF NoRequest, Request, Operations
  <2>2. Room /\ Begin(r, rq)
    BY <1>4 DEF BeginCreate
  <2> HIDE DEF rq
  <2> QED BY <2>1, <2>2, BeginKeepsTypes
<1>5. ASSUME NEW a \in Ids, NEW i \in Ids, NEW n \in Names \cup {None},
             NEW e \in Emails \cup {None}, NEW active \in BOOLEAN \cup {None},
             BeginUpdate(r, a, i, n, e, active)
      PROVE  TypeInv'
  <2> DEFINE rq == [NoRequest EXCEPT !.op = "update", !.actor = a, !.id = i, !.name = n,
                                     !.email = e, !.active = active]
  <2>1. rq \in Request /\ rq.op = "update" /\ rq.actor = a /\ rq.id = i
    BY DEF NoRequest, Request, Operations
  <2>2. Begin(r, rq)
    BY <1>5 DEF BeginUpdate
  <2> HIDE DEF rq
  <2> QED BY <2>1, <2>2, BeginKeepsTypes
<1>6. ASSUME NEW a \in Ids, NEW e \in Emails \cup {None}, BeginProfile(r, a, e)
      PROVE  TypeInv'
  <2> DEFINE rq == [NoRequest EXCEPT !.op = "profile", !.actor = a, !.id = a, !.email = e]
  <2>1. /\ rq \in Request /\ rq.op = "profile" /\ rq.actor = a /\ rq.id = a
        /\ rq.active = None
    BY DEF NoRequest, Request, Operations
  <2>2. Begin(r, rq)
    BY <1>6 DEF BeginProfile
  <2> HIDE DEF rq
  <2> QED BY <2>1, <2>2, BeginKeepsTypes
<1>7. ASSUME NEW a \in Ids, NEW i \in Ids, BeginDelete(r, a, i) PROVE TypeInv'
  <2> DEFINE rq == [NoRequest EXCEPT !.op = "delete", !.actor = a, !.id = i]
  <2>1. rq \in Request /\ rq.op = "delete" /\ rq.actor = a /\ rq.id = i
    BY DEF NoRequest, Request, Operations
  <2>2. Begin(r, rq)
    BY <1>7 DEF BeginDelete
  <2> HIDE DEF rq
  <2> QED BY <2>1, <2>2, BeginKeepsTypes
<1>8. ASSUME NEW a \in Ids, NEW i \in Ids, BeginSettings(r, a, i) PROVE TypeInv'
  <2> DEFINE rq == [NoRequest EXCEPT !.op = "settings", !.actor = a, !.id = i]
  <2>1. rq \in Request /\ rq.op = "settings" /\ rq.actor = a /\ rq.id = i
    BY DEF NoRequest, Request, Operations
  <2>2. Begin(r, rq)
    BY <1>8 DEF BeginSettings
  <2> HIDE DEF rq
  <2> QED BY <2>1, <2>2, BeginKeepsTypes
<1>9. \A u \in Identities : <<"github", u>> \in Providers /\ <<"gitlab", u>> \in Providers
  BY DEF Providers
<1>10. CASE \E u \in Identities : \E l \in Logins : \E e \in Emails \cup {None} :
               GithubCallback(r, u, l, e) \/ GitlabCallback(r, u, l, e)
  BY <1>3, <1>9, <1>10 DEF GithubCallback, GitlabCallback
<1> QED BY <1>1, <1>2, <1>4, <1>5, <1>6, <1>7, <1>8, <1>10 DEF Receive

\* The steps of a request that has begun.
LEMMA ChecksKeepTypes ==
    ASSUME TypeInv, NEW r \in Requests,
           CheckCreate(r) \/ Load(r) \/ LoadForDelete(r) \/ LoadSettings(r)
    PROVE  TypeInv'
<1>1. /\ req[r] \in Request /\ Sound(pc[r], req[r], seen[r]) /\ pc[r] = "begun"
      /\ UNCHANGED tables /\ served' \in 0..MaxRequests
      /\ UNCHANGED <<database, user, born, settings, audit>> /\ interrupted' \subseteq Ids
  BY DEF TypeInv, TypeOK, HandlerOK, CheckCreate, Load, LoadForDelete, LoadSettings, tables
<1>2. CASE CheckCreate(r)
  <2>1. Sound("checked", req[r], NoRow) /\ "checked" \in Phases
    BY <1>1, <1>2 DEF CheckCreate, Sound, Phases
  <2>2. Waits(pc[r], req[r])
    BY <1>1, <1>2 DEF CheckCreate, Waits
  <2> QED BY <1>1, <1>2, <2>1, <2>2, QuietKeepsTypes DEF CheckCreate
<1>3. CASE Load(r)
  <2> DEFINE row == IF req[r].id = req[r].actor THEN seen[r] ELSE user[req[r].id]
  <2>1. row \in Row
    <3>1. req[r].id \in Ids /\ Present(req[r].id)
      BY <1>1, <1>3 DEF Load, Sound, Changeable
    <3>2. user[req[r].id] \in Row /\ seen[r] \in Row
      BY <1>1, <3>1 DEF Present, TypeInv, TypeOK, Sound
    <3> QED BY <3>2
  <2>2. Goes(r, "loaded", req[r], row)
    BY <1>3 DEF Load
  <2> HIDE DEF row
  <2>3. Sound("loaded", req[r], row) /\ "loaded" \in Phases /\ ~Waits("loaded", req[r])
    BY <1>1, <1>3, <2>1 DEF Load, Sound, Phases, Waits
  <2> QED BY <1>1, <2>1, <2>2, <2>3, QuietKeepsTypes
<1>4. CASE LoadForDelete(r)
  <2>1. Sound("audit", req[r], NoRow) /\ "audit" \in Phases /\ ~Waits("audit", req[r])
    BY <1>1, <1>4 DEF LoadForDelete, Sound, Phases, Waits
  <2> QED BY <1>1, <1>4, <2>1, QuietKeepsTypes DEF LoadForDelete
<1>5. CASE LoadSettings(r)
  <2>1. Sound("settings", req[r], NoRow) /\ "settings" \in Phases
        /\ ~Waits("settings", req[r])
    BY <1>1, <1>5 DEF LoadSettings, Sound, Phases, Waits
  <2> QED BY <1>1, <1>5, <2>1, QuietKeepsTypes DEF LoadSettings
<1> QED BY <1>2, <1>3, <1>4, <1>5

LEMMA EndKeepsTypes ==
    ASSUME TypeInv, NEW r \in Requests,
           \/ Answer(r) \/ InsertRejected(r) \/ ChangeRejected(r)
           \/ DeleteRejected(r) \/ Fails(r)
    PROVE  TypeInv'
<1>1. /\ Ends(r) /\ UNCHANGED <<database, user, born, settings, audit>>
      /\ served' \in 0..MaxRequests
  BY DEF Answer, InsertRejected, ChangeRejected, DeleteRejected, Fails, tables,
         TypeInv, TypeOK
<1>2. interrupted' \subseteq Ids
  <2>1. CASE Fails(r)
    <3>1. pc[r] = "settings" => req[r].id \in Ids
      BY DEF TypeInv, HandlerOK, Sound
    <3> QED BY <2>1, <3>1 DEF Fails, TypeInv, TypeOK
  <2>2. CASE ~Fails(r)
    BY <2>2 DEF Answer, InsertRejected, ChangeRejected, DeleteRejected, tables,
                TypeInv, TypeOK
  <2> QED BY <2>1, <2>2
<1>3. "idle" \in Phases /\ ~Waits("idle", NoRequest)
  BY DEF Phases, Waits
<1> QED BY <1>1, <1>2, <1>3, NoRequestTyped, QuietKeepsTypes DEF Ends

\* The commits.
LEMMA InsertKeepsTypes ==
    ASSUME TypeInv, NEW r \in Requests, InsertUser(r)
    PROVE  /\ TypeInv'
           /\ NextId \in Ids /\ ~Present(NextId) /\ NewRow(req[r]) \in Row
           /\ user' = [user EXCEPT ![NextId] = NewRow(req[r])]
<1> DEFINE rq == [req[r] EXCEPT !.id = NextId]
           row == NewRow(req[r])
<1>1. /\ req[r] \in Request /\ Sound("checked", req[r], seen[r])
      /\ pc[r] = "checked" /\ ~Conflicts(row, NextId)
      /\ user' = [user EXCEPT ![NextId] = row] /\ born' = born + 1
      /\ Goes(r, "settings", rq, NoRow)
      /\ UNCHANGED <<database, settings, audit, interrupted, served>>
  BY DEF InsertUser, TypeInv, TypeOK, HandlerOK
<1>2. born \in Nat /\ MaxBirths \in Nat
  BY AccountBounds DEF TypeInv, TypeOK
<1>3. /\ Waits(pc[r], req[r]) /\ ~Waits("settings", rq)
  BY <1>1 DEF Waits, Sound
<1>4. /\ Cardinality(Expecting) \in Nat /\ Cardinality(Expecting') \in Nat
      /\ Cardinality(Expecting') + 1 <= Cardinality(Expecting)
  BY <1>1, <1>3, ExpectingMoves DEF TypeInv
<1>5. born + 1 <= MaxBirths /\ born' + Cardinality(Expecting') <= MaxBirths
  BY <1>1, <1>2, <1>4 DEF TypeInv, BirthsOK
<1>6. NextId \in 1..(born + 1) /\ \A j \in Ids : Present(j) => j < NextId
  BY NextIdAbove DEF TypeInv
<1>7. NextId \in Ids /\ NextId \in Nat /\ NextId <= born + 1
  BY <1>2, <1>5, <1>6 DEF Ids
<1>8. ~Present(NextId)
  BY <1>6, <1>7
<1>9. row \in Row
  <2>1. /\ req[r].name \in Names /\ req[r].email \in Emails \cup {None}
        /\ req[r].provider \in Providers \cup {None}
    BY <1>1 DEF Sound, Request
  <2>2. req[r].email # None
    BY <1>1 DEF Conflicts, NewRow
  <2> QED BY <2>1, <2>2 DEF NewRow, Row
<1>10. rq \in Request /\ rq.op = req[r].op /\ rq.id = NextId /\ rq.actor = req[r].actor
       /\ rq.name = req[r].name /\ rq.active = req[r].active
  BY <1>1, <1>7 DEF Request
<1>11. Sound("settings", rq, NoRow)
  BY <1>1, <1>7, <1>10 DEF Sound
<1> HIDE DEF rq, row
<1>12. TypeOK' /\ HandlerOK'
  <2>1. /\ pc' \in [Requests -> Phases] /\ req' \in [Requests -> Request]
        /\ seen' \in [Requests -> Row \cup {NoRow}] /\ HandlerOK'
    BY <1>1, <1>10, <1>11, GoesKeepsHandlers DEF Phases, TypeInv
  <2>2. user' \in [Ids -> Row \cup {NoRow}]
    BY <1>1, <1>7, <1>9 DEF TypeInv, TypeOK
  <2>3. born' \in 0..MaxBirths
    BY <1>1, <1>2, <1>5
  <2> QED BY <1>1, <2>1, <2>2, <2>3 DEF TypeInv, TypeOK
<1>13. BirthsOK'
  <2>1. \A i \in Ids : Present(i)' => i <= born'
    <3> SUFFICES ASSUME NEW i \in Ids, Present(i)' PROVE i <= born'
      OBVIOUS
    <3>1. i = NextId \/ Present(i)
      BY <1>1, <1>7 DEF Present, TypeInv, TypeOK
    <3>2. Present(i) => i <= born
      BY DEF TypeInv, BirthsOK
    <3> QED BY <1>1, <1>2, <1>7, <3>1, <3>2 DEF Ids
  <2> QED BY <1>5, <2>1 DEF BirthsOK
<1>14. TypeInv'
  BY <1>12, <1>13 DEF TypeInv
<1> QED BY <1>1, <1>7, <1>8, <1>9, <1>14 DEF row

\* The commits of existing rows neither add ids nor rows still to come.
LEMMA CommitKeepsTypes ==
    ASSUME TypeInv, NEW r \in Requests, NEW phase \in Phases, NEW rq \in Request,
           Sound(phase, rq, NoRow), Goes(r, phase, rq, NoRow), ~Waits(phase, rq),
           UNCHANGED <<database, born, served>>,
           user' \in [Ids -> Row \cup {NoRow}],
           \A i \in Ids : user'[i] # NoRow => Present(i),
           settings' \in [Ids -> Nat], audit' \subseteq Entry, interrupted' \subseteq Ids
    PROVE  TypeInv'
<1>1. NoRow \in Row \cup {NoRow}
  OBVIOUS
<1>2. TypeOK' /\ HandlerOK'
  BY <1>1, GoesKeepsHandlers DEF TypeInv, TypeOK
<1>3. BirthsOK'
  <2>1. \A i \in Ids : Present(i)' => i <= born'
    BY DEF TypeInv, BirthsOK, Present
  <2>2. born \in Nat /\ MaxBirths \in Nat
    BY AccountBounds DEF TypeInv, TypeOK
  <2>3. /\ Cardinality(Expecting) \in Nat /\ Cardinality(Expecting') \in Nat
        /\ Cardinality(Expecting') <= Cardinality(Expecting)
    BY <1>1, ExpectingMoves DEF TypeInv
  <2>4. born + Cardinality(Expecting') <= MaxBirths
    BY <2>2, <2>3 DEF TypeInv, BirthsOK
  <2> QED BY <2>1, <2>4 DEF BirthsOK
<1> QED BY <1>2, <1>3 DEF TypeInv

LEMMA AddSettingsKeepsTypes ==
    ASSUME TypeInv, NEW r \in Requests, AddSettings(r)
    PROVE  TypeInv'
<1>1. /\ req[r] \in Request /\ Sound("settings", req[r], seen[r]) /\ pc[r] = "settings"
      /\ req[r].id \in Ids /\ settings[req[r].id] \in Nat
  BY DEF AddSettings, TypeInv, TypeOK, HandlerOK, Sound
<1>2. /\ settings' = [settings EXCEPT ![req[r].id] = settings[req[r].id] + 1]
      /\ UNCHANGED <<database, user, born, audit, served>>
      /\ interrupted' = interrupted \ {req[r].id}
  BY DEF AddSettings
<1>3. /\ user' \in [Ids -> Row \cup {NoRow}] /\ settings' \in [Ids -> Nat]
      /\ audit' \subseteq Entry /\ interrupted' \subseteq Ids
      /\ \A i \in Ids : user'[i] # NoRow => Present(i)
  BY <1>1, <1>2 DEF TypeInv, TypeOK, Present
<1>4. CASE req[r].op = "create"
  <2>1. Sound("audit", req[r], NoRow) /\ "audit" \in Phases /\ ~Waits("audit", req[r])
    BY <1>1, <1>4 DEF Sound, Phases, Waits
  <2>2. Goes(r, "audit", req[r], NoRow)
    BY <1>4 DEF AddSettings
  <2> QED BY <1>1, <1>2, <1>3, <2>1, <2>2, CommitKeepsTypes
<1>5. CASE req[r].op # "create"
  <2>1. Goes(r, "idle", NoRequest, NoRow) /\ "idle" \in Phases /\ ~Waits("idle", NoRequest)
    BY <1>5 DEF AddSettings, Ends, Phases, Waits
  <2> QED BY <1>2, <1>3, <2>1, NoRequestTyped, CommitKeepsTypes
<1> QED BY <1>4, <1>5

LEMMA AddAuditKeepsTypes ==
    ASSUME TypeInv, NEW r \in Requests, AddAudit(r)
    PROVE  TypeInv'
<1>1. /\ req[r] \in Request /\ Sound("audit", req[r], seen[r]) /\ pc[r] = "audit"
      /\ req[r].id \in Ids /\ req[r].actor \in Ids
  BY DEF AddAudit, TypeInv, TypeOK, HandlerOK, Sound
<1>2. UNCHANGED <<database, user, born, settings, interrupted, served>>
  BY DEF AddAudit
<1>3. audit' \subseteq Entry
  BY <1>1 DEF AddAudit, Entry, TypeInv, TypeOK
<1>4. /\ user' \in [Ids -> Row \cup {NoRow}] /\ settings' \in [Ids -> Nat]
      /\ interrupted' \subseteq Ids
      /\ \A i \in Ids : user'[i] # NoRow => Present(i)
  BY <1>2 DEF TypeInv, TypeOK, Present
<1>5. CASE req[r].op = "delete"
  <2>1. /\ Sound("deleting", req[r], NoRow) /\ "deleting" \in Phases
        /\ ~Waits("deleting", req[r])
    BY <1>1, <1>5 DEF Sound, Phases, Waits
  <2>2. Goes(r, "deleting", req[r], NoRow)
    BY <1>5 DEF AddAudit
  <2> QED BY <1>1, <1>2, <1>3, <1>4, <2>1, <2>2, CommitKeepsTypes
<1>6. CASE req[r].op # "delete"
  <2>1. Goes(r, "idle", NoRequest, NoRow) /\ "idle" \in Phases /\ ~Waits("idle", NoRequest)
    BY <1>6 DEF AddAudit, Ends, Phases, Waits
  <2> QED BY <1>2, <1>3, <1>4, <2>1, NoRequestTyped, CommitKeepsTypes
<1> QED BY <1>5, <1>6

LEMMA CommitChangeKeepsTypes ==
    ASSUME TypeInv, NEW r \in Requests, CommitChange(r)
    PROVE  /\ TypeInv'
           /\ req[r].id \in Ids /\ Present(req[r].id) /\ user[req[r].id] \in Row
           /\ Flush(user[req[r].id], seen[r], req[r]) \in Row
<1> DEFINE row == Flush(user[req[r].id], seen[r], req[r])
<1>1. /\ req[r] \in Request /\ Sound("loaded", req[r], seen[r]) /\ pc[r] = "loaded"
      /\ req[r].id \in Ids /\ seen[r] \in Row
  BY DEF CommitChange, TypeInv, TypeOK, HandlerOK, Sound
<1>2. Present(req[r].id) /\ user[req[r].id] \in Row
  BY <1>1 DEF CommitChange, Present, TypeInv, TypeOK
<1>3. row \in Row
  <2>1. /\ req[r].name \in Names \cup {None} /\ req[r].email \in Emails \cup {None}
        /\ req[r].active \in BOOLEAN \cup {None}
    BY <1>1 DEF Request
  <2>2. /\ user[req[r].id].name \in Names /\ user[req[r].id].email \in Emails
        /\ user[req[r].id].provider \in Providers \cup {None}
        /\ user[req[r].id].active \in BOOLEAN
    BY <1>2 DEF Row
  <2>3. /\ row.name \in Names /\ row.email \in Emails /\ row.active \in BOOLEAN
        /\ row.provider \in Providers \cup {None}
    BY <2>1, <2>2 DEF Flush, Written, Chosen
  <2> QED BY <2>3 DEF Flush, Row
<1>4. /\ user' = [user EXCEPT ![req[r].id] = row]
      /\ UNCHANGED <<database, born, settings, audit, interrupted, served>>
  BY DEF CommitChange
<1> HIDE DEF row
<1>5. /\ user' \in [Ids -> Row \cup {NoRow}] /\ settings' \in [Ids -> Nat]
      /\ audit' \subseteq Entry /\ interrupted' \subseteq Ids
      /\ \A i \in Ids : user'[i] # NoRow => Present(i)
  BY <1>1, <1>2, <1>3, <1>4 DEF TypeInv, TypeOK, Present
<1>6. CASE req[r].op = "update"
  <2>1. Sound("audit", req[r], NoRow) /\ "audit" \in Phases /\ ~Waits("audit", req[r])
    BY <1>1, <1>6 DEF Sound, Phases, Waits
  <2>2. Goes(r, "audit", req[r], NoRow)
    BY <1>6 DEF CommitChange
  <2> QED BY <1>1, <1>2, <1>3, <1>4, <1>5, <2>1, <2>2, CommitKeepsTypes DEF row
<1>7. CASE req[r].op # "update"
  <2>1. Goes(r, "idle", NoRequest, NoRow) /\ "idle" \in Phases /\ ~Waits("idle", NoRequest)
    BY <1>7 DEF CommitChange, Ends, Phases, Waits
  <2> QED BY <1>1, <1>2, <1>3, <1>4, <1>5, <2>1, NoRequestTyped, CommitKeepsTypes DEF row
<1> QED BY <1>6, <1>7

LEMMA DeleteKeepsTypes ==
    ASSUME TypeInv, NEW r \in Requests, DeleteUser(r)
    PROVE  TypeInv' /\ req[r].id \in Ids
<1>1. req[r].id \in Ids
  BY DEF DeleteUser, TypeInv, HandlerOK, Sound
<1>2. /\ user' = [user EXCEPT ![req[r].id] = NoRow]
      /\ interrupted' = interrupted \ {req[r].id}
      /\ UNCHANGED <<database, born, settings, audit, served>>
  BY DEF DeleteUser
<1>3. /\ user' \in [Ids -> Row \cup {NoRow}] /\ settings' \in [Ids -> Nat]
      /\ audit' \subseteq Entry /\ interrupted' \subseteq Ids
      /\ \A i \in Ids : user'[i] # NoRow => Present(i)
  BY <1>1, <1>2 DEF TypeInv, TypeOK, Present
<1>4. Goes(r, "idle", NoRequest, NoRow) /\ "idle" \in Phases /\ ~Waits("idle", NoRequest)
  BY DEF DeleteUser, Ends, Phases, Waits
<1> QED BY <1>1, <1>2, <1>3, <1>4, NoRequestTyped, CommitKeepsTypes

LEMMA TypeInvStep == TypeInv /\ [Next]_vars => TypeInv'
<1> SUFFICES ASSUME TypeInv, [Next]_vars PROVE TypeInv'
  OBVIOUS
<1>1. CASE UNCHANGED vars
  BY <1>1 DEF vars, TypeInv, TypeOK, HandlerOK, BirthsOK, Present, Expecting
<1>2. ASSUME NEW r \in Requests, Handle(r) PROVE TypeInv'
  BY <1>2, ChecksKeepTypes, EndKeepsTypes, InsertKeepsTypes, AddSettingsKeepsTypes,
     AddAuditKeepsTypes, CommitChangeKeepsTypes, DeleteKeepsTypes DEF Handle
<1> QED BY <1>1, <1>2, ReceiveKeepsTypes DEF Next

LEMMA TypeInvInit == Init => TypeInv
<1> SUFFICES ASSUME Init PROVE TypeInv
  OBVIOUS
<1>1. TypeOK
  BY AccountBounds, NoRequestTyped DEF Init, TypeOK, Phases, Entry
<1>2. HandlerOK
  BY NoRequestTyped DEF Init, HandlerOK
<1>3. Expecting = {}
  BY DEF Init, Expecting
<1>4. Cardinality(Expecting) = 0
  BY <1>3, FS_EmptySet
<1>5. BirthsOK
  BY <1>4, AccountBounds DEF Init, BirthsOK, Present
<1> QED BY <1>1, <1>2, <1>5 DEF TypeInv

LEMMA TypeInvAlways == Spec => []TypeInv
BY TypeInvInit, TypeInvStep, PTL DEF Spec

\* Every reachable state has its types: no row without a name or an address
\* ever gets into the table.
THEOREM TypeCorrect == Spec => []TypeOK
<1>1. TypeInv => TypeOK
  BY DEF TypeInv
<1> QED BY <1>1, TypeInvAlways, PTL

(***************************************************************************)
(* Identities.                                                             *)
(***************************************************************************)
\* Three steps touch the users.
LEMMA UserMoves ==
    ASSUME TypeInv, [Next]_vars
    PROVE  \/ user' = user
           \/ \E r \in Requests : InsertUser(r) \/ CommitChange(r) \/ DeleteUser(r)
<1>1. CASE UNCHANGED vars
  BY <1>1 DEF vars
<1>2. ASSUME NEW r \in Requests, Receive(r) PROVE user' = user
  BY <1>2 DEF Receive, ReadOnly, vars, CheckRegister, GithubCallback, GitlabCallback,
     Callback, BeginCreate, BeginUpdate, BeginProfile, BeginDelete, BeginSettings,
     Begin, Starts, tables
<1>3. ASSUME NEW r \in Requests, Handle(r)
      PROVE  user' = user \/ InsertUser(r) \/ CommitChange(r) \/ DeleteUser(r)
  BY <1>3 DEF Handle, CheckCreate, Load, LoadForDelete, LoadSettings, Answer,
     InsertRejected, AddSettings, AddAudit, ChangeRejected, DeleteRejected, Fails, tables
<1> QED BY <1>1, <1>2, <1>3 DEF Next

\* A row that meets no unique index can be stored.
LEMMA StoredKeepsUnique ==
    ASSUME TypeInv, IdentitiesUnique, NEW i \in Ids, NEW row \in Row,
           ~Conflicts(row, i), user' = [user EXCEPT ![i] = row]
    PROVE  IdentitiesUnique'
<1>1. /\ user'[i] = row /\ row # NoRow /\ row.email # None
      /\ \A j \in Ids : j # i => user'[j] = user[j]
  BY NoneTypes DEF TypeInv, TypeOK, Conflicts
<1>2. \A j \in Ids \ {i} : /\ user[j].name # row.name
                           /\ user[j].email # row.email
                           /\ user[j].provider = row.provider => row.provider = None
  BY DEF Conflicts, Taken, Registered, Claimed
<1>3. ASSUME NEW a \in Ids, NEW b \in Ids \ {a}, Present(a)', Present(b)'
      PROVE  /\ user'[a].name # user'[b].name
             /\ user'[a].email # user'[b].email
             /\ user'[a].provider = user'[b].provider => user'[a].provider = None
  <2>1. CASE a = i
    BY <1>1, <1>2, <2>1
  <2>2. CASE b = i
    BY <1>1, <1>2, <2>2
  <2>3. CASE a # i /\ b # i
    BY <1>1, <1>3, <2>3 DEF IdentitiesUnique, Present
  <2> QED BY <2>1, <2>2, <2>3
<1>4. ASSUME NEW a \in Ids, Present(a)' PROVE user'[a].email # None
  BY <1>1, <1>4 DEF IdentitiesUnique, Present
<1> QED BY <1>3, <1>4 DEF IdentitiesUnique

LEMMA UniqueStep == TypeInv /\ IdentitiesUnique /\ [Next]_vars => IdentitiesUnique'
<1> SUFFICES ASSUME TypeInv, IdentitiesUnique, [Next]_vars PROVE IdentitiesUnique'
  OBVIOUS
<1>1. CASE user' = user
  BY <1>1 DEF IdentitiesUnique, Present
<1>2. ASSUME NEW r \in Requests, InsertUser(r) PROVE IdentitiesUnique'
  <2>1. ~Conflicts(NewRow(req[r]), NextId)
    BY <1>2 DEF InsertUser
  <2> QED BY <1>2, <2>1, InsertKeepsTypes, StoredKeepsUnique
<1>3. ASSUME NEW r \in Requests, CommitChange(r) PROVE IdentitiesUnique'
  <2>1. /\ ~Conflicts(Flush(user[req[r].id], seen[r], req[r]), req[r].id)
        /\ user' = [user EXCEPT ![req[r].id] = Flush(user[req[r].id], seen[r], req[r])]
    BY <1>3 DEF CommitChange
  <2> QED BY <1>3, <2>1, CommitChangeKeepsTypes, StoredKeepsUnique
<1>4. ASSUME NEW r \in Requests, DeleteUser(r) PROVE IdentitiesUnique'
  <2>1. \A j \in Ids : user'[j] \in {user[j], NoRow}
    BY <1>4, DeleteKeepsTypes DEF DeleteUser, TypeInv, TypeOK
  <2> QED BY <2>1 DEF IdentitiesUnique, Present
<1> QED BY <1>1, <1>2, <1>3, <1>4, UserMoves

LEMMA UniqueAlways == Spec => []IdentitiesUnique
<1>1. Init => IdentitiesUnique
  BY DEF Init, IdentitiesUnique, Present
<1>2. TypeInv /\ IdentitiesUnique /\ [Next]_vars => IdentitiesUnique'
  BY UniqueStep
<1> QED BY <1>1, <1>2, TypeInvAlways, PTL DEF Spec

\* However many requests find the same name, address or identity free at the
\* same time, at most one of them gets it.
THEOREM IdentitiesStayUnique == Spec => []IdentitiesUnique
BY UniqueAlways

(***************************************************************************)
(* The registry.                                                           *)
(***************************************************************************)
AccountOf(row) == [name |-> row.name, email |-> row.email, provider |-> row.provider]
Abstract == {AccountOf(user[i]) : i \in {j \in Ids : Present(j)}}

\* Two accounts are never one: the account of a user is its own.
LEMMA AccountsApart ==
    ASSUME IdentitiesUnique, NEW i \in Ids, NEW j \in Ids \ {i}, Present(i), Present(j)
    PROVE  AccountOf(user[i]) # AccountOf(user[j])
BY DEF IdentitiesUnique, AccountOf

LEMMA FreshAccount ==
    ASSUME TypeInv, NEW i \in Ids, NEW row \in Row, ~Conflicts(row, i),
           NEW others, others \subseteq {AccountOf(user[j]) : j \in Ids \ {i}}
    PROVE  AccountOf(row) \in Registry!Account /\ Registry!Fresh(AccountOf(row), others)
<1>1. AccountOf(row) \in Registry!Account
  BY DEF AccountOf, Row, Registry!Account
<1>2. \A j \in Ids \ {i} : /\ user[j].name # row.name
                           /\ user[j].email # row.email
                           /\ user[j].provider = row.provider => row.provider = None
  BY DEF Conflicts, Taken, Registered, Claimed
<1>3. Registry!Fresh(AccountOf(row), others)
  BY <1>2 DEF AccountOf, Registry!Fresh
<1> QED BY <1>1, <1>3

LEMMA StepIsRegistryStep ==
    TypeInv /\ IdentitiesUnique /\ [Next]_vars => [Registry!Next]_Abstract
<1> SUFFICES ASSUME TypeInv, IdentitiesUnique, [Next]_vars
             PROVE  Registry!Next \/ Abstract' = Abstract
  OBVIOUS
<1>1. CASE user' = user
  BY <1>1 DEF Abstract, Present
<1>2. ASSUME NEW r \in Requests, InsertUser(r) PROVE Registry!Come
  <2>1. PICK i \in Ids : i = NextId
    BY <1>2, InsertKeepsTypes
  <2>2. PICK row \in Row : row = NewRow(req[r])
    BY <1>2, InsertKeepsTypes
  <2>3. ~Present(i) /\ ~Conflicts(row, i) /\ user' = [user EXCEPT ![i] = row]
    BY <1>2, <2>1, <2>2, InsertKeepsTypes DEF InsertUser
  <2>4. /\ user'[i] = row /\ row # NoRow
        /\ \A j \in Ids : j # i => user'[j] = user[j]
    BY <2>3, NoneTypes DEF TypeInv, TypeOK
  <2>5. Abstract' = Abstract \cup {AccountOf(row)}
    BY <2>3, <2>4 DEF Abstract, Present
  <2>6. Abstract \subseteq {AccountOf(user[j]) : j \in Ids \ {i}}
    BY <2>3 DEF Abstract
  <2>7. AccountOf(row) \in Registry!Account /\ Registry!Fresh(AccountOf(row), Abstract)
    BY <2>3, <2>6, FreshAccount
  <2> QED BY <2>5, <2>7 DEF Registry!Come, Abstract, AccountOf
<1>3. ASSUME NEW r \in Requests, CommitChange(r) PROVE Registry!Change
  <2>1. PICK i \in Ids : i = req[r].id
    BY <1>3, CommitChangeKeepsTypes
  <2>2. PICK row \in Row : row = Flush(user[i], seen[r], req[r])
    BY <1>3, <2>1, CommitChangeKeepsTypes
  <2>3. /\ Present(i) /\ ~Conflicts(row, i) /\ user' = [user EXCEPT ![i] = row]
        /\ row.provider = user[i].provider
    BY <1>3, <2>1, <2>2 DEF CommitChange, Flush
  <2>4. /\ user'[i] = row /\ row # NoRow
        /\ \A j \in Ids : j # i => user'[j] = user[j]
    BY <2>3, NoneTypes DEF TypeInv, TypeOK
  <2>5. Abstract \ {AccountOf(user[i])} =
            {AccountOf(user[j]) : j \in {k \in Ids \ {i} : Present(k)}}
    BY <2>3, AccountsApart DEF Abstract
  <2>6. Abstract' = (Abstract \ {AccountOf(user[i])}) \cup {AccountOf(row)}
    BY <2>4, <2>5 DEF Abstract, Present
  <2>7. /\ AccountOf(row) \in Registry!Account
        /\ Registry!Fresh(AccountOf(row), Abstract \ {AccountOf(user[i])})
    BY <2>3, <2>5, FreshAccount
  <2>8. AccountOf(user[i]) \in Abstract
        /\ AccountOf(row).provider = AccountOf(user[i]).provider
    BY <2>3 DEF Abstract, AccountOf
  <2> QED BY <2>6, <2>7, <2>8 DEF Registry!Change, Abstract, AccountOf
<1>4. ASSUME NEW r \in Requests, DeleteUser(r) PROVE Registry!Go
  <2>1. PICK i \in Ids : i = req[r].id
    BY <1>4, DeleteKeepsTypes
  <2>2. /\ Present(i) /\ user'[i] = NoRow
        /\ \A j \in Ids : j # i => user'[j] = user[j]
    BY <1>4, <2>1 DEF DeleteUser, TypeInv, TypeOK
  <2>3. Abstract \ {AccountOf(user[i])} =
            {AccountOf(user[j]) : j \in {k \in Ids \ {i} : Present(k)}}
    BY <2>2, AccountsApart DEF Abstract
  <2>4. Abstract' = Abstract \ {AccountOf(user[i])} /\ AccountOf(user[i]) \in Abstract
    BY <2>2, <2>3 DEF Abstract, Present
  <2> QED BY <2>4 DEF Registry!Go, Abstract, AccountOf
<1> QED BY <1>1, <1>2, <1>3, <1>4, UserMoves DEF Registry!Next

\* Of whatever requests race, the users table is a set of accounts that come,
\* change and go one at a time, and never share an identity.
THEOREM RegistryImplemented == Spec => ImplementsRegistry
<1>1. Init => Registry!Init
  BY DEF Init, Registry!Init, Present
<1>2. TypeInv /\ IdentitiesUnique /\ [Next]_vars => [Registry!Next]_Abstract
  BY StepIsRegistryStep
<1> QED BY <1>1, <1>2, TypeInvAlways, UniqueAlways, PTL
        DEF Spec, ImplementsRegistry, Registry!Spec, Abstract, AccountOf

\* An inactive account that becomes active does so by a commit that was asked
\* for it: a session that loaded the row while it was active writes back only
\* the columns it changes.
THEOREM InactiveStays == Spec => StaysInactive
<1> DEFINE A == \A i \in Ids : Present(i) /\ ~user[i].active /\ user'[i].active =>
                    \E r \in Requests : /\ pc[r] = "loaded" /\ req[r].id = i
                                        /\ req[r].op = "update" /\ req[r].active = TRUE
<1>1. TypeInv /\ [Next]_vars => [A]_vars
  <2> SUFFICES ASSUME TypeInv, [Next]_vars, NEW i \in Ids, Present(i),
                      ~user[i].active, user'[i].active
               PROVE  \E r \in Requests : /\ pc[r] = "loaded" /\ req[r].id = i
                                          /\ req[r].op = "update" /\ req[r].active = TRUE
    OBVIOUS
  <2>1. ASSUME NEW r \in Requests, InsertUser(r) PROVE FALSE
    <3>1. ~Present(NextId) /\ user' = [user EXCEPT ![NextId] = NewRow(req[r])]
      BY <2>1, InsertKeepsTypes
    <3>2. user'[i] = user[i]
      BY <3>1 DEF TypeInv, TypeOK
    <3> QED BY <3>2
  <2>2. ASSUME NEW r \in Requests, DeleteUser(r) PROVE FALSE
    BY <2>2, DeleteKeepsTypes DEF DeleteUser, NoRow, TypeInv, TypeOK
  <2>3. ASSUME NEW r \in Requests, CommitChange(r)
        PROVE  /\ pc[r] = "loaded" /\ req[r].id = i
               /\ req[r].op = "update" /\ req[r].active = TRUE
    <3>1. /\ pc[r] = "loaded" /\ req[r] \in Request
          /\ Sound("loaded", req[r], seen[r])
      BY <2>3 DEF CommitChange, TypeInv, TypeOK, HandlerOK
    <3>2. user' = [user EXCEPT ![req[r].id] =
                       Flush(user[req[r].id], seen[r], req[r])]
      BY <2>3 DEF CommitChange
    <3>3. req[r].id = i
      BY <3>2 DEF TypeInv, TypeOK
    <3>4. Written(req[r].active, seen[r].active, user[i].active)
      BY <3>2, <3>3 DEF Flush, TypeInv, TypeOK
    <3>5. req[r].active # None /\ req[r].active
      BY <3>4 DEF Written, Chosen
    <3>6. req[r].active = TRUE
      BY <3>1, <3>5 DEF Request
    <3>7. req[r].op = "update"
      BY <3>1, <3>5 DEF Sound
    <3> QED BY <3>1, <3>3, <3>6, <3>7
  <2>4. user' # user
    OBVIOUS
  <2> QED BY <2>1, <2>2, <2>3, <2>4, UserMoves
<1> QED BY <1>1, TypeInvAlways, PTL DEF Spec, StaysInactive

(***************************************************************************)
(* The audit log.                                                          *)
(***************************************************************************)
\* Who is about to delete has its entry.
AuditInv == \A r \in Requests : pc[r] = "deleting" =>
                \E e \in audit : e.deleted = req[r].id

\* Only AddAudit brings a request to its deletion, and nothing takes an entry.
LEMMA DeletingMoves ==
    ASSUME TypeInv, [Next]_vars, NEW r \in Requests, pc'[r] = "deleting"
    PROVE  /\ audit \subseteq audit'
           /\ \/ pc[r] = "deleting" /\ req'[r] = req[r]
              \/ /\ req'[r] = req[r]
                 /\ [actor |-> req[r].actor, deleted |-> req[r].id] \in audit'
<1> DEFINE Kept == pc[r] = "deleting" /\ req'[r] = req[r]
<1>1. ASSUME NEW s \in Requests, NEW phase \in Phases \ {"deleting"}, NEW rq, NEW row,
             Goes(s, phase, rq, row)
      PROVE  Kept
  BY <1>1 DEF Goes, TypeInv, TypeOK
<1>2. ASSUME NEW s \in Requests, NEW phase \in {"begun", "checked"}, NEW rq, NEW row,
             Starts(s, phase, rq, row)
      PROVE  Kept /\ audit' = audit
  BY <1>1, <1>2 DEF Starts, tables, Phases
<1>3. ASSUME NEW s \in Requests, Receive(s) PROVE Kept /\ audit' = audit
  <2>1. CASE ReadOnly(s)
    BY <2>1 DEF ReadOnly, vars
  <2>2. CASE \E phase \in {"begun", "checked"} : \E rq, row : Starts(s, phase, rq, row)
    BY <1>2, <2>2
  <2>3. ReadOnly(s) \/ \E phase \in {"begun", "checked"} : \E rq, row : Starts(s, phase, rq, row)
    BY <1>3 DEF Receive, CheckRegister, GithubCallback, GitlabCallback, Callback,
       BeginCreate, BeginUpdate, BeginProfile, BeginDelete, BeginSettings, Begin
  <2> QED BY <2>1, <2>2, <2>3
<1>4. ASSUME NEW s \in Requests, Handle(s), ~AddAudit(s) PROVE Kept /\ audit' = audit
  <2>1. audit' = audit
    BY <1>4 DEF Handle, CheckCreate, Load, LoadForDelete, LoadSettings, Answer,
       InsertUser, InsertRejected, AddSettings, CommitChange, ChangeRejected,
       DeleteUser, DeleteRejected, Fails, tables
  <2>2. \E phase \in Phases \ {"deleting"} : \E rq, row : Goes(s, phase, rq, row)
    BY <1>4 DEF Handle, CheckCreate, Load, LoadForDelete, LoadSettings, Answer,
       InsertUser, InsertRejected, AddSettings, CommitChange, ChangeRejected,
       DeleteUser, DeleteRejected, Fails, Ends, Phases
  <2> QED BY <1>1, <2>1, <2>2
<1>5. ASSUME NEW s \in Requests, AddAudit(s)
      PROVE  /\ audit \subseteq audit'
             /\ Kept \/ /\ req'[r] = req[r]
                        /\ [actor |-> req[r].actor, deleted |-> req[r].id] \in audit'
  <2>1. audit \subseteq audit'
    BY <1>5 DEF AddAudit
  <2>2. CASE s # r
    BY <1>5, <2>1, <2>2 DEF AddAudit, Goes, Ends, TypeInv, TypeOK
  <2>3. CASE s = r
    <3>1. req[r].op = "delete" /\ Goes(r, "deleting", req[r], NoRow)
      BY <1>5, <2>3 DEF AddAudit, Ends, Goes, TypeInv, TypeOK
    <3> QED BY <1>5, <2>1, <2>3, <3>1 DEF AddAudit, Goes, TypeInv, TypeOK
  <2> QED BY <2>1, <2>2, <2>3
<1>6. CASE UNCHANGED vars
  BY <1>6 DEF vars
<1> QED BY <1>3, <1>4, <1>5, <1>6 DEF Next

LEMMA AuditInvAlways == Spec => []AuditInv
<1>1. Init => AuditInv
  BY DEF Init, AuditInv
<1>2. TypeInv /\ AuditInv /\ [Next]_vars => AuditInv'
  BY DeletingMoves DEF AuditInv
<1> QED BY <1>1, <1>2, TypeInvAlways, PTL DEF Spec

\* No user disappears before its deletion has been audited, whatever else
\* happens between the two commits.
THEOREM DeletionsAlwaysAudited == Spec => DeletionsAudited
<1> DEFINE A == \A i \in Ids : Present(i) /\ user'[i] = NoRow =>
                    \E e \in audit : e.deleted = i
<1>1. TypeInv /\ AuditInv /\ [Next]_vars => [A]_vars
  <2> SUFFICES ASSUME TypeInv, AuditInv, [Next]_vars, NEW i \in Ids,
                      Present(i), user'[i] = NoRow
               PROVE  \E e \in audit : e.deleted = i
    OBVIOUS
  <2>1. ASSUME NEW r \in Requests, NEW j \in Ids, NEW row \in Row,
               user' = [user EXCEPT ![j] = row]
        PROVE  FALSE
    BY <2>1, NoneTypes DEF Present, TypeInv, TypeOK
  <2>2. ASSUME NEW r \in Requests, InsertUser(r) \/ CommitChange(r) PROVE FALSE
    BY <2>1, <2>2, InsertKeepsTypes, CommitChangeKeepsTypes DEF CommitChange
  <2>3. ASSUME NEW r \in Requests, DeleteUser(r) PROVE req[r].id = i /\ pc[r] = "deleting"
    BY <2>3 DEF DeleteUser, Present, TypeInv, TypeOK
  <2>4. user' # user
    BY DEF Present
  <2> QED BY <2>2, <2>3, <2>4, UserMoves DEF AuditInv
<1> QED BY <1>1, TypeInvAlways, AuditInvAlways, PTL DEF Spec, DeletionsAudited

(***************************************************************************)
(* Settings.                                                               *)
(***************************************************************************)
\* Who is about to insert settings for i.
Adding(i) == {r \in Requests : pc[r] = "settings" /\ req[r].id = i}

\* What a step does to the settings: a request begins to add a row, after it
\* has inserted the user or has seen no settings; it adds it, or fails; and
\* all others leave both the table and the requests that add alone.
LEMMA SettingsMoves ==
    ASSUME TypeInv, [Next]_vars
    PROVE  \/ \E r \in Requests : InsertUser(r) \/ LoadSettings(r) \/ AddSettings(r)
           \/ \E r \in Requests : pc[r] = "settings" /\ Fails(r)
           \/ /\ settings' = settings /\ born' = born /\ interrupted' = interrupted
              /\ \A i \in Ids : Present(i)' => Present(i)
              /\ \A r \in Requests : pc[r] = "settings" \/ pc'[r] = "settings" =>
                     pc'[r] = pc[r] /\ req'[r] = req[r]
           \/ \E r \in Requests : DeleteUser(r)
<1> DEFINE Same == \A r \in Requests : pc[r] = "settings" \/ pc'[r] = "settings" =>
                       pc'[r] = pc[r] /\ req'[r] = req[r]
           Alone == /\ settings' = settings /\ born' = born /\ interrupted' = interrupted
                    /\ \A i \in Ids : Present(i)' => Present(i)
<1>1. ASSUME NEW s \in Requests, pc[s] # "settings",
             NEW phase \in Phases \ {"settings"}, NEW rq, NEW row, Goes(s, phase, rq, row)
      PROVE  Same
  BY <1>1 DEF Goes, TypeInv, TypeOK
<1>2. ASSUME NEW s \in Requests, NEW phase \in {"begun", "checked"}, NEW rq, NEW row,
             Starts(s, phase, rq, row)
      PROVE  Same /\ Alone
  BY <1>1, <1>2 DEF Starts, tables, Phases, Present
<1>3. ASSUME NEW s \in Requests, Receive(s) PROVE Same /\ Alone
  <2>1. CASE ReadOnly(s)
    BY <2>1 DEF ReadOnly, vars, Present
  <2>2. CASE \E phase \in {"begun", "checked"} : \E rq, row : Starts(s, phase, rq, row)
    BY <1>2, <2>2
  <2>3. ReadOnly(s) \/ \E phase \in {"begun", "checked"} : \E rq, row : Starts(s, phase, rq, row)
    BY <1>3 DEF Receive, CheckRegister, GithubCallback, GitlabCallback, Callback,
       BeginCreate, BeginUpdate, BeginProfile, BeginDelete, BeginSettings, Begin
  <2> QED BY <2>1, <2>2, <2>3
<1>4. ASSUME NEW s \in Requests, Handle(s), pc[s] # "settings",
             ~(InsertUser(s) \/ LoadSettings(s) \/ DeleteUser(s))
      PROVE  Same /\ Alone
  <2>1. CASE CommitChange(s)
    <3>1. \E phase \in Phases \ {"settings"} : \E rq, row : Goes(s, phase, rq, row)
      BY <2>1 DEF CommitChange, Ends, Phases
    <3>2. Same
      BY <1>1, <1>4, <3>1
    <3>3. \A i \in Ids : Present(i)' => Present(i)
      BY <2>1 DEF CommitChange, Present, TypeInv, TypeOK
    <3> QED BY <2>1, <3>2, <3>3 DEF CommitChange
  <2>2. CASE ~CommitChange(s)
    <3>1. Alone
      BY <1>4, <2>2 DEF Handle, CheckCreate, Load, LoadForDelete, Answer, InsertRejected,
         AddSettings, AddAudit, ChangeRejected, DeleteRejected, Fails, tables, Present
    <3>2. \E phase \in Phases \ {"settings"} : \E rq, row : Goes(s, phase, rq, row)
      BY <1>4, <2>2 DEF Handle, CheckCreate, Load, LoadForDelete, Answer, InsertRejected,
         AddSettings, AddAudit, ChangeRejected, DeleteRejected, Fails, Ends, Phases
    <3> QED BY <1>1, <1>4, <3>1, <3>2
  <2> QED BY <2>1, <2>2
<1>5. ASSUME NEW s \in Requests, Handle(s), pc[s] = "settings"
      PROVE  AddSettings(s) \/ Fails(s)
  BY <1>5 DEF Handle, CheckCreate, Load, LoadForDelete, LoadSettings, Answer,
     InsertUser, InsertRejected, AddAudit, CommitChange, ChangeRejected,
     DeleteUser, DeleteRejected
<1>6. CASE UNCHANGED vars
  BY <1>6 DEF vars, Present
<1> QED BY <1>3, <1>4, <1>5, <1>6 DEF Next

\* The request that owes a new user its settings is that of its creation.
SettingsInv ==
    \A i \in Ids : Present(i) /\ settings[i] = 0 =>
        \/ i \in interrupted
        \/ \E r \in Requests : /\ pc[r] = "settings" /\ req[r].id = i
                               /\ req[r].op # "settings"

LEMMA SettingsInvStep == TypeInv /\ SettingsInv /\ [Next]_vars => SettingsInv'
<1> SUFFICES ASSUME TypeInv, SettingsInv, [Next]_vars, NEW i \in Ids,
                    Present(i)', settings'[i] = 0
             PROVE  \/ i \in interrupted'
                    \/ \E r \in Requests : /\ pc'[r] = "settings" /\ req'[r].id = i
                                           /\ req'[r].op # "settings"
  BY DEF SettingsInv
<1> DEFINE Owes(r) == pc[r] = "settings" /\ req[r].id = i /\ req[r].op # "settings"
           Owed == \/ i \in interrupted'
                   \/ \E r \in Requests : /\ pc'[r] = "settings" /\ req'[r].id = i
                                          /\ req'[r].op # "settings"
<1>1. ASSUME Present(i), settings[i] = 0
      PROVE  i \in interrupted \/ \E r \in Requests : Owes(r)
  BY <1>1 DEF SettingsInv
<1>2. ASSUME NEW s \in Requests, InsertUser(s) PROVE Owed
  <2>1. /\ user' = [user EXCEPT ![NextId] = NewRow(req[s])]
        /\ req[s] \in Request /\ Sound("checked", req[s], seen[s]) /\ pc[s] = "checked"
        /\ pc'[s] = "settings" /\ req'[s] = [req[s] EXCEPT !.id = NextId]
        /\ UNCHANGED <<settings, interrupted>>
        /\ \A r \in Requests : r # s => pc'[r] = pc[r] /\ req'[r] = req[r]
    BY <1>2 DEF InsertUser, Goes, TypeInv, TypeOK, HandlerOK
  <2>2. CASE i = NextId
    <3>1. req'[s].id = i /\ req'[s].op = req[s].op
      BY <2>1, <2>2 DEF Request
    <3> QED BY <2>1, <3>1 DEF Sound
  <2>3. CASE i # NextId
    <3>1. Present(i)
      BY <2>1, <2>3 DEF Present, TypeInv, TypeOK
    <3> QED BY <1>1, <2>1, <3>1
  <2> QED BY <2>2, <2>3
<1>3. ASSUME NEW s \in Requests, LoadSettings(s) PROVE Owed
  <2>1. /\ UNCHANGED <<user, settings, interrupted>> /\ pc[s] = "begun"
        /\ \A r \in Requests : r # s => pc'[r] = pc[r] /\ req'[r] = req[r]
    BY <1>3 DEF LoadSettings, Goes, tables, TypeInv, TypeOK
  <2> QED BY <1>1, <2>1 DEF Present
<1>4. ASSUME NEW s \in Requests, AddSettings(s) PROVE Owed
  <2>1. /\ UNCHANGED user /\ pc[s] = "settings" /\ req[s].id \in Ids
        /\ settings' = [settings EXCEPT ![req[s].id] = settings[req[s].id] + 1]
        /\ interrupted' = interrupted \ {req[s].id}
        /\ \A r \in Requests : r # s => pc'[r] = pc[r] /\ req'[r] = req[r]
    BY <1>4 DEF AddSettings, Goes, Ends, TypeInv, TypeOK, HandlerOK, Sound
  <2>2. i # req[s].id
    BY <2>1 DEF TypeInv, TypeOK
  <2>3. Present(i) /\ settings[i] = 0
    BY <2>1, <2>2 DEF Present, TypeInv, TypeOK
  <2> QED BY <1>1, <2>1, <2>2, <2>3
<1>5. ASSUME NEW s \in Requests, pc[s] = "settings", Fails(s) PROVE Owed
  <2>1. /\ UNCHANGED <<user, settings>>
        /\ interrupted \subseteq interrupted'
        /\ \A r \in Requests : r # s => pc'[r] = pc[r] /\ req'[r] = req[r]
    BY <1>5 DEF Fails, Goes, Ends, TypeInv, TypeOK
  <2>2. Present(i) /\ settings[i] = 0
    BY <2>1 DEF Present
  <2>3. Owes(s) => i \in interrupted'
    BY <1>5, <2>2 DEF Fails
  <2> QED BY <1>1, <2>1, <2>2, <2>3
<1>6. ASSUME NEW s \in Requests, DeleteUser(s) PROVE Owed
  <2>1. /\ user' = [user EXCEPT ![req[s].id] = NoRow] /\ UNCHANGED settings
        /\ interrupted' = interrupted \ {req[s].id} /\ req[s].id \in Ids
        /\ pc[s] = "deleting"
        /\ \A r \in Requests : r # s => pc'[r] = pc[r] /\ req'[r] = req[r]
    BY <1>6 DEF DeleteUser, Goes, Ends, TypeInv, TypeOK, HandlerOK, Sound
  <2>2. i # req[s].id /\ Present(i)
    BY <2>1 DEF Present, TypeInv, TypeOK
  <2> QED BY <1>1, <2>1, <2>2
<1>7. CASE /\ settings' = settings /\ interrupted' = interrupted
           /\ \A j \in Ids : Present(j)' => Present(j)
           /\ \A r \in Requests : pc[r] = "settings" \/ pc'[r] = "settings" =>
                  pc'[r] = pc[r] /\ req'[r] = req[r]
  BY <1>1, <1>7
<1> QED BY <1>2, <1>3, <1>4, <1>5, <1>6, <1>7, SettingsMoves

\* Whoever is in the table has settings, is about to get them, or was left
\* without by a creation that failed between its commits.
THEOREM AccountsGetSettings == Spec => []AccountsHaveSettings
<1>1. Init => SettingsInv
  BY DEF Init, SettingsInv, Present
<1>2. TypeInv /\ SettingsInv /\ [Next]_vars => SettingsInv'
  BY SettingsInvStep
<1>3. SettingsInv => AccountsHaveSettings
  BY DEF SettingsInv, AccountsHaveSettings
<1> QED BY <1>1, <1>2, <1>3, TypeInvAlways, PTL DEF Spec

\* A row that is there or is coming was preceded by a birth, or its request
\* had seen no settings: then only requests that run now may add one.
BoundInv ==
    \A i \in Ids : settings[i] + Cardinality(Adding(i)) <= Cardinality(Requests) + born

LEMMA AddingFinite ==
    ASSUME NEW S, S \subseteq Requests
    PROVE  /\ IsFiniteSet(S) /\ Cardinality(S) \in Nat
           /\ Cardinality(Requests) \in Nat
           /\ Cardinality(S) <= Cardinality(Requests)
<1>1. IsFiniteSet(S) /\ Cardinality(S) <= Cardinality(Requests)
  <2>1. S \in SUBSET Requests
    OBVIOUS
  <2> QED BY <2>1, FS_Subset, RequestsFinite
<1> QED BY <1>1, FS_CardinalityType, RequestsFinite

LEMMA AddOne ==
    ASSUME NEW S, S \subseteq Requests, NEW s \in Requests
    PROVE  /\ Cardinality(S \cup {s}) <= Cardinality(S) + 1
           /\ s \in S => Cardinality(S \ {s}) = Cardinality(S) - 1
           /\ Cardinality(S \ {s}) <= Cardinality(S)
<1>1. IsFiniteSet(S) /\ Cardinality(S) \in Nat
  BY AddingFinite
<1>2. Cardinality(S \cup {s}) = IF s \in S THEN Cardinality(S) ELSE Cardinality(S) + 1
  BY <1>1, FS_AddElement
<1>3. Cardinality(S \ {s}) = IF s \in S THEN Cardinality(S) - 1 ELSE Cardinality(S)
  BY <1>1, FS_RemoveElement
<1> QED BY <1>1, <1>2, <1>3

LEMMA BoundInvStep == TypeInv /\ BoundInv /\ [Next]_vars => BoundInv'
<1> SUFFICES ASSUME TypeInv, BoundInv, [Next]_vars, NEW i \in Ids
             PROVE  settings'[i] + Cardinality(Adding(i)') <= Cardinality(Requests) + born'
  BY DEF BoundInv
<1> DEFINE n == Cardinality(Adding(i))
           m == Cardinality(Adding(i)')
           q == Cardinality(Requests)
<1>1. n \in Nat /\ m \in Nat /\ q \in Nat /\ m <= q
  BY AddingFinite DEF Adding
<1>2. born \in Nat /\ settings[i] \in Nat /\ settings[i] + n <= q + born
  BY AccountBounds DEF BoundInv, TypeInv, TypeOK
<1>3. Adding(i) \subseteq Requests
  BY DEF Adding
<1>4. ASSUME NEW s \in Requests, InsertUser(s)
      PROVE  settings'[i] + m <= q + born'
  <2>1. /\ UNCHANGED settings /\ born' = born + 1
        /\ \A r \in Requests : r # s => pc'[r] = pc[r] /\ req'[r] = req[r]
    BY <1>4 DEF InsertUser, Goes, TypeInv, TypeOK
  <2>2. CASE s \in Adding(i)'
    <3>1. Adding(i)' = Adding(i) \cup {s} \/ Adding(i)' = Adding(i)
      BY <2>1, <2>2 DEF Adding
    <3>2. m <= n + 1
      <4>1. Cardinality(Adding(i) \cup {s}) <= n + 1
        BY <1>3, AddOne
      <4>2. CASE Adding(i)' = Adding(i) \cup {s}
        BY <4>1, <4>2
      <4>3. CASE Adding(i)' = Adding(i)
        <5>1. m = n
          BY <4>3
        <5> QED BY <1>1, <5>1
      <4> QED BY <3>1, <4>2, <4>3
    <3> QED BY <1>1, <1>2, <2>1, <3>2
  <2>3. CASE s \notin Adding(i)'
    <3>1. Adding(i)' = Adding(i) \ {s}
      BY <2>1, <2>3 DEF Adding
    <3>2. m <= n
      BY <1>3, <3>1, AddOne
    <3> QED BY <1>1, <1>2, <2>1, <3>2
  <2> QED BY <2>2, <2>3
<1>5. ASSUME NEW s \in Requests, LoadSettings(s)
      PROVE  settings'[i] + m <= q + born'
  <2>1. /\ UNCHANGED <<settings, born>> /\ settings[req[s].id] = 0
        /\ req'[s] = req[s] /\ pc'[s] = "settings" /\ pc[s] = "begun"
        /\ \A r \in Requests : r # s => pc'[r] = pc[r] /\ req'[r] = req[r]
    BY <1>5 DEF LoadSettings, Goes, tables, TypeInv, TypeOK
  <2>2. CASE req[s].id = i
    BY <1>1, <1>2, <2>1, <2>2
  <2>3. CASE req[s].id # i
    <3>1. Adding(i)' = Adding(i)
      BY <2>1, <2>3 DEF Adding
    <3> QED BY <1>2, <2>1, <3>1
  <2> QED BY <2>2, <2>3
<1>6. ASSUME NEW s \in Requests, AddSettings(s)
      PROVE  settings'[i] + m <= q + born'
  <2>1. /\ UNCHANGED born /\ pc[s] = "settings" /\ pc'[s] # "settings"
        /\ settings' = [settings EXCEPT ![req[s].id] = settings[req[s].id] + 1]
        /\ \A r \in Requests : r # s => pc'[r] = pc[r] /\ req'[r] = req[r]
    BY <1>6 DEF AddSettings, Goes, Ends, TypeInv, TypeOK
  <2>2. Adding(i)' = Adding(i) \ {s}
    BY <2>1 DEF Adding
  <2>3. CASE req[s].id = i
    <3>1. s \in Adding(i) /\ settings'[i] = settings[i] + 1
      BY <2>1, <2>3 DEF Adding, TypeInv, TypeOK
    <3>2. m = n - 1
      BY <1>3, <2>2, <3>1, AddOne
    <3> QED BY <1>1, <1>2, <2>1, <3>1, <3>2
  <2>4. CASE req[s].id # i
    <3>1. settings'[i] = settings[i] /\ m <= n
      BY <1>3, <2>1, <2>2, <2>4, AddOne DEF TypeInv, TypeOK
    <3> QED BY <1>1, <1>2, <2>1, <3>1
  <2> QED BY <2>3, <2>4
<1>7. ASSUME NEW s \in Requests,
             (pc[s] = "settings" /\ Fails(s)) \/ DeleteUser(s)
      PROVE  settings'[i] + m <= q + born'
  <2>1. /\ UNCHANGED <<settings, born>> /\ pc'[s] = "idle"
        /\ \A r \in Requests : r # s => pc'[r] = pc[r] /\ req'[r] = req[r]
    BY <1>7 DEF Fails, DeleteUser, Goes, Ends, TypeInv, TypeOK
  <2>2. Adding(i)' = Adding(i) \ {s}
    BY <2>1 DEF Adding
  <2>3. m <= n
    BY <1>3, <2>2, AddOne
  <2> QED BY <1>1, <1>2, <2>1, <2>3
<1>8. CASE /\ settings' = settings /\ born' = born
           /\ \A r \in Requests : pc[r] = "settings" \/ pc'[r] = "settings" =>
                  pc'[r] = pc[r] /\ req'[r] = req[r]
  <2>1. Adding(i)' = Adding(i)
    BY <1>8 DEF Adding
  <2> QED BY <1>2, <1>8, <2>1
<1> QED BY <1>4, <1>5, <1>6, <1>7, <1>8, SettingsMoves

\* Get-or-create may store more than one row of settings for a user, but never
\* more than there are concurrent requests, and one for each user the id has
\* belonged to.
THEOREM SettingsStayBounded == Spec => []SettingsBounded
<1>1. Init => BoundInv
  <2> SUFFICES ASSUME Init, NEW i \in Ids
               PROVE  settings[i] + Cardinality(Adding(i)) <= Cardinality(Requests) + born
    BY DEF BoundInv
  <2>1. Adding(i) = {} /\ settings[i] = 0 /\ born = 0
    BY DEF Init, Adding
  <2>2. Cardinality(Adding(i)) <= Cardinality(Requests)
        /\ Cardinality(Adding(i)) \in Nat /\ Cardinality(Requests) \in Nat
    BY <2>1, AddingFinite
  <2> QED BY <2>1, <2>2
<1>2. TypeInv /\ BoundInv /\ [Next]_vars => BoundInv'
  BY BoundInvStep
<1>3. TypeInv /\ BoundInv => SettingsBounded
  <2> SUFFICES ASSUME TypeInv, BoundInv, NEW i \in Ids
               PROVE  settings[i] <= Cardinality(Requests) + born
    BY DEF SettingsBounded
  <2>1. Cardinality(Adding(i)) \in Nat /\ Cardinality(Requests) \in Nat
    BY AddingFinite DEF Adding
  <2>2. settings[i] \in Nat /\ born \in Nat
    BY AccountBounds DEF TypeInv, TypeOK
  <2> QED BY <2>1, <2>2 DEF BoundInv
<1> QED BY <1>1, <1>2, <1>3, TypeInvAlways, PTL DEF Spec
=============================================================================
