------------------------ MODULE ResourceLocksProofs -------------------------
(***************************************************************************)
(* Theorems about ResourceLocks, for every set of workers, devices, tasks  *)
(* and dependency types.                                                   *)
(***************************************************************************)
EXTENDS ResourceLocks, FiniteSetTheorems, SequenceTheorems, TLAPS

(***************************************************************************)
(* Types.                                                                  *)
(***************************************************************************)
\* What TypeOK needs to be inductive: a handler that is about to insert or to
\* update knows a key of the right table, a task and a row.
HandlersOK ==
    \A w \in Workers :
        /\ pc[w] = "locking" => key[w] \in Devices /\ owner[w] \in Tasks
        /\ pc[w] = "releasing" => id[w] \in DOMAIN locks
        /\ pc[w] = "depending" => key[w] \in Edges

Types == TypeOK /\ HandlersOK

LEMMA TypesInit == Init => Types
BY DEF Init, Types, TypeOK, HandlersOK, Phases

\* A handler that moves on has well-typed locals.
LEMMA GoesTyped ==
    ASSUME TypeOK, NEW w \in Workers, NEW phase \in Phases,
           NEW k \in Devices \cup Edges \cup {None}, NEW i \in Nat,
           NEW t \in Tasks \cup {None}, Goes(w, phase, k, i, t)
    PROVE  /\ pc' \in [Workers -> Phases]
           /\ key' \in [Workers -> Devices \cup Edges \cup {None}]
           /\ id' \in [Workers -> Nat]
           /\ owner' \in [Workers -> Tasks \cup {None}]
BY DEF Goes, TypeOK

LEMMA TypesStep == Types /\ [Next]_vars => Types'
<1> SUFFICES ASSUME Types, [Next]_vars PROVE Types'
  OBVIOUS
<1> USE DEF Types
<1>1. CASE UNCHANGED vars
  BY <1>1 DEF vars, TypeOK, HandlersOK
<1>2. ASSUME NEW w \in Workers, Ends(w), locks' \in Seq(Lock), deps' \in Seq(Dependency),
             DOMAIN locks \subseteq DOMAIN locks'
      PROVE  Types'
  <2>1. "idle" \in Phases /\ 0 \in Nat
    BY DEF Phases
  <2>2. TypeOK'
    BY <1>2, <2>1, GoesTyped DEF Ends, TypeOK
  <2>3. HandlersOK'
    BY <1>2 DEF Ends, Goes, TypeOK, HandlersOK
  <2> QED BY <2>2, <2>3
<1>3. ASSUME NEW w \in Workers, NEW d \in Devices, NEW t \in Tasks,
             CheckLock(w, d, t) \/ LoadLock(w, d, t)
      PROVE  Types'
  <2>1. PICK phase \in {"locking", "releasing"}, i \in Nat :
            /\ Goes(w, phase, d, i, t)
            /\ phase = "releasing" => i \in DOMAIN locks
            /\ UNCHANGED <<locks, deps>>
    BY <1>3 DEF CheckLock, LoadLock, LockedRows, TypeOK
  <2>2. TypeOK'
    <3>1. phase \in Phases
      BY DEF Phases
    <3> QED BY <2>1, <3>1, GoesTyped DEF TypeOK
  <2>3. HandlersOK'
    BY <2>1 DEF Goes, TypeOK, HandlersOK
  <2> QED BY <2>2, <2>3
<1>4. ASSUME NEW w \in Workers, NEW e \in Edges, CheckDependency(w, e)
      PROVE  Types'
  <2>1. "depending" \in Phases /\ 0 \in Nat
    BY DEF Phases
  <2>2. Goes(w, "depending", e, 0, None) /\ UNCHANGED <<locks, deps>>
    BY <1>4 DEF CheckDependency
  <2>3. TypeOK'
    BY <2>1, <2>2, GoesTyped DEF TypeOK
  <2>4. HandlersOK'
    BY <2>2 DEF Goes, TypeOK, HandlersOK
  <2> QED BY <2>3, <2>4
<1>5. ASSUME NEW w \in Workers, NEW i \in DOMAIN deps,
             NEW phase \in {"resolving", "deleting"}, LoadDependency(w, i, phase)
      PROVE  Types'
  <2>0. deps[i] \in Dependency
    BY DEF TypeOK
  <2>1. phase \in Phases /\ i \in Nat /\ deps[i].key \in Edges
    BY <2>0 DEF Phases, TypeOK, Dependency
  <2>2. Goes(w, phase, deps[i].key, i, None) /\ UNCHANGED <<locks, deps>>
    BY <1>5 DEF LoadDependency
  <2>3. TypeOK'
    BY <2>1, <2>2, GoesTyped DEF TypeOK
  <2>4. HandlersOK'
    BY <2>2 DEF Goes, TypeOK, HandlersOK
  <2> QED BY <2>3, <2>4
<1>6. ASSUME NEW w \in Workers, InsertLock(w) PROVE Types'
  <2>1. [key |-> key[w], owner |-> owner[w], status |-> "locked"] \in Lock
    BY <1>6 DEF InsertLock, HandlersOK, Lock
  <2>2. locks' \in Seq(Lock) /\ DOMAIN locks \subseteq DOMAIN locks'
    BY <1>6, <2>1, AppendProperties DEF InsertLock, TypeOK
  <2> QED BY <1>2, <1>6, <2>2 DEF InsertLock, TypeOK
<1>7. ASSUME NEW w \in Workers, ReleaseLock(w) PROVE Types'
  <2>1. id[w] \in DOMAIN locks /\ locks[id[w]] \in Lock
    BY <1>7 DEF ReleaseLock, HandlersOK, TypeOK
  <2>2. [locks[id[w]] EXCEPT !.status = "released"] \in Lock
    BY <2>1 DEF Lock
  <2>3. locks' \in Seq(Lock) /\ DOMAIN locks' = DOMAIN locks
    BY <1>7, <2>1, <2>2, ExceptSeq DEF ReleaseLock, TypeOK
  <2> QED BY <1>2, <1>7, <2>3 DEF ReleaseLock, TypeOK
<1>8. ASSUME NEW w \in Workers, InsertDependency(w) PROVE Types'
  <2>1. [key |-> key[w], status |-> "active"] \in Dependency
    BY <1>8 DEF InsertDependency, HandlersOK, Dependency
  <2>2. \A n \in NextIds : SubSeq(deps, 1, n - 1) \in Seq(Dependency)
    BY DEF NextIds, TypeOK
  <2>3. deps' \in Seq(Dependency)
    BY <1>8, <2>1, <2>2 DEF InsertDependency
  <2> QED BY <1>2, <1>8, <2>3 DEF InsertDependency, TypeOK
<1>9. ASSUME NEW w \in Workers, ResolveDependency(w) \/ DeleteDependency(w)
      PROVE  Types'
  <2>1. \A i \in DOMAIN deps, s \in {"resolved", "deleted"} :
            [deps EXCEPT ![i].status = s] \in Seq(Dependency)
    <3> SUFFICES ASSUME NEW i \in DOMAIN deps, NEW s \in {"resolved", "deleted"}
                 PROVE  [deps EXCEPT ![i] = [deps[i] EXCEPT !.status = s]] \in Seq(Dependency)
      OBVIOUS
    <3>1. deps[i] \in Dependency
      BY DEF TypeOK
    <3>2. [deps[i] EXCEPT !.status = s] \in Dependency
      BY <3>1 DEF Dependency
    <3> QED BY <3>2, ExceptSeq DEF TypeOK
  <2>2. deps' \in Seq(Dependency)
    BY <1>9, <2>1 DEF ResolveDependency, DeleteDependency, TypeOK
  <2> QED BY <1>2, <1>9, <2>2 DEF ResolveDependency, DeleteDependency, TypeOK
<1>10. ASSUME NEW w \in Workers, Abandon(w) PROVE Types'
  BY <1>2, <1>10 DEF Abandon, TypeOK
<1> QED BY <1>1, <1>3, <1>4, <1>5, <1>6, <1>7, <1>8, <1>9, <1>10 DEF Next, Refuse

LEMMA TypesAlways == Spec => []Types
BY TypesInit, TypesStep, PTL DEF Spec

\* Every reachable state of the lock and dependency tables is well typed.
THEOREM ResourcesTypeCorrect == Spec => []TypeOK
<1>1. Types => TypeOK
  BY DEF Types
<1> QED BY <1>1, TypesAlways, PTL


(***************************************************************************)
(* Bounds.  A row that a check-then-insert endpoint has inserted and one   *)
(* that a worker is about to insert weigh the same: together they are      *)
(* never more than the workers, because a worker starts an insert only     *)
(* when there is no row yet, and then only the workers can be inserting.   *)
(***************************************************************************)
\* The workers past the check of key k.
Inserting(phase, k) == {w \in Workers : pc[w] = phase /\ key[w] = k}

Weight(rows, inserting) == Cardinality(rows) + Cardinality(inserting)

\* The ways a step can change the rows of a key and the workers inserting one:
\* both shrink, a worker finds no row, or a worker turns into a row.
Changes(rows, ws, rows2, ws2) ==
    \/ rows2 \subseteq rows /\ ws2 \subseteq ws
    \/ rows2 = {}
    \/ \E x : \E w \in ws : rows2 \subseteq rows \cup {x} /\ ws2 = ws \ {w}

LEMMA WeightStays ==
    ASSUME NEW rows, IsFiniteSet(rows), NEW ws \in SUBSET Workers,
           Weight(rows, ws) <= Cardinality(Workers),
           NEW rows2, NEW ws2 \in SUBSET Workers,
           Changes(rows, ws, rows2, ws2)
    PROVE  Weight(rows2, ws2) <= Cardinality(Workers)
<1>1. /\ IsFiniteSet(Workers) /\ IsFiniteSet(ws) /\ IsFiniteSet(ws2)
      /\ Cardinality(ws2) <= Cardinality(Workers)
  BY WorkersAssumption, FS_Subset
<1>2. /\ Cardinality(Workers) \in Nat /\ Cardinality(ws) \in Nat
      /\ Cardinality(ws2) \in Nat /\ Cardinality(rows) \in Nat
  BY <1>1, FS_CardinalityType
<1>3. CASE rows2 \subseteq rows /\ ws2 \subseteq ws
  <2>1. rows2 \in SUBSET rows /\ ws2 \in SUBSET ws
    BY <1>3
  <2>2. IsFiniteSet(rows2) /\ Cardinality(rows2) <= Cardinality(rows)
    BY <2>1, FS_Subset
  <2>3. Cardinality(ws2) <= Cardinality(ws)
    BY <1>1, <2>1, FS_Subset
  <2>4. Cardinality(rows2) \in Nat
    BY <2>2, FS_CardinalityType
  <2> QED BY <1>2, <2>2, <2>3, <2>4 DEF Weight
<1>4. CASE rows2 = {}
  BY <1>1, <1>2, <1>4, FS_EmptySet DEF Weight
<1>5. ASSUME NEW x, NEW w \in ws, rows2 \subseteq rows \cup {x}, ws2 = ws \ {w}
      PROVE  Weight(rows2, ws2) <= Cardinality(Workers)
  <2>1. /\ IsFiniteSet(rows \cup {x})
        /\ Cardinality(rows \cup {x}) <= Cardinality(rows) + 1
        /\ Cardinality(rows \cup {x}) \in Nat
    <3>1. /\ IsFiniteSet(rows \cup {x})
          /\ Cardinality(rows \cup {x}) = IF x \in rows THEN Cardinality(rows)
                                                       ELSE Cardinality(rows) + 1
      BY FS_AddElement
    <3> QED BY <1>2, <3>1
  <2>2. Cardinality(ws2) = Cardinality(ws) - 1
    BY <1>1, <1>5, FS_RemoveElement
  <2>3. /\ Cardinality(rows2) <= Cardinality(rows \cup {x})
        /\ Cardinality(rows2) \in Nat
    BY <1>5, <2>1, FS_Subset, FS_CardinalityType
  <2> QED BY <1>2, <2>1, <2>2, <2>3 DEF Weight
<1> QED BY <1>3, <1>4, <1>5 DEF Changes

WeightsOK ==
    /\ \A d \in Devices :
           Weight(LockedRows(d), Inserting("locking", d)) <= Cardinality(Workers)
    /\ \A e \in Edges :
           Weight(ActiveRows(e), Inserting("depending", e)) <= Cardinality(Workers)

LEMMA RowsFinite ==
    ASSUME TypeOK
    PROVE  /\ \A d \in Devices : IsFiniteSet(LockedRows(d))
           /\ \A e \in Edges : IsFiniteSet(ActiveRows(e))
<1>1. /\ Len(locks) \in Nat /\ DOMAIN locks = 1..Len(locks)
      /\ Len(deps) \in Nat /\ DOMAIN deps = 1..Len(deps)
  BY DEF TypeOK
<1>2. IsFiniteSet(DOMAIN locks) /\ IsFiniteSet(DOMAIN deps)
  BY <1>1, FS_Interval
<1> QED BY <1>2, FS_Subset DEF LockedRows, ActiveRows

\* A step that changes every key in one of those ways keeps the bound.
LEMMA WeightsKept ==
    ASSUME TypeOK, WeightsOK,
           \A d \in Devices : Changes(LockedRows(d), Inserting("locking", d),
                                      LockedRows(d)', Inserting("locking", d)'),
           \A e \in Edges : Changes(ActiveRows(e), Inserting("depending", e),
                                    ActiveRows(e)', Inserting("depending", e)')
    PROVE  WeightsOK'
<1>1. ASSUME NEW d \in Devices
      PROVE  Weight(LockedRows(d)', Inserting("locking", d)') <= Cardinality(Workers)
  <2>1. /\ Inserting("locking", d) \in SUBSET Workers
        /\ Inserting("locking", d)' \in SUBSET Workers
    BY DEF Inserting
  <2>2. /\ Weight(LockedRows(d), Inserting("locking", d)) <= Cardinality(Workers)
        /\ IsFiniteSet(LockedRows(d))
    BY RowsFinite DEF WeightsOK
  <2> QED BY <2>1, <2>2, WeightStays
<1>2. ASSUME NEW e \in Edges
      PROVE  Weight(ActiveRows(e)', Inserting("depending", e)') <= Cardinality(Workers)
  <2>1. /\ Inserting("depending", e) \in SUBSET Workers
        /\ Inserting("depending", e)' \in SUBSET Workers
    BY DEF Inserting
  <2>2. /\ Weight(ActiveRows(e), Inserting("depending", e)) <= Cardinality(Workers)
        /\ IsFiniteSet(ActiveRows(e))
    BY RowsFinite DEF WeightsOK
  <2> QED BY <2>1, <2>2, WeightStays
<1> QED BY <1>1, <1>2 DEF WeightsOK, Weight

LEMMA WeightsInit == Init => WeightsOK
<1> SUFFICES ASSUME Init PROVE WeightsOK
  OBVIOUS
<1>1. /\ \A d \in Devices : LockedRows(d) = {} /\ Inserting("locking", d) = {}
      /\ \A e \in Edges : ActiveRows(e) = {} /\ Inserting("depending", e) = {}
  BY DEF Init, LockedRows, ActiveRows, Inserting
<1>2. Cardinality({}) = 0 /\ Cardinality(Workers) \in Nat
  BY WorkersAssumption, FS_EmptySet, FS_CardinalityType
<1>3. Weight({}, {}) <= Cardinality(Workers)
  BY <1>2 DEF Weight
<1> QED BY <1>1, <1>3 DEF WeightsOK

\* A worker that ends its request is inserting nothing.
LEMMA EndsInserting ==
    ASSUME TypeOK, NEW w \in Workers, Ends(w), NEW phase \in {"locking", "depending"}, NEW k
    PROVE  /\ Inserting(phase, k)' \subseteq Inserting(phase, k)
           /\ pc[w] = phase /\ key[w] = k =>
                  w \in Inserting(phase, k) /\ Inserting(phase, k)' = Inserting(phase, k) \ {w}
BY DEF Ends, Goes, Inserting, TypeOK

\* A worker that starts something else than an insert.
LEMMA GoesInserting ==
    ASSUME TypeOK, NEW w \in Workers, NEW other, NEW c, NEW i, NEW t, Goes(w, other, c, i, t),
           NEW phase, NEW k, other # phase \/ c # k
    PROVE  Inserting(phase, k)' \subseteq Inserting(phase, k)
BY DEF Goes, Inserting, TypeOK

LEMMA WeightsStep == Types /\ WeightsOK /\ [Next]_vars => WeightsOK'
<1> SUFFICES ASSUME Types, WeightsOK, [Next]_vars PROVE WeightsOK'
  OBVIOUS
<1>0. TypeOK /\ HandlersOK
  BY DEF Types
<1>a. UNCHANGED locks => \A d \in Devices : LockedRows(d)' = LockedRows(d)
  BY DEF LockedRows
<1>b. UNCHANGED deps => \A e \in Edges : ActiveRows(e)' = ActiveRows(e)
  BY DEF ActiveRows
<1>1. CASE UNCHANGED vars
  BY <1>0, <1>1, <1>a, <1>b, WeightsKept DEF vars, Inserting, Changes
<1>2. ASSUME NEW w \in Workers, NEW d \in Devices, NEW t \in Tasks, CheckLock(w, d, t)
      PROVE  WeightsOK'
  <2>1. /\ Goes(w, "locking", d, 0, t) /\ UNCHANGED <<locks, deps>>
        /\ LockedRows(d)' = {}
    BY <1>2, <1>a DEF CheckLock
  <2>2. \A k \in Devices \ {d} : Inserting("locking", k)' \subseteq Inserting("locking", k)
    BY <1>0, <2>1, GoesInserting
  <2>3. \A e \in Edges : Inserting("depending", e)' \subseteq Inserting("depending", e)
    BY <1>0, <2>1, GoesInserting
  <2> QED BY <1>0, <1>a, <1>b, <2>1, <2>2, <2>3, WeightsKept DEF Changes
<1>3. ASSUME NEW w \in Workers, NEW e \in Edges, CheckDependency(w, e)
      PROVE  WeightsOK'
  <2>1. /\ Goes(w, "depending", e, 0, None) /\ UNCHANGED <<locks, deps>>
        /\ ActiveRows(e)' = {}
    BY <1>3, <1>b DEF CheckDependency
  <2>2. \A k \in Edges \ {e} : Inserting("depending", k)' \subseteq Inserting("depending", k)
    BY <1>0, <2>1, GoesInserting
  <2>3. \A d \in Devices : Inserting("locking", d)' \subseteq Inserting("locking", d)
    BY <1>0, <2>1, GoesInserting
  <2> QED BY <1>0, <1>a, <1>b, <2>1, <2>2, <2>3, WeightsKept DEF Changes
<1>4. ASSUME NEW w \in Workers, NEW d \in Devices, NEW t \in Tasks, LoadLock(w, d, t)
      PROVE  WeightsOK'
  <2>1. PICK i : Goes(w, "releasing", d, i, t) /\ UNCHANGED <<locks, deps>>
    BY <1>4 DEF LoadLock
  <2>2. /\ \A k \in Devices : Inserting("locking", k)' \subseteq Inserting("locking", k)
        /\ \A k \in Edges : Inserting("depending", k)' \subseteq Inserting("depending", k)
    BY <1>0, <2>1, GoesInserting
  <2> QED BY <1>0, <1>a, <1>b, <2>1, <2>2, WeightsKept DEF Changes
<1>5. ASSUME NEW w \in Workers, NEW i \in DOMAIN deps,
             NEW phase \in {"resolving", "deleting"}, LoadDependency(w, i, phase)
      PROVE  WeightsOK'
  <2>1. Goes(w, phase, deps[i].key, i, None) /\ UNCHANGED <<locks, deps>>
    BY <1>5 DEF LoadDependency
  <2>2. /\ \A k \in Devices : Inserting("locking", k)' \subseteq Inserting("locking", k)
        /\ \A k \in Edges : Inserting("depending", k)' \subseteq Inserting("depending", k)
    BY <1>0, <2>1, GoesInserting
  <2> QED BY <1>0, <1>a, <1>b, <2>1, <2>2, WeightsKept DEF Changes
<1>6. ASSUME NEW w \in Workers, Ends(w),
             \A d \in Devices : LockedRows(d)' \subseteq LockedRows(d),
             \A e \in Edges : ActiveRows(e)' \subseteq ActiveRows(e)
      PROVE  WeightsOK'
  <2>1. /\ \A k \in Devices : Inserting("locking", k)' \subseteq Inserting("locking", k)
        /\ \A k \in Edges : Inserting("depending", k)' \subseteq Inserting("depending", k)
    BY <1>0, <1>6, EndsInserting
  <2> QED BY <1>0, <1>6, <2>1, WeightsKept DEF Changes
<1>7. ASSUME NEW w \in Workers, InsertLock(w) PROVE WeightsOK'
  <2>1. PICK c \in Devices : c = key[w] /\ pc[w] = "locking" /\ Ends(w) /\ UNCHANGED deps
    BY <1>0, <1>7 DEF InsertLock, HandlersOK
  <2>2. \A d \in Devices :
            LockedRows(d)' \subseteq IF d = c THEN LockedRows(d) \cup {Len(locks) + 1}
                                              ELSE LockedRows(d)
    BY <1>0, <1>7, <2>1 DEF InsertLock, LockedRows, TypeOK
  <2>3. /\ \A k \in Devices : Inserting("locking", k)' \subseteq Inserting("locking", k)
        /\ \A k \in Edges : Inserting("depending", k)' \subseteq Inserting("depending", k)
    BY <1>0, <2>1, EndsInserting
  <2>7. w \in Inserting("locking", c) /\ Inserting("locking", c)' = Inserting("locking", c) \ {w}
    BY <1>0, <2>1, EndsInserting
  <2> QED BY <1>0, <1>b, <2>1, <2>2, <2>3, <2>7, WeightsKept DEF Changes
<1>8. ASSUME NEW w \in Workers, ReleaseLock(w) PROVE WeightsOK'
  <2>1. \A d \in Devices : LockedRows(d)' \subseteq LockedRows(d)
    BY <1>0, <1>8 DEF ReleaseLock, LockedRows, TypeOK, HandlersOK, Lock
  <2> QED BY <1>6, <1>8, <1>b, <2>1 DEF ReleaseLock
<1>9. ASSUME NEW w \in Workers, InsertDependency(w) PROVE WeightsOK'
  <2>1. PICK c \in Edges : c = key[w] /\ pc[w] = "depending" /\ Ends(w) /\ UNCHANGED locks
    BY <1>0, <1>9 DEF InsertDependency, HandlersOK
  <2>2. PICK n \in NextIds :
            deps' = Append(SubSeq(deps, 1, n - 1), [key |-> key[w], status |-> "active"])
    BY <1>9 DEF InsertDependency
  <2>3. n \in 1..(Len(deps) + 1)
    BY <1>0 DEF NextIds, TypeOK
  <2>4. /\ Len(deps') = n
        /\ \A i \in 1..(n - 1) : deps'[i] = deps[i]
        /\ deps'[n] = [key |-> key[w], status |-> "active"]
    BY <1>0, <2>2, <2>3 DEF TypeOK
  <2>5. \A e \in Edges :
            ActiveRows(e)' \subseteq IF e = c THEN ActiveRows(e) \cup {n} ELSE ActiveRows(e)
    BY <1>0, <2>1, <2>3, <2>4 DEF ActiveRows, TypeOK
  <2>6. /\ \A k \in Devices : Inserting("locking", k)' \subseteq Inserting("locking", k)
        /\ \A k \in Edges : Inserting("depending", k)' \subseteq Inserting("depending", k)
    BY <1>0, <2>1, EndsInserting
  <2>7. w \in Inserting("depending", c) /\ Inserting("depending", c)' = Inserting("depending", c) \ {w}
    BY <1>0, <2>1, EndsInserting
  <2> QED BY <1>0, <1>a, <2>1, <2>5, <2>6, <2>7, WeightsKept DEF Changes
<1>10. ASSUME NEW w \in Workers, ResolveDependency(w) \/ DeleteDependency(w)
       PROVE  WeightsOK'
  <2>1. PICK s \in {"resolved", "deleted"} :
            \/ deps' = [deps EXCEPT ![id[w]].status = s]
            \/ deps' = deps
    BY <1>10 DEF ResolveDependency, DeleteDependency
  <2>2. /\ DOMAIN deps' = DOMAIN deps
        /\ \A i \in DOMAIN deps : \/ deps'[i] = deps[i]
                                 \/ deps'[i] = [deps[i] EXCEPT !.status = s]
    BY <1>0, <2>1 DEF TypeOK
  <2>3. \A i \in DOMAIN deps : deps'[i].status = "active" => deps'[i] = deps[i]
    <3> SUFFICES ASSUME NEW i \in DOMAIN deps, deps'[i].status = "active"
                 PROVE  deps'[i] = deps[i]
      OBVIOUS
    <3>1. deps[i] \in Dependency
      BY <1>0 DEF TypeOK
    <3> QED BY <2>2, <3>1 DEF Dependency
  <2>4. \A e \in Edges : ActiveRows(e)' \subseteq ActiveRows(e)
    BY <2>2, <2>3 DEF ActiveRows
  <2> QED BY <1>6, <1>10, <1>a, <2>4 DEF ResolveDependency, DeleteDependency
<1>11. ASSUME NEW w \in Workers, Abandon(w) PROVE WeightsOK'
  BY <1>6, <1>11, <1>a, <1>b DEF Abandon
<1> QED BY <1>1, <1>2, <1>3, <1>4, <1>5, <1>7, <1>8, <1>9, <1>10, <1>11 DEF Next, Refuse

LEMMA WeightsAlways == Spec => []WeightsOK
<1>1. Init => Types /\ WeightsOK
  BY TypesInit, WeightsInit
<1>2. (Types /\ WeightsOK) /\ [Next]_vars => (Types /\ WeightsOK)'
  BY TypesStep, WeightsStep
<1> QED BY <1>1, <1>2, PTL DEF Spec

\* What the weight says of the rows alone.
LEMMA WeightBoundsRows ==
    ASSUME NEW rows, IsFiniteSet(rows), NEW ws \in SUBSET Workers,
           Weight(rows, ws) <= Cardinality(Workers)
    PROVE  Cardinality(rows) <= Cardinality(Workers)
<1>1. IsFiniteSet(ws)
  BY WorkersAssumption, FS_Subset
<1>2. Cardinality(rows) \in Nat /\ Cardinality(ws) \in Nat /\ Cardinality(Workers) \in Nat
  BY <1>1, WorkersAssumption, FS_CardinalityType
<1> QED BY <1>2 DEF Weight

\* However many requests race, fail and release, a device is never locked more
\* often than there are server processes; with one, the lock is exclusive.
THEOREM LocksAlwaysBounded == Spec => []LocksBounded
<1>1. TypeOK /\ WeightsOK => LocksBounded
  <2> SUFFICES ASSUME TypeOK, WeightsOK, NEW d \in Devices
               PROVE  Cardinality(LockedRows(d)) <= Cardinality(Workers)
    BY DEF LocksBounded
  <2>1. /\ IsFiniteSet(LockedRows(d))
        /\ Weight(LockedRows(d), Inserting("locking", d)) <= Cardinality(Workers)
    BY RowsFinite DEF WeightsOK
  <2>2. Inserting("locking", d) \in SUBSET Workers
    BY DEF Inserting
  <2> QED BY <2>1, <2>2, WeightBoundsRows
<1> QED BY <1>1, ResourcesTypeCorrect, WeightsAlways, PTL

\* A dependency is never active more often than there are server processes,
\* although deleted ids come back.
THEOREM DependenciesAlwaysBounded == Spec => []DependenciesBounded
<1>1. TypeOK /\ WeightsOK => DependenciesBounded
  <2> SUFFICES ASSUME TypeOK, WeightsOK, NEW e \in Edges
               PROVE  Cardinality(ActiveRows(e)) <= Cardinality(Workers)
    BY DEF DependenciesBounded
  <2>1. /\ IsFiniteSet(ActiveRows(e))
        /\ Weight(ActiveRows(e), Inserting("depending", e)) <= Cardinality(Workers)
    BY RowsFinite DEF WeightsOK
  <2>2. Inserting("depending", e) \in SUBSET Workers
    BY DEF Inserting
  <2> QED BY <2>1, <2>2, WeightBoundsRows
<1> QED BY <1>1, ResourcesTypeCorrect, WeightsAlways, PTL

\* With one process the lock is exclusive: two rows never lock one device.
THEOREM OneProcessLocksExclude ==
    ASSUME NEW w, Workers = {w}
    PROVE  Spec => [](\A d \in Devices : \A i, j \in LockedRows(d) : i = j)
<1>1. TypeOK /\ LocksBounded => \A d \in Devices : \A i, j \in LockedRows(d) : i = j
  <2> SUFFICES ASSUME TypeOK, LocksBounded, NEW d \in Devices,
                      NEW i \in LockedRows(d), NEW j \in LockedRows(d), i # j
               PROVE  FALSE
    OBVIOUS
  <2>1. Cardinality(Workers) = 1
    BY FS_Singleton
  <2>2. IsFiniteSet({i}) /\ Cardinality({i}) = 1
    BY FS_Singleton
  <2>3. Cardinality({i} \cup {j}) = 2 /\ IsFiniteSet({i} \cup {j})
    <3>1. /\ IsFiniteSet({i} \cup {j})
          /\ Cardinality({i} \cup {j}) = IF j \in {i} THEN Cardinality({i})
                                                     ELSE Cardinality({i}) + 1
      BY <2>2, FS_AddElement
    <3>2. j \notin {i}
      OBVIOUS
    <3>3. Cardinality({i} \cup {j}) = Cardinality({i}) + 1
      BY <3>1, <3>2
    <3> QED BY <2>2, <3>1, <3>3
  <2>4. {i} \cup {j} \subseteq LockedRows(d) /\ IsFiniteSet(LockedRows(d))
    BY RowsFinite
  <2>5. 2 <= Cardinality(LockedRows(d)) /\ Cardinality(LockedRows(d)) <= 1
    BY <2>1, <2>3, <2>4, FS_Subset DEF LocksBounded
  <2>6. Cardinality(LockedRows(d)) \in Nat
    BY <2>4, FS_CardinalityType
  <2> QED BY <2>5, <2>6
<1> QED BY <1>1, ResourcesTypeCorrect, LocksAlwaysBounded, PTL

(***************************************************************************)
(* Semaphores.  Each table is seen as a function from keys to the rows that *)
(* hold a permit.  A step leaves it, gives one key one more row while it   *)
(* has fewer than there are workers, or takes one row from one key.        *)
(***************************************************************************)
LockTable == [d \in Devices |-> LockedRows(d)]
DependencyTable == [e \in Edges |-> ActiveRows(e)]

Sizes(f) == [k \in DOMAIN f |-> Cardinality(f[k])]

Moves(f, g) ==
    \/ g = f
    \/ \E k \in DOMAIN f : \E x :
           /\ x \notin f[k] /\ Cardinality(f[k]) < Cardinality(Workers)
           /\ g = [f EXCEPT ![k] = f[k] \cup {x}]
    \/ \E k \in DOMAIN f : \E x \in f[k] : g = [f EXCEPT ![k] = f[k] \ {x}]

\* Counting the rows, such a step takes a permit or gives one back.
LEMMA MovesCount ==
    ASSUME NEW f, NEW g, f = [k \in DOMAIN f |-> f[k]],
           \A k \in DOMAIN f : IsFiniteSet(f[k]), Moves(f, g)
    PROVE  \/ Sizes(g) = Sizes(f)
           \/ \E k \in DOMAIN f :
                 \/ /\ Sizes(f)[k] < Cardinality(Workers)
                    /\ Sizes(g) = [Sizes(f) EXCEPT ![k] = @ + 1]
                 \/ /\ Sizes(f)[k] > 0
                    /\ Sizes(g) = [Sizes(f) EXCEPT ![k] = @ - 1]
<1>1. CASE g = f
  BY <1>1
<1>2. ASSUME NEW k \in DOMAIN f, NEW x, x \notin f[k],
             Cardinality(f[k]) < Cardinality(Workers), g = [f EXCEPT ![k] = f[k] \cup {x}]
      PROVE  /\ Sizes(f)[k] < Cardinality(Workers)
             /\ Sizes(g) = [Sizes(f) EXCEPT ![k] = @ + 1]
  <2>1. Cardinality(f[k] \cup {x}) = Cardinality(f[k]) + 1
    BY <1>2, FS_AddElement
  <2>2. DOMAIN g = DOMAIN f /\ g[k] = f[k] \cup {x}
    BY <1>2
  <2>3. \A j \in DOMAIN f : j # k => g[j] = f[j]
    BY <1>2
  <2> QED BY <1>2, <2>1, <2>2, <2>3 DEF Sizes
<1>3. ASSUME NEW k \in DOMAIN f, NEW x \in f[k], g = [f EXCEPT ![k] = f[k] \ {x}]
      PROVE  /\ Sizes(f)[k] > 0
             /\ Sizes(g) = [Sizes(f) EXCEPT ![k] = @ - 1]
  <2>1. Cardinality(f[k] \ {x}) = Cardinality(f[k]) - 1
    BY FS_RemoveElement
  <2>2. IsFiniteSet(f[k] \ {x})
    BY FS_RemoveElement
  <2>3. Cardinality(f[k]) \in Nat /\ Cardinality(f[k] \ {x}) \in Nat
    BY <2>2, FS_CardinalityType
  <2>4. Cardinality(f[k]) > 0
    BY <2>1, <2>3
  <2>5. DOMAIN g = DOMAIN f /\ g[k] = f[k] \ {x}
    BY <1>3
  <2>6. \A j \in DOMAIN f : j # k => g[j] = f[j]
    BY <1>3
  <2> QED BY <2>1, <2>4, <2>5, <2>6 DEF Sizes
<1> QED BY <1>1, <1>2, <1>3 DEF Moves

\* A worker that is about to insert leaves room for its row.
LEMMA RoomForInsert ==
    ASSUME NEW rows, IsFiniteSet(rows), NEW ws \in SUBSET Workers, NEW w \in ws,
           Weight(rows, ws) <= Cardinality(Workers)
    PROVE  Cardinality(rows) < Cardinality(Workers)
<1>1. IsFiniteSet(ws)
  BY WorkersAssumption, FS_Subset
<1>2. Cardinality(ws) # 0
  BY <1>1, FS_EmptySet
<1>3. Cardinality(rows) \in Nat /\ Cardinality(ws) \in Nat /\ Cardinality(Workers) \in Nat
  BY <1>1, WorkersAssumption, FS_CardinalityType
<1> QED BY <1>2, <1>3 DEF Weight

LEMMA LockTableMoves ==
    ASSUME Types, WeightsOK, [Next]_vars
    PROVE  Moves(LockTable, LockTable')
<1>1. CASE UNCHANGED locks
  BY <1>1 DEF Moves, LockTable, LockedRows
<1>2. ASSUME NEW w \in Workers, InsertLock(w) PROVE Moves(LockTable, LockTable')
  <2> DEFINE x == Len(locks) + 1
  <2>1. PICK c \in Devices : c = key[w] /\ pc[w] = "locking"
    BY <1>2 DEF InsertLock, Types, HandlersOK
  <2>2. x \notin LockedRows(c)
    BY DEF LockedRows, Types, TypeOK
  <2>3. Cardinality(LockedRows(c)) < Cardinality(Workers)
    <3>1. w \in Inserting("locking", c) /\ Inserting("locking", c) \in SUBSET Workers
      BY <2>1 DEF Inserting
    <3>2. IsFiniteSet(LockedRows(c))
      BY RowsFinite DEF Types
    <3> QED BY <3>1, <3>2, RoomForInsert DEF WeightsOK
  <2>4. \A d \in Devices :
            LockedRows(d)' = IF d = c THEN LockedRows(d) \cup {x} ELSE LockedRows(d)
    BY <1>2, <2>1 DEF InsertLock, LockedRows, Types, TypeOK
  <2>5. LockTable' = [LockTable EXCEPT ![c] = LockedRows(c) \cup {x}]
    BY <2>4 DEF LockTable
  <2> QED BY <2>2, <2>3, <2>5 DEF Moves, LockTable
<1>3. ASSUME NEW w \in Workers, ReleaseLock(w) PROVE Moves(LockTable, LockTable')
  <2>1. PICK i \in DOMAIN locks : i = id[w]
    BY <1>3 DEF ReleaseLock, Types, HandlersOK
  <2>2. locks[i] \in Lock
    BY DEF Types, TypeOK
  <2>3. \A d \in Devices : LockedRows(d)' = LockedRows(d) \ {i}
    BY <1>3, <2>1, <2>2 DEF ReleaseLock, LockedRows, Types, TypeOK, Lock
  <2>4. \A d \in Devices : d # locks[i].key => i \notin LockedRows(d)
    BY DEF LockedRows
  <2>5. PICK c \in Devices : c = locks[i].key
    BY <2>2 DEF Lock
  <2>6. LockTable' = [LockTable EXCEPT ![c] = LockedRows(c) \ {i}]
    <3>1. \A d \in Devices :
              LockedRows(d)' = IF d = c THEN LockedRows(d) \ {i} ELSE LockedRows(d)
      BY <2>3, <2>4, <2>5
    <3> QED BY <3>1 DEF LockTable
  <2>7. CASE i \in LockedRows(c)
    BY <2>6, <2>7 DEF Moves, LockTable
  <2>8. CASE i \notin LockedRows(c)
    <3>1. LockTable' = LockTable
      BY <2>3, <2>4, <2>5, <2>8 DEF LockTable
    <3> QED BY <3>1 DEF Moves
  <2> QED BY <2>7, <2>8
<1> QED BY <1>1, <1>2, <1>3 DEF Next, vars, CheckLock, LoadLock, CheckDependency,
        LoadDependency, InsertDependency, ResolveDependency, DeleteDependency,
        Abandon, Refuse

\* A row that is overwritten under its own key, and no longer active, gives its
\* permit back if it had one.
LEMMA DependencyGivenBack ==
    ASSUME TypeOK, NEW i \in DOMAIN deps, NEW s \in {"resolved", "deleted"},
           deps' = [deps EXCEPT ![i].status = s]
    PROVE  Moves(DependencyTable, DependencyTable')
<1>1. deps[i] \in Dependency
  BY DEF TypeOK
<1>2. PICK c \in Edges : c = deps[i].key
  BY <1>1 DEF Dependency
<1>3. DOMAIN deps' = DOMAIN deps /\ deps'[i].key = c /\ deps'[i].status = s
  BY <1>1, <1>2 DEF TypeOK, Dependency
<1>4. \A j \in DOMAIN deps : j # i => deps'[j] = deps[j]
  BY DEF TypeOK
<1>5. \A e \in Edges : ActiveRows(e)' = IF e = c THEN ActiveRows(e) \ {i} ELSE ActiveRows(e)
  BY <1>2, <1>3, <1>4 DEF ActiveRows
<1>6. DependencyTable' = [DependencyTable EXCEPT ![c] = ActiveRows(c) \ {i}]
  BY <1>5 DEF DependencyTable
<1>7. CASE i \in ActiveRows(c)
  BY <1>6, <1>7 DEF Moves, DependencyTable
<1>8. CASE i \notin ActiveRows(c)
  <2>1. \A e \in Edges : ActiveRows(e)' = ActiveRows(e)
    BY <1>5, <1>8
  <2>2. DependencyTable' = DependencyTable
    BY <2>1 DEF DependencyTable
  <2> QED BY <2>2 DEF Moves
<1> QED BY <1>7, <1>8

\* The id of a new row is free: whatever still has it, or a greater one, is deleted.
LEMMA NewIdIsFree ==
    ASSUME TypeOK, NEW n \in NextIds
    PROVE  /\ n \in 1..(Len(deps) + 1)
           /\ \A e \in Edges : ActiveRows(e) \subseteq 1..(n - 1)
<1>1. DOMAIN deps = 1..Len(deps) /\ Len(deps) \in Nat
  BY DEF TypeOK
<1>2. n \in 1..(Len(deps) + 1)
  BY <1>1 DEF NextIds
<1>3. \A i \in DOMAIN deps : i >= n => deps[i].status = "deleted"
  BY <1>1, <1>2 DEF NextIds
<1> QED BY <1>1, <1>2, <1>3 DEF ActiveRows

LEMMA DependencyTableMoves ==
    ASSUME Types, WeightsOK, [Next]_vars
    PROVE  Moves(DependencyTable, DependencyTable')
<1>1. CASE UNCHANGED deps
  BY <1>1 DEF Moves, DependencyTable, ActiveRows
<1>2. ASSUME NEW w \in Workers, InsertDependency(w)
      PROVE  Moves(DependencyTable, DependencyTable')
  <2>1. PICK c \in Edges : c = key[w] /\ pc[w] = "depending"
    BY <1>2 DEF InsertDependency, Types, HandlersOK
  <2>2. PICK n \in NextIds :
            deps' = Append(SubSeq(deps, 1, n - 1), [key |-> key[w], status |-> "active"])
    BY <1>2 DEF InsertDependency
  <2>3. n \in 1..(Len(deps) + 1) /\ \A e \in Edges : ActiveRows(e) \subseteq 1..(n - 1)
    BY NewIdIsFree DEF Types
  <2>4. /\ Len(deps') = n /\ DOMAIN deps' = 1..n
        /\ \A i \in 1..(n - 1) : deps'[i] = deps[i]
        /\ deps'[n] = [key |-> c, status |-> "active"]
    BY <2>1, <2>2, <2>3 DEF Types, TypeOK
  <2>5. DOMAIN deps = 1..Len(deps) /\ Len(deps) \in Nat
    BY DEF Types, TypeOK
  <2>6. \A e \in Edges :
            ActiveRows(e)' = IF e = c THEN ActiveRows(e) \cup {n} ELSE ActiveRows(e)
    <3> SUFFICES ASSUME NEW e \in Edges, NEW i
                 PROVE  i \in ActiveRows(e)' <=>
                            i \in IF e = c THEN ActiveRows(e) \cup {n} ELSE ActiveRows(e)
      OBVIOUS
    <3>1. CASE i = n
      BY <2>3, <2>4, <3>1 DEF ActiveRows
    <3>2. CASE i # n
      BY <2>3, <2>4, <2>5, <3>2 DEF ActiveRows
    <3> QED BY <3>1, <3>2
  <2>7. DependencyTable' = [DependencyTable EXCEPT ![c] = ActiveRows(c) \cup {n}]
    BY <2>6 DEF DependencyTable
  <2>8. n \notin ActiveRows(c)
    BY <2>3
  <2>9. Cardinality(ActiveRows(c)) < Cardinality(Workers)
    <3>1. w \in Inserting("depending", c) /\ Inserting("depending", c) \in SUBSET Workers
      BY <2>1 DEF Inserting
    <3>2. IsFiniteSet(ActiveRows(c))
      BY RowsFinite DEF Types
    <3> QED BY <3>1, <3>2, RoomForInsert DEF WeightsOK
  <2> QED BY <2>7, <2>8, <2>9 DEF Moves, DependencyTable
<1>3. ASSUME NEW w \in Workers, ResolveDependency(w) \/ DeleteDependency(w)
      PROVE  Moves(DependencyTable, DependencyTable')
  <2>1. CASE deps' = deps
    BY <1>1, <2>1
  <2>2. CASE id[w] \in DOMAIN deps /\ \E s \in {"resolved", "deleted"} :
                 deps' = [deps EXCEPT ![id[w]].status = s]
    BY <2>2, DependencyGivenBack DEF Types
  <2> QED BY <1>3, <2>1, <2>2 DEF ResolveDependency, DeleteDependency
<1> QED BY <1>1, <1>2, <1>3 DEF Next, vars, CheckLock, LoadLock, InsertLock, ReleaseLock,
        CheckDependency, LoadDependency, Abandon, Refuse

\* Both tables are semaphores with a permit for each server process: a request
\* takes one permit and only while there is one, and a release, a resolve or a
\* delete that comes too late gives back nothing that is not out.
THEOREM PermitsImplemented == Spec => ImplementsPermits
<1> DEFINE LockCounts == [d \in Devices |-> Cardinality(LockedRows(d))]
           DependencyCounts == [e \in Edges |-> Cardinality(ActiveRows(e))]
<1>1. Init => LockPermits!Init /\ DependencyPermits!Init
  <2> SUFFICES ASSUME Init PROVE LockPermits!Init /\ DependencyPermits!Init
    OBVIOUS
  <2>1. /\ \A d \in Devices : LockedRows(d) = {}
        /\ \A e \in Edges : ActiveRows(e) = {}
    BY DEF Init, LockedRows, ActiveRows
  <2> QED BY <2>1, FS_EmptySet DEF LockPermits!Init, DependencyPermits!Init
<1>2. Types /\ WeightsOK /\ [Next]_vars => [LockPermits!Next]_LockCounts
  <2> SUFFICES ASSUME Types, WeightsOK, [Next]_vars
               PROVE  LockPermits!Next \/ UNCHANGED LockCounts
    OBVIOUS
  <2>1. Moves(LockTable, LockTable') /\ \A d \in Devices : IsFiniteSet(LockedRows(d))
    BY LockTableMoves, RowsFinite DEF Types
  <2>2. Sizes(LockTable) = LockCounts /\ Sizes(LockTable') = LockCounts'
    BY DEF Sizes, LockTable
  <2>3. /\ DOMAIN LockTable = Devices /\ LockTable = [d \in DOMAIN LockTable |-> LockTable[d]]
        /\ \A d \in DOMAIN LockTable : IsFiniteSet(LockTable[d])
    BY <2>1 DEF LockTable
  <2>4. \/ LockCounts' = LockCounts
        \/ \E d \in Devices :
              \/ /\ LockCounts[d] < Cardinality(Workers)
                 /\ LockCounts' = [LockCounts EXCEPT ![d] = @ + 1]
              \/ /\ LockCounts[d] > 0
                 /\ LockCounts' = [LockCounts EXCEPT ![d] = @ - 1]
    <3>1. PICK f, g : f = LockTable /\ g = LockTable'
      OBVIOUS
    <3> HIDE DEF LockCounts
    <3> QED BY <2>1, <2>2, <2>3, <3>1, MovesCount
  <2> QED BY <2>4 DEF LockPermits!Next, LockPermits!Take, LockPermits!Give
<1>3. Types /\ WeightsOK /\ [Next]_vars => [DependencyPermits!Next]_DependencyCounts
  <2> SUFFICES ASSUME Types, WeightsOK, [Next]_vars
               PROVE  DependencyPermits!Next \/ UNCHANGED DependencyCounts
    OBVIOUS
  <2>1. /\ Moves(DependencyTable, DependencyTable')
        /\ \A e \in Edges : IsFiniteSet(ActiveRows(e))
    BY DependencyTableMoves, RowsFinite DEF Types
  <2>2. Sizes(DependencyTable) = DependencyCounts /\ Sizes(DependencyTable') = DependencyCounts'
    BY DEF Sizes, DependencyTable
  <2>3. /\ DOMAIN DependencyTable = Edges
        /\ DependencyTable = [e \in DOMAIN DependencyTable |-> DependencyTable[e]]
        /\ \A e \in DOMAIN DependencyTable : IsFiniteSet(DependencyTable[e])
    BY <2>1 DEF DependencyTable
  <2>4. \/ DependencyCounts' = DependencyCounts
        \/ \E e \in Edges :
              \/ /\ DependencyCounts[e] < Cardinality(Workers)
                 /\ DependencyCounts' = [DependencyCounts EXCEPT ![e] = @ + 1]
              \/ /\ DependencyCounts[e] > 0
                 /\ DependencyCounts' = [DependencyCounts EXCEPT ![e] = @ - 1]
    <3>1. PICK f, g : f = DependencyTable /\ g = DependencyTable'
      OBVIOUS
    <3> HIDE DEF DependencyCounts
    <3> QED BY <2>1, <2>2, <2>3, <3>1, MovesCount
  <2> QED BY <2>4 DEF DependencyPermits!Next, DependencyPermits!Take, DependencyPermits!Give
<1> QED BY <1>1, <1>2, <1>3, TypesAlways, WeightsAlways, PTL
        DEF Spec, ImplementsPermits, LockPermits!Spec, DependencyPermits!Spec

(***************************************************************************)
(* Rows loaded and updated by id.                                          *)
(***************************************************************************)
\* What a release has loaded is still a row of its device and its task.
ReleasesOwn ==
    \A w \in Workers : pc[w] = "releasing" =>
        locks[id[w]].key = key[w] /\ locks[id[w]].owner = owner[w]

LEMMA ReleasesOwnStep == Types /\ ReleasesOwn /\ [Next]_vars => ReleasesOwn'
<1> SUFFICES ASSUME Types, ReleasesOwn, [Next]_vars PROVE ReleasesOwn'
  OBVIOUS
<1>1. ASSUME NEW w \in Workers, Ends(w),
             \A i \in DOMAIN locks : /\ locks'[i].key = locks[i].key
                                     /\ locks'[i].owner = locks[i].owner
      PROVE  ReleasesOwn'
  BY <1>1 DEF Ends, Goes, ReleasesOwn, Types, TypeOK, HandlersOK
<1>2. ASSUME NEW w \in Workers, NEW d \in Devices, NEW t \in Tasks,
             CheckLock(w, d, t) \/ LoadLock(w, d, t)
      PROVE  ReleasesOwn'
  BY <1>2 DEF CheckLock, LoadLock, LockedRows, Goes, ReleasesOwn, Types, TypeOK
<1>3. ASSUME NEW w \in Workers, NEW i \in DOMAIN deps,
             NEW phase \in {"resolving", "deleting"}, LoadDependency(w, i, phase)
      PROVE  ReleasesOwn'
  BY <1>3 DEF LoadDependency, Goes, ReleasesOwn, Types, TypeOK
<1>4. ASSUME NEW w \in Workers, NEW e \in Edges, CheckDependency(w, e)
      PROVE  ReleasesOwn'
  BY <1>4 DEF CheckDependency, Goes, ReleasesOwn, Types, TypeOK
<1>5. ASSUME NEW w \in Workers, InsertLock(w) PROVE ReleasesOwn'
  <2>1. \A i \in DOMAIN locks : locks'[i] = locks[i]
    BY <1>5 DEF InsertLock, Types, TypeOK
  <2> QED BY <1>1, <1>5, <2>1 DEF InsertLock
<1>6. ASSUME NEW w \in Workers, ReleaseLock(w) PROVE ReleasesOwn'
  <2>1. \A i \in DOMAIN locks : /\ locks'[i].key = locks[i].key
                                /\ locks'[i].owner = locks[i].owner
    BY <1>6 DEF ReleaseLock, Types, TypeOK, HandlersOK, Lock
  <2> QED BY <1>1, <1>6, <2>1 DEF ReleaseLock
<1>7. ASSUME NEW w \in Workers, Ends(w), UNCHANGED locks PROVE ReleasesOwn'
  BY <1>1, <1>7
<1>8. CASE UNCHANGED vars
  BY <1>8 DEF vars, ReleasesOwn
<1> QED BY <1>2, <1>3, <1>4, <1>5, <1>6, <1>7, <1>8
        DEF Next, InsertDependency, ResolveDependency, DeleteDependency, Abandon, Refuse

\* Nothing but a release of its own device and task ever changes a lock, however
\* late the UPDATE comes after the row was loaded.
THEOREM OnlyOwnersFree == Spec => OnlyOwnersRelease
<1>1. Init => ReleasesOwn
  BY DEF Init, ReleasesOwn
<1>2. Types /\ ReleasesOwn /\ [Next]_vars =>
          [\A i \in DOMAIN locks : locks'[i] # locks[i] =>
              \E w \in Workers : pc[w] = "releasing" /\ key[w] = locks[i].key
                                                    /\ owner[w] = locks[i].owner]_vars
  <2> SUFFICES ASSUME Types, ReleasesOwn, Next, NEW i \in DOMAIN locks, locks'[i] # locks[i]
               PROVE  \E w \in Workers : /\ pc[w] = "releasing" /\ key[w] = locks[i].key
                                        /\ owner[w] = locks[i].owner
    OBVIOUS
  <2>1. ASSUME NEW w \in Workers, InsertLock(w) PROVE FALSE
    BY <2>1 DEF InsertLock, Types, TypeOK
  <2>2. ASSUME NEW w \in Workers, ReleaseLock(w)
        PROVE  /\ pc[w] = "releasing" /\ key[w] = locks[i].key
               /\ owner[w] = locks[i].owner
    BY <2>2 DEF ReleaseLock, ReleasesOwn, Types, TypeOK
  <2> QED BY <2>1, <2>2 DEF Next, vars, CheckLock, LoadLock, CheckDependency,
          LoadDependency, InsertDependency, ResolveDependency, DeleteDependency,
          Abandon, Refuse
<1> QED BY <1>1, <1>2, ReleasesOwnStep, TypesAlways, PTL DEF Spec, OnlyOwnersRelease

\* What a handler updates or deletes by id is a row of the key that it loaded.
HitsItsRow ==
    \A w \in Workers : pc[w] \in {"resolving", "deleting"} =>
        id[w] \in DOMAIN deps /\ deps[id[w]].key = key[w]

LEMMA HitsItsRowStep ==
    ASSUME ~ReusesIds
    PROVE  Types /\ HitsItsRow /\ [Next]_vars => HitsItsRow'
<1> SUFFICES ASSUME Types, HitsItsRow, [Next]_vars PROVE HitsItsRow'
  OBVIOUS
<1>1. ASSUME NEW w \in Workers, Ends(w),
             \A i \in DOMAIN deps : i \in DOMAIN deps' /\ deps'[i].key = deps[i].key
      PROVE  HitsItsRow'
  BY <1>1 DEF Ends, Goes, HitsItsRow, Types, TypeOK
<1>2. ASSUME NEW w \in Workers, NEW d \in Devices, NEW t \in Tasks,
             CheckLock(w, d, t) \/ LoadLock(w, d, t)
      PROVE  HitsItsRow'
  BY <1>2 DEF CheckLock, LoadLock, Goes, HitsItsRow, Types, TypeOK
<1>3. ASSUME NEW w \in Workers, NEW i \in DOMAIN deps,
             NEW phase \in {"resolving", "deleting"}, LoadDependency(w, i, phase)
      PROVE  HitsItsRow'
  BY <1>3 DEF LoadDependency, Goes, HitsItsRow, Types, TypeOK
<1>4. ASSUME NEW w \in Workers, NEW e \in Edges, CheckDependency(w, e)
      PROVE  HitsItsRow'
  BY <1>4 DEF CheckDependency, Goes, HitsItsRow, Types, TypeOK
<1>5. ASSUME NEW w \in Workers, InsertDependency(w) PROVE HitsItsRow'
  <2>1. deps' = Append(SubSeq(deps, 1, Len(deps)), [key |-> key[w], status |-> "active"])
    BY <1>5 DEF InsertDependency, NextIds, Types, TypeOK
  <2>2. \A i \in DOMAIN deps : i \in DOMAIN deps' /\ deps'[i] = deps[i]
    BY <2>1 DEF Types, TypeOK
  <2> QED BY <1>1, <1>5, <2>2 DEF InsertDependency
<1>6. ASSUME NEW w \in Workers, ResolveDependency(w) \/ DeleteDependency(w)
      PROVE  HitsItsRow'
  <2>1. \A i \in DOMAIN deps : i \in DOMAIN deps' /\ deps'[i].key = deps[i].key
    <3>1. PICK st \in {"resolved", "deleted"} :
              \/ deps' = [deps EXCEPT ![id[w]].status = st]
              \/ deps' = deps
      BY <1>6 DEF ResolveDependency, DeleteDependency
    <3>2. \A i \in DOMAIN deps : deps[i] \in Dependency
      BY DEF Types, TypeOK
    <3>3. /\ DOMAIN deps' = DOMAIN deps
          /\ \A i \in DOMAIN deps : \/ deps'[i] = deps[i]
                                   \/ deps'[i] = [deps[i] EXCEPT !.status = st]
      BY <3>1 DEF Types, TypeOK
    <3>4. \A i \in DOMAIN deps : [deps[i] EXCEPT !.status = st].key = deps[i].key
      BY <3>2 DEF Dependency
    <3> QED BY <3>3, <3>4
  <2> QED BY <1>1, <1>6, <2>1 DEF ResolveDependency, DeleteDependency
<1>7. ASSUME NEW w \in Workers, Ends(w), UNCHANGED deps PROVE HitsItsRow'
  BY <1>1, <1>7
<1>8. CASE UNCHANGED vars
  BY <1>8 DEF vars, HitsItsRow
<1> QED BY <1>2, <1>3, <1>4, <1>5, <1>6, <1>7, <1>8
        DEF Next, InsertLock, ReleaseLock, Abandon, Refuse

\* Where ids do not come back, as on PostgreSQL, an update or delete by id never
\* meets another dependency than the one that the handler loaded.  On SQLite the
\* last row may be deleted and its id given to another dependency in between.
THEOREM FreshIdsHitTheirRow ==
    ASSUME ~ReusesIds
    PROVE  Spec => []HitsItsRow
<1>1. Init => HitsItsRow
  BY DEF Init, HitsItsRow
<1> QED BY <1>1, HitsItsRowStep, TypesAlways, PTL DEF Spec
=============================================================================
