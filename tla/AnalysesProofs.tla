--------------------------- MODULE AnalysesProofs ----------------------------
(***************************************************************************)
(* Theorems about Analyses, for every set of processes and tasks, every    *)
(* number of overlapping calls and every quota.                            *)
(***************************************************************************)
EXTENDS Analyses, FiniteSetTheorems, SequenceTheorems, TLAPS

(***************************************************************************)
(* Types.                                                                  *)
(***************************************************************************)
\* A call under way knows its task.
CallsOK ==
    \A w \in Workers, s \in Slots : call[w][s].phase # "idle" => call[w][s].task \in Tasks

\* Rows are never deleted: what a saving call has found is still there.
LoadedOK ==
    \A w \in Workers, s \in Slots :
        call[w][s].phase = "saving" /\ call[w][s].loaded # None
            => analysis[call[w][s].task] # None

Types == TypeOK /\ CallsOK /\ LoadedOK

\* The part of the types that one call's step touches.
CallsTyped(calls) ==
    /\ calls \in [Workers -> [Slots -> Call]]
    /\ \A w \in Workers, s \in Slots : calls[w][s].phase # "idle" => calls[w][s].task \in Tasks

LEMMA NoCallTyped == NoCall \in Call /\ NoCall.phase = "idle"
BY DEF NoCall, Call

LEMMA CallReplaced ==
    ASSUME NEW calls, CallsTyped(calls), NEW w \in Workers, NEW s \in Slots,
           NEW c \in Call, c.phase # "idle" => c.task \in Tasks
    PROVE  CallsTyped([calls EXCEPT ![w][s] = c])
<1>1. [calls[w] EXCEPT ![s] = c] \in [Slots -> Call]
  BY DEF CallsTyped
<1>2. [calls EXCEPT ![w][s] = c] \in [Workers -> [Slots -> Call]]
  BY <1>1 DEF CallsTyped
<1>3. \A v \in Workers, r \in Slots :
          [calls EXCEPT ![w][s] = c][v][r] = IF v = w /\ r = s THEN c ELSE calls[v][r]
  BY DEF CallsTyped
<1> QED BY <1>2, <1>3 DEF CallsTyped

LEMMA TypesInit == Init => Types
BY NoCallTyped DEF Init, Types, TypeOK, CallsOK, LoadedOK, Answers

\* A call that ends leaves nothing behind.
LEMMA EndsTyped ==
    ASSUME Types, NEW w \in Workers, NEW s \in Slots, NEW what \in Answers, Ends(w, s, what)
    PROVE  CallsTyped(call') /\ answer' \in [Workers -> Answers]
<1>1. CallsTyped(call)
  BY DEF Types, TypeOK, CallsOK, CallsTyped
<1>2. CallsTyped(call')
  BY <1>1, NoCallTyped, CallReplaced DEF Ends
<1> QED BY <1>2 DEF Ends, Says, Types, TypeOK

\* What an UPDATE leaves is a row.
LEMMA UpdatedTyped ==
    ASSUME NEW row \in Analysis, NEW c \in Call, c.loaded # None
    PROVE  Updated(row, c) \subseteq Analysis /\ None \notin Analysis
<1>1. c.loaded \in Analysis /\ c.of \in Nat
  BY DEF Call
<1>2. /\ Column(row.cause, c.loaded.cause, c.of) \subseteq Nat
      /\ Column(row.advice, c.loaded.advice, c.of) \subseteq Nat
  BY <1>1 DEF Column, Analysis
<1>3. {row.cached /\ ~c.loaded.cached} \subseteq BOOLEAN
  OBVIOUS
<1>4. Updated(row, c) \subseteq Analysis
  BY <1>2, <1>3 DEF Updated, Analysis
<1> QED BY <1>4, NoneAssumption DEF Analysis

LEMMA TypesStep == Types /\ [Next]_vars => (TypeOK /\ CallsOK)'
<1> SUFFICES ASSUME Types, [Next]_vars PROVE (TypeOK /\ CallsOK)'
  OBVIOUS
<1>0. CallsTyped(call) /\ TypeOK
  BY DEF Types, TypeOK, CallsOK, CallsTyped
<1>a. /\ CallsTyped(call') /\ now' \in Nat /\ result' \in [Tasks -> Nat]
      /\ analysis' \in [Tasks -> Analysis \cup {None}]
      /\ requests' \in [Workers -> Seq(Nat)] /\ answer' \in [Workers -> Answers]
      => (TypeOK /\ CallsOK)'
  BY DEF TypeOK, CallsOK, CallsTyped
<1>1. CASE UNCHANGED vars
  BY <1>0, <1>1, <1>a DEF vars, TypeOK
<1>2. CASE Tick
  BY <1>0, <1>2, <1>a DEF Tick, TypeOK
<1>3. ASSUME NEW t \in Tasks, RecordResult(t) PROVE (TypeOK /\ CallsOK)'
  BY <1>0, <1>3, <1>a DEF RecordResult, TypeOK
<1>4. ASSUME NEW w \in Workers, NEW t \in Tasks,
             ServeCached(w, t) \/ \E force \in BOOLEAN : Refuse(w, t, force)
      PROVE  (TypeOK /\ CallsOK)'
  <2>1. answer' \in [Workers -> Answers]
    BY <1>0, <1>4 DEF ServeCached, Refuse, Says, TypeOK, Answers
  <2> QED BY <1>0, <1>4, <1>a, <2>1 DEF ServeCached, Refuse, TypeOK
<1>5. ASSUME NEW w \in Workers, NEW s \in Slots, NEW t \in Tasks, NEW force \in BOOLEAN,
             Ask(w, s, t, force)
      PROVE  (TypeOK /\ CallsOK)'
  <2>1. requests' \in [Workers -> Seq(Nat)]
    <3>1. Append(requests[w], now) \in Seq(Nat)
      BY <1>0, AppendProperties DEF TypeOK
    <3> QED BY <1>0, <1>5, <3>1 DEF Ask, TypeOK
  <2>3. [phase |-> "asking", task |-> t, of |-> result[t], loaded |-> None] \in Call
    BY <1>0 DEF TypeOK, Call
  <2>4. CallsTyped(call')
    BY <1>0, <1>5, <2>3, CallReplaced DEF Ask
  <2> QED BY <1>0, <1>5, <1>a, <2>1, <2>4 DEF Ask, TypeOK
<1>6. ASSUME NEW w \in Workers, NEW s \in Slots, LlmFails(w, s) \/ SaveFails(w, s)
      PROVE  (TypeOK /\ CallsOK)'
  <2>1. "failed" \in Answers /\ Ends(w, s, "failed")
    BY <1>6 DEF LlmFails, SaveFails, Answers
  <2> QED BY <1>0, <1>6, <1>a, <2>1, EndsTyped DEF LlmFails, SaveFails, TypeOK
<1>7. ASSUME NEW w \in Workers, NEW s \in Slots, LlmAnswers(w, s) PROVE (TypeOK /\ CallsOK)'
  <2> DEFINE c == call[w][s]
  <2>1. c \in Call /\ c.task \in Tasks /\ c.phase = "asking"
    BY <1>0, <1>7 DEF LlmAnswers, CallsTyped
  <2> DEFINE d == [c EXCEPT !.phase = "saving", !.loaded = analysis[c.task]]
  <2>2. d \in Call /\ d.task \in Tasks
    <3>1. analysis[c.task] \in Analysis \cup {None}
      BY <1>0, <2>1 DEF TypeOK
    <3> QED BY <2>1, <3>1 DEF Call
  <2>3. call' = [call EXCEPT ![w][s] = d]
    BY <1>0, <1>7, <2>1 DEF LlmAnswers, CallsTyped
  <2>4. CallsTyped(call')
    <3> HIDE DEF d
    <3> QED BY <1>0, <2>2, <2>3, CallReplaced
  <2> QED BY <1>0, <1>7, <1>a, <2>4 DEF LlmAnswers, TypeOK
<1>8. ASSUME NEW w \in Workers, NEW s \in Slots, SaveFirst(w, s) \/ SaveAgain(w, s)
      PROVE  (TypeOK /\ CallsOK)'
  <2>1. call[w][s] \in Call /\ call[w][s].task \in Tasks /\ call[w][s].of \in Nat
    BY <1>0, <1>8 DEF SaveFirst, SaveAgain, CallsTyped, Call
  <2>2. "fresh" \in Answers /\ Ends(w, s, "fresh")
    BY <1>8 DEF SaveFirst, SaveAgain, Answers
  <2>3. analysis' \in [Tasks -> Analysis \cup {None}]
    <3>1. CASE SaveFirst(w, s)
      BY <1>0, <2>1, <3>1 DEF SaveFirst, TypeOK, Analysis
    <3>2. CASE SaveAgain(w, s)
      <4>1. analysis[call[w][s].task] \in Analysis /\ call[w][s].loaded # None
        BY <1>0, <2>1, <3>2 DEF SaveAgain, TypeOK, Types, LoadedOK
      <4>2. Updated(analysis[call[w][s].task], call[w][s]) \subseteq Analysis
        BY <2>1, <4>1, UpdatedTyped
      <4> QED BY <1>0, <2>1, <3>2, <4>2 DEF SaveAgain, TypeOK
    <3> QED BY <1>8, <3>1, <3>2
  <2> QED BY <1>0, <1>8, <1>a, <2>2, <2>3, EndsTyped DEF SaveFirst, SaveAgain, TypeOK
<1>9. ASSUME NEW w \in Workers, Crash(w) PROVE (TypeOK /\ CallsOK)'
  <2>1. CallsTyped(call')
    BY <1>0, <1>9, NoCallTyped DEF Crash, CallsTyped
  <2>2. answer' \in [Workers -> Answers] /\ requests' \in [Workers -> Seq(Nat)]
    BY <1>0, <1>9 DEF Crash, Says, Answers, TypeOK
  <2> QED BY <1>0, <1>9, <1>a, <2>1, <2>2 DEF Crash, TypeOK
<1> QED BY <1>1, <1>2, <1>3, <1>4, <1>5, <1>6, <1>7, <1>8, <1>9 DEF Next, Handle, Proceed

\* A row that is there stays.
LEMMA RowsStay ==
    ASSUME Types, [Next]_vars, NEW t \in Tasks, analysis[t] # None
    PROVE  analysis'[t] # None
<1>1. ASSUME NEW w \in Workers, NEW s \in Slots, SaveFirst(w, s) PROVE analysis'[t] # None
  BY <1>1 DEF SaveFirst, Types, TypeOK
<1>2. ASSUME NEW w \in Workers, NEW s \in Slots, SaveAgain(w, s) PROVE analysis'[t] # None
  <2> DEFINE c == call[w][s]
  <2>1. c \in Call /\ c.task \in Tasks /\ c.loaded # None
    BY <1>2 DEF SaveAgain, Types, TypeOK, CallsOK
  <2>2. analysis[c.task] \in Analysis /\ c.of \in Nat
    BY <1>2, <2>1 DEF SaveAgain, Types, TypeOK, LoadedOK, Call
  <2>3. Updated(analysis[c.task], c) \subseteq Analysis /\ None \notin Analysis
    BY <2>1, <2>2, UpdatedTyped
  <2> QED BY <1>2, <2>1, <2>3 DEF SaveAgain, Types, TypeOK
<1> QED BY <1>1, <1>2 DEF Next, vars, Tick, RecordResult, Handle, ServeCached, Refuse, Ask, Crash,
                          Proceed, LlmFails, LlmAnswers, SaveFails

\* What can become of a call in one step.
LEMMA CallSteps ==
    ASSUME Types, [Next]_vars, NEW w \in Workers, NEW s \in Slots
    PROVE  \/ call'[w][s] = call[w][s]
           \/ call'[w][s].phase \in {"idle", "asking"}
           \/ LlmAnswers(w, s)
<1>0. call \in [Workers -> [Slots -> Call]]
  BY DEF Types, TypeOK
<1>1. ASSUME NEW v \in Workers, NEW r \in Slots, NEW what, Ends(v, r, what)
      PROVE  call'[w][s] = call[w][s] \/ call'[w][s].phase = "idle"
  BY <1>0, <1>1, NoCallTyped DEF Ends
<1>2. ASSUME NEW v \in Workers, NEW r \in Slots, NEW t \in Tasks, NEW force \in BOOLEAN,
             Ask(v, r, t, force)
      PROVE  call'[w][s] = call[w][s] \/ call'[w][s].phase = "asking"
  BY <1>0, <1>2 DEF Ask
<1>3. ASSUME NEW v \in Workers, NEW r \in Slots, LlmAnswers(v, r)
      PROVE  call'[w][s] = call[w][s] \/ LlmAnswers(w, s)
  <2>1. CASE v = w /\ r = s
    BY <1>3, <2>1
  <2>2. CASE ~(v = w /\ r = s)
    BY <1>0, <1>3, <2>2 DEF LlmAnswers
  <2> QED BY <2>1, <2>2
<1>4. ASSUME NEW v \in Workers, Crash(v)
      PROVE  call'[w][s] = call[w][s] \/ call'[w][s].phase = "idle"
  BY <1>0, <1>4, NoCallTyped DEF Crash
<1>5. ASSUME NEW v \in Workers, NEW r \in Slots, Proceed(v, r)
      PROVE  \/ call'[w][s] = call[w][s]
             \/ call'[w][s].phase = "idle"
             \/ LlmAnswers(w, s)
  <2>1. LlmAnswers(v, r) \/ \E what : Ends(v, r, what)
    BY <1>5 DEF Proceed, LlmFails, SaveFirst, SaveAgain, SaveFails
  <2> QED BY <1>1, <1>3, <2>1
<1> QED BY <1>2, <1>4, <1>5 DEF Next, vars, Tick, RecordResult, Handle, ServeCached, Refuse

LEMMA LoadedStep == Types /\ [Next]_vars => LoadedOK'
<1> SUFFICES ASSUME Types, [Next]_vars,
                    NEW w \in Workers, NEW s \in Slots,
                    call'[w][s].phase = "saving", call'[w][s].loaded # None
             PROVE  analysis'[call'[w][s].task] # None
  BY DEF LoadedOK
<1>1. CASE call'[w][s] = call[w][s]
  BY <1>1, RowsStay DEF Types, CallsOK, LoadedOK
<1>2. CASE LlmAnswers(w, s)
  BY <1>2 DEF LlmAnswers, Types, TypeOK, Call
<1> QED BY <1>1, <1>2, CallSteps

LEMMA TypesAlways == Spec => []Types
<1>1. Types /\ [Next]_vars => Types'
  BY TypesStep, LoadedStep DEF Types
<1> QED BY <1>1, TypesInit, PTL DEF Spec

\* Every reachable state of the analyses is well typed.
THEOREM AnalysesTypeCorrect == Spec => []TypeOK
<1>1. Types => TypeOK
  BY DEF Types
<1> QED BY <1>1, TypesAlways, PTL

(***************************************************************************)
(* The quota.  A call under way has left a request in the process's list,  *)
(* and the list never grows beyond the quota.                              *)
(***************************************************************************)
QuotaOK ==
    Limit > 0 => \A w \in Workers : /\ Len(requests[w]) <= Limit
                                    /\ Cardinality(Asking(w)) <= Len(requests[w])

\* Sizes of sets of slots.
LEMMA SlotSets ==
    /\ \A S \in SUBSET Slots : IsFiniteSet(S) /\ Cardinality(S) \in Nat
    /\ \A S, T \in SUBSET Slots : S \subseteq T => Cardinality(S) <= Cardinality(T)
    /\ \A S \in SUBSET Slots, s \in Slots : Cardinality(S \cup {s}) <= Cardinality(S) + 1
    /\ Cardinality({}) = 0
<1>1. \A S \in SUBSET Slots : IsFiniteSet(S) /\ Cardinality(S) \in Nat
  BY SlotsAssumption, FS_Subset, FS_CardinalityType
<1>2. ASSUME NEW S \in SUBSET Slots, NEW T \in SUBSET Slots, S \subseteq T
      PROVE  Cardinality(S) <= Cardinality(T)
  <2>1. S \in SUBSET T
    BY <1>2
  <2> QED BY <1>1, <2>1, FS_Subset
<1>3. ASSUME NEW S \in SUBSET Slots, NEW s \in Slots
      PROVE  Cardinality(S \cup {s}) <= Cardinality(S) + 1
  <2>1. Cardinality(S \cup {s}) = IF s \in S THEN Cardinality(S) ELSE Cardinality(S) + 1
    BY <1>1, FS_AddElement
  <2> QED BY <1>1, <2>1
<1> QED BY <1>1, <1>2, <1>3, FS_EmptySet

LEMMA QuotaInit == Init => QuotaOK
<1> SUFFICES ASSUME Init, Limit > 0, NEW w \in Workers
             PROVE  Len(requests[w]) <= Limit /\ Cardinality(Asking(w)) <= Len(requests[w])
  BY DEF QuotaOK
<1>1. Asking(w) = {}
  BY NoCallTyped DEF Init, Asking
<1>2. requests[w] = <<>>
  BY DEF Init
<1> QED BY <1>1, <1>2, SlotSets, LimitAssumption

LEMMA QuotaStep == Types /\ QuotaOK /\ [Next]_vars => QuotaOK'
<1> SUFFICES ASSUME Types, QuotaOK, [Next]_vars, Limit > 0, NEW w \in Workers
             PROVE  Len(requests'[w]) <= Limit /\ Cardinality(Asking(w)') <= Len(requests'[w])
  BY DEF QuotaOK
<1>0. /\ call \in [Workers -> [Slots -> Call]] /\ requests \in [Workers -> Seq(Nat)]
      /\ Len(requests[w]) \in Nat /\ Limit \in Nat
      /\ Asking(w) \in SUBSET Slots /\ Asking(w)' \in SUBSET Slots
  BY LimitAssumption DEF Types, TypeOK, Asking
<1>a. Len(requests[w]) <= Limit /\ Cardinality(Asking(w)) <= Len(requests[w])
  BY DEF QuotaOK
<1>1. ASSUME UNCHANGED requests, Asking(w)' \subseteq Asking(w)
      PROVE  Len(requests'[w]) <= Limit /\ Cardinality(Asking(w)') <= Len(requests'[w])
  <2>1. Cardinality(Asking(w)') <= Cardinality(Asking(w))
    BY <1>0, <1>1, SlotSets
  <2>2. Cardinality(Asking(w)') \in Nat /\ Cardinality(Asking(w)) \in Nat
    BY <1>0, SlotSets
  <2> QED BY <1>0, <1>a, <1>1, <2>1, <2>2
<1>2. ASSUME NEW v \in Workers, NEW s \in Slots, NEW t \in Tasks, NEW force \in BOOLEAN,
             Ask(v, s, t, force)
      PROVE  Len(requests'[w]) <= Limit /\ Cardinality(Asking(w)') <= Len(requests'[w])
  <2>1. CASE v = w
    <3>1. Len(requests[w]) < Limit /\ requests' = [requests EXCEPT ![w] = Append(@, now)]
      BY <1>2, <2>1, LimitAssumption DEF Ask, HasQuota
    <3>2. now \in Nat
      BY DEF Types, TypeOK
    <3>3. Len(requests'[w]) = Len(requests[w]) + 1
      BY <1>0, <3>1, <3>2, AppendProperties
    <3>4. Asking(w)' \subseteq Asking(w) \cup {s}
      BY <1>0, <1>2, <2>1 DEF Ask, Asking
    <3>5. Asking(w) \cup {s} \in SUBSET Slots
      BY <1>0
    <3>6. /\ Cardinality(Asking(w)') <= Cardinality(Asking(w) \cup {s})
          /\ Cardinality(Asking(w) \cup {s}) <= Cardinality(Asking(w)) + 1
      BY <1>0, <3>4, <3>5, SlotSets
    <3>7. /\ Cardinality(Asking(w)') \in Nat /\ Cardinality(Asking(w)) \in Nat
          /\ Cardinality(Asking(w) \cup {s}) \in Nat
      BY <1>0, <3>5, SlotSets
    <3> QED BY <1>0, <1>a, <3>1, <3>3, <3>6, <3>7
  <2>2. CASE v # w
    <3>1. requests'[w] = requests[w] /\ Asking(w)' = Asking(w)
      BY <1>0, <1>2, <2>2 DEF Ask, Asking
    <3> QED BY <1>a, <3>1
  <2> QED BY <2>1, <2>2
<1>3. ASSUME NEW v \in Workers, NEW s \in Slots, Proceed(v, s)
      PROVE  Len(requests'[w]) <= Limit /\ Cardinality(Asking(w)') <= Len(requests'[w])
  <2>1. UNCHANGED requests
    BY <1>3 DEF Proceed, LlmFails, LlmAnswers, SaveFirst, SaveAgain, SaveFails
  <2>2. call[v][s].phase # "idle" /\ (LlmAnswers(v, s) \/ \E what : Ends(v, s, what))
    BY <1>3 DEF Proceed, LlmFails, LlmAnswers, SaveFirst, SaveAgain, SaveFails
  <2>3. \A u \in Workers, r \in Slots : u # v \/ r # s => call'[u][r] = call[u][r]
    BY <1>0, <2>2 DEF LlmAnswers, Ends
  <2>4. Asking(w)' \subseteq Asking(w)
    BY <2>2, <2>3 DEF Asking
  <2> QED BY <1>1, <2>1, <2>4
<1>4. ASSUME NEW v \in Workers, Crash(v)
      PROVE  Len(requests'[w]) <= Limit /\ Cardinality(Asking(w)') <= Len(requests'[w])
  <2>1. CASE v = w
    <3>1. requests'[w] = <<>> /\ Asking(w)' = {}
      BY <1>0, <1>4, <2>1, NoCallTyped DEF Crash, Asking
    <3> QED BY <1>0, <3>1, SlotSets
  <2>2. CASE v # w
    <3>1. requests'[w] = requests[w] /\ Asking(w)' = Asking(w)
      BY <1>0, <1>4, <2>2 DEF Crash, Asking
    <3> QED BY <1>a, <3>1
  <2> QED BY <2>1, <2>2
<1>5. UNCHANGED <<requests, call>> => UNCHANGED requests /\ Asking(w)' = Asking(w)
  BY DEF Asking
<1> QED BY <1>1, <1>2, <1>3, <1>4, <1>5
        DEF Next, vars, Tick, RecordResult, Handle, ServeCached, Refuse

\* Whatever overlaps at the model, a process never has more analyses under way than
\* max_rca_per_hour allows in an hour.
THEOREM CallsAlwaysBounded == Spec => []CallsBounded
<1>1. Types /\ QuotaOK => CallsBounded
  <2> SUFFICES ASSUME Types, QuotaOK, Limit > 0, NEW w \in Workers
               PROVE  Cardinality(Asking(w)) <= Limit
    BY DEF CallsBounded
  <2>1. /\ Asking(w) \in SUBSET Slots /\ Len(requests[w]) \in Nat
        /\ Len(requests[w]) <= Limit /\ Cardinality(Asking(w)) <= Len(requests[w])
    BY DEF Asking, QuotaOK, Types, TypeOK
  <2>2. Cardinality(Asking(w)) \in Nat
    BY <2>1, SlotSets
  <2> QED BY <2>1, <2>2, LimitAssumption
<1>2. Types /\ QuotaOK /\ [Next]_vars => QuotaOK'
  BY QuotaStep
<1> QED BY <1>1, <1>2, QuotaInit, TypesAlways, PTL DEF Spec

(***************************************************************************)
(* The cache.                                                              *)
(***************************************************************************)
\* A row that was out of the cache when a saving call loaded it is out still: the
\* column cache_hit is not written then.
CacheOK ==
    /\ CachedTellsOneResult
    /\ \A w \in Workers, s \in Slots :
          LET c == call[w][s]
          IN  c.phase = "saving" /\ c.loaded # None /\ ~c.loaded.cached
                  => ~analysis[c.task].cached

\* Nothing brings a row back into the cache.
LEMMA OutStaysOut ==
    ASSUME Types, [Next]_vars, NEW t \in Tasks, analysis[t] # None, ~analysis[t].cached
    PROVE  ~analysis'[t].cached
<1>1. ASSUME NEW w \in Workers, NEW s \in Slots, SaveFirst(w, s)
      PROVE  ~analysis'[t].cached
  BY <1>1 DEF SaveFirst, Types, TypeOK
<1>2. ASSUME NEW w \in Workers, NEW s \in Slots, SaveAgain(w, s)
      PROVE  ~analysis'[t].cached
  <2> DEFINE c == call[w][s]
  <2>1. PICK row \in Updated(analysis[c.task], c) :
            analysis' = [analysis EXCEPT ![c.task] = row]
    BY <1>2 DEF SaveAgain
  <2>2. c.task = t => ~row.cached
    BY <2>1 DEF Updated
  <2> HIDE DEF c
  <2> QED BY <2>1, <2>2 DEF Types, TypeOK
<1> QED BY <1>1, <1>2 DEF Next, vars, Tick, RecordResult, Handle, ServeCached, Refuse,
                        Ask, Crash, Proceed, LlmFails, LlmAnswers, SaveFails

\* A row of task_rca that changes leaves the cache: of two calls that store answers
\* the first takes it out, whichever of them had loaded it first.
LEMMA ChangedNotCached ==
    ASSUME Types, CacheOK, [Next]_vars, NEW t \in Tasks, analysis[t] # None,
           analysis'[t] # analysis[t]
    PROVE  ~analysis'[t].cached
<1>1. ASSUME NEW w \in Workers, NEW s \in Slots, SaveFirst(w, s)
      PROVE  FALSE
  BY <1>1 DEF SaveFirst, Types, TypeOK
<1>2. ASSUME NEW w \in Workers, NEW s \in Slots, SaveAgain(w, s)
      PROVE  ~analysis'[t].cached
  <2> DEFINE c == call[w][s]
  <2>1. PICK row \in Updated(analysis[c.task], c) :
            analysis' = [analysis EXCEPT ![c.task] = row]
    BY <1>2 DEF SaveAgain
  <2>2. c.phase = "saving" /\ c.loaded # None /\ c \in Call
    BY <1>2 DEF SaveAgain, Types, TypeOK
  <2>3. ~c.loaded.cached => ~analysis[c.task].cached
    BY <2>2 DEF CacheOK
  <2>4. ~row.cached
    BY <2>1, <2>3 DEF Updated
  <2> HIDE DEF c
  <2> QED BY <2>1, <2>4 DEF Types, TypeOK
<1> QED BY <1>1, <1>2 DEF Next, vars, Tick, RecordResult, Handle, ServeCached, Refuse,
                        Ask, Crash, Proceed, LlmFails, LlmAnswers, SaveFails

LEMMA CacheStep == Types /\ CacheOK /\ [Next]_vars => CacheOK'
<1> SUFFICES ASSUME Types, CacheOK, [Next]_vars PROVE CacheOK'
  OBVIOUS
<1>1. ASSUME NEW t \in Tasks, analysis'[t] # None, analysis'[t].cached
      PROVE  analysis'[t].cause = analysis'[t].advice
  <2>1. CASE analysis[t] # None
    <3>1. analysis'[t] = analysis[t]
      BY <1>1, <2>1, ChangedNotCached
    <3> QED BY <1>1, <3>1 DEF CacheOK, CachedTellsOneResult
  <2>2. CASE analysis[t] = None
    <3>1. ASSUME NEW w \in Workers, NEW s \in Slots, SaveFirst(w, s)
          PROVE  analysis'[t].cause = analysis'[t].advice
      <4> DEFINE c == call[w][s]
      <4>1. PICK n : n = c.of
        OBVIOUS
      <4>2. analysis' = [analysis EXCEPT ![c.task] =
                            [cause |-> n, advice |-> n, cached |-> TRUE]]
        BY <3>1, <4>1 DEF SaveFirst
      <4>3. analysis'[t] = [cause |-> n, advice |-> n, cached |-> TRUE]
        BY <1>1, <2>2, <4>2 DEF Types, TypeOK
      <4> QED BY <4>3
    <3>2. ASSUME NEW w \in Workers, NEW s \in Slots, SaveAgain(w, s)
          PROVE  FALSE
      <4>1. call[w][s].task # t
        BY <2>2, <3>2 DEF SaveAgain, Types, LoadedOK
      <4> QED BY <1>1, <2>2, <3>2, <4>1 DEF SaveAgain, Types, TypeOK
    <3> QED BY <1>1, <2>2, <3>1, <3>2
            DEF Next, vars, Tick, RecordResult, Handle, ServeCached, Refuse,
                Ask, Crash, Proceed, LlmFails, LlmAnswers, SaveFails
  <2> QED BY <2>1, <2>2
<1>2. ASSUME NEW w \in Workers, NEW s \in Slots,
             call'[w][s].phase = "saving", call'[w][s].loaded # None,
             ~call'[w][s].loaded.cached
      PROVE  ~analysis'[call'[w][s].task].cached
  <2>1. CASE call'[w][s] = call[w][s]
    <3>1. PICK t \in Tasks : t = call[w][s].task
      BY <1>2, <2>1 DEF Types, CallsOK
    <3>2. analysis[t] # None /\ ~analysis[t].cached
      BY <1>2, <2>1, <3>1 DEF Types, LoadedOK, CacheOK
    <3> QED BY <2>1, <3>1, <3>2, OutStaysOut
  <2>2. CASE LlmAnswers(w, s)
    BY <1>2, <2>2 DEF LlmAnswers, Types, TypeOK, Call
  <2> QED BY <1>2, <2>1, <2>2, CallSteps
<1> QED BY <1>1, <1>2 DEF CacheOK, CachedTellsOneResult

LEMMA CacheAlwaysOK == Spec => []CacheOK
<1>1. Init => CacheOK
  BY NoCallTyped DEF Init, CacheOK, CachedTellsOneResult
<1>2. Types /\ CacheOK /\ [Next]_vars => CacheOK'
  BY CacheStep
<1> QED BY <1>1, <1>2, TypesAlways, PTL DEF Spec

\* What is served from the cache tells of one result, whichever processes store
\* analyses of the task at the same time, each only the columns that differ from
\* what it had loaded.
THEOREM CachedAlwaysOneResult == Spec => []CachedTellsOneResult
<1>1. CacheOK => CachedTellsOneResult
  BY DEF CacheOK
<1> QED BY <1>1, CacheAlwaysOK, PTL

\* A task that was analysed twice is never again served from the cache: each of
\* its analyses, also those that a client only reads, asks the model.
THEOREM ReplacedNeverCached ==
    ASSUME NEW t \in Tasks
    PROVE  Spec => []((analysis[t] # None /\ ~analysis[t].cached)
                          => []((analysis[t] # None /\ ~analysis[t].cached) /\ ~Cached(t)))
<1> DEFINE Replaced == analysis[t] # None /\ ~analysis[t].cached
<1>1. Types /\ Replaced /\ [Next]_vars => Replaced'
  BY RowsStay, OutStaysOut
<1>2. Replaced => ~Cached(t)
  BY DEF Cached
<1> QED BY <1>1, <1>2, TypesAlways, PTL DEF Spec

(***************************************************************************)
(* Why the quota does not recover.                                         *)
(***************************************************************************)
\* A process whose quota is used up begins no analysis from then on, however
\* much time passes, until it is started again.
SpentStaysSpent ==
    [][\A w \in Workers : ~HasQuota(w) /\ requests'[w] # <<>>
          => ~HasQuota(w)' /\ Asking(w)' \subseteq Asking(w)]_vars

\* The list of requests only grows, and only a restart empties it.
THEOREM QuotaNeverRecovers == Spec => SpentStaysSpent
<1>1. ASSUME Types, Next, NEW w \in Workers, ~HasQuota(w), requests'[w] # <<>>
      PROVE  ~HasQuota(w)' /\ Asking(w)' \subseteq Asking(w)
  <2>0. call \in [Workers -> [Slots -> Call]] /\ requests \in [Workers -> Seq(Nat)]
    BY <1>1 DEF Types, TypeOK
  <2>1. ASSUME NEW v \in Workers, NEW s \in Slots, NEW t \in Tasks, NEW force \in BOOLEAN,
               Ask(v, s, t, force)
        PROVE  requests'[w] = requests[w] /\ Asking(w)' \subseteq Asking(w)
    <3>1. v # w
      BY <1>1, <2>1 DEF Ask
    <3> QED BY <2>0, <2>1, <3>1 DEF Ask, Asking
  <2>2. ASSUME NEW v \in Workers, NEW s \in Slots, Proceed(v, s)
        PROVE  requests'[w] = requests[w] /\ Asking(w)' \subseteq Asking(w)
    <3>1. UNCHANGED requests
      BY <2>2 DEF Proceed, LlmFails, LlmAnswers, SaveFirst, SaveAgain, SaveFails
    <3>2. call[v][s].phase # "idle" /\ (LlmAnswers(v, s) \/ \E what : Ends(v, s, what))
      BY <2>2 DEF Proceed, LlmFails, LlmAnswers, SaveFirst, SaveAgain, SaveFails
    <3>3. \A u \in Workers, r \in Slots : u # v \/ r # s => call'[u][r] = call[u][r]
      BY <2>0, <3>2 DEF LlmAnswers, Ends
    <3>4. Asking(w)' \subseteq Asking(w)
      BY <3>2, <3>3 DEF Asking
    <3> QED BY <3>1, <3>4
  <2>3. ASSUME NEW v \in Workers, Crash(v)
        PROVE  requests'[w] = requests[w] /\ Asking(w)' \subseteq Asking(w)
    <3>1. v # w
      BY <1>1, <2>0, <2>3 DEF Crash
    <3> QED BY <2>0, <2>3, <3>1 DEF Crash, Asking
  <2>4. UNCHANGED <<requests, call>> =>
            requests'[w] = requests[w] /\ Asking(w)' \subseteq Asking(w)
    BY DEF Asking
  <2>5. requests'[w] = requests[w] /\ Asking(w)' \subseteq Asking(w)
    BY <1>1, <2>1, <2>2, <2>3, <2>4 DEF Next, Tick, RecordResult, Handle, ServeCached, Refuse
  <2> QED BY <1>1, <2>5 DEF HasQuota
<1>2. Types /\ [Next]_vars =>
          [\A w \in Workers : ~HasQuota(w) /\ requests'[w] # <<>>
              => ~HasQuota(w)' /\ Asking(w)' \subseteq Asking(w)]_vars
  BY <1>1
<1> QED BY <1>2, TypesAlways, PTL DEF Spec, SpentStaysSpent
=============================================================================
