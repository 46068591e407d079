------------------------------- MODULE Analyses ------------------------------
(***************************************************************************)
(* ai/rca_service.py: root cause analyses of tasks.  analyze_task looks    *)
(* for a cached analysis, takes one request from the process's quota,      *)
(* reads the task, awaits the language model and stores what it answers.   *)
(* Up to the await and after it a process runs a call whole; at the await  *)
(* it takes other calls, and processes interleave at every commit.         *)
(***************************************************************************)
EXTENDS Naturals, Sequences, FiniteSets

CONSTANTS
    Workers,       \* server processes
    Slots,         \* bound: the analyses a process has under way at once
    Tasks,         \* tasks that have a row in task_queue
    None,
    Limit,         \* Settings.max_rca_per_hour; 0 for no limit
    Hour,          \* the length of an hour in ticks of the clock
    CacheEnabled,  \* Settings.enable_rca_cache
    MaxTime,       \* bound on the clock
    MaxResults     \* bound on the results recorded for a task

ASSUME SlotsAssumption == IsFiniteSet(Slots)
ASSUME LimitAssumption == Limit \in Nat
ASSUME CacheAssumption == CacheEnabled \in BOOLEAN
ASSUME NoneAssumption == None \notin Tasks \cup [cause : Nat, advice : Nat, cached : BOOLEAN]

VARIABLES
    now,       \* the clock
    result,    \* how many results each task has recorded
    analysis,  \* table task_rca: task_id is unique
    requests,  \* _rate_limit_cache["rca_requests"] of each process
    call,      \* the calls of analyze_task in each process
    answer     \* what each process last answered

vars == <<now, result, analysis, requests, call, answer>>
-----------------------------------------------------------------------------
\* Two of the columns that the model's answer fills, each with the result of the
\* task whose analysis says what it holds; `cached` is the column cache_hit.  Both
\* writers leave expires_at null, so that no row ever expires.
Analysis == [cause : Nat, advice : Nat, cached : BOOLEAN]

Call == [phase : {"idle", "asking", "saving"}, task : Tasks \cup {None}, of : Nat,
         loaded : Analysis \cup {None}]

NoCall == [phase |-> "idle", task |-> None, of |-> 0, loaded |-> None]

Answers == {"none", "cached", "fresh", "refused", "failed"}

TypeOK ==
    /\ now \in Nat
    /\ result \in [Tasks -> Nat]
    /\ analysis \in [Tasks -> Analysis \cup {None}]
    /\ requests \in [Workers -> Seq(Nat)]
    /\ call \in [Workers -> [Slots -> Call]]
    /\ answer \in [Workers -> Answers]

Init ==
    /\ now = 0
    /\ result = [t \in Tasks |-> 0]
    /\ analysis = [t \in Tasks |-> None]
    /\ requests = [w \in Workers |-> <<>>]
    /\ call = [w \in Workers |-> [s \in Slots |-> NoCall]]
    /\ answer = [w \in Workers |-> "none"]
-----------------------------------------------------------------------------
\* Mutants: one request too many; a failing model is asked again for as long as it
\* fails; an error answer without a name.
HasQuotaOneMore(w) == Limit = 0 \/ Len(requests[w]) <= Limit

\* The event loop is not inside the synchronous part of another call.
Free(w) == \A s \in Slots : call[w][s].phase # "saving"

Says(w, what) == answer' = [answer EXCEPT ![w] = what]

Ends(w, s, what) ==
    /\ call' = [call EXCEPT ![w][s] = NoCall]
    /\ Says(w, what)

\* _get_cached_result.
Cached(t) == CacheEnabled /\ analysis[t] # None /\ analysis[t].cached

\* check_rate_limit counts every request since the process started; the list of
\* recent ones is only put into the message.
HasQuota(w) == Limit = 0 \/ Len(requests[w]) < Limit

\* GET /tasks/{id}/rca: force = FALSE; POST: as asked; after a failure: TRUE.
ServeCached(w, t) ==
    /\ Free(w)
    /\ Cached(t)
    /\ Says(w, "cached")
    /\ UNCHANGED <<now, result, analysis, requests, call>>

Refuse(w, t, force) ==
    /\ Free(w)
    /\ force \/ ~Cached(t)
    /\ ~HasQuota(w)
    /\ Says(w, "refused")
    /\ UNCHANGED <<now, result, analysis, requests, call>>

Ask(w, s, t, force) ==
    /\ Free(w) /\ call[w][s].phase = "idle"
    /\ force \/ ~Cached(t)
    /\ HasQuota(w)
    /\ requests' = IF Limit = 0 THEN requests
                   ELSE [requests EXCEPT ![w] = Append(@, now)]
    /\ call' = [call EXCEPT ![w][s] = [phase |-> "asking", task |-> t, of |-> result[t],
                                      loaded |-> None]]
    /\ UNCHANGED <<now, result, analysis, answer>>

LlmFailsForever(w, s) ==
    /\ Free(w) /\ call[w][s].phase = "asking"
    /\ Says(w, "failed")
    /\ UNCHANGED <<now, result, analysis, requests, call>>
LlmFailsUnnamed(w, s) ==
    /\ Free(w) /\ call[w][s].phase = "asking"
    /\ Ends(w, s, "error")
    /\ UNCHANGED <<now, result, analysis, requests>>

\* The model answers with an error or with no JSON, or not within 30 seconds.
LlmFails(w, s) ==
    /\ Free(w) /\ call[w][s].phase = "asking"
    /\ Ends(w, s, "failed")
    /\ UNCHANGED <<now, result, analysis, requests>>

\* The model answers; _save_result looks for the task's row.
LlmAnswers(w, s) ==
    /\ Free(w) /\ call[w][s].phase = "asking"
    /\ call' = [call EXCEPT ![w][s].phase = "saving",
                            ![w][s].loaded = analysis[call[w][s].task]]
    /\ UNCHANGED <<now, result, analysis, requests, answer>>

\* A column after the UPDATE of an answer about result `of`.  Where the answer
\* repeats what was loaded it is not written: what another process has put there
\* since stays.
Column(current, loaded, of) == {of} \cup (IF current # loaded THEN {current} ELSE {})

\* Mutant: cache_hit is not reset.
UpdatedUnreset(row, c) ==
    [cause : Column(row.cause, c.loaded.cause, c.of),
     advice : Column(row.advice, c.loaded.advice, c.of),
     cached : {row.cached}]

\* The row after an UPDATE of the columns in which the answer, and cache_hit = False,
\* differ from the row as loaded.
Updated(row, c) ==
    [cause : Column(row.cause, c.loaded.cause, c.of),
     advice : Column(row.advice, c.loaded.advice, c.of),
     cached : {row.cached /\ ~c.loaded.cached}]

SaveFirst(w, s) ==
    LET c == call[w][s] IN
    /\ c.phase = "saving" /\ c.loaded = None
    /\ analysis[c.task] = None
    /\ analysis' = [analysis EXCEPT ![c.task] =
                                 [cause |-> c.of, advice |-> c.of, cached |-> TRUE]]
    /\ Ends(w, s, "fresh")
    /\ UNCHANGED <<now, result, requests>>

SaveAgain(w, s) ==
    LET c == call[w][s] IN
    /\ c.phase = "saving" /\ c.loaded # None
    /\ \E row \in Updated(analysis[c.task], c) : analysis' = [analysis EXCEPT ![c.task] = row]
    /\ Ends(w, s, "fresh")
    /\ UNCHANGED <<now, result, requests>>

\* The commit raises; it must when another process has inserted the row.
SaveFails(w, s) ==
    /\ call[w][s].phase = "saving"
    /\ Ends(w, s, "failed")
    /\ UNCHANGED <<now, result, analysis, requests>>
-----------------------------------------------------------------------------
\* TaskQueueManager.record_result, which the analysis of an earlier result ignores.
RecordResult(t) ==
    /\ result[t] < MaxResults
    /\ result' = [result EXCEPT ![t] = @ + 1]
    /\ UNCHANGED <<now, analysis, requests, call, answer>>

Tick ==
    /\ now < MaxTime
    /\ now' = now + 1
    /\ UNCHANGED <<result, analysis, requests, call, answer>>

\* A process dies and is started again: its calls and its quota are gone.
Crash(w) ==
    /\ requests' = [requests EXCEPT ![w] = <<>>]
    /\ call' = [call EXCEPT ![w] = [s \in Slots |-> NoCall]]
    /\ Says(w, "none")
    /\ UNCHANGED <<now, result, analysis>>

Handle(w) ==
    \/ \E t \in Tasks : ServeCached(w, t)
    \/ \E t \in Tasks, force \in BOOLEAN : Refuse(w, t, force)
    \/ \E s \in Slots, t \in Tasks, force \in BOOLEAN : Ask(w, s, t, force)

Proceed(w, s) ==
    \/ LlmFails(w, s) \/ LlmAnswers(w, s)
    \/ SaveFirst(w, s) \/ SaveAgain(w, s) \/ SaveFails(w, s)

Next ==
    \/ Tick
    \/ \E t \in Tasks : RecordResult(t)
    \/ \E w \in Workers : Handle(w) \/ Crash(w) \/ \E s \in Slots : Proceed(w, s)

Spec == Init /\ [][Next]_vars

\* Nothing makes the model answer, but the client gives up after 30 seconds, and
\* the loop comes to the timer however many other calls it has; a commit returns.
Fairness ==
    \A w \in Workers, s \in Slots :
        /\ SF_vars(LlmFails(w, s))
        /\ WF_vars(SaveFirst(w, s) \/ SaveAgain(w, s) \/ SaveFails(w, s))

FairSpec == Spec /\ Fairness
-----------------------------------------------------------------------------
Asking(w) == {s \in Slots : call[w][s].phase # "idle"}

\* The quota is taken before the await, so however many calls overlap at the
\* model, a process never has more analyses under way than max_rca_per_hour.
CallsBounded ==
    Limit > 0 => \A w \in Workers : Cardinality(Asking(w)) <= Limit

\* What is served from the cache is one analysis of one result.  Processes that have
\* loaded the same row and store the answers to different results may leave a mix
\* of their columns, since each writes only what differs from what it loaded; but
\* such a row is out of the cache, for good.
CachedTellsOneResult ==
    \A t \in Tasks : analysis[t] # None /\ analysis[t].cached =>
        analysis[t].cause = analysis[t].advice

\* A call that waits for the model ends, also when no answer comes.
AnalysisEnds ==
    \A w \in Workers, s \in Slots :
        call[w][s].phase = "asking" ~> call[w][s].phase = "idle"

\* docs/rca-system/API.md, "Rate Limiting": 100 analyses per hour.  A process
\* refuses an analysis only if it has begun so many in the last hour.
Recent(w) == {i \in DOMAIN requests[w] : requests[w][i] + Hour > now}

RefusedOnlyAtLimit ==
    [][\A w \in Workers : answer'[w] = "refused" /\ answer[w] # "refused"
                              => Cardinality(Recent(w)) >= Limit]_vars
=============================================================================
