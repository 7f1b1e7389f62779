-------------------------- MODULE AnalysisPipeline ---------------------------
(***************************************************************************)
(* The analysis pipeline of one symbol, as run_analysis, run_specialist    *)
(* and synthesize_from_cache execute it:                                   *)
(*                                                                         *)
(*   - a worker per analysis: a deep dive visits every specialist and      *)
(*     reuses fresh rows; a quick refresh re-runs the specialists in its   *)
(*     event's scope and skips the others; POST /synthesize visits none.   *)
(*     Then it reads all rows at once, refuses if one is unusable, argues  *)
(*     bull, bear and final risk from what it read, synthesizes, and       *)
(*     writes the analysis and a copy of what it read in one transaction;  *)
(*   - callers of POST /stocks/{symbol}/specialists/{name}, that run one   *)
(*     specialist beside the workers;                                      *)
(*   - time, that ages rows, and crashes, that lose every coroutine.       *)
(*                                                                         *)
(* A step is the code between two awaits, or one database transaction of   *)
(* it: workers of other API replicas share the tables, so that anything    *)
(* may happen between the time a run is stamped with and its commit.       *)
(***************************************************************************)
EXTENDS SpecialistCache

CONSTANTS
    Analyses,    \* analysis ids, each with the worker that computes it
    Events,      \* the event types with a scope
    Scope,       \* Scope[e]: the specialists a refresh for e re-runs
    Callers,     \* concurrent callers of the single-specialist endpoint
    MaxTime,     \* bound: the clock stops here
    MaxCrashes   \* bound: the process restarts at most this often

ASSUME ScopeAssumption == Scope \in [Events -> SUBSET Specialists]

ASSUME KindAssumption == {"deep_dive", "synthesize"} \cap Events = {}

ASSUME WritersAssumption == Analyses \cap Callers = {}

ASSUME BoundsAssumption == MaxTime \in Nat /\ MaxCrashes \in Nat

VARIABLES
    now,       \* the clock
    cache,     \* cache[s]: the specialist_cache row of s
    status,    \* status[a]: the status column of a's analyses row
    evidence,  \* evidence[a]: the cache rows the outputs stored with a come from
    pc,        \* pc[a]: where a's worker is
    kind,      \* kind[a]: deep dive, synthesis only, or the event to refresh for
    next,      \* next[a]: index of the specialist the worker visits next
    started,   \* started[a]: when the request was accepted
    priors,    \* priors[a]: the rows the worker read for its synthesis
    readAt,    \* readAt[a]: when it read them
    refusal,   \* refusal[a]: the specialists MissingSpecialists reported missing
    calling,   \* calling[c]: the specialist caller c is running, or "none"
    unsaved,   \* unsaved[w]: the run a worker or a caller has stamped and not stored
    crashes    \* number of restarts so far

rowVars == <<status, evidence>>
requestVars == <<kind, started>>
readVars == <<priors, readAt>>
workerVars == <<pc, next, refusal, requestVars, readVars>>
vars == <<now, cache, rowVars, workerVars, calling, unsaved, crashes>>

N == Len(CACHEABLE_SPECIALISTS)

Kinds == Events \cup {"deep_dive", "synthesize"}

\* A worker that still has a coroutine; the others never move again.
Live == {"specialists", "running", "storing", "debate", "synthesis"}

Ended == {"done", "blocked", "raised", "lost"}

\* How a run ended, and when.
Runs == [status : RunStatus, at : Nat]

NoRun == [status |-> "missing", at |-> 0]

TypeOK ==
    /\ now \in Nat
    /\ cache \in Rows
    /\ status \in [Analyses -> {"absent", "pending", "succeeded", "failed"}]
    /\ evidence \in [Analyses -> Rows]
    /\ pc \in [Analyses -> {"idle"} \cup Live \cup Ended]
    /\ kind \in [Analyses -> Kinds]
    /\ next \in [Analyses -> 1 .. N + 1]
    /\ started \in [Analyses -> Nat]
    /\ priors \in [Analyses -> Rows]
    /\ readAt \in [Analyses -> Nat]
    /\ refusal \in [Analyses -> SUBSET Specialists]
    /\ calling \in [Callers -> Specialists \cup {"none"}]
    /\ unsaved \in [Analyses \cup Callers -> Runs \cup {NoRun}]
    /\ crashes \in Nat

Init ==
    /\ now = 0
    /\ cache = NoRows
    /\ status = [a \in Analyses |-> "absent"]
    /\ evidence = [a \in Analyses |-> NoRows]
    /\ pc = [a \in Analyses |-> "idle"]
    /\ kind = [a \in Analyses |-> "deep_dive"]
    /\ next = [a \in Analyses |-> 1]
    /\ started = [a \in Analyses |-> 0]
    /\ priors = [a \in Analyses |-> NoRows]
    /\ readAt = [a \in Analyses |-> 0]
    /\ refusal = [a \in Analyses |-> {}]
    /\ calling = [c \in Callers |-> "none"]
    /\ unsaved = [w \in Analyses \cup Callers |-> NoRun]
    /\ crashes = 0

------------------------------------------------------------------------------
(* Requests. *)

\* Mutant: the loop starts at the second specialist.
create_analysis_skips_first(a, k) ==
    /\ pc[a] = "idle"
    /\ k # "synthesize"
    /\ status' = [status EXCEPT ![a] = "pending"]
    /\ pc' = [pc EXCEPT ![a] = "specialists"]
    /\ kind' = [kind EXCEPT ![a] = k]
    /\ started' = [started EXCEPT ![a] = now]
    /\ next' = [next EXCEPT ![a] = 2]
    /\ UNCHANGED <<now, cache, evidence, readVars, refusal, calling, unsaved, crashes>>

\* create_analysis, and the listener for a watchlisted event: a PENDING row,
\* then a background task.  A refresh whose event type has no scope runs as a
\* deep dive does.
create_analysis(a, k) ==
    /\ pc[a] = "idle"
    /\ k # "synthesize"
    /\ status' = [status EXCEPT ![a] = "pending"]
    /\ pc' = [pc EXCEPT ![a] = "specialists"]
    /\ kind' = [kind EXCEPT ![a] = k]
    /\ started' = [started EXCEPT ![a] = now]
    /\ UNCHANGED <<now, cache, evidence, next, readVars, refusal, calling, unsaved, crashes>>

\* POST /synthesize: no row beforehand and no specialist runs.
synthesize(a) ==
    /\ pc[a] = "idle"
    /\ pc' = [pc EXCEPT ![a] = "specialists"]
    /\ kind' = [kind EXCEPT ![a] = "synthesize"]
    /\ next' = [next EXCEPT ![a] = N + 1]
    /\ started' = [started EXCEPT ![a] = now]
    /\ UNCHANGED <<now, cache, rowVars, readVars, refusal, calling, unsaved, crashes>>

------------------------------------------------------------------------------
(* run_analysis: the loop over the specialists. *)

forced(a) == kind[a] \in Events

\* The specialists a worker of this kind must leave a row for.
Visits(k) ==
    IF k \in Events THEN Scope[k] ELSE IF k = "deep_dive" THEN Specialists ELSE {}

Visiting(a, s) ==
    /\ pc[a] = "specialists"
    /\ next[a] \in 1 .. N
    /\ s = CACHEABLE_SPECIALISTS[next[a]]

Advance(a) == next' = [next EXCEPT ![a] = @ + 1]

\* Off-scope in a quick refresh: reuse whatever the cache has.
SkipOffScope(a) ==
    /\ \E s \in Specialists : Visiting(a, s) /\ forced(a) /\ s \notin Scope[kind[a]]
    /\ Advance(a)
    /\ UNCHANGED <<now, cache, rowVars, pc, requestVars, readVars, refusal, calling, unsaved, crashes>>

\* Mutant: a forced run is answered from the cache too.
CacheHit_despite_force(a) ==
    /\ \E s \in Specialists : Visiting(a, s) /\ is_fresh(s, cache[s], now)
    /\ Advance(a)
    /\ UNCHANGED <<now, cache, rowVars, pc, requestVars, readVars, refusal, calling, unsaved, crashes>>

\* Mutant: the loop stays at a specialist whose row is fresh.
CacheHit_without_advance(a) ==
    /\ \E s \in Specialists :
          Visiting(a, s) /\ ~ forced(a) /\ is_fresh(s, cache[s], now)
    /\ UNCHANGED vars

\* run_specialist, fast path: a fresh row is returned as it is.
CacheHit(a) ==
    /\ \E s \in Specialists :
          Visiting(a, s) /\ ~ forced(a) /\ is_fresh(s, cache[s], now)
    /\ Advance(a)
    /\ UNCHANGED <<now, cache, rowVars, pc, requestVars, readVars, refusal, calling, unsaved, crashes>>

\* run_specialist: miss, stale or forced; the coroutine awaits spec.run.
StartRun(a) ==
    /\ \E s \in Specialists :
          /\ Visiting(a, s)
          /\ IF forced(a) THEN s \in Scope[kind[a]] ELSE ~ is_fresh(s, cache[s], now)
    /\ pc' = [pc EXCEPT ![a] = "running"]
    /\ UNCHANGED <<now, cache, rowVars, next, requestVars, readVars, refusal, calling, unsaved, crashes>>

\* Mutant: a run that raised leaves no row.
FinishRun_drops_errors(a, st) ==
    /\ pc[a] = "running"
    /\ IF st = "error"
       THEN pc' = [pc EXCEPT ![a] = "specialists"] /\ Advance(a) /\ UNCHANGED unsaved
       ELSE /\ pc' = [pc EXCEPT ![a] = "storing"]
            /\ unsaved' = [unsaved EXCEPT ![a] = [status |-> st, at |-> now]]
            /\ UNCHANGED next
    /\ UNCHANGED <<now, cache, rowVars, requestVars, readVars, refusal, calling, crashes>>

\* spec.run returned with a status, or raised, which makes the status "error": either
\* way run_specialist takes the time of completion for the row.
FinishRun(a, st) ==
    /\ pc[a] = "running"
    /\ pc' = [pc EXCEPT ![a] = "storing"]
    /\ unsaved' = [unsaved EXCEPT ![a] = [status |-> st, at |-> now]]
    /\ UNCHANGED <<now, cache, rowVars, next, requestVars, readVars, refusal, calling, crashes>>

\* _upsert_cache commits: the row is overwritten, whatever was written since.
StoreRun(a) ==
    /\ pc[a] = "storing"
    /\ cache' = upsert_cache(cache, CACHEABLE_SPECIALISTS[next[a]], unsaved[a], now)
    /\ unsaved' = [unsaved EXCEPT ![a] = NoRun]
    /\ pc' = [pc EXCEPT ![a] = "specialists"]
    /\ Advance(a)
    /\ UNCHANGED <<now, rowVars, requestVars, readVars, refusal, calling, crashes>>

------------------------------------------------------------------------------
(* synthesize_from_cache. *)

VisitedAll(a) == pc[a] = "specialists" /\ next[a] = N + 1

\* _load_priors_from_cache found every row fresh: the worker keeps its copy.
ReadPriors(a) ==
    /\ VisitedAll(a)
    /\ Usable(cache, now)
    /\ priors' = [priors EXCEPT ![a] = cache]
    /\ readAt' = [readAt EXCEPT ![a] = now]
    /\ pc' = [pc EXCEPT ![a] = "debate"]
    /\ UNCHANGED <<now, cache, rowVars, next, requestVars, refusal, calling, unsaved, crashes>>

\* MissingSpecialists: run_analysis returns "blocked", the endpoint answers 400.
\* Nothing is written, so a row created beforehand stays PENDING.
Blocked(a) ==
    /\ VisitedAll(a)
    /\ ~ Usable(cache, now)
    /\ refusal' = [refusal EXCEPT ![a] = missing(cache)]
    /\ pc' = [pc EXCEPT ![a] = "blocked"]
    /\ UNCHANGED <<now, cache, rowVars, next, requestVars, readVars, calling, unsaved, crashes>>

\* _run_with_priors, three times: bull, bear and the final risk pass are awaited
\* in turn on the worker's copy.  They read and write no table, and one that fails
\* contributes nothing and the run goes on, so one step stands for the three.
Debate(a) ==
    /\ pc[a] = "debate"
    /\ pc' = [pc EXCEPT ![a] = "synthesis"]
    /\ UNCHANGED <<now, cache, rowVars, next, requestVars, readVars, refusal, calling, unsaved, crashes>>

\* Mutant: the status of the synthesis is stored as it is.
AnalysisStatus_raw == [ok |-> "succeeded", synthesis_invalid |-> "synthesis_invalid"]

AnalysisStatus == [ok |-> "succeeded", synthesis_invalid |-> "failed"]

\* Mutant: the rows are read again when the analysis is written.
Publish_rereads_cache(a, outcome) ==
    /\ pc[a] = "synthesis"
    /\ status' = [status EXCEPT ![a] = AnalysisStatus[outcome]]
    /\ evidence' = [evidence EXCEPT ![a] = cache]
    /\ pc' = [pc EXCEPT ![a] = "done"]
    /\ UNCHANGED <<now, cache, next, requestVars, readVars, refusal, calling, unsaved, crashes>>

\* run_synthesis returned: valid output, or the placeholder after the last
\* attempt.  _persist_analysis writes the analysis and its outputs in one
\* transaction, inserting the analysis if it has no row: a copy of each row read,
\* except that a final risk pass that succeeded, argued from the same rows, takes
\* the place of risk's copy.
Publish(a, outcome) ==
    /\ pc[a] = "synthesis"
    /\ status' = [status EXCEPT ![a] = AnalysisStatus[outcome]]
    /\ evidence' = [evidence EXCEPT ![a] = priors[a]]
    /\ pc' = [pc EXCEPT ![a] = "done"]
    /\ UNCHANGED <<now, cache, next, requestVars, readVars, refusal, calling, unsaved, crashes>>

\* An exception the pipeline does not handle, from the database at any step or from
\* the synthesis model, reaches _run_and_log_errors, which logs it, or the endpoint.
\* Nothing is written.
Raises(a) ==
    /\ pc[a] \in Live
    /\ pc' = [pc EXCEPT ![a] = "raised"]
    /\ unsaved' = [unsaved EXCEPT ![a] = NoRun]
    /\ UNCHANGED <<now, cache, rowVars, next, requestVars, readVars, refusal, calling, crashes>>

------------------------------------------------------------------------------
(* Other callers, time and crashes. *)

\* run_one_specialist; a call answered from the cache changes nothing.
StartCall(c, s, force) ==
    /\ calling[c] = "none"
    /\ force \/ ~ is_fresh(s, cache[s], now)
    /\ calling' = [calling EXCEPT ![c] = s]
    /\ UNCHANGED <<now, cache, rowVars, workerVars, unsaved, crashes>>

FinishCall(c, st) ==
    /\ calling[c] # "none" /\ unsaved[c] = NoRun
    /\ unsaved' = [unsaved EXCEPT ![c] = [status |-> st, at |-> now]]
    /\ UNCHANGED <<now, cache, rowVars, workerVars, calling, crashes>>

StoreCall(c) ==
    /\ unsaved[c] # NoRun
    /\ cache' = upsert_cache(cache, calling[c], unsaved[c], now)
    /\ unsaved' = [unsaved EXCEPT ![c] = NoRun]
    /\ calling' = [calling EXCEPT ![c] = "none"]
    /\ UNCHANGED <<now, rowVars, workerVars, crashes>>

\* The database raises in run_specialist, and the endpoint answers 500.
CallRaises(c) ==
    /\ calling[c] # "none"
    /\ unsaved' = [unsaved EXCEPT ![c] = NoRun]
    /\ calling' = [calling EXCEPT ![c] = "none"]
    /\ UNCHANGED <<now, cache, rowVars, workerVars, crashes>>

Tick ==
    /\ now < MaxTime
    /\ now' = now + 1
    /\ UNCHANGED <<cache, rowVars, workerVars, calling, unsaved, crashes>>

\* A restart of one API process, or the cancellation of its ANALYSES_TASKS at
\* shutdown, loses its coroutines; no start-up step looks for PENDING rows.
Crash(workers, callers) ==
    /\ crashes < MaxCrashes
    /\ crashes' = crashes + 1
    /\ pc' = [a \in Analyses |-> IF a \in workers /\ pc[a] \in Live THEN "lost" ELSE pc[a]]
    /\ calling' = [c \in Callers |-> IF c \in callers THEN "none" ELSE calling[c]]
    /\ unsaved' = [w \in Analyses \cup Callers |->
                      IF w \in workers \cup callers THEN NoRun ELSE unsaved[w]]
    /\ UNCHANGED <<now, cache, rowVars, next, requestVars, readVars, refusal>>

------------------------------------------------------------------------------

WorkerStep(a) ==
    \/ SkipOffScope(a)
    \/ CacheHit(a)
    \/ StartRun(a)
    \/ \E st \in RunStatus : FinishRun(a, st)
    \/ StoreRun(a)
    \/ ReadPriors(a)
    \/ Blocked(a)
    \/ Debate(a)
    \/ \E outcome \in DOMAIN AnalysisStatus : Publish(a, outcome)

Next ==
    \/ \E a \in Analyses :
          \/ \E k \in Kinds : create_analysis(a, k)
          \/ synthesize(a)
          \/ WorkerStep(a)
          \/ Raises(a)
    \/ \E c \in Callers :
          \/ \E s \in Specialists, force \in BOOLEAN : StartCall(c, s, force)
          \/ \E st \in RunStatus : FinishCall(c, st)
          \/ StoreCall(c)
          \/ CallRaises(c)
    \/ Tick
    \/ \E workers \in SUBSET Analyses, callers \in SUBSET Callers : Crash(workers, callers)

\* The event loop runs every coroutine that can move, and a model call ends: the
\* client times it out.  Nothing obliges a user, the clock, an exception or a crash.
Fairness == \A a \in Analyses : WF_vars(WorkerStep(a))

Spec == Init /\ [][Next]_vars

FairSpec == Spec /\ Fairness

------------------------------------------------------------------------------
(* What the pipeline implements. *)

Promise == INSTANCE Publication WITH chosen <- priors

\* The pipeline keeps the promise of Publication: whatever the workers, callers
\* and crashes do, a verdict is written at most once, never changes, and carries
\* one snapshot of usable rows that was fixed before it was argued over.
KeepsPromise == Promise!Spec

------------------------------------------------------------------------------
(* Safety. *)

Published(a) == status[a] \in {"succeeded", "failed"}

\* Synthesis must refuse rows that are missing, failed or past their TTL
\* (cache_policy.is_fresh), and nothing that happens between the read and the
\* write may change what is published: every published row was an ok row, within
\* its TTL at the instant the worker read it.
EvidenceWasUsable ==
    \A a \in Analyses : Published(a) =>
        \A s \in Specialists : is_fresh(s, evidence[a][s], readAt[a])

\* A quick refresh answers an event: for the specialists in the event's scope it
\* never publishes a row that was already there when the refresh was requested,
\* whoever else wrote to the cache meanwhile.  (What it publishes may have been
\* computed before: a slower run that is stored last.)
RefreshEvidenceIsNew ==
    \A a \in Analyses : Published(a) /\ kind[a] \in Events =>
        \A s \in Scope[kind[a]] : evidence[a][s].written >= started[a]

\* A blocked worker reports as missing only specialists it was not asked to run:
\* each run leaves a row even when it fails, and no row is ever deleted.  So a
\* blocked deep dive reports stale rows only.
RefusalSparesVisited ==
    \A a \in Analyses : refusal[a] \cap Visits(kind[a]) = {}

------------------------------------------------------------------------------
(* Liveness. *)

\* A request does not stay PENDING without a cause a reader of the log can name:
\* either it gets a verdict or its worker was blocked, raised or was lost.
PendingIsSettled ==
    \A a \in Analyses :
        status[a] = "pending" ~> (status[a] \in {"succeeded", "failed"} \/ pc[a] \in Ended)

\* Nothing goes wrong: no run failed, no row expired, no worker raised, no
\* process restarted.
Healthy ==
    /\ crashes = 0
    /\ \A a \in Analyses : pc[a] # "raised"
    /\ \A s \in Specialists :
          cache[s].status # "missing" => is_fresh(s, cache[s], now)

\* While nothing goes wrong, every deep dive reaches a verdict: concurrent runs
\* and refreshes cannot block it.
HealthyDiveDecides ==
    []Healthy => \A a \in Analyses :
        (status[a] = "pending" /\ kind[a] = "deep_dive")
            ~> status[a] \in {"succeeded", "failed"}

------------------------------------------------------------------------------
(* What the code says of the rows it persists. *)

\* _persist_analysis copies its priors with the comment "which we know is fresh
\* by the time we get here".  Four models are awaited after the freshness check.
PublishesFreshRows ==
    [][\A a \in Analyses :
          pc[a] = "synthesis" /\ pc'[a] = "done" =>
              \A s \in Specialists : is_fresh(s, priors[a][s], now)]_vars

==============================================================================
