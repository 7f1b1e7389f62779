--------------------------- MODULE CircuitBreaker ----------------------------
(***************************************************************************)
(* The circuit breaker every client of one data provider shares, and the   *)
(* requests that run under it.  A request is admitted or refused on the    *)
(* spot; an admitted one is awaited, with its retries, and reports to the  *)
(* breaker when it ends, when the breaker may be in another state.         *)
(*                                                                         *)
(* The breaker only ever compares the time since it opened with its        *)
(* cooldown and its failures with its threshold, so both are counted up to *)
(* the limit they are compared with and no clock is needed.                *)
(***************************************************************************)
EXTENDS Integers, FiniteSets

CONSTANTS
    Requests,           \* concurrent calls of BaseHttpClient.request
    failure_threshold,
    cooldown_s,
    max_attempts,       \* attempts a request makes before it gives up
    MaxCancels          \* bound: requests cancelled by their task

ASSUME ThresholdAssumption == failure_threshold \in Nat \ {0}

ASSUME CooldownAssumption == cooldown_s \in Nat \ {0}

ASSUME AttemptsAssumption == max_attempts \in Nat \ {0}

ASSUME CancelAssumption == MaxCancels \in Nat

VARIABLES
    state,      \* _state
    failures,   \* _consecutive_failures, counted up to the threshold
    cooling,    \* time since _opened_at, counted up to the cooldown
    attempt,    \* attempt[r]: the attempt r is awaiting; 0 if r is not running
    trials,     \* running requests that were admitted half-open
    since,      \* running requests admitted after _opened_at was last set
    up,         \* whether the provider answers
    cancels     \* number of cancellations so far

vars == <<state, failures, cooling, attempt, trials, since, up, cancels>>

inFlight == {r \in Requests : attempt[r] > 0}

TypeOK ==
    /\ state \in {"closed", "open", "half_open"}
    /\ failures \in 0 .. failure_threshold
    /\ cooling \in 0 .. cooldown_s
    /\ attempt \in [Requests -> 0 .. max_attempts]
    /\ trials \subseteq Requests
    /\ since \subseteq Requests
    /\ up \in BOOLEAN
    /\ cancels \in Nat

Init ==
    /\ state = "closed"
    /\ failures = 0
    /\ cooling = cooldown_s
    /\ attempt = [r \in Requests |-> 0]
    /\ trials = {}
    /\ since = {}
    /\ up = TRUE
    /\ cancels = 0

------------------------------------------------------------------------------

\* Mutant: the breaker half-opens without waiting for the cooldown.
observed_at_once == IF state = "open" THEN "half_open" ELSE state

\* Reading the state property turns OPEN into HALF_OPEN after the cooldown.
observed == IF state = "open" /\ cooling = cooldown_s THEN "half_open" ELSE state

\* Mutant: the state read is not stored.
Admit_without_transition(r) ==
    /\ r \notin inFlight
    /\ observed # "open"
    /\ attempt' = [attempt EXCEPT ![r] = 1]
    /\ trials' = IF observed = "half_open" THEN trials \cup {r} ELSE trials
    /\ since' = since \cup {r}
    /\ UNCHANGED <<state, failures, cooling, up, cancels>>

\* call: the state is read, and unless it is OPEN the request is awaited.
Admit(r) ==
    /\ r \notin inFlight
    /\ observed # "open"
    /\ state' = observed
    /\ attempt' = [attempt EXCEPT ![r] = 1]
    /\ trials' = IF observed = "half_open" THEN trials \cup {r} ELSE trials
    /\ since' = since \cup {r}
    /\ UNCHANGED <<failures, cooling, up, cancels>>

\* snapshot, for /admin/circuit-breakers, reads the state property too.
snapshot ==
    /\ state' = observed
    /\ UNCHANGED <<failures, cooling, attempt, trials, since, up, cancels>>

\* r leaves; a request that opens the breaker leaves every other one behind it.
Leave(r) ==
    /\ attempt' = [attempt EXCEPT ![r] = 0]
    /\ trials' = trials \ {r}

\* Mutant: the count is left as it is.
record_success_keeps_count ==
    /\ state' = "closed"
    /\ UNCHANGED <<failures, cooling>>

\* Mutant: a success closes no breaker.
record_success_when_closed ==
    /\ state' = state
    /\ failures' = 0
    /\ UNCHANGED cooling

record_success ==
    /\ state' = "closed"
    /\ failures' = 0
    /\ UNCHANGED cooling

\* An answer that is not retried, 4xx included, is a success to the breaker.
Answer(r) ==
    /\ r \in inFlight
    /\ up
    /\ Leave(r)
    /\ since' = since \ {r}
    /\ record_success
    /\ UNCHANGED <<up, cancels>>

\* Mutant: the attempts are not limited.
Retry_without_limit(r) ==
    /\ r \in inFlight
    /\ ~ up
    /\ attempt' = [attempt EXCEPT ![r] = @ + 1]
    /\ UNCHANGED <<state, failures, cooling, trials, since, up, cancels>>

\* A transport error, 429 or 5xx is retried while attempts are left.
Retry(r) ==
    /\ r \in inFlight
    /\ ~ up
    /\ attempt[r] < max_attempts
    /\ attempt' = [attempt EXCEPT ![r] = @ + 1]
    /\ UNCHANGED <<state, failures, cooling, trials, since, up, cancels>>

\* _open is called by every failure that finds the breaker half-open or the count
\* at the threshold, so also by one that comes when the breaker is open already:
\* each call sets _opened_at again.
opens == state = "half_open" \/ failures + 1 >= failure_threshold

record_failure ==
    /\ failures' = IF failures < failure_threshold THEN failures + 1 ELSE failures
    /\ state' = IF opens THEN "open" ELSE state
    /\ cooling' = IF opens THEN 0 ELSE cooling

\* The last attempt failed, or one failed in a way that is not retried.
Fail(r) ==
    /\ r \in inFlight
    /\ ~ up
    /\ Leave(r)
    /\ since' = IF opens THEN {} ELSE since \ {r}
    /\ record_failure
    /\ UNCHANGED <<up, cancels>>

\* CancelledError is no Exception: the breaker hears nothing of it.
Cancel(r) ==
    /\ r \in inFlight
    /\ cancels < MaxCancels
    /\ cancels' = cancels + 1
    /\ Leave(r)
    /\ since' = since \ {r}
    /\ UNCHANGED <<state, failures, cooling, up>>

------------------------------------------------------------------------------
(* The provider and time. *)

Outage ==
    /\ up' = ~ up
    /\ UNCHANGED <<state, failures, cooling, attempt, trials, since, cancels>>

Tick ==
    /\ cooling < cooldown_s
    /\ cooling' = cooling + 1
    /\ UNCHANGED <<state, failures, attempt, trials, since, up, cancels>>

Next ==
    \/ \E r \in Requests :
          Admit(r) \/ Answer(r) \/ Retry(r) \/ Fail(r) \/ Cancel(r)
    \/ snapshot
    \/ Outage
    \/ Tick

\* An attempt ends, by an answer or by the client's timeout, and time passes.
Fairness ==
    /\ \A r \in Requests : WF_vars(Answer(r) \/ Retry(r) \/ Fail(r))
    /\ WF_vars(Tick)

Spec == Init /\ [][Next]_vars

FairSpec == Spec /\ Fairness

------------------------------------------------------------------------------
(* Safety. *)

\* Short-circuiting: every request still running while the breaker is open was
\* admitted before _opened_at was last set, so what reaches a provider held to be
\* down is the retries of requests already under way and nothing else.
OpenAdmitsNobody == state = "open" => inFlight \cap since = {}

\* The breaker is never closed with a full count of failures, in whatever order
\* overlapping requests report: one more failure would otherwise open a breaker
\* that a success has just closed.
ClosedBelowThreshold == state = "closed" => failures < failure_threshold

\* Once the threshold is reached, and until a success is reported, a request is
\* admitted only when a full cooldown has passed since the breaker last opened,
\* the first trial and every other one alike.
CooldownRespected ==
    [][inFlight' \subseteq inFlight \/ failures < failure_threshold \/ cooling = cooldown_s]_vars

------------------------------------------------------------------------------
(* Liveness. *)

\* Requests come again and again, whenever the breaker does not refuse them.
RequestsKeepComing == []<>(inFlight # {} \/ (state = "open" /\ cooling < cooldown_s))

\* "When the provider recovers the breaker auto half-opens after 60s and closes on
\* the first success" (RUNBOOK): no order of late reports keeps it open for good.
ProviderRecovery == <>[]up /\ RequestsKeepComing => <>[](state = "closed")

------------------------------------------------------------------------------
(* What the code says of itself. *)

\* "Half-opens (one trial)", "then probe once" (the module's and the class's
\* docstrings): of the running requests at most one was admitted half-open.
OneTrial == Cardinality(trials) <= 1

==============================================================================
