--------------------------- MODULE AnalysisRoutes ---------------------------
(***************************************************************************)
(* The analyses table seen from the API routes: requests that create an    *)
(* analysis under an idempotency key and the daily spend cap, background   *)
(* tasks that publish it, readers of the stream endpoint that each run the *)
(* whole LangGraph fan-out again under the same id, and the user's         *)
(* recorded decision.                                                      *)
(*                                                                         *)
(* What a background task does before it publishes is AnalysisPipeline;    *)
(* here it is its last transaction.  The specialists' outputs are left     *)
(* out: no step depends on them, and a verdict and its output rows are one *)
(* transaction in both writers.                                            *)
(* Two API processes may serve requests (a deployment replaces one task by *)
(* another), so two transactions of one handler are two actions.           *)
(***************************************************************************)
EXTENDS Integers, FiniteSets, FiniteSetsExt

CONSTANTS
    Analyses,       \* the ids requests may create
    Streams,        \* readers of the stream endpoint
    PRELIMINARY,    \* the specialists of the fan-out
    MaxNodeCost,    \* the most one specialist node spends
    MaxSynthCost,   \* the most one synthesis spends
    HardCap,        \* Budget.hard_cap_usd
    DailyCap,       \* FII_DAILY_SPEND_CAP_USD
    Midnight,       \* the minute at which the second day begins
    MaxMinute       \* bound: the last minute of the run

RESEARCHERS == {"bull", "bear"}

ASSUME RoutesAssumption ==
    /\ IsFiniteSet(PRELIMINARY)
    /\ PRELIMINARY \cap {"bull", "bear", "risk"} = {}
    /\ Cardinality(PRELIMINARY) >= 2
    /\ {MaxNodeCost, MaxSynthCost, Midnight, MaxMinute} \subseteq Nat
    /\ {HardCap, DailyCap} \subseteq Nat \ {0}

VARIABLES
    minute,   \* the clock, in minutes
    req,      \* req[a]: how far the request that would create a has come, and its answer
    row,      \* row[a]: the analyses row of a
    task,     \* task[a]: the background task of a
    thread,   \* thread[a]: the running cost in a's checkpoint thread
    opened,   \* opened[a]: how many streams of a were opened
    run       \* run[s]: the graph run behind stream s

clientVars == <<minute, req, task>>
graphVars  == <<thread, opened, run>>
routeVars  == <<clientVars, graphVars, row>>

Specialists == PRELIMINARY \cup RESEARCHERS \cup {"risk"}
Decisions   == {"none", "bought", "sold"}
Supersteps  == {"preliminary", "debate", "risk_final"}

None   == "none"
NoKey  == -1
Absent == [status |-> "absent", cost |-> 0, since |-> 0, key |-> NoKey,
           action |-> "none", dated |-> FALSE]
Idle   == [of |-> None, at |-> "idle", cost |-> 0, done |-> {}, gain |-> 0]

RoutesInit ==
    /\ minute = 0
    /\ req = [a \in Analyses |-> [at |-> "new", key |-> NoKey, answer |-> None]]
    /\ row = [a \in Analyses |-> Absent]
    /\ task = [a \in Analyses |-> "none"]
    /\ thread = [a \in Analyses |-> 0]
    /\ opened = [a \in Analyses |-> 0]
    /\ run = [s \in Streams |-> Idle]

Exists(a) == row[a].status # "absent"

-----------------------------------------------------------------------------
(* The daily cap and idempotent creation                                   *)

\* A tick past midnight takes the rows of the first day out of the sum; what a run
\* of such a row spends later is counted to that day.
Day(m) == IF m >= Midnight THEN 1 ELSE 0

daily_spend_today ==
    MapThenSumSet(LAMBDA a : row[a].cost,
                  {a \in Analyses : Exists(a) /\ Day(row[a].since) = Day(minute)})

cap_exceeded == daily_spend_today >= DailyCap

\* create_analysis up to the lookup: the cap check, the key of this minute, and
\* the id already filed under it.
CheckAndLookUp(a) ==
    /\ req[a].at = "new"
    /\ row[a] = Absent
    /\ \/ /\ cap_exceeded
          /\ req' = [req EXCEPT ![a].at = "refused"]
       \/ /\ ~ cap_exceeded
          /\ \E b \in Analyses :
                /\ row[b].key = minute
                /\ req' = [req EXCEPT ![a] = [at |-> "answered", key |-> minute, answer |-> b]]
       \/ /\ ~ cap_exceeded
          /\ \A b \in Analyses : row[b].key # minute
          /\ req' = [req EXCEPT ![a].at = "checked", ![a].key = minute]
    /\ UNCHANGED <<minute, task, graphVars, row>>

\* Mutant: without the unique index of migration 0006.
KeyIsTaken_without_index(k) == FALSE

\* ix_analyses_idempotency_key refuses a second row with the key.
KeyIsTaken(k) == \E b \in Analyses : row[b].key = k

\* _create_pending_row and the start of the background task, or the
\* IntegrityError that becomes a 500.
InsertPending(a) ==
    /\ req[a].at = "checked"
    /\ \/ /\ KeyIsTaken(req[a].key)
          /\ req' = [req EXCEPT ![a].at = "error"]
          /\ UNCHANGED <<row, task>>
       \/ /\ ~ KeyIsTaken(req[a].key)
          /\ row' = [row EXCEPT ![a] = [Absent EXCEPT !.status = "pending", !.since = minute,
                                                        !.key = req[a].key]]
          /\ task' = [task EXCEPT ![a] = "running"]
          /\ req' = [req EXCEPT ![a].at = "answered", ![a].answer = a]
    /\ UNCHANGED <<minute, graphVars>>

-----------------------------------------------------------------------------
(* The background task                                                     *)

\* run_analysis returns with a published verdict; total_cost_usd is replaced.
TaskPublishes(a, status, cost) ==
    /\ task[a] = "running"
    /\ task' = [task EXCEPT ![a] = "ended"]
    /\ row' = [row EXCEPT ![a].status = status, ![a].cost = cost]
    /\ UNCHANGED <<minute, req, graphVars>>

\* run_analysis is blocked by the gate, raises, or dies with its process.
TaskLeavesPending(a) ==
    /\ task[a] = "running"
    /\ task' = [task EXCEPT ![a] = "ended"]
    /\ UNCHANGED <<minute, req, row, graphVars>>

-----------------------------------------------------------------------------
(* The stream endpoint: one LangGraph run per reader                       *)

Nodes(superstep) ==
    CASE superstep = "preliminary" -> PRELIMINARY
      [] superstep = "debate"      -> RESEARCHERS
      [] superstep = "risk_final"  -> {"risk"}

After(superstep) ==
    CASE superstep = "preliminary" -> "debate"
      [] superstep = "debate"      -> "risk_final"
      [] superstep = "risk_final"  -> "synthesis"

\* The endpoint runs a fresh graph with no extra context (a deep dive: every
\* specialist is in scope) on the thread of a, whose accumulators go on from
\* where the last run left them.  load_context stores nothing of the analysis.
OpenStream(s, a) ==
    /\ run[s].at = "idle"
    /\ Exists(a)
    /\ run' = [run EXCEPT ![s] = [Idle EXCEPT !.of = a, !.at = "preliminary",
                                              !.cost = thread[a]]]
    /\ opened' = [opened EXCEPT ![a] = @ + 1]
    /\ UNCHANGED <<clientVars, row, thread>>

\* Mutant: the cap is checked with > instead of >=.
is_exceeded_strictly(spent) == spent > HardCap

is_exceeded(spent) == spent >= HardCap

\* A specialist node ends: skipped over budget, with a result, with an error that
\* still has its cost, or by an exception that has none.  It reads the value its
\* superstep began with; its own delta joins the others when the superstep ends.
NodeEnds(s, n, cost) ==
    /\ run[s].at \in Supersteps
    /\ n \in Nodes(run[s].at) \ run[s].done
    /\ is_exceeded(run[s].cost) => cost = 0
    /\ run' = [run EXCEPT ![s].done = @ \cup {n}, ![s].gain = @ + cost]
    /\ UNCHANGED <<clientVars, row, thread, opened>>

\* LangGraph adds the deltas up, saves the checkpoint and schedules the next nodes.
SuperstepEnds(s) ==
    /\ run[s].at \in Supersteps
    /\ run[s].done = Nodes(run[s].at)
    /\ run' = [run EXCEPT ![s] = [Idle EXCEPT !.of = run[s].of, !.at = After(run[s].at),
                                              !.cost = run[s].cost + run[s].gain]]
    /\ thread' = [thread EXCEPT ![run[s].of] = run[s].cost + run[s].gain]
    /\ UNCHANGED <<clientVars, row, opened>>

\* The synthesis node checks no budget and always yields a final, valid or not.
Synthesize(s, cost) ==
    /\ run[s].at = "synthesis"
    /\ run' = [run EXCEPT ![s].at = "persist", ![s].cost = @ + cost]
    /\ thread' = [thread EXCEPT ![run[s].of] = run[s].cost + cost]
    /\ UNCHANGED <<clientVars, row, opened>>

\* Mutant: the upsert replaces every column.
persisted_afresh(r, cost) == [Absent EXCEPT !.status = "succeeded", !.cost = cost,
                                              !.since = r.since, !.key = r.key]

\* The columns the upsert of _persist replaces; the key and the decision stay.
persisted(r, cost) == [r EXCEPT !.status = "succeeded", !.cost = cost]

\* _persist writes the row, SUCCEEDED whatever synthesis made of it.
Persist(s) ==
    /\ run[s].at = "persist"
    /\ row' = [row EXCEPT ![run[s].of] = persisted(@, run[s].cost)]
    /\ run' = [run EXCEPT ![s] = Idle]
    /\ UNCHANGED <<clientVars, thread, opened>>

\* The reader goes away or a node raises: the run ends where it is, and what its
\* unfinished superstep spent is in no checkpoint.
StreamBreaks(s) ==
    /\ run[s].at # "idle"
    /\ run' = [run EXCEPT ![s] = Idle]
    /\ UNCHANGED <<clientVars, row, thread, opened>>

-----------------------------------------------------------------------------
\* PATCH /analyses/{id}/decision: "none" clears the date.
upsert_decision(a, action) ==
    /\ Exists(a)
    /\ row' = [row EXCEPT ![a].action = action, ![a].dated = (action # "none")]
    /\ UNCHANGED <<clientVars, graphVars>>

MinutePasses ==
    /\ minute < MaxMinute
    /\ minute' = minute + 1
    /\ UNCHANGED <<req, task, row, graphVars>>

\* What an API client may ask for.
RoutesRequest ==
    \/ \E a \in Analyses :
          \/ CheckAndLookUp(a)
          \/ \E s \in Streams : OpenStream(s, a)
          \/ \E d \in Decisions : upsert_decision(a, d)

\* What the service does about it.
StreamStep(s) ==
    \/ \E n \in Specialists, cost \in 0 .. MaxNodeCost : NodeEnds(s, n, cost)
    \/ SuperstepEnds(s)
    \/ \E cost \in 0 .. MaxSynthCost : Synthesize(s, cost)
    \/ Persist(s)

RoutesStep ==
    \/ \E a \in Analyses :
          \/ InsertPending(a)
          \/ \E status \in {"succeeded", "failed"}, cost \in 0 .. MaxSynthCost :
                TaskPublishes(a, status, cost)
          \/ TaskLeavesPending(a)
    \/ \E s \in Streams : StreamStep(s) \/ StreamBreaks(s)
    \/ MinutePasses

-----------------------------------------------------------------------------
(* Properties                                                              *)

Accumulated == [Analyses -> Nat]

RoutesTypeOK ==
    /\ minute \in 0 .. MaxMinute
    /\ req \in [Analyses -> [at : {"new", "checked", "answered", "refused", "error", "taken"},
                             key : Nat \cup {NoKey}, answer : Analyses \cup {None}]]
    /\ row \in [Analyses -> [status : {"absent", "pending", "succeeded", "failed"}, cost : Nat,
                             since : Nat, key : Nat \cup {NoKey}, action : Decisions,
                             dated : BOOLEAN]]
    /\ task \in [Analyses -> {"none", "running", "ended"}]
    /\ thread \in Accumulated /\ opened \in Accumulated
    /\ run \in [Streams -> [of : Analyses \cup {None},
                            at : Supersteps \cup {"idle", "synthesis", "persist"},
                            cost : Nat, done : SUBSET Specialists, gain : Nat]]

\* Requests that carry one idempotency key and are answered are answered with one
\* id, whichever processes serve them and however their lookups and inserts
\* interleave (routes/analyses.py:118-146, migration 0006).
SameKeySameAnswer ==
    \A a, b \in Analyses :
        /\ req[a].at = "answered" /\ req[b].at = "answered"
        /\ req[a].key = req[b].key
        => req[a].answer = req[b].answer

\* What is spent past the hard cap: the nodes of a superstep all read the total it
\* began with, and every stream opened pays for a synthesis that asks no budget.
Bound(a) == HardCap - 1 + Cardinality(PRELIMINARY) * MaxNodeCost + opened[a] * MaxSynthCost

\* However many readers run the graph of one analysis at once or one after the
\* other, its running cost exceeds the hard cap by one superstep and one synthesis
\* for each of them, and no more (nodes.py:163-220, budget.py:39-43).
BudgetOvershoot ==
    /\ \A a \in Analyses : thread[a] <= Bound(a)
    /\ \A s \in Streams : run[s].at # "idle" => run[s].cost + run[s].gain <= Bound(run[s].of)

\* A run that writes its verdict, in the background or behind a stream, leaves
\* what the user and the request put into the row: the idempotency key, the
\* creation time and a decision taken while it ran (nodes.py:229-329).
RunsKeepTheUsersRecord ==
    [][\A a \in Analyses :
          Exists(a) /\ (task' # task \/ run' # run) =>
              /\ row'[a].key = row[a].key /\ row'[a].since = row[a].since
              /\ row'[a].action = row[a].action /\ row'[a].dated = row[a].dated]_routeVars

=============================================================================
