# FII Prism: TLA+ models, checks and proofs

FII Prism is an equity-research service. A user asks for the analysis of a
symbol; specialists (language-model agents with tools) write reports, a freshness
gate decides which reports may be used, a synthesis argues over them and stores a
verdict. Detectors watch prices and news and trigger refreshes. This directory
holds TLA+ modules of the parts of the service whose correctness depends on order,
concurrency, failure or limits, the TLC runs over small instances, and TLAPS proofs
for all instances. `PROJECT.json` links every definition to the lines it models.

## 1. Inventory

| Component | Code | State | Operations | What is hard | What makes it correct |
|---|---|---|---|---|---|
| Specialist cache, freshness gate | `fii_agents/cache_policy.py`, `specialist_runner.py` | one `specialist_cache` row per symbol and specialist: status, output, time, cost | look up, run, overwrite; split rows into usable, missing, stale | anyone overwrites any row at any time; rows age | only ok rows within their lifetime are used |
| Analysis pipeline | `orchestrator.py` `run_analysis`, `synthesis_runner.py`, `routes/analyses.py`, `routes/stocks.py` | `analyses` rows and their specialist outputs; a coroutine per running analysis | create, visit specialists, read the priors, debate, synthesize, persist; run one specialist | four model calls between the read of the rows and the write; other writers; crash leaves rows PENDING; a refusal writes nothing | what is published was usable when it was read, and is fixed before it is argued over; a verdict is written once |
| Analysis requests, idempotency, daily cap | `routes/analyses.py`, `cost_gate.py` | `idempotency_key`, decision columns, costs of a day | check the cap, look up the key, insert, decide | cap, lookup and insert are three transactions; a run's cost is known at its end | one answer per key; a run leaves the user's record alone |
| Stream endpoint, LangGraph fan-out | `orchestrator.py`, `nodes.py`, `state.py`, `budget.py` | a run per reader, a checkpoint thread per analysis | eight parallel nodes, debate, risk, synthesis, persist | several readers run one analysis at once; nodes of a superstep read the budget it began with | the overshoot of the cap is bounded |
| Specialist tool loop | `specialists/llm_loop.py`, `budget.py` | messages, calls, cost, estimate of the input | call, dispatch tools, reprompt, stop | caps are checked before a call whose price is known after it; exceptions in the middle of a turn | caps bind, cost is never lost, the conversation is legal |
| Circuit breaker, provider requests | `fii_shared/resilience.py`, `fii_data_clients/base.py` | state, count of failures, time of opening; retries under way | admit, retry, report, snapshot | requests admitted in one state report in another; cancellation reports nothing | an open breaker shields the provider; it closes again |
| Event bus, listener, broker | `fii_db/events_bus.py`, `app/listener.py`, `app/events.py`, `routes/events.py`, `jobs/detectors.py` | `refresh_events` rows, notifications, background tasks, subscriber queues | emit with debounce, notify, open, mark, run, broadcast, subscribe | look-up before insert; lost notifications; three transactions per event; two listening processes during a deployment; full queues | one refresh per event and listener, marks agree with analyses, subscribers stay current |
| Report critiques | `routes/critiques.py`, `specialists/report_critic.py` | one row per report, runs in memory | upload, start, check the cap, two calls with retries, persist | only `ok` stops a run, so runs of one report overlap; a crash leaves `running` | what reads ok is whole and final; a run keeps to its caps |
| Advisor chat | `advisor/agent.py`, `routes/chat.py` | sessions with their messages and count; turns under way | create, delete, post, tools, answer, count, replay | message and count are two transactions; a disconnect or a deletion between any two; the answer is stored after it was streamed | the count follows the messages; what is replayed is a legal conversation |
| Advisor calculators | `advisor/tools.py` | none (they read positions and closes) | tax-loss harvest, portfolio impact | lots partly used, refusals half-way, sums and differences of floats | the oldest shares go first and value is conserved, but for the rounding |
| Decision outcomes | `jobs/outcomes.py` | `analysis_outcomes` rows, overwritten by each run | look for closes, compare with the benchmark | missing days, a benchmark that arrives later, past closes that are rewritten | a decided return changes only with a close it rests on |
| Ingest jobs | `fii_ingest/cli.py`, `seed.py`, `jobs/*`, `bulk.py` | the ingested tables; row locks; a report per job | fetch, upsert, embed, replace, commit | jobs overlap, one step of several fails, a process dies | a filing's chunks are one whole parse; a report counts what is there |
| Filing chunker | `chunking.py` | none | windows with overlap | boundaries, an overlap as large as the window | pieces cover the text |
| Schema, migrations, mapped classes | `migrations/versions/*`, `fii_db/models.py`, `enums.py` | catalog, recorded revision | upgrade, downgrade | two hand-written accounts of one schema; scripts run in any order of commands | downgrades undo upgrades; the head serves the classes |
| Rate limiters | `fii_data_clients/base.py` `TokenBucket`, `middleware/rate_limit.py` | tokens, time of refill | acquire, refill | sleeping with the lock held | not modelled |
| Numeric tools, front end, infrastructure, prompts | `tools/*`, `apps/web`, `infra` | none | formulas, presentation, text | | not modelled |

How they interact: the API process creates an analysis and runs `run_analysis` as a
background task on its event loop; `run_analysis` calls `run_specialist` for each
specialist, which consults the cache and otherwise runs a tool loop; tools call
providers through `BaseHttpClient`, which shares one breaker per provider; the
listener receives `pg_notify` messages, starts `run_analysis` for symbols on the
watchlist and publishes to the in-process broker, which feeds the event stream. A
reader of the stream endpoint runs the graph once more under the same id; a tool of
the advisor runs the pipeline under a fresh one; critiques ask the same daily cap as
the routes, a sum over the analyses table. The database is shared by every API
process and by the ingest commands, and is migrated by operators.

The hazards, each at its line and with the properties that would catch it, are
listed in `PROJECT.json`.

## 2. Modules

| Module | What it is |
|---|---|
| `SpecialistCache` | the cache rows of one symbol and the gate, used by the next two |
| `Publication` | abstract specification: what the pipeline promises, without workers or crashes |
| `AnalysisPipeline`, `AnalysisPipeline_proofs` | the pipeline in detail; `KeepsPromise` instantiates `Publication` |
| `CircuitBreaker`, `CircuitBreaker_proofs` | the breaker and the requests that share it |
| `ToolLoop`, `ToolLoop_proofs` | one specialist's conversation with the model |
| `EventDispatch`, `EventDispatch_proofs` | from a detected event to a refreshed analysis and its subscribers |
| `AnalysisRoutes` | requests, keys, the daily cap, background tasks, streams and decisions over the analyses table |
| `ReportCritiques` | reports and the runs that critique them |
| `AdvisorChat` | sessions, turns and the replay, on top of `AnalysisRoutes` |
| `Service`, `Service_proofs` | the three together: the API process over one database |
| `Portfolio`, `Outcomes` | the advisor's calculators and the outcomes job, against reference definitions |
| `Tables`, `Models` | the tables as the migrations create them and as the mapped classes expect them, each from its own files |
| `Migrations`, `Revisions` | what PostgreSQL makes of a DDL statement; the scripts of every revision |
| `Chunking` | the filing chunker |
| `Ingest` | the seed and the ingest commands of one ticker |
| `Database`, `Database_proofs` | `Revisions` and `Ingest` together: the schema and the jobs that fill it |
| `Calculations_proofs` | what is proved of `Portfolio`, `Outcomes` and `Chunking` |
| `Recursion_proofs` | induction, recursive functions, sums and folds: lemmas the other proofs cite |
| `MCAnalysisPipeline`, `MCEventDispatch`, `MCToolLoop`, `MCService`, `MCDatabase` | constants for TLC and the instances it explores |

An operator whose comment begins with "Mutant:" is a plausible bug: substituted for
the definition it is named after, it breaks a property. No specification uses it.

### SpecialistCache and AnalysisPipeline

A row is its status and the time of the run that wrote it; `NoRow` stands for a row
that is not there. `is_fresh`, `missing`, `stale` and `upsert_cache` are the
functions of those names or the code that computes them. The model has one symbol:
no statement of the pipeline relates two.

A worker per analysis follows `run_analysis`: `create_analysis` (also the
listener's) or `synthesize` starts it; `SkipOffScope`, `CacheHit`, `StartRun` and
`FinishRun` and `StoreRun` visit the specialists; `ReadPriors` or `Blocked` is the gate of
`synthesize_from_cache`; `Debate` is the bull, bear and final risk passes;
`Publish` is `_persist_analysis`; `Raises` is every exception that is not handled.
`StartCall`, `FinishCall` and `StoreCall` are `POST /stocks/{symbol}/specialists/{name}`.
`Crash` loses the coroutines of any set of workers, so of any one replica.
An action is the code between two awaits, or one transaction. A run takes its time
stamp (`specialist_runner.py:270` and `:304`, `FinishRun`) before it opens the
transaction that stores the row (399-400, `StoreRun`); `unsaved` is the stamped run
between the two. Within one process nothing comes between, but other replicas share
the table: a row may be stored with a time at which another replica still read the
row before it, and an older run may overwrite a newer one. The published rows are
therefore not claimed to be those of any one instant of the row's own clock.

`evidence[a]` is the cache rows that the stored outputs of `a` come from. The final
risk pass, when it succeeds, replaces risk's own copy with its own output, which it
argues from the same rows.

What is left out: a POST that returns the id of an existing analysis changes nothing
and is not an action; a database failure is `Raises`. The decision record, the costs and
the idempotency key of a row are in `AnalysisRoutes`, and so is the stream endpoint,
which runs the LangGraph version of an analysis and writes its row a second time: the
properties about `status` and `evidence` here are about analyses nobody streams.

Behaviour worth knowing, which no text of the repository rules out: two workers may
miss on one row and run its specialist at the same time, and a failing run that ends
last blocks an analysis whose own run of it succeeded. `HealthyDiveDecides` therefore
excludes failed runs.

### CircuitBreaker

A request of `BaseHttpClient.request` runs under `CircuitBreaker.call`: `Admit`,
any number of `Retry` up to `max_attempts`, and `Answer`, `Fail` or `Cancel`. The
provider is external: `Outage` flips `up`, which decides what an attempt meets.
`failures` and `cooling` are counted up to the limits they are compared with
(`failure_threshold`, `cooldown_s`), which is all the code does with them, so neither
a clock nor a bound on failures is needed. `since` and `trials` are history.

### ToolLoop

`run_tool_loop` with every exit. A message is its role and the number of tools it
asks for or answers. Money is counted in whole units; `est_in` is the estimate of
the input's cost, `10 * est_in > 6 * max_cost_usd` is the comparison with
`INPUT_COST_CAP_FRACTION`. `billed` is kept outside the loop: what the calls that
returned have cost. A request that raises is taken to cost nothing, as nothing the
code could see says otherwise.

### EventDispatch

`EmitReads` and `EmitCommits` are the two ends of `emit_event`'s transaction: other
emitters, in other processes, may commit between them (READ COMMITTED). The clock of
`cutoff` and the database's `now()` are one clock. An emission that finds its
duplicate, or several of them (`scalar_one_or_none` raises), changes nothing. `Load`,
`Precreate` and `Mark` are the three transactions of `_handle_notify`; each of them
may fail (`LoadFails`, `Drop`) or be the last before a restart (`Crash`). There are
several API `Processes`, each with a listener, a broker and tasks of its own: a
deployment runs the new one beside the old (`compute-stack.ts:59-61`: one desired, 100
to 200 percent), and both are notified. Neither `_precreate_analysis_row` nor
`_mark_event_processed` asks whether the event was taken before, so one event may be
refreshed, and paid for, twice, and the second mark overwrites the first:
`OneRefreshPerListener` is what holds, and `MarksAgree` compares a mark with any
analysis opened for its event. A subscriber is served by the process that the load
balancer picked (`server`). `heard` are the processes that a row's notification
reached, and `lost` is history: the rows that a failure took from a process. At shutdown
the code cancels `ANALYSES_TASKS`, not the listener's tasks; the process ends all the
same. `FinishRun` stands for `run_analysis`, which is `AnalysisPipeline`: decided, or
blocked and left pending. `publish`, `subscribe`, `unsubscribe` and `Receive` are the
broker and the stream endpoint; the broker's lock is never held over an await, so each
is a step. `Orders` are the orders in which a process may list a payload's
keywords. The watchlist does not change during a run.

### AnalysisRoutes

`create_analysis` is two actions, `CheckAndLookUp` (daily cap, key of this minute,
lookup) and `InsertPending` (the insert, or the unique index refusing it, a 500): two
API processes serve requests while a deployment replaces one by the other. The
background task is reduced to its end, `TaskPublishes` or `TaskLeavesPending`; what it
does before is `AnalysisPipeline`. Behind every reader of the stream endpoint a run
goes through the supersteps of the graph. `NodeEnds` is a specialist node, skipped
over budget; it reads the total its superstep began with. `SuperstepEnds` adds the
deltas up and saves the checkpoint, from which the next run of the same analysis
starts its accumulators: the thread is the analysis id, while every run gets a fresh
initial state, whatever the orchestrator's docstring says of resuming. `Synthesize`
asks no budget, `Persist` writes SUCCEEDED whatever synthesis made of it, a
`synthesis_invalid` placeholder included. The stream endpoint does not ask the daily
cap either. The outputs of the specialists are left out: no step depends on them.

`BudgetOvershoot` is the bound that does hold: the cap, one superstep, and a synthesis
for each stream opened. `persisted` keeps the columns the upsert does not name, which
is what `RunsKeepTheUsersRecord` rests on; the cost is overwritten, so the recorded
spend of a day can fall.

### ReportCritiques

A row and its runs. `StartCritique` is the first transaction of `run_critique`, which
marks the row running and nothing more: a second request starts a second run, although
the comment at `critiques.py:197` says otherwise. `CheckCap` asks the daily cap and
puts the row back to pending. `CallInvalid` and `CallParses` are the rounds of
`_call_with_retry` for both calls; `PersistOk` and `PersistFailure` the last
transaction, one UPDATE of every column. A cap that is reached and an exception are
both stored as `aborted_cap`. `CritiqueDies` leaves the row running for ever.

### AdvisorChat

A message is its role, its number of tool calls and the analyses they named.
`post_message` is five actions: the question is stored (`SaveQuestion`) and counted
(`CountQuestion`), the loop runs (`UseTools`, `Complete`), the answer is stored and
counted. `delete_session` and `TurnStops` (disconnect, failed model call, death of the
process) come between any two. `uncounted` is history: what `message_count` misses of
a session because a turn was lost between its message and its count.
`RunQuickAnalysis` runs the pipeline under a fresh id without a pending row, a key or
the daily cap; it answers with the id also when the pipeline was blocked and wrote no
row. `History` is `_build_anthropic_history`.

### Service

The three modules over one set of rows: the critiques are given `cap_exceeded`, the
chat writes `row` and `req`. `requests` bounds what clients do.

### Portfolio and Outcomes

The calculators fold over lots and trades; the harvest passes over the lots of other
symbols, as its query does. The table holds decimals, and `advisor/tools.py` turns
them into floats before it computes, so each sum and difference is rounded. Amounts
are integers in a unit finer than both, `fl[x]` is the float nearest to `x`, and `Ulp`
is how far away that can be (`RoundingAssumption`: monotone, and floats stay as they
are). Two consequences are visible to a user. `tools.py:471` compares what remains of
a sale with 0, so a sale of exactly what is held may be refused for a residue: lots of
.1 and .7 and a sale of .8, or .4 twice in the run. `tools.py:559` lets a trade sell
1e-9 of a share more than is held (`Tolerance`), so a holding may end a little below
nothing. `SellsOldestShares` and `TradesConserveValue` say what holds in spite of
both: the order in which lots are used, a bound on what is sold and on what a refusal
means, and the value of a simulation, each up to a number of roundings that is
stated. Positions are put into the table from outside: no code of the repository
writes one.

`Outcomes` evaluates `_compute_one` on every history. A return is the pair of its
closes, compared by cross-multiplication; rounding and dominance are left out. The
price job (`IngestDaily`) upserts whatever range of past days it is given and
overwrites closes that are there (`prices.py:62-75`), so a decided outcome is revised by
ordinary operation. `OutcomesFollowTheirCloses` says that nothing else revises it: a
return changes in a step that writes one of the days it was looked up from, and a hit
against a known benchmark in one that writes such a day of the symbol or of SPY.

### Migrations, Revisions, Tables, Models

A catalog has tables (columns, keys, foreign keys, columns of created types), enum
types, extensions, functions, triggers and the indexes that scripts drop. `Tables` is
translated from the migrations and `Models` from `models.py` and `enums.py`, so
`HeadServesModels` compares two accounts that nothing in the repository compares
(`env.py` has no metadata). It also checks that every `ON CONFLICT` clause names a
unique key. A statement PostgreSQL would refuse ends its script. What a statement does
to one table (`WithColumn`, `WithoutColumn`, `WithoutKeysTo`, `WithoutType`) is named, so
that the proofs can speak of it.

### Ingest, Chunking and Database

A job is a list of steps: the seed's, or one command's. A step that raises is skipped
with the other steps of its provider by the seed, and ends a command. A transaction is
an action, except a filing's: `UpsertFiling` locks its row until the chunks are
embedded (`chunk_filing`), replaced and committed. `MacroCountsCommitted` needs
the two steps of a series apart too. Which rows the other upserts leave is left out. A
job may start without the ticker row, in which case its filings fail.

`Database` runs alembic commands between jobs: an alembic command is one transaction,
operators migrate only while no job runs and start jobs at the head revision. These
two assumptions are about operators; the code enforces neither.

## 3. Runs

| Run | Module, configuration | Expects | Shows |
|---|---|---|---|
| `pipeline` | `MCAnalysisPipeline.cfg` | pass | safety of an analysis beside two callers of the single-specialist endpoint |
| `pipeline_promise` | `MCAnalysisPipelineLive.cfg` | pass | the pipeline implements `Publication` across a restart; pending analyses end; an undisturbed deep dive decides |
| `pipeline_stale` | `MCAnalysisPipelineStale.cfg` | violation | a row that expires during the debate is persisted, against a comment that says it is fresh |
| `breaker` | `CircuitBreaker.cfg` | pass | what an open breaker lets through, and that it closes again |
| `breaker_trial` | `CircuitBreakerTrial.cfg` | violation | two requests are trials at once, against "half-opens (one trial)" |
| `tool_loop` | `MCToolLoop.cfg` | pass | caps, reported cost and legality of every conversation of up to four turns |
| `tool_loop_limit` | `MCToolLoopLimit.cfg` | violation | the cost cap is exceeded by one call, against "we never blow past the limit ... by the cost of one extra invocation" |
| `event_dispatch` | `MCEventDispatch.cfg` | pass | two processes that listen at once: debounce, one refresh per event and listener, agreement of marks, currency of queues, and that a notified event is answered |
| `event_window` | `MCEventDispatchWindow.cfg` | violation | one news item leaves two rows within the window: the dedupe key hashes keywords in the order in which a process lists a set |
| `service` | `MCService.cfg` | pass | three client requests of any kind and every interleaving of what they start: one answer per key, the budget's overshoot, the user's record, whole and final critiques, their caps, the count of a chat; and the calculators and outcomes on small books and histories |
| `chat_replay` | `MCServiceReplay.cfg` | violation | a stored turn that used a tool is replayed with a result that answers no tool use |
| `database` | `MCDatabase.cfg` | pass | every sequence of alembic commands, with two overlapping jobs between them; and the chunker on small texts |

### Bounds, and why they are enough

- Pipeline: two specialists with lifetimes 1 and 2 (so rows expire at different
  times), one event whose scope is one of them, `MaxTime = 2` (the clock stops after the
  longer lifetime). `pipeline` has one analysis of any kind and two callers, which may
  write any row at any point of it, so everything a second analysis does to a row;
  `pipeline_promise` has two analyses and a restart (`MaxCrashes = 1`). Each pair of
  writers of a row occurs, their stamps and commits in either order, and a row can be
  fresh, expire, and be rewritten. The proofs lift the safety properties to all
  instances.
- Breaker: three requests, threshold 3, cooldown 2, two attempts, `MaxCancels = 1`:
  late failures and successes meet all three states. `breaker_trial` needs only two
  requests.
- Tool loop: four iterations, a cap of 3 or 5 calls (`CallCaps`), calls that cost 1
  or 3 of 6 (`CallCosts`), turns that add 0 or 2 to the estimate (`Growth`), up to
  two tools per turn (`MaxTools`): each cap, and the iteration limit, is the first
  to be reached in some conversation.
- Events: two processes, two emitters, two rows (`MaxEvents`), a watched and an
  unwatched candidate, one order of keywords (`Orders`), a window that covers one
  instant of a clock of two (`DEBOUNCE_WINDOW = 0`, `MaxTime = 1`), so that what comes
  an instant later is a new event, one failure (`MaxFailures`), a queue of two
  envelopes (`max_queue_size`) for up to four published. `event_window` has one emitter
  and two orders.
- Service: `MaxRequests = 3` requests over two analyses, two streams, two turns of one
  session, two runs of one report, two preliminary specialists. Three requests make
  two run and a third interfere: two creations with one key, two streams of one
  analysis, a turn and a deletion, two runs of one upload. A node and a synthesis cost
  at most 1 under a `HardCap` of 2, which both supersteps can pass; `DailyCap = 1`;
  midnight is minute 1, the last one. `Service_proofs` proves every property of this
  part for all values. The ids are interchangeable within each set, so the run is
  reduced by symmetry; it checks no liveness.
- The book and the histories: two positions of .1 or .4 of a share (`LotSizes`), sales
  and trades of .1 or .8 (`Asked`), so a lot may be sold whole, in part or not at all,
  and .8 is both too much and all there is. A share is 1280 units and floats have
  eight binary digits, so that .1 and .4 are no floats, as with the code's 53; `Ulp`
  and `Tolerance` are those of that precision, and closes are 1 or 2. Three days, a
  horizon of one day, closes looked for a day ahead and each 1 or 2, absent or null:
  entry and exit may fall on different gaps or coincide. `MCService`
  explores `Service`, `Portfolio` and `Outcomes` one at a time: no step of one
  reads what another writes, so the other interleavings show nothing.
  `Calculations_proofs` proves the properties of the calculators, the outcomes and
  the chunker for books, histories and texts of every size.
- Database: `MaxCommands = 3` commands to any revision reach, leave and re-reach the
  head, and `Database_proofs` covers any number; two jobs, two series, filings of no,
  one and more chunks (`Texts`). Chunker: texts up to 9 tokens, windows and overlaps up to 4.

Deadlock is checked in `breaker`, `breaker_trial` and `event_dispatch`, where the
environment can always move. The pipeline and the tool loop end, and the others stop at
their bounds.

### Fairness

Weak fairness is given to the code's own steps, never to the environment's.
Pipeline: to each worker's next step, since the event loop runs every coroutine that
can move and model calls are timed out by their client. Breaker: to the end of an
attempt, which the HTTP client times out, and to time; `ProviderRecovery` assumes
beyond this, in its own premise, that the provider stays up and that requests keep
coming. Events: to the step of each process's listener and to each background task.
`PendingIsSettled` counts a worker that was blocked, raised or lost as an end, since
nothing in the code looks for such rows again; `NotifiedIsAnswered` promises nothing
of a row that a failure took from the process, for the same reason. Connecting, users, detectors and failures are
never obliged to happen.
The service and the database are checked for safety alone and state no fairness: their
tasks may stop anywhere, and the code retries none of them.

## 4. Proofs

Every theorem is proved from the named assumptions on the constants of its module,
for every value of them, and no other assumption. Sets of requests, streams, sessions
or jobs may be infinite, except where a module's assumption says otherwise.

- `AnalysisPipeline_proofs`. `IInv` strengthens the published properties: neither a
  request nor an unsaved run carries a time in the future (`TimeInv`), the position of
  a worker determines what it has read, stamped and written (`ControlInv`), a caller
  has a run to store only of the specialist it runs (`CallInv`), every specialist a
  worker has passed has a row, and a forced one a row stamped since the event
  (`VisitedInv`), and what a worker holds was fresh at its read (`PriorsInv`). From it
  follow `TypeCorrectness`, `PublishesUsableEvidence`, `RefreshIsAboutTheEvent` and
  `RefusalIsHonest`. `Implementation` shows that initial states map to initial states
  and each step to a step of `Publication` or a stutter, with `chosen` as the worker's
  copy `priors`.
- `CircuitBreaker_proofs`. `BreakerInv` adds that a half-open breaker has cooled
  down. It gives `BreakerTypes`, `OpenShields`, `ClosedHasRoom` and, as an action property,
  `TrialsWait`.
- `ToolLoop_proofs`. `LoopInv` says that the loop's total is the bill, that a request
  is only under way below both caps, and that between rounds the conversation has odd
  length and lacks one user turn while tools are dispatched. It gives `LoopTypes`, `NoSpendIsLost`,
  `TheCapsBind` and `EveryRequestIsWellFormed`.
- `EventDispatch_proofs`, for any number of processes. `TypeInv` adds to the types
  (`DispatchTypeCorrectness`) where each handler is. `EmittingInv` says that a row
  about to be inserted is apart from every row its emitter saw, which makes
  `DebounceHolds` inductive (`DebounceWorks`). `OrderInv` says that each listener
  handles events in the order of their rows, and only rows it heard of, from which
  `OneRefresh` and then `MarksAreRight` follow. `FeedInv` says of each process that an
  analysis is only opened for an event that was broadcast there (`UpdatesFollow`);
  `QueuesInv` bounds the queues, which `QueuesStayCurrent` needs to be inductive.
  `ServerAssumption` says that every subscriber is served by one process.
- `Database_proofs`. A script is accepted statement by statement through a row of
  catalogs (`Runs`). On a catalog in which whatever is named is there (`Sound`), a
  statement that creates something new is undone by the one that drops it
  (`TypeStep`, `TableStep`, `ColumnStep`, `IndexStep`), since nothing yet uses what it
  created; so a script is undone by the drops in the opposite order (`StepsInvert`).
  The downgrades of revisions 3 to 8 are such scripts (`LaterRevisions`); revision 2,
  whose downgrade drops the function, and with it every trigger, before the types, is
  followed through both scripts (`Revision2`). A command runs several scripts
  (`RunsFlat`), so it succeeds and ends in the schema of its target
  (`CommandsSucceed`). `SchemaInv`, that the catalog is the recorded revision's, is
  therefore inductive: `DowngradesUndoUpgrades`, for any number of commands.
  `SchemaServesCode` compares the schema the eight upgrades build with `Models`, table
  by table. A transaction that has reached a filing holds its lock, for a text
  of that filing (`HoldersHold`), so the chunks it deleted are still all there are when
  it commits (`GoneIsAll`); idle jobs have counted nothing (`IdleIsEmpty`). With
  these `FilingChunksComplete` and `MacroCountsCommitted` are inductive, migrations
  included: `ChunksStayComplete`, `CountsAreCommitted`.
- `Service_proofs` proves one lemma per step of the routes, of the critiques and of
  the chat, in a section each, and composes them.
  `RowsInv`: a row is where its request, task and streams say it is; no two rows share
  a key, and an answered request has the id of the row with its key. Hence
  `OneAnswerPerKey`, in which a run of the advisor counts as a row without a key.
  `Spending(r, k)`: before its synthesis, a stream has spent less than the cap plus one
  superstep plus the syntheses of the `k - 1` other streams opened on its analysis; a
  superstep's gain is at most the number of nodes that ended times their highest
  price, and nothing is gained over the cap. Opening a stream raises `k`, a synthesis
  uses its own share up; `OvershootIsBounded` follows. It needs that the fan-out has at
  least two nodes, so that no superstep is larger (`RoutesAssumption`).
  `StageCost` splits a critique's cost by call: `CritiquesPayWithinCaps`,
  `CritiquesAreWhole`. `CountInv` follows which turns have stored a message and not
  counted it: `CountIsTracked`. `UsersRecordIsKept` and `OkIsFinal` are action
  properties from the same invariant; `ServiceTypes` is type correctness.
- `Recursion_proofs`. Folds are recursive functions, which exist only if they are
  shown to. The least-number principle gives induction for a property given as a set
  (`InductionTo`), and from it: every equation `f[k] = step of f[k - 1]` has a solution
  (`Recursion`), so the sums and folds of the community modules satisfy their equations
  (`SumAdds`, `FoldExists`), and sums of equal terms are equal; a fold whose step
  leads from each tier of a row of sets into the next ends in the last (`FoldClimbs`).
- `Calculations_proofs`, for any rounding that `RoundingAssumption` allows: monotone, not
  further than `Ulp`, leaving floats alone. `TradesMakeNoMoney`: each trade moves the
  value of its shares between cash and holding, at the price the position is valued
  at, and is rounded a fixed number of times, so after `n` trades the total is within
  `n` times that. A sale is refused beyond the holding and the tolerance,
  whatever came before it, so the bound on a holding below nothing does not grow with
  the trades. `OldestSharesAreSold`: the invariant of
  the fold is that every lot passed is used up while anything remains, that no lot
  gives more than it has, and that what was sold and what remains add up to what was
  wanted but for one rounding per lot (`SaleStep`, `AnySaleSellsOldest`).
  `DecidedOutcomesStand`: a lookup depends on the days up to the row it finds
  (`LookupStands`), so a return whose days nobody writes stands (`ReturnStands`),
  whatever else the price job rewrites. `TextsAreCovered`: each window begins within
  the one before it and the last one ends with the text (`WindowsCover`).
  Their other assumptions (`BookAssumption`, `OutcomesAssumption`,
  `ChunkingAssumption`) say that the constants are natural numbers, sets of them, or
  sequences over them, that no amount overflows, that a client asks for a positive
  float, and that an overlap is less than its window.

Only model-checked: liveness under fairness (`PendingIsSettled`, `HealthyDiveDecides`,
`ProviderRecovery`, `NotifiedIsAnswered`), which the prover does not reach.

## 5. Findings

1. `synthesis_runner.py:454` persists rows that may have expired since the check, and
   a comment says they are known to be fresh (`pipeline_stale`).
2. `resilience.py:84` admits any number of trials when half-open; the docstrings
   promise one (`breaker_trial`).
3. `llm_loop.py:118` lets the last call exceed the cost cap by up to its price; the
   comment denies it (`tool_loop_limit`). `CapsBind` is what does hold.
4. `detectors.py:173` lists matched keywords out of a set, so that the dedupe key of
   one news item differs between processes and the debounce misses it
   (`event_window`). `DebounceHolds` is what does hold: for equal keys.
5. `routes/chat.py:382` replays tool results under a constant id, because tool calls
   are stored without theirs; the docstring promises a replay of the conversation
   (`chat_replay`).

Smaller disagreements met on the way, which no run is spent on: a comment at
`critiques.py:197` says that marking a row running prevents a second run, and it does
not; the stream endpoint and the advisor's `run_quick_analysis` bypass the daily cap;
a stream stores a `synthesis_invalid` placeholder as SUCCEEDED; `seed.py:116-117` says
that providers fail in isolation, but without the profile's ticker row the inserts of
the others violate their foreign keys; in `fundamentals.py` a failed statement aborts
the transaction while the loop goes on, and the COMMIT rolls back in silence; a news
item seen for two symbols keeps the first only (`DO NOTHING`); `chunk_filing` ignores
the full text when it is given sections that are all empty; `models.py:5` says that
every mutable table carries both timestamps, and some do not; `llm_loop.py:9-10`
promises a single-shot re-prompt, and the loop re-prompts until one of its caps;
`resilience.py:3` says that a breaker stays open for `cooldown_s`, and a request
admitted before it opened closes it as soon as it succeeds (`CooldownRespected` is
about openings that no success ended).

## 6. Not modelled

- Rate limiters (`TokenBucket`, `rate_limit.py`) and `retry_with_jitter`: a bucket is
  refilled by a floating-point clock and its only hazard is the waiting time behind its
  lock; delays are random. An integer bucket would be a different program.
- The numeric tools (factor maths, DCF, indicators, weights): floating-point formulas
  without control flow.
- `total_spend_usd` and the cost reports: they only read; a re-run overwrites the cost
  of a `specialist_cache` row, so the total is the cost of the last runs.
- The order in which a detector's thresholds are met, the presentation of events, the
  text of prompts, the web front end and the infrastructure.
- Column defaults, checks, plain indexes and column types other than created ones; the
  contents of ingested rows other than chunks and series.
- The rounding of outcomes, dominance, and the calculators' sector weights and warnings.
- Ordering between several symbols: every module but `EventDispatch` has one, as no
  statement of the code relates two.
