------------------------------- MODULE Ingest --------------------------------
(***************************************************************************)
(* The ingest jobs of one ticker: the seed, which walks through every      *)
(* provider and isolates their failures, and the commands that run one     *)
(* step of it.  Each job is a process; jobs overlap (a seed while a        *)
(* command or another seed runs) and may die anywhere.                     *)
(*                                                                         *)
(* A transaction is one action, except a filing's, whose row is locked by  *)
(* the upsert while its chunks are embedded and then replaced by a delete  *)
(* and an insert, and a macro series', because of what is counted when.    *)
(***************************************************************************)
EXTENDS Chunking

CONSTANTS
    Jobs,            \* ingest processes
    Series,          \* the FRED series
    Texts,           \* token counts the parsed text of one filing may have
    max_tokens,
    overlap_tokens,
    MaxStarts        \* bound: jobs started in a run

ASSUME IngestAssumption == "none" \notin Jobs

VARIABLES
    ticker,   \* the tickers row is there
    macro,    \* the series that hold rows
    chunks,   \* chunks[f]: the filing_chunks rows of filing f
    lock,     \* lock[f]: the job whose transaction has the filings row
    job,      \* job[j]: what is left to do, the transaction under way, the report
    starts

dataVars == <<ticker, macro, chunks>>
ingestVars == <<dataVars, lock, job, starts>>

Forms == {"10-K", "10-Q"}

None == "none"

NoJob == [todo |-> <<>>, seed |-> FALSE, at |-> "idle", text |-> 0, gone |-> {},
          series |-> {}, open |-> None, counted |-> {}]

IngestInit ==
    /\ ticker = FALSE
    /\ macro = {}
    /\ chunks = [f \in Forms |-> {}]
    /\ lock = [f \in Forms |-> None]
    /\ job = [j \in Jobs |-> NoJob]
    /\ starts = 0

\* The step's provider; what fails together is skipped together.
Provider(step) ==
    CASE step \in {"profile", "fundamentals_quarterly"}     -> "fmp"
      [] step \in {"prices_daily", "prices_intraday"}       -> "polygon"
      [] step \in Forms \cup {"insider_transactions", "news_items", "macro"} -> step

SeedSteps(full) ==
    <<"profile", "fundamentals_quarterly", "prices_daily", "prices_intraday">>
    \o (IF full THEN <<"10-K", "10-Q">> ELSE <<>>)
    \o <<"insider_transactions", "news_items">>
    \o (IF full THEN <<"macro">> ELSE <<>>)

Commands == {<<"prices_daily">>, <<"fundamentals_quarterly">>, <<"10-K", "10-Q">>, <<"macro">>,
             <<"news_items">>, <<"insider_transactions">>}

Begin(j, todo, seed) ==
    /\ job[j].at = "idle"
    /\ starts < MaxStarts
    /\ starts' = starts + 1
    /\ job' = [job EXCEPT ![j] = [NoJob EXCEPT !.todo = todo, !.seed = seed, !.at = "step",
                                                !.series = Series]]
    /\ UNCHANGED <<dataVars, lock>>

seed_ticker(j) == \E full \in BOOLEAN : Begin(j, SeedSteps(full), TRUE)

command(j) == \E todo \in Commands : Begin(j, todo, FALSE)

At(j, step) == job[j].at = "step" /\ job[j].todo # <<>> /\ Head(job[j].todo) = step

Done(j) == [job EXCEPT ![j].at = "step", ![j].todo = Tail(@), ![j].text = 0, ![j].gone = {}]

\* A step that raised: a seed records the error and goes on with the next provider,
\* a command ends.
Skipped(j) ==
    LET todo == job[j].todo IN
    [job EXCEPT ![j].at = "step", ![j].text = 0, ![j].gone = {},
                ![j].todo = IF job[j].seed
                            THEN SelectSeq(todo, LAMBDA s : Provider(s) # Provider(Head(todo)))
                            ELSE <<>>]

-----------------------------------------------------------------------------
(* One transaction per step                                                *)

\* The profile is written; without an FMP key a minimal row is, and the step ends.
Profile(j) ==
    /\ At(j, "profile")
    /\ ticker' = TRUE
    /\ \/ job' = Done(j)
       \/ job' = Skipped(j)
    /\ UNCHANGED <<macro, chunks, lock, starts>>

\* An upsert, in chunks of rows, of what the provider has, if anything.  Which rows it
\* leaves matters to no other step and is left out.
chunked_upsert(j, table) ==
    /\ At(j, table)
    /\ job' = Done(j)
    /\ UNCHANGED <<dataVars, lock, starts>>

\* A statement of the fundamentals that fails is caught and the rest are tried, in a
\* transaction that then commits nothing: for the job a step like any other.
ingest_fundamentals(j)  == chunked_upsert(j, "fundamentals_quarterly")
ingest_daily(j)         == chunked_upsert(j, "prices_daily")
ingest_intraday(j)      == chunked_upsert(j, "prices_intraday")
ingest_insiders(j)      == chunked_upsert(j, "insider_transactions")
ingest_company_news(j)  == chunked_upsert(j, "news_items")

\* The provider fails or has no key, the database refuses, no embedder can be made.
StepFails(j) ==
    /\ job[j].at = "step" /\ job[j].todo # <<>>
    /\ job' = Skipped(j)
    /\ UNCHANGED <<dataVars, lock, starts>>

-----------------------------------------------------------------------------
(* Filings                                                                 *)

Rows(text) == {<<text, i>> : i \in DOMAIN chunk_filing(<<>>, text, max_tokens, overlap_tokens)}

RowsOf == [text \in Texts |-> Rows(text)]

\* EDGAR has no such filing: the step ends with nothing.
NoFiling(j, f) ==
    /\ At(j, f)
    /\ job' = Done(j)
    /\ UNCHANGED <<dataVars, lock, starts>>

\* Mutant: ON CONFLICT DO NOTHING, which locks no row.
may_upsert_unlocked(f) == TRUE

\* The upsert waits for a transaction that has the row.
may_upsert(f) == lock[f] = None

\* _store_filing up to the embedding; the raw text is in S3 by now.
UpsertFiling(j, f, text) ==
    /\ At(j, f)
    /\ ticker
    /\ may_upsert(f)
    /\ lock' = [lock EXCEPT ![f] = j]
    /\ job' = [job EXCEPT ![j].at = "filed", ![j].text = text]
    /\ UNCHANGED <<dataVars, starts>>

\* _insert_chunks, once every batch is embedded: the committed chunks are deleted and
\* the new ones inserted; without new ones the old ones stay.
ReplaceChunks(j) ==
    LET f == Head(job[j].todo) IN
    /\ job[j].at = "filed"
    /\ RowsOf[job[j].text] # {}
    /\ job' = [job EXCEPT ![j].at = "replaced", ![j].gone = chunks[f]]
    /\ UNCHANGED <<dataVars, lock, starts>>

Released(j) == [f \in Forms |-> IF lock[f] = j THEN None ELSE lock[f]]

CommitFiling(j) ==
    LET f == Head(job[j].todo) IN
    /\ \/ /\ job[j].at = "replaced"
          /\ chunks' = [chunks EXCEPT ![f] = (@ \ job[j].gone) \cup RowsOf[job[j].text]]
       \/ /\ job[j].at = "filed"
          /\ RowsOf[job[j].text] = {}
          /\ UNCHANGED chunks
    /\ lock' = Released(j)
    /\ job' = Done(j)
    /\ UNCHANGED <<ticker, macro, starts>>

\* An embedding call or a statement fails: the transaction is rolled back.
FilingFails(j) ==
    /\ job[j].at \in {"filed", "replaced"}
    /\ lock' = Released(j)
    /\ job' = Skipped(j)
    /\ UNCHANGED <<dataVars, starts>>

-----------------------------------------------------------------------------
(* Macro: a transaction for each series                                    *)

\* Mutant: a series is counted with its upsert instead of after its commit.
counted_at_upsert_early(j, s) == job[j].counted \cup {s}

counted_at_upsert(j, s) == job[j].counted

UpsertSeries(j, s) ==
    /\ At(j, "macro")
    /\ s \in job[j].series
    /\ job' = [job EXCEPT ![j].at = "series", ![j].open = s, ![j].counted = counted_at_upsert(j, s)]
    /\ UNCHANGED <<dataVars, lock, starts>>

NextSeries(j) == [job EXCEPT ![j].at = "step", ![j].open = None, ![j].series = @ \ {job[j].open}]

CommitSeries(j) ==
    /\ job[j].at = "series"
    /\ macro' = macro \cup {job[j].open}
    /\ job' = [NextSeries(j) EXCEPT ![j].counted = @ \cup {job[j].open}]
    /\ UNCHANGED <<ticker, chunks, lock, starts>>

SeriesFails(j) ==
    /\ job[j].at = "series"
    /\ job' = NextSeries(j)
    /\ UNCHANGED <<dataVars, lock, starts>>

MacroEnds(j) ==
    /\ At(j, "macro")
    /\ job[j].series = {}
    /\ job' = Done(j)
    /\ UNCHANGED <<dataVars, lock, starts>>

-----------------------------------------------------------------------------
JobEnds(j) ==
    /\ job[j].at = "step" /\ job[j].todo = <<>>
    /\ job' = [job EXCEPT ![j] = NoJob]
    /\ UNCHANGED <<dataVars, lock, starts>>

\* The process dies: PostgreSQL rolls its transaction back.
JobDies(j) ==
    /\ job[j].at # "idle"
    /\ job' = [job EXCEPT ![j] = NoJob]
    /\ lock' = Released(j)
    /\ UNCHANGED <<dataVars, starts>>

Start(j) == seed_ticker(j) \/ command(j)

JobStep(j) ==
    \/ Profile(j)
    \/ ingest_fundamentals(j)
    \/ ingest_daily(j)
    \/ ingest_intraday(j)
    \/ ingest_insiders(j)
    \/ ingest_company_news(j)
    \/ StepFails(j)
    \/ \E f \in Forms, text \in Texts : UpsertFiling(j, f, text)
    \/ \E f \in Forms : NoFiling(j, f)
    \/ ReplaceChunks(j)
    \/ CommitFiling(j)
    \/ FilingFails(j)
    \/ \E s \in Series : UpsertSeries(j, s)
    \/ CommitSeries(j)
    \/ SeriesFails(j)
    \/ MacroEnds(j)
    \/ JobEnds(j)
    \/ JobDies(j)

-----------------------------------------------------------------------------
(* Properties                                                              *)

\* However jobs for one filing overlap, fail or die, the chunks of a filing are those
\* of one parse of it, all of them: never a mix of two and never a part of one
\* (jobs/filings.py:95-185).
FilingChunksComplete ==
    \A f \in Forms : chunks[f] = {} \/ \E text \in Texts : chunks[f] = RowsOf[text]

\* While a job runs, every series its report counts is in the database, and a series
\* that failed takes none of them with it (jobs/macro.py:80-122).
MacroCountsCommitted == \A j \in Jobs : job[j].counted \subseteq macro

=============================================================================
