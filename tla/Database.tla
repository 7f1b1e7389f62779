------------------------------ MODULE Database -------------------------------
(***************************************************************************)
(* The schema and the jobs that fill it.  An alembic command runs its      *)
(* scripts in one transaction (env.py:34-44 begins one for the command and *)
(* PostgreSQL's DDL is transactional), so it is one step: all of it or, on *)
(* the first refusal or when its process dies, nothing.  Operators migrate *)
(* while no job runs, and start jobs at the head revision.                 *)
(***************************************************************************)
EXTENDS Revisions, Ingest

CONSTANT MaxCommands   \* bound: alembic commands in a run

VARIABLES
    version,    \* alembic_version: how many revisions are applied
    catalog,    \* the database's catalog
    refused,    \* history variable: PostgreSQL refused a statement of a script
    commands

schemaVars == <<version, catalog, refused, commands>>
vars == <<schemaVars, ingestVars>>

Init ==
    /\ version = 0 /\ catalog = Empty /\ refused = FALSE /\ commands = 0
    /\ IngestInit

\* Rows go with their table; every table of the jobs is one of revision 2.
Kept(rows, none) == IF "tickers" \in DOMAIN catalog'.tables THEN rows ELSE none

\* alembic upgrade or downgrade to a revision.
Migrate(target) ==
    LET result == RunScript(catalog, Scripts(version, target)) IN
    /\ commands < MaxCommands
    /\ \A j \in Jobs : job[j].at = "idle"
    /\ target # version
    /\ commands' = commands + 1
    /\ version' = IF result.ok THEN target ELSE version
    /\ catalog' = IF result.ok THEN result.catalog ELSE catalog
    /\ refused' = (refused \/ ~ result.ok)
    /\ ticker' = Kept(ticker, FALSE)
    /\ macro' = Kept(macro, {})
    /\ chunks' = Kept(chunks, [f \in Forms |-> {}])
    /\ UNCHANGED <<lock, job, starts>>

\* POST /watchlist makes sure of a ticker row of its own.
AddToWatchlist ==
    /\ version = Head_
    /\ ~ ticker
    /\ ticker' = TRUE
    /\ UNCHANGED <<schemaVars, macro, chunks, lock, job, starts>>

Ingesting(j) ==
    /\ (version = Head_ /\ Start(j)) \/ JobStep(j)
    /\ UNCHANGED schemaVars

Next ==
    \/ \E target \in 0 .. Head_ : Migrate(target)
    \/ AddToWatchlist
    \/ \E j \in Jobs : Ingesting(j)

Spec == Init /\ [][Next]_vars

\* Whatever order operators upgrade and downgrade in, no script is refused, and the
\* catalog is that of the recorded revision as if it had been built up from nothing:
\* every downgrade undoes its upgrade (migrations 0001-0008).  Extensions stay.
ScriptsInvert ==
    /\ ~ refused
    /\ [catalog EXCEPT !.extensions = {}] = [CatalogOf[version] EXCEPT !.extensions = {}]

=============================================================================
