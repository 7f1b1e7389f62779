--------------------------- MODULE SpecialistCache ---------------------------
(***************************************************************************)
(* The specialist_cache table of one symbol: one row per cacheable         *)
(* specialist, overwritten by every run of that specialist, and the        *)
(* freshness gate that decides whether a row may be used.                  *)
(*                                                                         *)
(* A row is abstracted to what the gate and its readers tell apart: the    *)
(* status of the run that wrote it, the time that run stamped it with      *)
(* (last_run_at), and the time it was committed, which no column holds and *)
(* no code reads.  A specialist with no row has the row NoRow, whose       *)
(* status is "missing".                                                    *)
(***************************************************************************)
EXTENDS Integers, Sequences, FiniteSets

CONSTANTS
    CACHEABLE_SPECIALISTS,  \* the specialists, in the order run_analysis visits them
    TTL,                    \* TTL[s]: how long a row of s stays fresh
    RunStatus               \* the statuses a run of a specialist may end with

Specialists == {CACHEABLE_SPECIALISTS[i] : i \in 1 .. Len(CACHEABLE_SPECIALISTS)}

ASSUME SpecialistsAssumption == CACHEABLE_SPECIALISTS \in Seq(STRING)

ASSUME TTLAssumption == TTL \in [Specialists -> Nat \ {0}]

\* "ok" is the only status the gate accepts; "error" is what an exception leaves.
ASSUME RunStatusAssumption ==
    /\ {"ok", "error"} \subseteq RunStatus
    /\ RunStatus \subseteq {"ok", "error", "aborted_cap", "input_too_large"}

Row == [status : RunStatus \cup {"missing"}, at : Nat, written : Nat]

NoRow == [status |-> "missing", at |-> 0, written |-> 0]

NoRows == [s \in Specialists |-> NoRow]

Rows == [Specialists -> Row]

\* is_fresh: the run ended ok and less than the TTL ago.
is_fresh(s, row, now) ==
    /\ row.status = "ok"
    /\ now - row.at < TTL[s]

\* _load_priors_from_cache splits the specialists three ways: usable priors,
\* specialists without a row, and specialists whose row the gate refuses.
missing(rows) == {s \in Specialists : rows[s].status = "missing"}

\* Mutant: the gate forgets the TTL.
stale_without_ttl(rows, now) == {s \in Specialists : rows[s].status \notin {"ok", "missing"}}

stale(rows, now) == {s \in Specialists \ missing(rows) : ~ is_fresh(s, rows[s], now)}

\* synthesize_from_cache goes on only with nothing missing and nothing stale.
Usable(rows, now) == missing(rows) = {} /\ stale(rows, now) = {}

\* _upsert_cache: the last to commit replaces every column of the row.
upsert_cache(rows, s, run, now) ==
    [rows EXCEPT ![s] = [status |-> run.status, at |-> run.at, written |-> now]]

==============================================================================
