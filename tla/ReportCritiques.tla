--------------------------- MODULE ReportCritiques ---------------------------
(***************************************************************************)
(* Uploaded analyst reports and the two-call critic that runs on demand.   *)
(*                                                                         *)
(* A report is known by the hash of its bytes.  Only a row that is ok      *)
(* stops a run, so several runs of one report may be under way; each keeps *)
(* its result to itself and writes the whole row once, at its end.         *)
(***************************************************************************)
EXTENDS Integers, FiniteSets

CONSTANTS
    Reports,            \* the pdf hashes
    Runs,               \* requests to run a critique
    MAX_PARSE_ATTEMPTS,
    EXTRACTOR_COST_CAP,
    CRITIC_COST_CAP,
    MaxCallCost         \* the most one model call costs

ASSUME CritiqueAssumption ==
    /\ {MAX_PARSE_ATTEMPTS, EXTRACTOR_COST_CAP, CRITIC_COST_CAP} \subseteq Nat \ {0}
    /\ MaxCallCost \in Nat

VARIABLES
    report,   \* report[p]: the report_critiques row of p
    crit      \* crit[r]: the run r

critiqueVars == <<report, crit>>

NotUploaded == [status |-> "absent", claims |-> FALSE, critique |-> FALSE,
                completed |-> FALSE, cost |-> 0]

NoRun == [of |-> "none", at |-> "idle", attempts |-> 0, cost |-> 0, spent |-> 0]

CritiqueInit ==
    /\ report = [p \in Reports |-> NotUploaded]
    /\ crit = [r \in Runs |-> NoRun]

\* upload_critique: a known hash answers with its row, a new one gets a row.
upload_critique(p) ==
    /\ report[p].status = "absent"
    /\ report' = [report EXCEPT ![p].status = "pending"]
    /\ UNCHANGED crit

\* Mutant: a finished critique does not stop a run.
is_cached_never(p) == FALSE

is_cached(p) == report[p].status = "ok"

\* run_critique, first transaction: a cached row is the answer; any other row,
\* a running one included, is marked running.
StartCritique(r, p) ==
    /\ crit[r].at = "idle"
    /\ report[p].status # "absent"
    /\ ~ is_cached(p)
    /\ report' = [report EXCEPT ![p].status = "running"]
    /\ crit' = [crit EXCEPT ![r] = [NoRun EXCEPT !.of = p, !.at = "marked"]]

\* The daily cap, read after the mark; over it the row goes back to pending.
CheckCap(r, exceeded) ==
    /\ crit[r].at = "marked"
    /\ IF exceeded
       THEN /\ report' = [report EXCEPT ![crit[r].of].status = "pending"]
            /\ crit' = [crit EXCEPT ![r] = NoRun]
       ELSE /\ crit' = [crit EXCEPT ![r].at = "extract"]
            /\ UNCHANGED report

Calls == {"extract", "critique"}

CostCap(call) == IF call = "extract" THEN EXTRACTOR_COST_CAP ELSE CRITIC_COST_CAP

\* Mutant: the cap of a call is checked against the attempts only.
may_call_without_cap(r) == crit[r].attempts < MAX_PARSE_ATTEMPTS

\* _call_with_retry goes round again: attempts are left and this call's spend
\* (crit[r].cost) is below its cap.
may_call(r) ==
    /\ crit[r].attempts < MAX_PARSE_ATTEMPTS
    /\ crit[r].cost < CostCap(crit[r].at)

\* One model call whose answer does not parse: the errors go back to the model.
CallInvalid(r, cost) ==
    /\ crit[r].at \in Calls
    /\ may_call(r)
    /\ crit' = [crit EXCEPT ![r].attempts = @ + 1, ![r].cost = @ + cost]
    /\ UNCHANGED report

\* An answer that parses ends the call; the claims open the second one, whose
\* attempts and spend start again from nothing.
CallParses(r, cost) ==
    /\ crit[r].at \in Calls
    /\ may_call(r)
    /\ crit' = [crit EXCEPT ![r] =
                   [crit[r] EXCEPT
                       !.at = IF crit[r].at = "extract" THEN "critique" ELSE "parsed",
                       !.attempts = 0, !.cost = 0,
                       !.spent = crit[r].spent + crit[r].cost + cost]]
    /\ UNCHANGED report

-----------------------------------------------------------------------------
(* The last transaction: one UPDATE of every result column                 *)

Ends(r, status) ==
    LET spent == crit[r].spent + crit[r].cost IN
    /\ report' = [report EXCEPT ![crit[r].of] =
                     [status    |-> status,
                      claims    |-> crit[r].at # "extract",
                      critique  |-> status = "ok",
                      completed |-> status = "ok",
                      cost      |-> spent]]
    /\ crit' = [crit EXCEPT ![r] = NoRun]

\* Mutant: an unparsable critique is persisted like a finished one.
persist_ok_whatever(r) == crit[r].at \in Calls \cup {"parsed"}

persist_ok(r) == crit[r].at = "parsed"

PersistOk(r) ==
    /\ persist_ok(r)
    /\ Ends(r, "ok")

\* The attempts of a call are used up (schema_invalid), its cap is reached, or it
\* raised; the last two are both stored as aborted_cap.
PersistFailure(r) ==
    /\ crit[r].at \in Calls
    /\ \/ /\ crit[r].attempts = MAX_PARSE_ATTEMPTS
          /\ Ends(r, IF crit[r].at = "extract" THEN "extract_invalid" ELSE "critique_invalid")
       \/ /\ crit[r].attempts < MAX_PARSE_ATTEMPTS
          /\ Ends(r, "aborted_cap")

\* The process dies, or the specialist cache cannot be read: nothing is written
\* and the row stays running.
CritiqueDies(r) ==
    /\ crit[r].at # "idle"
    /\ crit' = [crit EXCEPT ![r] = NoRun]
    /\ UNCHANGED report

CritiqueRequest ==
    \E p \in Reports : upload_critique(p) \/ \E r \in Runs : StartCritique(r, p)

CritiqueStep(exceeded) ==
    \E r \in Runs :
       \/ CheckCap(r, exceeded)
       \/ \E cost \in 0 .. MaxCallCost : CallInvalid(r, cost) \/ CallParses(r, cost)
       \/ PersistOk(r)
       \/ PersistFailure(r)
       \/ CritiqueDies(r)

-----------------------------------------------------------------------------
(* Properties                                                              *)

CritiqueTypeOK ==
    /\ report \in [Reports -> [status : {"absent", "pending", "running", "ok", "extract_invalid",
                                         "critique_invalid", "aborted_cap"},
                               claims : BOOLEAN, critique : BOOLEAN,
                               completed : BOOLEAN, cost : Nat]]
    /\ crit \in [Runs -> [of : Reports \cup {"none"},
                          at : Calls \cup {"idle", "marked", "parsed"},
                          attempts : 0 .. MAX_PARSE_ATTEMPTS, cost : Nat, spent : Nat]]

\* A row that reads ok carries its claims and its critique and is dated, whatever
\* runs of the same report end before or after it (routes/critiques.py:224-245).
OkIsWhole ==
    \A p \in Reports : report[p].status = "ok" =>
        report[p].claims /\ report[p].critique /\ report[p].completed

\* A critique that is ok and has no run under way never changes again: the row is
\* the answer to every later request (routes/critiques.py:177-192).
OkIsFinalWhenQuiet ==
    [][\A p \in Reports :
          report[p].status = "ok" /\ (\A r \in Runs : crit[r].of # p) =>
              report'[p] = report[p]]_critiqueVars

\* No run costs more than the two caps and the one call that passes each of them
\* (report_critic.py:35-45, 278-280); nor does a row say so.
CritiqueCostBound ==
    EXTRACTOR_COST_CAP + CRITIC_COST_CAP - 2 + 2 * MaxCallCost

CritiquePaysWithinCaps ==
    /\ \A r \in Runs : crit[r].spent + crit[r].cost <= CritiqueCostBound
    /\ \A p \in Reports : report[p].cost <= CritiqueCostBound

=============================================================================
