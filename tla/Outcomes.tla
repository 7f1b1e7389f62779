------------------------------- MODULE Outcomes -------------------------------
(***************************************************************************)
(* compute_outcomes: the returns of a decision over fixed horizons, from   *)
(* the daily closes known on the day the job runs.  The job is run again   *)
(* and again and overwrites its row each time, so what matters is which    *)
(* part of a row a later run may still change.                             *)
(*                                                                         *)
(* A history maps days to closes.  The price job upserts whatever range of  *)
(* days it is given, so the close of a past day may come late and may be   *)
(* replaced.  A return is the pair of its entry and exit close.            *)
(***************************************************************************)
EXTENDS Integers, FiniteSets, FiniteSetsExt

CONSTANTS
    LastDay,      \* bound: the days are 0 .. LastDay, the decision is on day 0
    HORIZONS,     \* the horizons, in days
    ScanDays,     \* how far a close is looked for (7)
    MaxClose      \* bound: closes are 1 .. MaxClose

ASSUME OutcomesAssumption ==
    LastDay \in Nat /\ ScanDays \in Nat /\ MaxClose \in Nat /\ HORIZONS \subseteq Nat

Days == 0 .. LastDay

NoRow == -1     \* prices_daily has no row for the day
NULL  == 0      \* the row has no close

Closes == NoRow .. MaxClose

VARIABLES
    today,     \* the day the job would run on
    history    \* history["symbol"], history["spy"]: prices_daily, as far as it is known

outcomeVars == <<today, history>>

OutcomesInit == today = 0 /\ history = [s \in {"symbol", "spy"} |-> [d \in Days |-> NoRow]]

\* One run of the price job: the provider has bars for some of the days asked for, and
\* their rows are written or overwritten, with a close or, a bar lacking one, without.
IngestDaily ==
    /\ \E s \in {"symbol", "spy"}, bars \in [0 .. today -> Closes] :
          history' = [history EXCEPT ![s] =
                        [d \in Days |-> IF d <= today /\ bars[d] # NoRow THEN bars[d] ELSE @[d]]]
    /\ UNCHANGED today

DayEnds ==
    /\ today < LastDay
    /\ today' = today + 1
    /\ UNCHANGED history

OutcomesNext == IngestDaily \/ DayEnds

Rows(closes, day) == {d \in Days : day <= d /\ d <= day + ScanDays /\ closes[d] # NoRow}

\* Mutant: the last row of the window serves instead of the first.
close_last(closes, day) ==
    LET found == Rows(closes, day) IN IF found = {} THEN NULL ELSE closes[Max(found)]

\* _close_on_or_after: the close of the first row in the days that follow, if any.
close_on_or_after(closes, day) ==
    LET found == Rows(closes, day) IN IF found = {} THEN NULL ELSE closes[Min(found)]

NoReturn == <<0, 0>>

\* One side of _compute_one: no entry close, a horizon that is not over, and no
\* exit close each leave the return open.
Return(series, horizon) ==
    LET entry == close_on_or_after(history[series], 0)
        exit  == close_on_or_after(history[series], horizon)
    IN  IF entry = NULL \/ horizon > today \/ exit = NULL THEN NoReturn ELSE <<entry, exit>>

\* a / b < c / d, for positive numbers.
Below(p, q) == p[2] * q[1] < q[2] * p[1]

\* _classify_hit of a buy and of a sell: against the benchmark's return when there
\* is one, against nothing gained otherwise.
classify_hit(recommendation, ret, benchmark) ==
    LET reference == IF benchmark = NoReturn THEN <<1, 1>> ELSE benchmark IN
    CASE ret = NoReturn -> "open"
      [] ret # NoReturn /\ recommendation = "buy"  -> IF Below(reference, ret) THEN "hit" ELSE "miss"
      [] ret # NoReturn /\ recommendation = "sell" -> IF Below(ret, reference) THEN "hit" ELSE "miss"

Outcome(recommendation, horizon) ==
    LET ret == Return("symbol", horizon)
        ref == Return("spy", horizon)
    IN  [ret |-> ret, benchmark |-> ref, hit |-> classify_hit(recommendation, ret, ref)]

\* The days a lookup depends on: those up to the row it found.
Examined(closes, day) ==
    {d \in Days : day <= d /\ d <= day + ScanDays /\ \A e \in day .. d - 1 : closes[e] = NoRow}

\* This step writes a day that a side of a return was computed from.
Rewritten(series, horizon) ==
    \E d \in Examined(history[series], 0) \cup Examined(history[series], horizon) :
        history[series][d]' # history[series][d]

\* A later run of the job fills in what was open and revises what was decided only when
\* the price job has written one of the days the decision rests on: a return stays until
\* a close it was computed from, or one that comes before it in its window, is written,
\* and a hit or a miss against a known benchmark until that happens to the symbol or to
\* SPY.  Neither later closes nor the passing of days count
\* (jobs/outcomes.py:103-191, jobs/prices.py:62-75).
OutcomesFollowTheirCloses ==
    [][\A horizon \in HORIZONS, recommendation \in {"buy", "sell"} :
          LET first == Outcome(recommendation, horizon) IN
          first.ret # NoReturn =>
              /\ Outcome(recommendation, horizon)'.ret # first.ret => Rewritten("symbol", horizon)
              /\ first.benchmark # NoReturn
                    /\ Outcome(recommendation, horizon)'.hit # first.hit =>
                       Rewritten("symbol", horizon) \/ Rewritten("spy", horizon)]_outcomeVars

=============================================================================
