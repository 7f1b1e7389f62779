------------------------------ MODULE MCService ------------------------------
(* Service, the advisor's calculators and the outcomes job.  No step of one   *)
(* reads what another writes, so each is followed while the others are where  *)
(* they began.  The ids are interchangeable within each set of Symmetry.      *)
EXTENDS Service, Portfolio, Outcomes, TLC

MCInit == Init /\ BookInit /\ OutcomesInit

ServiceIsFresh == requests = 0 /\ minute = 0

MCNext ==
    \/ Next /\ BookInit /\ OutcomesInit /\ UNCHANGED <<bookVars, outcomeVars>>
    \/ BookNext /\ ServiceIsFresh /\ OutcomesInit /\ UNCHANGED <<vars, outcomeVars>>
    \/ OutcomesNext /\ ServiceIsFresh /\ BookInit /\ UNCHANGED <<vars, bookVars>>

MCSpec == MCInit /\ [][MCNext]_<<vars, bookVars, outcomeVars>>

\* A share is 1280 units: the decimals .1, .4 and .8 are 128, 512 and 1024.  Floats have
\* eight binary digits, the last of them worth MCUnit or more: .1, .4 and .8 are 130, 510
\* and 1025, and .4 twice falls short of .8 as .1 and .7 do with the code's 53 digits.
MCUnit == 5

Spacing(x) ==
    LET size == IF x < 0 THEN -x ELSE x IN
    CHOOSE d \in {MCUnit * 2^e : e \in 0 .. 4} :
        /\ size < 256 * d
        /\ d = MCUnit \/ size >= 128 * d

\* To the nearest, ties to even.
Rounded(x) ==
    LET d    == Spacing(x)
        low  == x \div d
        rest == x % d
    IN  IF 2 * rest < d \/ (2 * rest = d /\ low % 2 = 0) THEN low * d ELSE (low + 1) * d

MCfl == [x \in Amounts |-> Rounded(x)]

Symmetry ==
    Permutations(Analyses) \cup Permutations(Streams) \cup Permutations(PRELIMINARY)
        \cup Permutations(Turns) \cup Permutations(Runs)

=============================================================================
