-------------------------- MODULE MCAnalysisPipeline -------------------------
(***************************************************************************)
(* A small instance of AnalysisPipeline: two specialists whose rows expire *)
(* at different times, and one event that re-runs one of them.             *)
(***************************************************************************)
EXTENDS AnalysisPipeline, TLC

MCSpecialists == <<"technical", "risk">>

MCTTL == [technical |-> 1, risk |-> 2]

MCScope == [macro_surprise |-> {"risk"}]

\* Callers are interchangeable.
MCSymmetry == Permutations(Callers)

==============================================================================
