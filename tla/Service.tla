------------------------------- MODULE Service -------------------------------
(***************************************************************************)
(* The API process: analysis routes, advisor chat and report critiques     *)
(* over one database.  They meet in the analyses table: the daily cap,     *)
(* read by the routes and the critiques, is a sum over its rows, and the   *)
(* advisor's tools read and write it.                                      *)
(***************************************************************************)
EXTENDS AdvisorChat, ReportCritiques

CONSTANT MaxRequests   \* bound: requests the clients make in a run

ASSUME ServiceAssumption == MaxRequests \in Nat

VARIABLE requests      \* how many they have made

vars == <<routeVars, chatVars, critiqueVars, requests>>

Init ==
    /\ RoutesInit
    /\ ChatInit
    /\ CritiqueInit
    /\ requests = 0

Request ==
    /\ requests < MaxRequests
    /\ requests' = requests + 1
    /\ \/ RoutesRequest /\ UNCHANGED <<chatVars, critiqueVars>>
       \/ ChatRequest /\ UNCHANGED <<routeVars, critiqueVars>>
       \/ CritiqueRequest /\ UNCHANGED <<routeVars, chatVars>>

Routes ==
    /\ RoutesStep
    /\ UNCHANGED <<chatVars, critiqueVars, requests>>

Chat(t) ==
    /\ \/ (TurnStep(t) \/ TurnStops(t)) /\ UNCHANGED routeVars
       \/ ReadTools(t)
       \/ \E a \in Analyses : RunQuickAnalysis(t, a)
    /\ UNCHANGED <<critiqueVars, requests>>

Critiques ==
    /\ CritiqueStep(cap_exceeded)
    /\ UNCHANGED <<routeVars, chatVars, requests>>

Next == Request \/ Routes \/ (\E t \in Turns : Chat(t)) \/ Critiques

Spec == Init /\ [][Next]_vars

TypeOK ==
    /\ RoutesTypeOK
    /\ ChatTypeOK
    /\ CritiqueTypeOK
    /\ requests \in 0 .. MaxRequests

=============================================================================
