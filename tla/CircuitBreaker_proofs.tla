------------------------ MODULE CircuitBreaker_proofs ------------------------
(***************************************************************************)
(* Proofs about CircuitBreaker, for any set of requests, threshold,        *)
(* cooldown and number of attempts.                                        *)
(***************************************************************************)
EXTENDS CircuitBreaker, TLAPS

\* OpenAdmitsNobody and ClosedBelowThreshold are inductive once it is known that
\* a half-open breaker has cooled down: only _open, which leaves it open, restarts
\* the cooldown.
BreakerInv ==
    /\ TypeOK
    /\ OpenAdmitsNobody
    /\ ClosedBelowThreshold
    /\ state = "half_open" => cooling = cooldown_s

LEMMA InitBreakerInv == Init => BreakerInv
  BY ThresholdAssumption, CooldownAssumption, AttemptsAssumption
     DEF Init, BreakerInv, TypeOK, OpenAdmitsNobody, ClosedBelowThreshold

LEMMA NextBreakerInv == BreakerInv /\ [Next]_vars => BreakerInv'
  <1> SUFFICES ASSUME BreakerInv, [Next]_vars PROVE BreakerInv'
    OBVIOUS
  <1> USE ThresholdAssumption, CooldownAssumption, AttemptsAssumption
          DEF BreakerInv, TypeOK, OpenAdmitsNobody, ClosedBelowThreshold, inFlight
  <1>1. ASSUME NEW r \in Requests, Admit(r) PROVE BreakerInv'
    BY <1>1 DEF Admit, observed
  <1>2. ASSUME NEW r \in Requests, Answer(r) PROVE BreakerInv'
    BY <1>2 DEF Answer, Leave, record_success
  <1>3. ASSUME NEW r \in Requests, Retry(r) PROVE BreakerInv'
    BY <1>3 DEF Retry
  <1>4. ASSUME NEW r \in Requests, Fail(r) PROVE BreakerInv'
    <2>1. TypeOK'
      BY <1>4 DEF Fail, Leave, record_failure, opens
    <2>2. inFlight' \subseteq inFlight
      BY <1>4 DEF Fail, Leave
    <2>3. CASE opens
      BY <1>4, <2>1, <2>2, <2>3 DEF Fail, record_failure
    <2>4. CASE ~ opens
      BY <1>4, <2>1, <2>2, <2>4 DEF Fail, record_failure, opens
    <2> QED
      BY <2>3, <2>4
  <1>5. ASSUME NEW r \in Requests, Cancel(r) PROVE BreakerInv'
    BY <1>5 DEF Cancel, Leave
  <1>6. CASE snapshot
    BY <1>6 DEF snapshot, observed
  <1>7. CASE Outage
    BY <1>7 DEF Outage
  <1>8. CASE Tick
    BY <1>8 DEF Tick
  <1>9. CASE UNCHANGED vars
    BY <1>9 DEF vars
  <1> QED
    BY <1>1, <1>2, <1>3, <1>4, <1>5, <1>6, <1>7, <1>8, <1>9 DEF Next

THEOREM BreakerInvariance == Spec => []BreakerInv
  BY InitBreakerInv, NextBreakerInv, PTL DEF Spec

\* Every variable of the breaker keeps its type; failures never pass the threshold.
THEOREM BreakerTypes == Spec => []TypeOK
  <1>1. BreakerInv => TypeOK
    BY DEF BreakerInv
  <1> QED
    BY BreakerInvariance, <1>1, PTL

\* A breaker held open shields the provider: what still reaches it was admitted
\* before the breaker last opened.
THEOREM OpenShields == Spec => []OpenAdmitsNobody
  <1>1. BreakerInv => OpenAdmitsNobody
    BY DEF BreakerInv
  <1> QED
    BY BreakerInvariance, <1>1, PTL

\* A closed breaker has room for a failure.
THEOREM ClosedHasRoom == Spec => []ClosedBelowThreshold
  <1>1. BreakerInv => ClosedBelowThreshold
    BY DEF BreakerInv
  <1> QED
    BY BreakerInvariance, <1>1, PTL

\* After the threshold is reached no request is admitted, trial or not, before a
\* full cooldown has passed or a success has been reported.
THEOREM TrialsWait == Spec => CooldownRespected
  <1> DEFINE Waits == inFlight' \subseteq inFlight \/ failures < failure_threshold
                      \/ cooling = cooldown_s
  <1>1. BreakerInv /\ [Next]_vars => [Waits]_vars
    <2> SUFFICES ASSUME BreakerInv, Next PROVE Waits
      OBVIOUS
    <2> USE DEF BreakerInv, TypeOK, inFlight
    <2>1. ASSUME NEW r \in Requests, Admit(r) PROVE Waits
      BY <2>1 DEF Admit, observed, ClosedBelowThreshold
    <2>2. ASSUME NEW r \in Requests, Answer(r) \/ Fail(r) \/ Cancel(r) PROVE Waits
      BY <2>2 DEF Answer, Fail, Cancel, Leave
    <2>3. ASSUME NEW r \in Requests, Retry(r) PROVE Waits
      BY <2>3 DEF Retry
    <2>4. CASE snapshot \/ Outage \/ Tick
      BY <2>4 DEF snapshot, Outage, Tick
    <2> QED
      BY <2>1, <2>2, <2>3, <2>4 DEF Next
  <1> QED
    BY BreakerInvariance, <1>1, PTL DEF Spec, CooldownRespected

==============================================================================
