\* Three overlapping requests against a threshold of three: enough for late
\* failures and successes to meet every state of the breaker.
SPECIFICATION FairSpec
CONSTANTS
    Requests = {"r1", "r2", "r3"}
    failure_threshold = 3
    cooldown_s = 2
    max_attempts = 2
    MaxCancels = 1
INVARIANTS
    TypeOK
    OpenAdmitsNobody
    ClosedBelowThreshold
PROPERTIES
    CooldownRespected
    ProviderRecovery
