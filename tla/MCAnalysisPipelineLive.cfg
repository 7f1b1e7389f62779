\* Two analyses and no other caller: every interleaving of the workers, the
\* promise they implement, and what fairness of the event loop gives.
SPECIFICATION FairSpec
CONSTANTS
    CACHEABLE_SPECIALISTS <- MCSpecialists
    TTL <- MCTTL
    RunStatus = {"ok", "error"}
    Analyses = {"a1", "a2"}
    Events = {"macro_surprise"}
    Scope <- MCScope
    Callers = {}
    MaxTime = 2
    MaxCrashes = 1
PROPERTIES
    KeepsPromise
    PendingIsSettled
    HealthyDiveDecides
CHECK_DEADLOCK FALSE
