\* One analysis is enough for a row to expire between the read and the write.
SPECIFICATION FairSpec
CONSTANTS
    CACHEABLE_SPECIALISTS <- MCSpecialists
    TTL <- MCTTL
    RunStatus = {"ok", "error"}
    Analyses = {"a1"}
    Events = {"macro_surprise"}
    Scope <- MCScope
    Callers = {}
    MaxTime = 2
    MaxCrashes = 0
PROPERTY
    PublishesFreshRows
CHECK_DEADLOCK FALSE
