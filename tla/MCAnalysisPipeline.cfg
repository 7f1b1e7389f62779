\* One analysis beside two callers of the single-specialist endpoint, which write any
\* row at any point of it, as other workers do and more.  Restarts and a second worker
\* are left to the other run.
SPECIFICATION Spec
CONSTANTS
    CACHEABLE_SPECIALISTS <- MCSpecialists
    TTL <- MCTTL
    RunStatus = {"ok", "error"}
    Analyses = {a1}
    Events = {"macro_surprise"}
    Scope <- MCScope
    Callers = {c1, c2}
    MaxTime = 2
    MaxCrashes = 0
SYMMETRY MCSymmetry
INVARIANTS
    TypeOK
    EvidenceWasUsable
    RefreshEvidenceIsNew
    RefusalSparesVisited
CHECK_DEADLOCK FALSE
