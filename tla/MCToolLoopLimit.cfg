\* One dear call after cheap ones is enough.
SPECIFICATION Spec
CONSTANTS
    max_iterations = 4
    max_cost_usd = 6
    CallCaps <- MCCallCaps
    CallCosts <- MCCallCosts
    Growth <- MCGrowth
    MaxTools = 2
CHECK_DEADLOCK FALSE
INVARIANT
    NeverPastTheLimit
