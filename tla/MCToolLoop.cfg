\* Every conversation of at most four turns.
SPECIFICATION Spec
CONSTANTS
    max_iterations = 4
    max_cost_usd = 6
    CallCaps <- MCCallCaps
    CallCosts <- MCCallCosts
    Growth <- MCGrowth
    MaxTools = 2
INVARIANTS
    TypeOK
    SpendIsReported
    CapsBind
    ConversationIsWellFormed
CHECK_DEADLOCK FALSE
