SPECIFICATION MCSpec
CONSTANTS
    Analyses = {a1, a2}
    Streams = {s1, s2}
    PRELIMINARY = {fundamentals, news}
    MaxNodeCost = 1
    MaxSynthCost = 1
    HardCap = 2
    DailyCap = 1
    Midnight = 1
    MaxMinute = 1
    Sessions = {c1}
    Turns = {t1, t2}
    max_iterations = 2
    MaxCalls = 2
    Reports = {p1}
    Runs = {r1, r2}
    MAX_PARSE_ATTEMPTS = 2
    EXTRACTOR_COST_CAP = 2
    CRITIC_COST_CAP = 1
    MaxCallCost = 1
    MaxRequests = 2
    MaxPositions = 2
    MaxTrades = 2
    MaxShares = 1025
    LotSizes = {128, 512}
    Asked = {130, 1025}
    MaxPrice = 2
    Tolerance = 5
    Limit = 5400
    Ulp = 20
    fl <- MCfl
    LastDay = 2
    HORIZONS = {1}
    ScanDays = 1
    MaxClose = 2
SYMMETRY Symmetry
CHECK_DEADLOCK FALSE
INVARIANT ReplayAnswersToolUse
