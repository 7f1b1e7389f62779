\* Two requests may both find the breaker half-open.
SPECIFICATION Spec
CONSTANTS
    Requests = {"r1", "r2"}
    failure_threshold = 2
    cooldown_s = 1
    max_attempts = 1
    MaxCancels = 0
INVARIANT
    OneTrial
