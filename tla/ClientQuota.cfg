\* Three requests in a day of two minutes, and on into the next day.
SPECIFICATION Spec
SYMMETRY MCSymmetry
CONSTANTS
    Requests = {r1, r2, r3}
    RPMLimit = 2
    DailyRequestLimit = 2
    DailyTokenLimit = 2
    Usages = {0, 2}
    Second = 2
    Minute = 2
    Day = 4
    MaxTime = 4
INVARIANTS
    RequestLimitsHold
    OvershootNeedsOverlap
    TokensAreSummed
CHECK_DEADLOCK FALSE
