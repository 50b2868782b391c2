\* Two requests read and penalize one key.
SPECIFICATION Spec
CONSTANTS
    k1 = k1
    k2 = k2
    Keys = {k1, k2}
    Rank <- MCRank
    Requests = {r1, r2}
    Readers = {}
    Strategies = {"fixed"}
    Answers = {"limited"}
    Endpoints = {"chat"}
    PinnedKeys = {}
    MaxTime = 3
PROPERTY
    ReadingKeepsCooldowns
CHECK_DEADLOCK FALSE
