\* Two requests and an admin page on one model with two keys in round robin.
SPECIFICATION FairSpec
CONSTANTS
    k1 = k1
    k2 = k2
    Keys = {k1, k2}
    Rank <- MCRank
    Requests = {r1, r2}
    Readers = {adm}
    Strategies = {"round_robin"}
    Answers = {"unauthorized", "ok"}
    Endpoints = {"chat", "embeddings"}
    PinnedKeys = {k1}
    MaxTime = 2
INVARIANTS
    ExhaustsBeforeFailing
    RetriesOnlyWhatMayPass
    PenaltyIsEarned
    PassedOverForCause
    ChosenWereFree
    RotationSpreads
PROPERTIES
    PardonExplained
    RequestsEnd
CHECK_DEADLOCK FALSE
