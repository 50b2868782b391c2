\* One request of each protocol; the estimate differs from the true count.
SPECIFICATION Spec
CONSTANTS
    Estimate = 2
    Prompt = 3
    MaxCompletion = 2
    InputPrice = 1
    OutputPrice = 2
INVARIANTS
    ChargedForTheWhole
    UsageIsExact
    LogTellsTheOutcome
    BilledIsCounted
CHECK_DEADLOCK FALSE
