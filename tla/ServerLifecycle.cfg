SPECIFICATION FairSpec
CONSTANTS
    r1 = r1
    r2 = r2
    Requests <- TwoRequests
    Tasks <- TwoTasksEach
    Workers = {w1, w2}
    QueueSize = 2
    NoTask = NoTask
INVARIANTS
    TasksRunOnOpenStores
    PanicsExplained
PROPERTIES
    ShutdownCompletes
CHECK_DEADLOCK FALSE
