SPECIFICATION FairPoolSpec
CONSTANTS
    Tasks = {t1, t2, t3, t4}
    Workers = {w1, w2}
    QueueSize = 2
    NoTask = NoTask
INVARIANTS
    DeliveredInOrder
    StoppedIsQuiet
    BurstsFit
PROPERTIES
    StopReturns
    AcceptedTaskStarts
CHECK_DEADLOCK FALSE
