SPECIFICATION FairPoolSpec
CONSTANTS
    Tasks = {t1, t2, t3}
    Workers = {w1, w2}
    QueueSize = 2
    NoTask = NoTask
INVARIANT
    StopDrainsQueue
CHECK_DEADLOCK FALSE
