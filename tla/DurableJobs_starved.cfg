SPECIFICATION FairSpec
CONSTANTS
    NoWorker = NoWorker
    Events = {e1, e2}
    Effects <- MCLeave
    Workers = {w1}
    MaxAttempts = 1
    MaxStalls = 0
    BatchLimit = 1
    MaxRedisLoss = 0
PROPERTIES
    PendingRowIsReenqueued
CHECK_DEADLOCK FALSE
