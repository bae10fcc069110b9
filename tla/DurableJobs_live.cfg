SPECIFICATION FairSpec
CONSTANTS
    NoWorker = NoWorker
    Events = {e1}
    Effects <- MCClockIn
    Workers = {w1}
    MaxAttempts = 1
    MaxStalls = 1
    BatchLimit = 2
    MaxRedisLoss = 0
PROPERTIES
    EveryRowSettles
CHECK_DEADLOCK FALSE
