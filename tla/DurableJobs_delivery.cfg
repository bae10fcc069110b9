SPECIFICATION Spec
CONSTANTS
    NoWorker = NoWorker
    Events = {e1, e2}
    Effects <- MCMixed
    Workers = {w1, w2}
    MaxAttempts = 2
    MaxStalls = 0
    BatchLimit = 2
    MaxRedisLoss = 1
SYMMETRY MCSymmetry
INVARIANTS
    ProcessedRollupIsReflected
PROPERTIES
    SummaryNeverRegresses
    ImplementsContract
CHECK_DEADLOCK FALSE
