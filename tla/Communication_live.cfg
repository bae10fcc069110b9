SPECIFICATION FairSpec
CONSTANTS
    NoOne = NoOne
    Messages = {m1}
    CaseLinked = {m1}
    Workers = {w1}
    MaxAttempts = 2
    MaxStalls = 1
    MaxEdits = 0
    MaxFlips = 1
    MaxRedisLoss = 0
    ListenerMayDie = FALSE
INVARIANTS
    FailedJobIsReconciled
PROPERTIES
    JobSettlesMessage
CHECK_DEADLOCK FALSE
