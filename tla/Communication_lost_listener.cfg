SPECIFICATION Spec
CONSTANTS
    NoOne = NoOne
    Messages = {m1}
    CaseLinked = {}
    Workers = {w1}
    MaxAttempts = 2
    MaxStalls = 1
    MaxEdits = 0
    MaxFlips = 0
    MaxRedisLoss = 0
    ListenerMayDie = TRUE
INVARIANTS
    FailedJobNotSending
CHECK_DEADLOCK FALSE
