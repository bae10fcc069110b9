SPECIFICATION Spec
CONSTANTS
    NoOne = NoOne
    Messages = {m1}
    CaseLinked = {}
    Workers = {w1, w2}
    MaxAttempts = 2
    MaxStalls = 1
    MaxEdits = 1
    MaxFlips = 1
    MaxRedisLoss = 1
    ListenerMayDie = TRUE
SYMMETRY MCSymmetry
INVARIANTS
    UnattemptedCodesAreTrue
    DeliveredAtMostOnce
    CompletedJobIsSettled
PROPERTY KeepsPromise
CHECK_DEADLOCK FALSE
