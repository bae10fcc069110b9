SPECIFICATION Spec
CONSTANTS
    None = None
    Employees = {e1, e2}
    Shifts = {s1, s2, s3}
    Swaps = {w1, w2}
    Txs = {t1, t2}
    Slots <- MCTwoSlots
    MaxTime = 1
    MaxEdits = 1
    MaxClock = 1
SYMMETRY MCSymmetry
INVARIANTS
    NobodyDoubleBooked
    AppliedSwapsAreRecorded
PROPERTIES
    DecisionsAreCurrent
CHECK_DEADLOCK FALSE
