SPECIFICATION Spec
CONSTANTS
    None = None
    Employees = {e1, e2}
    Shifts = {s1, s2}
    Swaps = {w1}
    Txs = {t1}
    Slots <- MCSlots
    MaxTime = 0
    MaxEdits = 0
    MaxClock = 0
SYMMETRY MCSymmetry
INVARIANTS
    ValidatedSwapApplies
CHECK_DEADLOCK FALSE
