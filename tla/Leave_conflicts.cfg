SPECIFICATION Spec
CONSTANTS
    Employees = {a, b}
    Requests = {1, 2}
    Shifts = {1, 2}
    Txs = {t1, t2}
    None = None
    Leaves <- MCFirstDay
    Slots <- MCSlots
    Legacy = TRUE
    MaxEdits = 3
SYMMETRY MCSymmetry
INVARIANTS
    OpenConflictIsReal
    ClashIsRecorded
    NobodyWaitsInACircle
CHECK_DEADLOCK FALSE
