SPECIFICATION Spec
CONSTANTS
    Employees = {a}
    Requests = {1, 2}
    Shifts = {1}
    Txs = {t1, t2}
    None = None
    Leaves <- MCLeaves
    Slots <- MCSlots
    Legacy = FALSE
    MaxEdits = 1
SYMMETRY MCSymmetry
INVARIANTS
    ApprovedLeaveNeverOverlaps
CHECK_DEADLOCK FALSE
