SPECIFICATION WorkforceSpec
CONSTANTS
    Null = null
    Parts = {"breaks", "departures", "payroll", "extraction", "claims", "qr", "assets"}
    Staff = {a, b}
    Subjects = {a}
    TimeLogs = {1, 2}
    Breaks = {1, 2}
    BreakRequests = {r1}
    Policies = {p1}
    Clockings = {t1, t2}
    Rosters <- MCRosters
    MaxHour = 2
    PolicySettings <- MCSettings
    Modes = {"required"}
    MaxPolicyEdits = 1
    MaxRosterEdits = 3
    Periods = {1, 2}
    Loans = {1}
    Runs = {t1, t2}
    LoanTerms <- MCLoanTerms
    MaxSettled = 1
    Uploads = {t1, t2}
    Jobs = {1, 2}
    Documents = {d1, d2}
    MaxProcessing = 1
    Claims = {1, 2}
    Keys = {k1}
    Requests = {t1, t2}
    Tokens = {1, 2, 3}
    Marked = {v1}
    Callers = {t1, t2}
    Equipment = {x1}
    Licences = {l1}
    SeatCounts = {1, 2, null}
    Resignations = {d1}
    Keepers = {t1, t2}
SYMMETRY MCSymmetry
CHECK_DEADLOCK FALSE
INVARIANTS
    WorkforceTypeOK
    BreaksInsideOpenShift
    RequestConsumedOnce
    DepartureIsRecorded
    LoanBooksBalance
    ProcessingWithinLimit
    RetryIsAnswered
    InviteAdmitsOnce
    InventoryAgrees
PROPERTIES
    EarlyNeedsConfirmation
    PolicyHonoured
    RerunKeepsDecisions
    RevocationHolds
