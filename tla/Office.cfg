SPECIFICATION OfficeSpec
CONSTANTS
    Null = null
    Parts = {"accounts", "authority", "hiring", "tabs", "retries",
             "promotions", "sharing"}
    Staff = {a, b}
    Subjects = {a}
    Attempts = {t1, t2}
    Sessions = {1}
    Links = {1, 2}
    Challenges = {1, 2}
    MaxFailures = 2
    MaxResets = 2
    Assignments = {1, 2, 3}
    Roles = {payer}
    HrAdmin = hr
    LegacyAdmins = {}
    Clerks = {t1, t2}
    MaxInstant = 1
    Vacancies = {j1}
    Applicants = {1, 2}
    JobOf <- MCJobOf
    MailOf <- MCMailOf
    Mails = {1, 2}
    Headcount <- MCHeadcount
    Offers = {1, 2}
    Recruiters = {t1, t2}
    MaxDay = 1
    MaxJobEdits = 2
    Tabs = {t1, t2}
    Edits = {e1}
    Drafts = {f1}
    Posts = {1, 2}
    PostStatuses = {"draft", "published"}
    MaxRetries = 1
    MaxVersion = 2
    Queries = {q1, q2}
    Near <- MCNear
    Intents = {i1, i2}
    Candidates = {1, 2, 3}
    QueryOf <- MCQueryOf
    Reviewers = {t1, t2}
SYMMETRY MCSymmetry
CHECK_DEADLOCK FALSE
INVARIANTS
    OfficeTypeOK
    FailuresBounded
    HeadcountKept
    PublishedOnce
    ReviewsHold
PROPERTIES
    ResetSpendsLinks
    ChallengeAdmitsOnce
    RevocationKeepsAdmin
    ArchiveFindsNone
    DecisionStands
    SharedWithConsent
