# A TLA+ model of Stanza (Horizon-HR)

This directory is a verification project for the HR application in this
repository: TLA+ modules translated from its source, TLC configurations that
check them on small instances, and TLAPS proofs of the properties that matter
most. Paths below are relative to the repository's `src/` directory unless they
start with `docs/`, `scripts/` or `server.ts`, which are at its root.

    tlc -workers 2 -config DurableJobs_delivery.cfg MCDurableJobs   # a run
    tlapm DurableJobsProofs.tla                                    # proofs

## 1. The system

One Express process (`server.ts` and the routes under `server/`) and one worker
process (`workers/hr-worker.ts`) share a PostgreSQL database and a Redis
instance. Every request of a tenant runs in `withTenant`
(`lib/background-connections.ts`): BEGIN, a tenant setting read by row-level
security, the handler's statements, COMMIT or ROLLBACK. Isolation is
READ COMMITTED, so what a handler may rely on at commit is exactly what it
locked (`FOR UPDATE`, advisory locks) and what constraints enforce.

| Component | State | Operations | Interacts with | Module |
|---|---|---|---|---|
| Durable background jobs | `outbox_events`, the BullMQ queue, `audit_logs`, `attendance_daily_summary` | insert row and enqueue, recovery scan, run, complete | attendance and leave routes, Redis | `DurableJobs`, `OutboxContract` |
| Email communications | `communication_messages`, its events, a second queue | draft, send, redispatch, cancel, claim, deliver, finalize, reconcile | email provider, permissions, grievances | `CommunicationDelivery`, `MessageContract` |
| Attendance | `time_logs`, `attendance_breaks`, `break_requests`, early departure requests, policies | clock in/out, status, breaks, requests, reviews, policy edits | roster, background jobs | `Attendance` |
| Rostered shifts, shift swaps | `roster_shifts`, `shift_swap_requests`, assignment history | save, cancel, ask, respond, decide, withdraw | attendance, leave | `ShiftSwap` |
| Leave requests | `leave_requests`, roster conflicts | request, cancel, approve, reject | roster, approval chain | `Leave` |
| Payroll, compensation, loans | payroll records, loans and their payments, salaries | run, approve, pay, cancel, grant and settle loans, change a salary | attendance summaries | `Payroll` |
| Document extraction | extraction jobs, temporary files | upload, extract, expire, delete | object storage, providers | `DocumentExtraction` |
| Expense claims | claims, idempotency keys | submit, withdraw, decide, reimburse | document extraction, approval chain | `ExpenseClaims` |
| QR attendance tokens | tokens of badges, labels and invites | issue, rotate, revoke, consume, expire | background jobs, onboarding | `QrTokens` |
| Assets, resignations | equipment, assignments, licences, resignation requests | assign, return, report, lose, retire; seats; resign, review, process | employees | `Assets` |
| Sessions, passkeys, password reset | sessions, challenges, reset links, a limiter in memory | sign in, reset, revoke, clean up | every route | `Accounts` |
| Organisation, roles, delegations | roles, assignments, reporting lines | assign, revoke, archive, delegate | every permission check | `Authority` |
| Hiring and onboarding | jobs, applicants, offers | apply, move, offer, answer, hire | organisation, mail | `Hiring` |
| Company feed and drafts | posts, drafts with versions; a form, a save queue and a local buffer in each tab | type, save, restore, discard, publish | storage | `FeedDrafts` |
| Grievances, performance and recognition | one table family each | single-record life cycles | communications | - |
| Intelligent router | candidates, examples of the tenant, shared candidates and corpus, a privacy mode | classify, propose; confirm, review, promote, contribute, share | all of the above, an embedding provider | `RouterLearning` |
| Roster goals, locations, notifications, support, dashboards, audit trail | one table each | single-row changes and reads | - | - |
| Migrations, seeding, browser application | - | scripts and rendering | - | - |

Where the behaviour is hard:

- **Two stores, no common commit.** Background work is a row in PostgreSQL and
  a job in Redis. Either may be lost, late, repeated or out of date.
- **At-least-once delivery** of jobs whose effects (an audit row, an email) must
  happen once. A stalled job is run again while its first worker still runs.
- **Check, then act** across statements of one transaction and across
  transactions: policies, schedules, shift owners and permissions change
  between the check and the write unless a lock forbids it.
- **Timeouts** that end the wait and not the operation.
- **A recovery scan** with a limit.
- **Nothing to lock**: a first payroll run, a first claim of a key and a first
  draft have no row yet; a unique key or an advisory lock must take its place.
- **A client with its own state**: the feed's draft is edited in several tabs
  that retry, restore and share a local copy.

What makes each component correct, in one line: background work that became
durable is done, once; an email is delivered at most once, as it was queued,
and its recorded outcome is true and final; nobody is on a break outside an
open shift, and what a clock-out recorded is what had been authorised; nobody
holds two overlapping shifts and a swap is applied as a whole on current
state; leave is decided once and the shifts it clashes with are on record; the
books of a loan balance and a decided payroll record is not overwritten by a
re-run; uploads stay within the limit; a submission sent twice makes one claim;
an invite opens its door once and a revocation holds; the inventory agrees with
who holds what; a reset leaves neither a link nor a session behind and a
challenge admits once; a company keeps an HR administrator and no archived role
is held; nobody is hired past the headcount or after a rejection; a draft is
published by one post; near phrasings teach the router one intent, and nothing
a tenant taught it is shared while the tenant does not share.

## 2. Plan

Written, in this order of importance:

1. `DurableJobs` with its abstract specification `OutboxContract` - the
   mechanism every asynchronous effect relies on.
2. `CommunicationDelivery` - the second queue, with an external effect, and its
   abstract specification `MessageContract`.
3. `Attendance` - the routes with the most interleaved checks.
4. `ShiftSwap` - transactions over several rows and a non-deferrable constraint.
5. `Leave` - decisions on leave and the roster editor write the same conflict
   rows from opposite ends, with opposite lock orders.
6. Proofs about the first five: `DurableJobsProofs`,
   `CommunicationDeliveryProofs`, `ShiftSwapProofs`, `LeaveProofs`,
   `AttendanceProofs`.
7. The rest of the routes with overlapping transactions: `Payroll`,
   `DocumentExtraction` and `ExpenseClaims`, `QrTokens`, `Assets`.
8. The office: `Accounts`, `Authority`, `Hiring`, `FeedDrafts`, `RouterLearning`.
9. Proofs about both, and about their composition: `WorkforceProofs`,
   `AccountsProofs`, `OfficeProofs`; those about `QrTokens` are part of
   `AttendanceProofs`.

Worth doing next: more of the roster (goals, override reasons), of delegations and
of onboarding tasks.

## 3. Modules

Conventions: `Tenant` declares what the modules of a tenant's records share
(employees, those of them whose records are followed, NULL). A handler that runs as one transaction without waiting for another
is one action. A handler whose checks and writes can be separated by another
transaction is split at that point: a `...Reads` or `Decide` action takes the
locks the code takes and stores what the code holds in local variables, a
`...Commits` action writes and releases, and a roll-back action releases only.
Operators named as variants of an action ("Variant of ...") are the planted bugs
with which each property is shown to be able to fail; no specification uses
them.

### `DurableJobs` (and `OutboxContract`)

`lib/durable-background.ts`, `lib/hr-background.ts`, `lib/queue-bounds.ts`,
`workers/hr-worker.ts`, `server/attendance/attendance-rollup.ts`.

| Code | Model |
|---|---|
| domain transaction (clock-in, break...) commits | `Commit` |
| `INSERT INTO outbox_events` in `durableEnqueue`, or its failure | `InsertRow`, `LoseRequest` |
| `boundedQueueOperation(queue.add)`: landed, landed late, or lost | `DirectAdd`, `DirectAddFails` |
| `dispatchPendingBackground`: the query, each add, an add that fails | `StartScan`, `ScanAdd`, `ScanFails` |
| BullMQ hands out a job | `Take` |
| `writeAuditLog` | `WriteAuditLog` |
| `rollupAttendanceDailySummary`: lock and read; upsert and commit | `BeginRollup`, `CommitRollup` |
| `completeBackground`, then the processor returns or throws | `CompleteBackground`, `Ack`, `Fail` |
| worker dies; job lock expires; finished jobs trimmed; Redis loses data | `Crash`, `Stall`, `Evict`, `RedisLoss` |

A summary is abstracted to the set of events it accounts for, an audit row to a
count per request. All events belong to one employee and one day, the unit the
advisory lock serialises. `Stall` may happen to a live worker too: BullMQ
declares a job stalled when its lock was not renewed in time, and the first
worker goes on.

`OutboxContract` is what callers may assume of an audit request: it becomes
durable, then takes effect once. `DurableJobs` implements it under the mapping
`asked <- inserted audit rows`, `effect <- audit rows written`.

### `CommunicationDelivery` (and `MessageContract`)

`server/communications/communications-queue.ts` and the message routes of
`communications-routes.ts`. `processMessage` is three transactions and an
external call: the claim (`ClaimSkips`, `ClaimRevoked`, `ClaimTooOld`,
`ClaimSends`), `CallProvider`, `Finalize`, then `Complete` or `JobFails`;
`DatabaseError` is a transaction that throws: that of the claim, the look at the
tenant just before the call, or that of the outcome. `Reconcile` is the failed-job
listener, `ReconcileLost` its loss. The clock is the age of the first attempt in
three steps: below 20 hours (the code's limit), below 24 hours (how long the
provider remembers an idempotency key, from how `lib/email.ts` uses it), beyond.
A claim may be overtaken by time before the provider is called. `FlipSender` and
`FlipCase` change whether the sender may send, which the code recomputes from
roles and grievance access.

`MessageContract` is what a sender may count on: a message goes out at most once
and with the text it was submitted with, never when it was withdrawn before its
first attempt; it is reported sent only after it went out, and what was reported
stays. `CommunicationDelivery` implements it under the mapping `stage <- status`
with queued and sending both "underway", `begun <- first_attempt_at is set`,
`mailed <- deliveries`, `letters <- the contents the provider was called with, once
one was delivered`.

### `Attendance`

`server/attendance/*.ts`, `server/breaks/break-request-routes.ts` and the
constraints of the two migrations they rely on, for one employee. Locks are
explicit: `ruleLock` is the advisory lock of the attendance policy and `rowLock`
the row lock of a time log. `clock-status`, `clock-out` and `breaks/start` are
split between their reads and their writes. Time is a small discrete clock that
may advance at any point; a departure is early when time remains to the
effective end (`EffectiveEnd`: approved departure, else scheduled end).
`clock-status` binds a schedule to a log it read without lock, as the code does.

### `ShiftSwap`

`server/roster/shift-swap-routes.ts`, `roster-shift-routes.ts`, the swap
migrations and `roster_shifts_no_overlap`. `Validate` locks both shifts, `Free`
is the overlap query over rows it does not lock, and each transaction holds its
locks until it commits or rolls back. `Admits` is the exclusion constraint as
PostgreSQL applies it to an UPDATE of two rows, checked as each row changes.
`AddShift`, `EditShift` and `CancelShift` are the roster editor, `ClockIn` and
`ClockOut` the attendance routes as far as the approval looks at them.

### `Leave`

`server/leave/leave-routes.ts`, `legacy-leave-routes.ts`, the save, cancel and
conflict code of `roster-shift-routes.ts`, and the trigger
`obsolete_leave_roster_conflicts_for_shift`. Days and hours are numbers: a shift
is a half-open span of hours given in days, a leave a closed span of days.

| Code | Model |
|---|---|
| `POST /api/me/leave-requests`: collision query; INSERT and COMMIT | `CreateReads`, `CreateCommits` |
| `POST /api/leave-requests`, `PATCH /api/leave-requests/:id/status` | `LegacyCreate`, `LegacyStatus` |
| cancel and reject under the row lock | `Cancel`, `Reject` (both `Decides`) |
| `decide('approved')`: row lock and overlap query | `ApproveReads` |
| `detectApprovedLeaveConflicts`: selection; each row lock; upserts and COMMIT | `DetectSelects`, `LockShift`, `ApproveCommits` |
| `saveRosterShift`: advisory lock and overlap query; the write | `SaveReads`, `SaveWrites` |
| `recordApprovedLeaveConflictsForShift`: selection; each row lock; upserts and COMMIT | `SaveSelects`, `LockRequest`, `SaveCommits` |
| `PATCH /api/roster/shifts/:id/cancel`, an applied swap | `CancelShift`, `SwapOwners` |
| ROLLBACK, for whatever reason | `Rollback` |

`SELECT ... FOR UPDATE` is two things: a selection from what is committed, and a
lock on each row, in the order of ids, that reads the row again. The rows one
transaction has written show to others when it commits; the exclusion
constraint (`Fits`) meets them before. `unseen` is the one auxiliary variable:
the pairs of a request and a shift that may clash although neither of the two
transactions could have read the other, or because a legacy approval or a swap
looks for nothing; a save or an approval that finds the pair takes it out.
`ShiftSwap` models the swap in full; here it is one step.

### `Payroll`

`server/payroll/payroll-routes.ts`, `loan-routes.ts`, `compensation-routes.ts`.
A run is one transaction over many employees, in the order in which it finds
them. For each it either locks the draft of the period (`FindDraft`), or finds
none and plans the instalments of the active loans it locks one by one
(`FindNoRecord`, `LockLoan`, `LoansLocked`), and upserts the record under its
unique key (`UpsertPayroll`). Locks are kept to `CommitPayroll` or
`RollBackPayroll`. Status changes of records and loans and salary changes are one
guarded step each. Of a payslip only the loan deduction is kept. `waived` is
auxiliary: the balance of a loan that was marked paid by hand.

### `DocumentExtraction` and `ExpenseClaims`

`server/document-extraction/extraction-service.ts`. An upload is a transaction
that sweeps expired jobs and looks for a duplicate (`UploadAgain`,
`BeginUpload`), waits for the tenant's advisory lock and counts
(`EnforceLimits`), inserts and commits (`CommitUpload`); the provider's call;
and a second transaction for its outcome (`ProviderAnswers`, `ProviderFails`).
`UploadCrashes` is the death of the server at any point.

`server/expenses/expense-routes.ts` extends it, since a claim may be made from
an extracted receipt: `BeginSubmit` takes the advisory lock of the idempotency
key and looks it up, `CheckReceipt` reads the extraction job, `InsertClaim`
inserts under both unique keys. `CancelClaim`, `DecideClaim` and `Reimburse` lock
the claim and are one step.

### `QrTokens`

`server/qr/qr-token-service.ts` and the worker's expiry job. A rotation finds
the active token in one transaction (`FindToken`), locks it (`RotateReads`) and
writes twice (`RotateWrites`); a revocation acts on an id read before. An invite
has a family, the token it was first issued as, whose expiry its rotations
inherit.

### `Assets`

`server/assets/asset-routes.ts`, `asset-evidence-routes.ts` and
`server/resignations/resignation-routes.ts`. `OpenAsset` and `OpenLicence` are the
`FOR UPDATE` read and its checks; one action per operation writes and commits.
The check for a pending resignation locks nothing (`ResignChecks`,
`ResignCommits`). `ProcessResignation` records equipment that is still out and,
as the code, takes nothing back.

### `Accounts`

The authentication routes of `server.ts`. The password is a version which a
reset increments. Each route asks the limiter first (`StartPassword`,
`StartOptions`, `StartPasskey`) and reads the account later. A sign in checks the
password (`CheckPassword`) or consumes a challenge (`FindChallenge`,
`LockChallenge`, `PasskeyAdmits`) in one transaction and inserts its session in
another (`OpenSession`). What a failure does to the limiter depends on the route:
the catch of the passkey route counts every error, that of a session that cannot
be inserted after the count was cleared included (`PasskeyFails`, `server.ts:2778`);
the password route answers 500 and counts nothing (`AttemptFails`). The limiter is
in memory; `ServerRestarts` forgets it and every request in flight. A reset holds
the link, then the employee, then updates links and sessions (`LockLink`,
`LockEmployee`, `FinishReset`); two resets of one employee wait for each other and
one is aborted (`AttemptFails`).

### `Authority`

`server/organisation/organisation-routes.ts`, `legacy-role-routes.ts`,
`final-hr-admin.ts`. An assignment has an interval of instants. Assigning,
revoking and archiving are each split between their checks, with the locks they
take, and their commit; the legacy assignment reads the role without a lock, as
the code does.

### `Hiring`

`server/hiring/hiring-routes.ts`, `ats-routes.ts`, `hiring-depth-routes.ts`,
`employee-onboarding.ts`. A hire locks the applicant (`HireReads`), then the job
(`HireLocksJob`), converts and commits (`HireCommits`) or is refused: the job takes
nobody, or the conversion rolls back, for an address in use, a hiring manager who
left or a failing statement (`HireRefused`). Stages and offers change under one row lock and are one step. `reopened` is auxiliary: how
often a job was opened again by hand, which the code allows at any time.

### `FeedDrafts`

`hooks/useCompanyFeedDraft.ts`, `lib/document-save-queue.ts`, the draft and
publishing routes of `company-feed-routes.ts`. A text is the set of edits it
contains. A save may be lost before it arrives, lose its answer, be retried
with the version it started from, or be given up and still arrive (`stray`).
Restoring and discarding await their answer outside the queue of saves, so each is
split (`BeginRestore`, `RestoreReads`, `RestoreAnswered`; `BeginDiscard`,
`DiscardArrives`, `DiscardAnswered` or `DiscardFails`), and a save or a post may
start, arrive and be answered between the parts: `call` is what a tab waits for.
`TabStep` has what a tab does, `PostReads` and `PostCommits` the publishing
transaction, which locks the draft and marks it published with the post.

### `RouterLearning`

`server/intelligent-router/store.ts`, `semantic-admin.ts`, the candidate routes of
`routes.ts` and the indexes and row policies of their migrations. A confirmation
reads the pending candidate without a lock and does not ask again when it updates
(`BeginConfirm`, `CommitConfirm`), so it may confirm what was decided meanwhile. A
promotion
reads the candidate and its duplicates (`BeginPromotion`), waits for an embedding
outside every lock, then locks candidate, phrase and vector space and looks
again (`CheckPromotion`), and commits (`CommitPromotion`). The phrase lock and the
space lock are one variable, since whoever holds the first goes on to wait for
the second. A contribution and a shared review keep the privacy lock from their
reads to their commit (`BeginContribution`, `BeginSharing`). A vector is what its
text is `Near` to; the classification shown to a reviewer changes no decision of
the server and is left out, as are the rules for text that may be shared and the
examples of the system, which refuse a promotion or make it a duplicate as those
of the corpus do. A candidate expires by being promoted no more.

### MC modules

`MCDurableJobs`, `MCCommunicationDelivery`, `MCShiftSwap` and `MCLeave` define
values for constants and symmetry sets. `MCWorkforce` and `MCOffice` run several
modules as one system: their tables are disjoint and no handler of one reads a
row of another, so an interleaving of two parts adds nothing, and a behaviour
exercises one part, its `focus`, while the others rest in an initial state.

## 4. Runs

Passing runs:

| Run | Instance | Shows |
|---|---|---|
| `DurableJobs_delivery` | 2 events of a day, one with an audit row and one with a rollup, 2 workers, 2 attempts, 1 Redis loss | `ProcessedRollupIsReflected`, `SummaryNeverRegresses`, `ImplementsContract` |
| `DurableJobs_live` | 1 event, 1 worker, 1 attempt, 1 stall, fair | `EveryRowSettles` |
| `Communication_delivery` | 1 message, 2 workers, 2 attempts, 1 stall, 1 edit, 1 permission change, 1 Redis loss and its redispatch, 1 lost reconciliation | `DeliveredAtMostOnce`, `CompletedJobIsSettled`, `UnattemptedCodesAreTrue`, `KeepsPromise` |
| `Communication_live` | a case-linked message, 1 worker, 1 permission change, no reconciliation lost, fair | `FailedJobIsReconciled`, `JobSettlesMessage` |
| `ShiftSwap_exchange` | 2 employees, 3 shifts in 2 slots, 2 swaps, 2 transactions, 1 roster edit, 1 clock-in | `NobodyDoubleBooked`, `AppliedSwapsAreRecorded`, `DecisionsAreCurrent` |
| `Leave_conflicts` | 2 employees, 2 requests, 2 shifts on 2 days, 2 transactions, 3 roster edits, legacy routes in use | `OpenConflictIsReal`, `ClashIsRecorded`, `NobodyWaitsInACircle` |
| `Workforce` | two overlapping requests in each part; see below | `WorkforceTypeOK`; breaks: `BreaksInsideOpenShift`, `RequestConsumedOnce`, `PolicyHonoured`; departures: `DepartureIsRecorded`, `EarlyNeedsConfirmation`; payroll: `LoanBooksBalance`, `RerunKeepsDecisions`; extraction: `ProcessingWithinLimit`; claims: `RetryIsAnswered`; qr: `InviteAdmitsOnce`, `RevocationHolds`; assets: `InventoryAgrees` |
| `Office` | two overlapping requests in each part; see below | `OfficeTypeOK`; accounts: `FailuresBounded`, `ResetSpendsLinks`, `ChallengeAdmitsOnce`; authority: `RevocationKeepsAdmin`, `ArchiveFindsNone`; hiring: `HeadcountKept`, `DecisionStands`; tabs and retries: `PublishedOnce`; promotions and sharing: `ReviewsHold`, `SharedWithConsent` |

`RerunKeepsDecisions` exempts a run that found no record of the period: of two
first runs the later one waits at the unique key and resets what was approved
meanwhile, although `docs/payroll-qa.md:19` says finalized records cannot be
re-run.

Runs that find a disagreement between the code and what the repository says:

| Run | Claim | What TLC shows |
|---|---|---|
| `DurableJobs_starved` | `docs/operations.md:33`: pending rows are periodically re-enqueued | `PendingRowIsReenqueued` fails: rows whose job failed for good stay unprocessed, hence oldest, and fill `LIMIT 100` (here 1) for ever |
| `Communication_lost_listener` | `communications-queue.ts:86`: a terminal failure never leaves a message in "sending" | `FailedJobNotSending` fails: the reconciliation is not awaited and is not repeated when its process dies |
| `ShiftSwap_overlapping` | `shift-swap-routes.ts:28`: validates the proposed ownership change | `ValidatedSwapApplies` fails: two shifts that overlap each other pass validation and the constraint refuses the exchange every time |
| `Leave_double` | `leave-routes.ts:588`: "This employee already has approved leave in the requested date range." | `ApprovedLeaveNeverOverlaps` fails: two requests created, then approved, at the same time each miss the other; no lock or constraint covers the pair |

**Bounds and why they are enough.** Every hazard of section 1 needs two actors
at most: two workers on one job, two transactions on one shift. Two workers,
two transactions, two competing swaps and two events of one day give each of
them. One stall and one retry suffice for a second run of a job while the first
is under way; one Redis loss for a row whose job is forgotten. The audit and the
rollup jobs do not touch each other's tables, so an event with one of them each
is enough; stalls are met in `DurableJobs_live` and by the proofs. Three roster
edits let a shift be put on a day of leave, moved away and put back. The recovery limit is 2 in the passing runs, where it never
bites, and 1 in the run about it. MaxHour 2 in Attendance gives a moment before,
at and after each boundary of the roster. Symmetry is used over identities
(workers, transactions, employees, shifts, swaps) in safety runs only.
`CHECK_DEADLOCK FALSE` is set where the system comes to rest by design: every
message settled, every bound used, every request decided.

The bounds of `Workforce` and `Office` are operators of their MC modules. Rows of
a table are interchangeable, so they are inserted in the order of their ids
(`InOrder`). Breaks are followed in one shift whose roster does not change
(`OneShift`), departures in two shifts, or in one with a break, under a policy
that does not (`OneBreak`): a break never outlives its shift and a policy is
not read by a clock-out. Claims run with one document, extracted
before the first claim (`OneExtraction`), which is enough for a receipt that expires or is deleted while
it is claimed; the extraction alone has two uploads of two documents and a limit
of one. Tokens come in two families (`TwoFamilies`) with three rows, a token, its
rotation and a rotation of that. Equipment and licences share no row, so seats
change hands while no equipment is out (`OneStock`). Payroll has one employee, two periods and one
loan of two instalments, with two runs of either period. Hiring has two
applicants and two offers for one job of headcount one; the second applies once
the first is at the offer or decided, and only where the first had no account
before, the day passes once there is an offer, and the last change of the job by
hand opens it again (`HiringBound`): two hires still overlap, and the walk up to
the offer touches one row only. Two tabs save and publish, none of their saves
retried or late (`NoRetries`), one tab does with both (`OneTab`): a late save
carries the version it expects, whichever tab sent it. A tab restores a draft
it has seen, or opens the page on one, one tab at a time; of two tabs it is one that
opens or has met a conflict, while the other's queue is idle; in one tab, which also
discards, it is before the first retry and before a post is sent (`CallBound`). What
overlaps a restore is then a save or a post of the same tab, and whatever the other
tab starts after it. The learning has two
candidates of near texts or of one text in a tenant that shares nothing
(`TwoCandidates`), or one candidate that may be shared (`OneCandidate`): the near
texts of the corpus are what a shared review chooses.

Counters (attempts, stalls, Redis losses, edits, the clock) are bounded by
constants named in each module; attempts and stalls are bounds of the code
itself, with its larger values reduced.

## 5. Fairness

`DurableJobs!Fairness`: the recovery timer fires every five seconds (weak
fairness of `StartScan`), Redis accepts an add again and again and BullMQ serves
waiting jobs in turn (strong fairness of `ScanAdd` and `Take`: a failed pass or
a busy worker disables them only for a while), PostgreSQL grants a contended
advisory lock in turn (strong fairness of `BeginRollup`), BullMQ's stalled check
finds an active job nobody works on (weak fairness of `Stall` on an orphaned
job), and a running processor goes on. `InsertRow` or `LoseRequest` happens to a
request that is due. Nothing is assumed of direct adds, failures, crashes,
evictions and Redis losses: they may always or never happen.

`CommunicationDelivery!Fairness` is the same for the other queue: `Take` in
turn, orphaned jobs found, a running attempt goes on, and a started
reconciliation is carried out unless it is lost. It assumes no redispatch by a
user.

## 6. Proofs

All theorems hold for every value of the constants that satisfies the named
assumption of the module they are about (`DurableJobsAssumption`,
`CommunicationAssumption`, `ShiftSwapAssumption`, `LeaveAssumption`,
`AttendanceAssumption`, `PayrollAssumption`, `ExtractionAssumption`,
`ClaimsAssumption`, `QrAssumption`, `AssetsAssumption`, `AccountsAssumption`,
`AuthorityAssumption`, `HiringAssumption`, `FeedAssumption`,
`LearningAssumption`, and `TenantAssumption` of those that extend `Tenant`), with
no bound on workers, events, messages, shifts, requests, transactions, tokens,
applicants, drafts, examples, attempts or stalls. The assumptions say that NULL
is no row, which constants are numbers, and that `Near` is reflexive and
symmetric. Beyond that, `AccountsAssumption` asks for finitely many requests and a
limit above one failure (`MAX_LOGIN_ATTEMPTS` is 5, `server.ts:169`),
`LeaveAssumption` for finitely many transactions (the connections of a pool),
`PayrollAssumption` for finitely many periods and loans, and
`ExtractionAssumption` for finitely many jobs: what is summed or counted is a
table.

- `DurableJobsProofs`: `Invariance`, `TypeCorrect`, `AuditWrittenOnce`,
  `RollupNotLost`, `NothingStuckBehindCompletedJob`, `SummaryIsMonotone`,
  `RefinesContract`. None of the properties is inductive alone. What they need,
  and `InductiveInvariant` adds, is `WorkerIsSound`: between its actions a
  worker holds the day's lock while it carries a snapshot, the snapshot covers
  its own event and all the summary has, and after its work its effect is in
  place; `RequestsAreCommitted` and `NamedRowsAreInserted` tie jobs, scans and
  workers to rows that exist. Refinement then goes action by action: `InsertRow`
  of an audit row is `Ask`, a `WriteAuditLog` that finds the row unprocessed is
  `Do`, everything else stutters.
- `CommunicationDeliveryProofs`: `Invariance`, `TypeCorrect`, `SentOnce`,
  `PayloadIsFrozen`, `SentIsAccepted`, `CompletedIsSettled`,
  `UnattemptedIsTrue`, `OutcomeIsFinal`, `FailureIsReconciled` (the last one
  under the hypothesis that no listener is lost, without which
  `Communication_lost_listener` refutes it). The strengthening says that nothing
  reaches the provider before the first attempt is marked (`CallsAreMarked`),
  that a message that left "draft" is no longer edited (`QueuedIsFrozen`), what a
  worker carries in each phase (`WorkersAreRight`) and when a failure code may
  appear (`CodesAreRight`). `RefinesMessageContract` needs one invariant more,
  `MailWasCalled` (a delivered message has a content the provider was called
  with), and goes step by step: `SaveDraft` is `Edit`, `Send` is
  `Submit`, `Cancel` is `Withdraw`, the first claim of a message is `Begin`, the
  first accepted call is `GoOut`, an outcome is `Confirm` or `GiveUp`, everything
  the queue does stutters.
- `ShiftSwapProofs`: `Invariance`, `TypeCorrect`, `NoDoubleBooking`,
  `ExchangeRecordedOnce`, `DecidedOnCurrentState`, `DecisionIsFinal`. The
  strengthening is that a running transaction holds the locks of what it read,
  which is therefore still true (`TransactionsHoldWhatTheyRead`), and that a
  swap's version identifies its active status (`VersionsCount`).
- `LeaveProofs`: `Invariance`, `TypeCorrect`, `ConflictsAreReal`,
  `ClashesAreRecorded`, `DecisionIsFinal`. The strengthening is `Holding` (what a
  running transaction locked is as it read it, and approved leave selected by a
  save stays approved), `FindsAll` (a detection that has selected its rows
  misses only pairs in `unseen`) and `RacesAreNoted`. Steps that write no table
  go through the lemma `QuietStep`, those that write a request or shifts through
  `RequestChange` and `ShiftChange`, which say what such a step must leave alone.
  `OrderInvariance` and `NobodyWaitsForever` are about approvals, which lock a
  request and then shifts, and saves, which lock a shift and then requests.
  `OrderInvariant` adds `LocksInOrder`: behind the one row its work is about, a
  transaction locks rows in the order of their ids. A save that records conflicts
  waits for approved leave; an approval holds a pending request, so only another
  such save can hold that, one further up the ids. A circle of them would climb for
  ever, while the transactions, being finitely many, have one that is furthest
  (`NoEndlessClimb`, from the library's `WFMin`). So no such save is part of a
  circle, the same then follows for approvals that wait for shifts, and a save
  that waits for its own shift holds nothing.
- `AttendanceProofs`, attendance: `AttendanceInvariance`,
  `AttendanceTypeCorrect`, `BreaksStayInside`, `RequestsAreConsumedOnce`,
  `DeparturesAreRecorded`, `EarlyIsConfirmed`, `PoliciesAreHonoured`,
  `ShiftsAreBoundOnce`. The strengthening is `ShiftsAgree` (what a time log, its
  break and its departure say of each other) and `TransactionHolds`: a transaction
  that starts a break holds the lock of the policy and what the rules permitted
  when it looked, one that clocks out knows the end it is authorised to leave at.
  The lemma `HoldsStay` says which changes of the tables leave that true; each
  action is then shown to be one of them.
- `AttendanceProofs`, QR tokens: `QrInvariance`, `QrTypeCorrect`,
  `InvitesAdmitOnce`, `RevocationIsKept`. The strengthening is that an invite's
  family has at most one row that opens a door (`OneOpens`), that a rotation holds
  the active token it read, and that a row is blank until it is inserted.
- `WorkforceProofs`, payroll: `PayrollInvariance`, `LoanBooksAlwaysBalance`,
  `RerunsKeepDecisions`. The balance is about sums over all periods, and what a run
  deducts is a sum over loans. The prover cannot do induction over sets, so the
  module proves the facts it needs of `Total` (a sum exists, is unique, does not
  change where its terms do not, grows by what one term grows) each by the
  smallest subset that would contradict it, which is well founded (`WFMin` over
  proper inclusion of finite sets). The strengthening is that an instalment a run
  has planned is at most the balance of a loan it holds (`PlansAreLocked`), that a
  draft it will write over is locked and still a draft (`DraftsAreLocked`), and
  what a run knows at each point (`RunsAreWhole`).
- `WorkforceProofs`, extraction and claims: `ClaimsInvariance`,
  `ProcessingIsBounded`, `RetriesAreAnswered`. Uploads count under the admission
  lock, which they hold to the insert (`CountIsCurrent`); only the upload that
  waits for the provider completes its job (`ProviderOwnsJob`); a submission holds
  the lock of its key, under which nobody has claimed (`KeyIsFree`).
- `WorkforceProofs`, assets: `AssetsInvariance`, `InventoriesAgree`. A request
  holds the row it works on (`WorkIsLocked`), and what it read is still so
  (`WorkIsCurrent`).
- `AccountsProofs`, accounts: `AccountsInvariance`, `AccountsTypeCorrect`,
  `GuessesAreBounded`, `ChallengesAdmitOnce`, `ResetsSpendLinks`.
  `FailuresCounted` says that an account that is not locked has fewer failures
  than the limit, and that once it is locked its failures and the requests let in
  before, which may still fail, together stay below the limit plus the number of
  requests. A passkey request may fail until its session is inserted, so it is
  counted among those (`Guessing`) although its success cleared the count.
  `AttemptsHold` says that a request holds the open challenge or the
  fresh link it locked.
- `AccountsProofs`, authority: `AuthorityInvariance`, `RevocationsKeepAnAdmin`,
  `ArchivesFindNone`. A revocation that looked under the authority lock would still
  leave an administrator (`RevocationsAreSafe`), since whoever writes an assignment
  holds that lock. A role being archived is locked and unheld
  (`ArchivesAreSafe`): the older route checks without that lock, and its INSERT
  waits for it at the foreign key.
- `OfficeProofs`, hiring: `HiringInvariance`, `HiringTypeCorrect`,
  `HeadcountHolds`, `DecidedStageStands`. The strengthening is `HiresHold` (a hire
  holds its applicant, then the job, and has seen the stage) and `PlacesAreLeft` (a
  job that accepts a hire was opened by hand and has a place left).
- `OfficeProofs`, the feed: `FeedInvariance`, `DraftsPublishOnce`. A tab may hold
  any old answer, of its queue or of a restore, so nothing is asked of tabs but
  that answers of saves are records (`AnswersHaveRecords`); the server's rows carry the argument (`ServerHolds`): a
  post that is about to commit holds its draft, which is still active
  (`PostsHoldDrafts`), one draft is active at most (`OneIsActive`), and a published
  draft names a post (`PostsAreNamed`).
- `OfficeProofs`, the router's learning: `LearningInvariance`,
  `ReviewsAlwaysHold`, `SharingNeedsConsent`. `RequestsHold` says what a promotion,
  a contribution and a shared review hold locked and what they found, which is so
  until they commit; an embedding in flight holds nothing, and nothing is claimed of
  it. `OfferedIsOpen` says that what was offered is of no private candidate.
- Composition: `WorkforceImplementsItsParts` and `OfficeImplementsItsParts` show
  that a behaviour of the composed system is one of each part, step or stutter, so
  every theorem about a part holds of the composition; `WorkforceIsTyped` and
  `OfficeIsTyped` draw the first conclusion.

Some properties these theorems state (`TypeOK` of the first modules,
`AuditExactlyOnce`, `BoundOnce`, `CompletedJobIsProcessed`, `FrozenContent`,
`TerminalIsFinal`, `DecidedSwapsAreFinal`, `DecisionsAreFinal` and the inductive
invariants) are proved and not among the properties of a run; TLC has checked each
inductive invariant on the instance of its run.

Only model-checked: the liveness properties `EveryRowSettles` and
`JobSettlesMessage`, since temporal reasoning under fairness is out of the
prover's reach. Every invariant and every action property of a passing run is
stated by a theorem.

## 7. Not modelled

The map covers a small part of the repository's lines. Most of the others are
the browser application (pages, panels, translations, effects), tests, scripts and
migrations, and in the routes the parsing of input, SQL text of read-only views,
notifications and wording. What is left of control without a module is listed in
section 1 and in `PROJECT.json` with the reason: roster goals, grievances,
locations and notification settings change one row under its lock; the
recognition of `server/performance/recognition-delivery.ts` is claimed by a
guarded UPDATE over a row it has locked with SKIP LOCKED; what the intelligent
router proposes is carried out by the routes modelled here, and how it understands
a query is data.

Inside the modelled components these are left out: permission
resolution (a flag that may change, or an unconstrained precondition), tenants
(every transaction is confined to one by row-level security, so one tenant is
modelled), audit rows written inside a synchronous transaction (they commit or
vanish with it), notifications, text, geofence arithmetic (a point is inside or
outside), templates and meetings, override reasons, the in-memory store used
when no database is configured, amounts of pay other than loan deductions, hourly
upload quotas, files on disk, delegations, reporting lines and the permissions
of a role, interviews, reviews and onboarding tasks, and the reading and editing
of posts. A rollback of a route undoes the audit row too: the
`approval_conflict` event of `shift-swap-routes.ts:247`, recorded just before the
transaction is rolled back, is never persisted.

Of leave, the states `acknowledged` and `resolved` of a conflict are left out:
the schema has them and no route sets them; shifts are taken to lie in the
future (`end_time>NOW()`). `POST /api/attendance/clock-in-without-location` is in
`Attendance` as `ClockInWithoutLocation`: it opens a shift in every location
mode, which `docs/attendance-policy.md:5` does not mention; no run claims either.

Behaviour the modules contain and no property judges, since nothing in the
repository says what should happen:

- a session inserted after a reset by a sign in that checked the old password
  before it (`server.ts:2187`);
- an archived role assigned through the legacy route, which reads it without a
  lock (`legacy-role-routes.ts:440`);
- two pending resignations of one employee (`resignation-routes.ts:107`);
- an offer accepted by an applicant who was rejected or withdrew
  (`hiring-depth-routes.ts:81`); the hire still asks for the stage;
- a tab that is told of a conflict with its own committed save, whose answer was
  lost, and stops saving (`useCompanyFeedDraft.ts:214`), and one that forgets a
  real conflict when a discard fails and then overwrites the other session's
  draft (`useCompanyFeedDraft.ts:279`);
- a local buffer newer by its clock than the server's draft that replaces it on
  restore, whatever its version (`useCompanyFeedDraft.ts:177`);
- a candidate rejected or approved while its author confirms it, which ends
  confirmed (`routes.ts:172`); a promotion asks for a pending one;
- a form that a restore fills with an answer older than the save that overlapped
  it, whose version it then expects (`useCompanyFeedDraft.ts:180`);
- a candidate whose intent a reviewer changes while it is being promoted: the
  example has the intent read first (`store.ts:62`), the candidate the new one;
- a duplicate deleted between the two looks of a promotion: the candidate is
  approved, nothing is learnt and the answer says `promoted` (`store.ts:94`);
- an example switched on again, or approved shared text of another intent, which
  nobody compares with what was learnt meanwhile (`semantic-admin.ts:88`);
- an early departure request still pending when its shift is clocked out, which
  can never be reviewed (`flexible-attendance-routes.ts:66`);
- a pending swap whose shift is cancelled, which only its requester can end
  (`roster-shift-routes.ts:418`);
- outbox rows lost because they are inserted after the domain change has
  committed (`durable-background.ts:9`).
