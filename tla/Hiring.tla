------------------------------- MODULE Hiring -------------------------------
(***************************************************************************)
(* From an application through the stages and an offer to an employee.     *)
(*                                                                         *)
(*   src/src/server/hiring/hiring-routes.ts, hiring-rules.ts               *)
(*   src/src/server/hiring/ats-routes.ts, hiring-depth-routes.ts           *)
(*   src/src/server/hiring/employee-onboarding.ts                          *)
(*                                                                         *)
(* A hire holds the applicant FOR UPDATE, then the job, and is split at    *)
(* them; a stage change or an offer's handler holds its one row from the   *)
(* first read to the commit and is one step.  Notes, interviews, reviews,  *)
(* hand-off rows, archiving (which no handler reads) and the tasks a new   *)
(* employee is given are left out.                                         *)
(***************************************************************************)
EXTENDS Tenant

CONSTANTS
    Vacancies,         \* hiring_jobs rows
    Applicants,   \* hiring_applicants rows
    JobOf,        \* the job applied for, Null for one entered by hand
    MailOf,       \* the address of each applicant
    Mails,        \* addresses
    Headcount,    \* how many a job may hire
    Offers,       \* hiring_offers rows
    Recruiters,   \* requests of several statements
    MaxDay,       \* bound: the date
    MaxJobEdits   \* bound: status changes of jobs by hand

ASSUME HiringAssumption ==
    /\ JobOf \in [Applicants -> Vacancies \cup {Null}]
    /\ MailOf \in [Applicants -> Mails]
    /\ Headcount \in [Vacancies -> Nat \ {0}]
    /\ {MaxDay, MaxJobEdits} \subseteq Nat
    /\ Null \notin Vacancies \cup Applicants
    /\ Null \notin Recruiters

VARIABLES
    jobStatus,      \* hiring_jobs.status
    stage,          \* hiring_applicants.stage, "none" before the application
    employed,       \* applicants with a hired_employee_id
    registered,     \* addresses that have an account, in any tenant
    offer,          \* hiring_offers
    recruiter,      \* what each request is doing
    applicantLock,  \* FOR UPDATE on hiring_applicants
    jobLock,        \* FOR UPDATE on hiring_jobs
    day,            \* current_date
    jobEdits,       \* status changes made by hand
    reopened        \* how often each job was set to open or paused by hand

hiringVars == <<jobStatus, stage, employed, registered, offer, recruiter, applicantLock, jobLock,
                day, jobEdits, reopened>>
offerVars == <<jobStatus, stage, employed, registered, recruiter, applicantLock, jobLock,
               day, jobEdits, reopened>>

\* HIRING_STAGE_TRANSITIONS.
Onward == [new |-> "screening", screening |-> "hr_review",
           hr_review |-> "hiring_manager_review", hiring_manager_review |-> "interview",
           interview |-> "final_review", final_review |-> "offer", offer |-> "hired"]
Stages == DOMAIN Onward \cup {"hired", "rejected", "withdrawn"}
NextStages(s) == IF s \in DOMAIN Onward THEN {Onward[s], "rejected", "withdrawn"} ELSE {}

JobStatuses == {"draft", "open", "paused", "closed", "filled"}
Outstanding == {"draft", "sent", "accepted"}
Offer == [st : {"none", "rejected", "withdrawn", "expired", "superseded"} \cup Outstanding,
          to : Applicants \cup {Null}, expires : 0..MaxDay, version : Nat, link : BOOLEAN]
NoOffer == [st |-> "none", to |-> Null, expires |-> 0, version |-> 0, link |-> FALSE]
Recruiting == [op : {"idle", "hire", "convert"}, to : Applicants \cup {Null}]
Unoccupied == [op |-> "idle", to |-> Null]

HiringTypeOK ==
    /\ jobStatus \in [Vacancies -> JobStatuses]
    /\ stage \in [Applicants -> Stages \cup {"none"}]
    /\ employed \subseteq Applicants /\ registered \subseteq Mails
    /\ offer \in [Offers -> Offer]
    /\ recruiter \in [Recruiters -> Recruiting]
    /\ applicantLock \in [Applicants -> Recruiters \cup {Null}]
    /\ jobLock \in [Vacancies -> Recruiters \cup {Null}]
    /\ day \in 0..MaxDay /\ jobEdits \in 0..MaxJobEdits
    /\ reopened \in [Vacancies -> 0..MaxJobEdits]
    /\ \A a \in Applicants : applicantLock[a] # Null => recruiter[applicantLock[a]].to = a
    /\ \A j \in Vacancies : jobLock[j] # Null =>
          recruiter[jobLock[j]].op = "convert" /\ JobOf[recruiter[jobLock[j]].to] = j

HiringInit ==
    /\ jobStatus = [j \in Vacancies |-> "draft"]
    /\ stage = [a \in Applicants |-> "none"]
    /\ employed = {} /\ registered \in SUBSET Mails
    /\ offer = [o \in Offers |-> NoOffer]
    /\ recruiter = [r \in Recruiters |-> Unoccupied]
    /\ applicantLock = [a \in Applicants |-> Null]
    /\ jobLock = [j \in Vacancies |-> Null]
    /\ day = 0 /\ jobEdits = 0
    /\ reopened = [j \in Vacancies |-> 0]

DayPasses ==
    /\ day < MaxDay
    /\ day' = day + 1
    /\ UNCHANGED <<jobStatus, stage, employed, registered, offer, recruiter, applicantLock, jobLock,
                   jobEdits, reopened>>

-----------------------------------------------------------------------------
(* Vacancies and applications.                                                  *)

\* Any status may be set at any time, filled to open included.
SetJobStatus(j, st) ==
    /\ jobEdits < MaxJobEdits /\ jobLock[j] = Null /\ st # jobStatus[j]
    /\ jobStatus' = [jobStatus EXCEPT ![j] = st]
    /\ jobEdits' = jobEdits + 1
    /\ reopened' = IF jobStatus[j] \notin {"open", "paused"} /\ st \in {"open", "paused"}
                   THEN [reopened EXCEPT ![j] = @ + 1] ELSE reopened
    /\ UNCHANGED <<stage, employed, registered, offer, recruiter, applicantLock, jobLock, day>>

\* FOR SHARE waits for a hire; one entered by hand belongs to no job.
Apply(a) ==
    /\ stage[a] = "none"
    /\ JobOf[a] # Null => jobStatus[JobOf[a]] = "open" /\ jobLock[JobOf[a]] = Null
    /\ stage' = [stage EXCEPT ![a] = "new"]
    /\ UNCHANGED <<jobStatus, employed, registered, offer, recruiter, applicantLock, jobLock, day,
                   jobEdits, reopened>>

-----------------------------------------------------------------------------
(* The stages: POST stage and POST handoff.                                *)

\* Somebody who applied for a job is hired through an offer only.
ChangeStage(a, target) ==
    /\ applicantLock[a] = Null
    /\ target \in NextStages(stage[a])
    /\ target = "hired" => JobOf[a] = Null
    /\ stage' = [stage EXCEPT ![a] = target]
    /\ UNCHANGED <<jobStatus, employed, registered, offer, recruiter, applicantLock, jobLock,
                   day, jobEdits, reopened>>

-----------------------------------------------------------------------------
(* Offers.                                                                 *)

Of(a) == {o \in Offers : offer[o].to = a}
Stale(a) == {o \in Of(a) : offer[o].st = "sent" /\ offer[o].expires < day}

\* A unique index keeps one offer outstanding; those sent and past their
\* date are expired first.
CreateOffer(o, a, expires) ==
    /\ applicantLock[a] = Null /\ offer[o].st = "none"
    /\ stage[a] = "offer" /\ a \notin employed /\ expires >= day
    /\ \A p \in Of(a) \ Stale(a) : offer[p].st \notin Outstanding
    /\ offer' = [p \in Offers |->
            IF p = o THEN [NoOffer EXCEPT !.st = "draft", !.to = a, !.expires = expires, !.version = 1]
            ELSE IF p \in Stale(a) THEN [offer[p] EXCEPT !.st = "expired"] ELSE offer[p]]
    /\ UNCHANGED offerVars

\* That the mail with the offer was delivered is the sender's to show.
MoveOffer(o, st) ==
    /\ st \in CASE offer[o].st = "draft" -> {"sent", "withdrawn"}
                [] offer[o].st = "sent" -> {"accepted", "rejected", "withdrawn", "expired"}
                [] OTHER -> {}
    /\ st \in {"sent", "accepted"} => offer[o].expires >= day
    /\ offer' = [offer EXCEPT ![o].st = st]
    /\ UNCHANGED offerVars

LinkOffer(o) ==
    /\ offer[o].st \in {"draft", "sent"} /\ offer[o].expires >= day
    /\ offer' = [offer EXCEPT ![o].link = TRUE]
    /\ UNCHANGED offerVars

\* A revision replaces the offer and its link; the new row waits for the
\* applicant through its foreign key.
ReviseOffer(o, n, expires) ==
    /\ offer[o].st \in {"draft", "sent"} /\ offer[n].st = "none" /\ expires >= day
    /\ applicantLock[offer[o].to] = Null
    /\ offer' = [offer EXCEPT
            ![o] = [@ EXCEPT !.st = "superseded", !.link = FALSE],
            ![n] = [NoOffer EXCEPT !.st = "draft", !.to = offer[o].to, !.expires = expires,
                                   !.version = offer[o].version + 1]]
    /\ UNCHANGED offerVars

\* The candidate answers through the link; nobody looks at his stage.
RespondOffer(o, st) ==
    /\ offer[o].link /\ offer[o].st = "sent" /\ offer[o].expires >= day
    /\ offer' = [offer EXCEPT ![o].st = st]
    /\ UNCHANGED offerVars

-----------------------------------------------------------------------------
(* The hire: applicant, accepted offer, job, then the conversion.          *)

Starts(r, a, op) == recruiter' = [recruiter EXCEPT ![r] = [op |-> op, to |-> a]]

Finishes(r) ==
    /\ recruiter' = [recruiter EXCEPT ![r] = Unoccupied]
    /\ applicantLock' = [a \in Applicants |->
                            IF applicantLock[a] = r THEN Null ELSE applicantLock[a]]
    /\ jobLock' = [j \in Vacancies |-> IF jobLock[j] = r THEN Null ELSE jobLock[j]]

Hireable(a) ==
    /\ a \notin employed /\ stage[a] = "offer" /\ JobOf[a] # Null
    /\ \E o \in Of(a) : offer[o].st = "accepted"

\* Variant of HireReads: the applicant is read without FOR UPDATE.
HireReadsUnlocked(r, a) ==
    /\ recruiter[r].op = "idle" /\ Hireable(a)
    /\ Starts(r, a, "hire")
    /\ UNCHANGED <<jobStatus, stage, employed, registered, offer, applicantLock, jobLock, day,
                   jobEdits, reopened>>

HireReads(r, a) ==
    /\ recruiter[r].op = "idle" /\ applicantLock[a] = Null /\ Hireable(a)
    /\ applicantLock' = [applicantLock EXCEPT ![a] = r]
    /\ Starts(r, a, "hire")
    /\ UNCHANGED <<jobStatus, stage, employed, registered, offer, jobLock, day, jobEdits, reopened>>

\* Variant of HireLocksJob: the job is read without FOR UPDATE.
HireReadsJob(r) ==
    /\ recruiter[r].op = "hire"
    /\ jobStatus[JobOf[recruiter[r].to]] \in {"open", "paused"}
    /\ Starts(r, recruiter[r].to, "convert")
    /\ UNCHANGED <<jobStatus, stage, employed, registered, offer, applicantLock, jobLock, day,
                   jobEdits, reopened>>

HireLocksJob(r) ==
    LET j == JobOf[recruiter[r].to] IN
    /\ recruiter[r].op = "hire" /\ jobLock[j] = Null
    /\ jobStatus[j] \in {"open", "paused"}
    /\ jobLock' = [jobLock EXCEPT ![j] = r]
    /\ Starts(r, recruiter[r].to, "convert")
    /\ UNCHANGED <<jobStatus, stage, employed, registered, offer, applicantLock, day, jobEdits, reopened>>

MailTaken(a) == MailOf[a] \in registered
HiresOf(j) == {a \in employed : JobOf[a] = j}

\* The employee is created, and the job is filled at its headcount.
HireCommits(r) ==
    LET a == recruiter[r].to  j == JobOf[a] IN
    /\ recruiter[r].op = "convert" /\ ~MailTaken(a)
    /\ employed' = employed \cup {a}
    /\ registered' = registered \cup {MailOf[a]}
    /\ stage' = [stage EXCEPT ![a] = "hired"]
    /\ jobStatus' = IF Headcount[j] <= Cardinality(HiresOf(j) \cup {a})
                    THEN [jobStatus EXCEPT ![j] = "filled"] ELSE jobStatus
    /\ Finishes(r)
    /\ UNCHANGED <<offer, day, jobEdits, reopened>>

\* The job takes nobody; or the conversion is rolled back, as the address has
\* an account already, the hiring manager has left, or a statement fails.
HireRefused(r) ==
    LET a == recruiter[r].to IN
    /\ \/ /\ recruiter[r].op = "hire" /\ jobLock[JobOf[a]] = Null
          /\ jobStatus[JobOf[a]] \notin {"open", "paused"}
       \/ recruiter[r].op = "convert"
    /\ Finishes(r)
    /\ UNCHANGED <<jobStatus, stage, employed, registered, offer, day, jobEdits, reopened>>

HiringNext ==
    \/ DayPasses
    \/ \E j \in Vacancies, st \in JobStatuses : SetJobStatus(j, st)
    \/ \E a \in Applicants : Apply(a) \/ \E s \in Stages : ChangeStage(a, s)
    \/ \E r \in Recruiters :
          \/ \E a \in Applicants : HireReads(r, a)
          \/ HireLocksJob(r) \/ HireCommits(r) \/ HireRefused(r)
    \/ \E o \in Offers :
          \/ \E a \in Applicants, d \in 0..MaxDay : CreateOffer(o, a, d)
          \/ \E st \in {"sent", "accepted", "rejected", "withdrawn", "expired"} : MoveOffer(o, st)
          \/ LinkOffer(o)
          \/ \E n \in Offers, d \in 0..MaxDay : ReviseOffer(o, n, d)
          \/ \E st \in {"accepted", "rejected"} : RespondOffer(o, st)

HiringSpec == HiringInit /\ [][HiringNext]_hiringVars

-----------------------------------------------------------------------------
\* A job hires more than its headcount only as often as somebody opened it
\* again by hand (the job is held FOR UPDATE from the check to the commit of
\* the hire, ats-routes.ts).
HeadcountKept ==
    \A j \in Vacancies : Cardinality(HiresOf(j)) < Headcount[j] + reopened[j]

\* Nobody who was hired, rejected or has withdrawn changes stage again: a
\* hire that overlaps a rejection does not undo it (the applicant is held
\* FOR UPDATE by both).
DecisionStands ==
    [][\A a \in Applicants :
          stage[a] \in {"hired", "rejected", "withdrawn"} => stage'[a] = stage[a]]_hiringVars
=============================================================================
