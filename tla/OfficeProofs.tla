---------------------------- MODULE OfficeProofs ----------------------------
(***************************************************************************)
(* Proofs about Hiring, FeedDrafts and RouterLearning, and about the       *)
(* office MCOffice composes, for every set of employees and rows.  No job  *)
(* hires past its headcount unless it is opened again by hand, and nobody  *)
(* whose application was decided changes stage; a draft is published by    *)
(* one post; the examples of the router do not contradict each other and   *)
(* nothing is shared without consent; and the composition does what its    *)
(* parts may do.                                                           *)
(***************************************************************************)
EXTENDS MCOffice, AccountsProofs

Accepting(j) == jobStatus[j] \in {"open", "paused"}

\* A hire holds its applicant, who is at the offer and not yet employed, and
\* once it converts also the job, which accepts hires.
HiresHold == \A r \in Recruiters : recruiter[r].op # "idle" =>
    LET a == recruiter[r].to IN
    /\ a \in Applicants /\ JobOf[a] \in Vacancies
    /\ applicantLock[a] = r /\ stage[a] = "offer" /\ a \notin employed
    /\ recruiter[r].op = "convert" => jobLock[JobOf[a]] = r /\ Accepting(JobOf[a])

IdleIsBlank == \A r \in Recruiters : recruiter[r].op = "idle" => recruiter[r] = Unoccupied

\* A job that accepts hires was opened by hand, and has a place left, its own
\* or one of an opening.
PlacesAreLeft ==
    /\ IsFiniteSet(employed)
    /\ \A j \in Vacancies :
          /\ reopened[j] <= jobEdits
          /\ Accepting(j) => /\ reopened[j] >= 1
                             /\ Cardinality(HiresOf(j)) + 1 < Headcount[j] + reopened[j]

HiringInvariant ==
    HiringTypeOK /\ HiresHold /\ IdleIsBlank /\ PlacesAreLeft /\ HeadcountKept

\* The initial state satisfies the inductive invariant.
LEMMA HiringInitEstablishes == HiringInit => HiringInvariant
<1> SUFFICES ASSUME HiringInit PROVE HiringInvariant
  OBVIOUS
<1> USE HiringAssumption DEF HiringInit
<1>1. HiringTypeOK
  BY DEF HiringTypeOK, JobStatuses, Stages, Onward, Offer, NoOffer, Recruiting, Unoccupied
<1>2. HiresHold /\ IdleIsBlank
  BY DEF HiresHold, IdleIsBlank, Unoccupied
<1>3. IsFiniteSet({}) /\ Cardinality({}) = 0
  BY FS_EmptySet
<1>4. \A j \in Vacancies : HiresOf(j) = {}
  BY DEF HiresOf
<1>5. PlacesAreLeft /\ HeadcountKept
  <2>1. IsFiniteSet(employed)
    BY <1>3
  <2>2. ASSUME NEW j \in Vacancies
        PROVE  reopened[j] = 0 /\ jobEdits = 0 /\ ~Accepting(j)
               /\ Cardinality(HiresOf(j)) = 0 /\ Headcount[j] \in Nat \ {0}
    BY <1>3, <1>4 DEF Accepting
  <2> HIDE DEF HiringInit
  <2>3. QED
    BY <2>1, <2>2 DEF PlacesAreLeft, HeadcountKept
<1>6. QED
  BY <1>1, <1>2, <1>5 DEF HiringInvariant

\* How many a job hired is a number.
LEMMA HiresAreCounted ==
    ASSUME IsFiniteSet(employed), NEW j \in Vacancies
    PROVE  IsFiniteSet(HiresOf(j)) /\ Cardinality(HiresOf(j)) \in Nat
<1>1. HiresOf(j) \in SUBSET employed
  BY DEF HiresOf
<1>2. QED
  BY <1>1, FS_Subset, FS_CardinalityType

\* A step that changes neither stages, jobs, employment nor requests.
LEMMA QuietStep ==
    ASSUME HiringInvariant, HiringTypeOK',
           UNCHANGED <<jobStatus, stage, employed, recruiter, applicantLock, jobLock,
                       jobEdits, reopened>>
    PROVE  HiringInvariant'
BY DEF HiringInvariant, HiresHold, IdleIsBlank, PlacesAreLeft, HeadcountKept, HiresOf, Accepting

\* The steps of offers, and the passage of time.
LEMMA JobOfferStep ==
    ASSUME HiringInvariant,
           \/ DayPasses
           \/ \E o \in Offers :
                \/ \E a \in Applicants, d \in 0..MaxDay : CreateOffer(o, a, d)
                \/ \E st \in {"sent", "accepted", "rejected", "withdrawn", "expired"} : MoveOffer(o, st)
                \/ LinkOffer(o)
                \/ \E n \in Offers, d \in 0..MaxDay : ReviseOffer(o, n, d)
                \/ \E st \in {"accepted", "rejected"} : RespondOffer(o, st)
    PROVE  HiringInvariant'
<1> USE HiringAssumption DEF HiringInvariant
<1>1. CASE DayPasses
  <2>1. HiringTypeOK'
    BY <1>1 DEF DayPasses, HiringTypeOK
  <2>2. QED
    BY <1>1, <2>1, QuietStep DEF DayPasses
<1>2. ASSUME UNCHANGED offerVars, offer' \in [Offers -> Offer] PROVE HiringInvariant'
  <2>1. HiringTypeOK'
    BY <1>2 DEF HiringTypeOK, offerVars
  <2>2. QED
    BY <1>2, <2>1, QuietStep DEF offerVars
<1>3. ASSUME NEW o \in Offers, NEW a \in Applicants, NEW d \in 0..MaxDay, CreateOffer(o, a, d)
      PROVE  HiringInvariant'
  <2>1. [NoOffer EXCEPT !.st = "draft", !.to = a, !.expires = d, !.version = 1] \in Offer
    BY DEF NoOffer, Offer, Outstanding
  <2>2. \A p \in Offers : offer[p] \in Offer /\ [offer[p] EXCEPT !.st = "expired"] \in Offer
    BY SMTT(30) DEF HiringTypeOK, Offer
  <2>3. offer' \in [Offers -> Offer]
    BY <1>3, <2>1, <2>2 DEF CreateOffer
  <2>4. QED
    BY <1>2, <1>3, <2>3 DEF CreateOffer
<1>4. ASSUME NEW o \in Offers, NEW st \in {"sent", "accepted", "rejected", "withdrawn", "expired"},
             MoveOffer(o, st)
      PROVE  HiringInvariant'
  <2>1. offer' \in [Offers -> Offer]
    BY <1>4 DEF MoveOffer, HiringTypeOK, Offer, Outstanding
  <2>2. QED
    BY <1>2, <1>4, <2>1 DEF MoveOffer
<1>5. ASSUME NEW o \in Offers, LinkOffer(o) PROVE HiringInvariant'
  <2>1. [offer[o] EXCEPT !.link = TRUE] \in Offer
    <3>1. PICK x \in Offer : x = offer[o]
      BY DEF HiringTypeOK
    <3>2. [x EXCEPT !.link = TRUE] \in Offer
      BY DEF Offer
    <3>3. QED
      BY <3>1, <3>2
  <2>2. offer' = [offer EXCEPT ![o] = [offer[o] EXCEPT !.link = TRUE]]
    BY <1>5 DEF LinkOffer, HiringTypeOK
  <2>3. offer' \in [Offers -> Offer]
    BY <2>1, <2>2 DEF HiringTypeOK
  <2>4. QED
    BY <1>2, <1>5, <2>3 DEF LinkOffer
<1>6. ASSUME NEW o \in Offers, NEW n \in Offers, NEW d \in 0..MaxDay, ReviseOffer(o, n, d)
      PROVE  HiringInvariant'
  <2>1. offer[o] \in Offer /\ offer[o].version + 1 \in Nat /\ offer[o].to \in Applicants \cup {Null}
    BY DEF HiringTypeOK, Offer
  <2>2. [offer[o] EXCEPT !.st = "superseded", !.link = FALSE] \in Offer
    BY <2>1 DEF Offer
  <2>3. [NoOffer EXCEPT !.st = "draft", !.to = offer[o].to, !.expires = d,
                        !.version = offer[o].version + 1] \in Offer
    BY <2>1 DEF Offer, NoOffer, Outstanding
  <2>4. offer' \in [Offers -> Offer]
    BY <1>6, <2>2, <2>3 DEF ReviseOffer, HiringTypeOK
  <2>5. QED
    BY <1>2, <1>6, <2>4 DEF ReviseOffer
<1>7. ASSUME NEW o \in Offers, NEW st \in {"accepted", "rejected"}, RespondOffer(o, st)
      PROVE  HiringInvariant'
  <2>1. offer' \in [Offers -> Offer]
    BY <1>7, SMTT(30) DEF RespondOffer, HiringTypeOK, Offer, Outstanding
  <2>2. QED
    BY <1>2, <1>7, <2>1 DEF RespondOffer
<1>8. QED
  BY <1>1, <1>3, <1>4, <1>5, <1>6, <1>7

\* Setting the status of a job opens at most one place more.
LEMMA JobStep ==
    ASSUME HiringInvariant, NEW j \in Vacancies, NEW st \in JobStatuses, SetJobStatus(j, st)
    PROVE  HiringInvariant'
<1> USE HiringAssumption DEF HiringInvariant
<1>1. /\ jobLock[j] = Null /\ jobEdits' = jobEdits + 1 /\ jobEdits < MaxJobEdits
      /\ jobStatus' \in [Vacancies -> JobStatuses] /\ jobStatus'[j] = st
      /\ \A i \in Vacancies \ {j} : jobStatus'[i] = jobStatus[i] /\ reopened'[i] = reopened[i]
      /\ UNCHANGED <<stage, employed, registered, offer, recruiter, applicantLock, jobLock, day>>
  BY DEF SetJobStatus, HiringTypeOK
<1>2. /\ jobEdits \in Nat /\ reopened[j] \in Nat /\ reopened[j] <= jobEdits
      /\ reopened'[j] = IF ~Accepting(j) /\ st \in {"open", "paused"}
                        THEN reopened[j] + 1 ELSE reopened[j]
  BY DEF SetJobStatus, HiringTypeOK, PlacesAreLeft, Accepting
<1>3. reopened' \in [Vacancies -> 0..MaxJobEdits] /\ jobEdits' \in 0..MaxJobEdits
  <2>1. reopened[j] + 1 \in 0..MaxJobEdits
    BY <1>1, <1>2
  <2>2. QED
    BY <1>1, <1>2, <2>1 DEF SetJobStatus, HiringTypeOK
<1>4. HiringTypeOK'
  BY <1>1, <1>3 DEF HiringTypeOK
<1>5. HiresHold' /\ IdleIsBlank'
  BY <1>1 DEF HiresHold, IdleIsBlank, Accepting
<1>6. \A i \in Vacancies : HiresOf(i)' = HiresOf(i) /\ Cardinality(HiresOf(i)) \in Nat
                           /\ Headcount[i] \in Nat /\ reopened[i] \in Nat
  <2>1. \A i \in Vacancies : Cardinality(HiresOf(i)) \in Nat
    BY HiresAreCounted DEF PlacesAreLeft
  <2>2. QED
    BY <1>1, <2>1 DEF HiresOf, HiringTypeOK
<1>7. ASSUME NEW i \in Vacancies
      PROVE  /\ reopened'[i] <= jobEdits'
             /\ Accepting(i)' => /\ reopened'[i] >= 1
                                 /\ Cardinality(HiresOf(i)) + 1 < Headcount[i] + reopened'[i]
             /\ Cardinality(HiresOf(i)) < Headcount[i] + reopened'[i]
  <2>1. CASE i = j
    BY <1>1, <1>2, <1>6, <2>1 DEF PlacesAreLeft, HeadcountKept, Accepting
  <2>2. CASE i # j
    BY <1>1, <1>2, <1>6, <2>2 DEF PlacesAreLeft, HeadcountKept, Accepting
  <2>3. QED
    BY <2>1, <2>2
<1>8. PlacesAreLeft' /\ HeadcountKept'
  BY <1>1, <1>6, <1>7 DEF PlacesAreLeft, HeadcountKept
<1>9. QED
  BY <1>4, <1>5, <1>8

\* Applications and stage changes: nobody a hire holds is touched.
LEMMA StageStep ==
    ASSUME HiringInvariant, NEW a \in Applicants,
           Apply(a) \/ \E s \in Stages : ChangeStage(a, s)
    PROVE  HiringInvariant'
<1> USE HiringAssumption DEF HiringInvariant
<1>1. /\ UNCHANGED <<jobStatus, employed, registered, offer, recruiter, applicantLock, jobLock,
                     day, jobEdits, reopened>>
      /\ \A b \in Applicants \ {a} : stage'[b] = stage[b]
      /\ stage' \in [Applicants -> Stages \cup {"none"}]
      /\ stage[a] = "none" \/ applicantLock[a] = Null
  BY DEF Apply, ChangeStage, HiringTypeOK, Stages, Onward
<1>2. HiringTypeOK'
  BY <1>1 DEF HiringTypeOK
<1>3. HiresHold' /\ IdleIsBlank'
  BY <1>1 DEF HiresHold, IdleIsBlank, Accepting
<1>4. PlacesAreLeft' /\ HeadcountKept'
  BY <1>1 DEF PlacesAreLeft, HeadcountKept, HiresOf, Accepting
<1>5. QED
  BY <1>2, <1>3, <1>4

\* The locks of a hire.
LEMMA LockStep ==
    ASSUME HiringInvariant, NEW r \in Recruiters,
           (\E a \in Applicants : HireReads(r, a)) \/ HireLocksJob(r)
    PROVE  HiringInvariant'
<1> USE HiringAssumption DEF HiringInvariant
<1>1. UNCHANGED <<jobStatus, stage, employed, registered, offer, day, jobEdits, reopened>>
  BY DEF HireReads, HireLocksJob
<1>2. PlacesAreLeft' /\ HeadcountKept'
  BY <1>1 DEF PlacesAreLeft, HeadcountKept, HiresOf, Accepting
<1>3. ASSUME NEW a \in Applicants, HireReads(r, a) PROVE HiringInvariant'
  <2>1. /\ recruiter' \in [Recruiters -> Recruiting] /\ recruiter'[r] = [op |-> "hire", to |-> a]
        /\ \A q \in Recruiters \ {r} : recruiter'[q] = recruiter[q]
        /\ applicantLock' \in [Applicants -> Recruiters \cup {Null}] /\ applicantLock'[a] = r
        /\ \A b \in Applicants \ {a} : applicantLock'[b] = applicantLock[b]
        /\ jobLock' = jobLock /\ recruiter[r] = Unoccupied /\ applicantLock[a] = Null
    BY <1>3 DEF HireReads, Starts, HiringTypeOK, Recruiting, IdleIsBlank
  <2>2. /\ \A b \in Applicants : applicantLock[b] # r
        /\ \A j \in Vacancies : jobLock[j] # r
    BY <2>1 DEF HiringTypeOK, Unoccupied
  <2>3. HiringTypeOK'
    BY <1>1, <2>1, <2>2 DEF HiringTypeOK
  <2>4. Hireable(a)
    BY <1>3 DEF HireReads
  <2>5. HiresHold' /\ IdleIsBlank'
    BY <1>1, <2>1, <2>4 DEF HiresHold, IdleIsBlank, Accepting, Hireable
  <2>6. QED
    BY <1>2, <2>3, <2>5
<1>4. ASSUME HireLocksJob(r) PROVE HiringInvariant'
  <2> DEFINE a == recruiter[r].to  j == JobOf[a]
  <2>1. /\ a \in Applicants /\ j \in Vacancies /\ applicantLock[a] = r
        /\ stage[a] = "offer" /\ a \notin employed /\ Accepting(j)
        /\ recruiter[r].op = "hire"
    BY <1>4 DEF HireLocksJob, HiresHold, Accepting
  <2>2. /\ recruiter' \in [Recruiters -> Recruiting] /\ recruiter'[r] = [op |-> "convert", to |-> a]
        /\ \A q \in Recruiters \ {r} : recruiter'[q] = recruiter[q]
        /\ jobLock' \in [Vacancies -> Recruiters \cup {Null}] /\ jobLock'[j] = r
        /\ \A i \in Vacancies \ {j} : jobLock'[i] = jobLock[i]
        /\ applicantLock' = applicantLock /\ jobLock[j] = Null
    BY <1>4, <2>1 DEF HireLocksJob, Starts, HiringTypeOK, Recruiting
  <2>3. \A i \in Vacancies : jobLock[i] # r
    BY <2>1 DEF HiringTypeOK
  <2>4. HiringTypeOK'
    BY <1>1, <2>1, <2>2, <2>3 DEF HiringTypeOK
  <2>5. HiresHold' /\ IdleIsBlank'
    BY <1>1, <2>1, <2>2 DEF HiresHold, IdleIsBlank, Accepting
  <2>6. QED
    BY <1>2, <2>4, <2>5
<1>5. QED
  BY <1>3, <1>4

\* The end of a hire frees its locks and no others.
LEMMA FinishFrees ==
    ASSUME HiringInvariant, NEW r \in Recruiters, Finishes(r)
    PROVE  /\ recruiter' \in [Recruiters -> Recruiting] /\ recruiter'[r] = Unoccupied
           /\ applicantLock' \in [Applicants -> Recruiters \cup {Null}]
           /\ jobLock' \in [Vacancies -> Recruiters \cup {Null}]
           /\ \A a \in Applicants : applicantLock'[a] # Null => recruiter'[applicantLock'[a]].to = a
           /\ \A j \in Vacancies : jobLock'[j] # Null =>
                 recruiter'[jobLock'[j]].op = "convert" /\ JobOf[recruiter'[jobLock'[j]].to] = j
           /\ \A q \in Recruiters \ {r} :
                 /\ recruiter'[q] = recruiter[q]
                 /\ \A a \in Applicants : applicantLock[a] = q => applicantLock'[a] = q
                 /\ \A j \in Vacancies : jobLock[j] = q => jobLock'[j] = q
           /\ IdleIsBlank'
<1> USE HiringAssumption DEF HiringInvariant
<1>1. /\ recruiter' \in [Recruiters -> Recruiting] /\ recruiter'[r] = Unoccupied
      /\ \A q \in Recruiters \ {r} : recruiter'[q] = recruiter[q]
      /\ applicantLock' \in [Applicants -> Recruiters \cup {Null}]
      /\ jobLock' \in [Vacancies -> Recruiters \cup {Null}]
      /\ \A a \in Applicants : applicantLock'[a] = IF applicantLock[a] = r THEN Null ELSE applicantLock[a]
      /\ \A j \in Vacancies : jobLock'[j] = IF jobLock[j] = r THEN Null ELSE jobLock[j]
  BY DEF Finishes, HiringTypeOK, Recruiting, Unoccupied
<1>2. IdleIsBlank'
  BY <1>1 DEF IdleIsBlank
<1>3. QED
  BY <1>1, <1>2 DEF HiringTypeOK

\* A hire that is refused leaves everything as it was.
LEMMA RefusalStep ==
    ASSUME HiringInvariant, NEW r \in Recruiters, HireRefused(r)
    PROVE  HiringInvariant'
<1> USE HiringAssumption DEF HiringInvariant
<1>1. UNCHANGED <<jobStatus, stage, employed, registered, offer, day, jobEdits, reopened>>
      /\ Finishes(r)
  BY DEF HireRefused
<1>2. HiringTypeOK'
  BY <1>1, FinishFrees DEF HiringTypeOK
<1>3. HiresHold'
  BY <1>1, FinishFrees DEF HiresHold, Accepting, Unoccupied
<1>4. PlacesAreLeft' /\ HeadcountKept'
  BY <1>1 DEF PlacesAreLeft, HeadcountKept, HiresOf, Accepting
<1>5. QED
  BY <1>1, <1>2, <1>3, <1>4, FinishFrees

\* A hire takes the place it found left, and closes the job with the last.
LEMMA CommitStep ==
    ASSUME HiringInvariant, NEW r \in Recruiters, HireCommits(r)
    PROVE  HiringInvariant'
<1> USE HiringAssumption DEF HiringInvariant
<1>0. PICK a \in Applicants, j \in Vacancies : a = recruiter[r].to /\ j = JobOf[a]
  BY DEF HireCommits, HiresHold
<1>1. /\ a \in Applicants /\ j \in Vacancies /\ applicantLock[a] = r /\ a \notin employed
      /\ stage[a] = "offer" /\ jobLock[j] = r /\ Accepting(j) /\ r # Null
  BY <1>0 DEF HireCommits, HiresHold
<1>2. /\ employed' = employed \cup {a} /\ registered' = registered \cup {MailOf[a]}
      /\ stage' = [stage EXCEPT ![a] = "hired"]
      /\ jobStatus' = IF Headcount[j] <= Cardinality(HiresOf(j) \cup {a})
                      THEN [jobStatus EXCEPT ![j] = "filled"] ELSE jobStatus
      /\ Finishes(r) /\ UNCHANGED <<offer, day, jobEdits, reopened>>
  BY <1>0 DEF HireCommits
<1>3. HiringTypeOK'
  <2>1. /\ stage' \in [Applicants -> Stages \cup {"none"}]
        /\ employed' \subseteq Applicants /\ registered' \subseteq Mails
        /\ jobStatus' \in [Vacancies -> JobStatuses]
    BY <1>1, <1>2 DEF HiringTypeOK, Stages, Onward, JobStatuses
  <2>2. QED
    BY <1>2, <2>1, FinishFrees DEF HiringTypeOK
<1>4. HiresHold'
  <2>1. ASSUME NEW q \in Recruiters \ {r}, recruiter[q].op # "idle"
        PROVE  /\ recruiter[q].to # a
               /\ recruiter[q].op = "convert" => JobOf[recruiter[q].to] # j
    BY <1>0, <1>1, <2>1 DEF HiresHold
  <2>2. \A b \in Applicants \ {a} : stage'[b] = stage[b]
    BY <1>2 DEF HiringTypeOK
  <2>3. \A i \in Vacancies \ {j} : jobStatus'[i] = jobStatus[i]
    BY <1>2 DEF HiringTypeOK
  <2>4. QED
    BY <1>2, <2>1, <2>2, <2>3, FinishFrees DEF HiresHold, Accepting, Unoccupied
<1>5. /\ IsFiniteSet(employed')
      /\ Cardinality(HiresOf(j) \cup {a}) = Cardinality(HiresOf(j)) + 1
      /\ Cardinality(HiresOf(j)) \in Nat
      /\ HiresOf(j)' = HiresOf(j) \cup {a}
      /\ \A i \in Vacancies \ {j} : HiresOf(i)' = HiresOf(i)
  <2>1. IsFiniteSet(employed) /\ a \notin HiresOf(j)
    BY <1>1 DEF PlacesAreLeft, HiresOf
  <2>2. IsFiniteSet(HiresOf(j)) /\ Cardinality(HiresOf(j)) \in Nat
    BY <1>1, <2>1, HiresAreCounted
  <2>3. IsFiniteSet(employed')
    BY <1>2, <2>1, FS_AddElement
  <2>4. Cardinality(HiresOf(j) \cup {a}) = Cardinality(HiresOf(j)) + 1
    BY <2>1, <2>2, FS_AddElement
  <2>5. HiresOf(j)' = HiresOf(j) \cup {a} /\ \A i \in Vacancies \ {j} : HiresOf(i)' = HiresOf(i)
    BY <1>0, <1>2 DEF HiresOf
  <2>6. QED
    BY <2>2, <2>3, <2>4, <2>5
<1>6. ASSUME NEW i \in Vacancies
      PROVE  /\ reopened'[i] <= jobEdits'
             /\ Accepting(i)' => /\ reopened'[i] >= 1
                                 /\ Cardinality(HiresOf(i)') + 1 < Headcount[i] + reopened'[i]
             /\ Cardinality(HiresOf(i)') < Headcount[i] + reopened'[i]
  <2>1. CASE i = j
    <3>1. /\ Cardinality(HiresOf(j)) + 1 < Headcount[j] + reopened[j] /\ reopened[j] >= 1
          /\ reopened[j] <= jobEdits /\ reopened[j] \in Nat /\ Headcount[j] \in Nat
      BY <1>1 DEF PlacesAreLeft, HiringTypeOK
    <3>2. CASE Headcount[j] <= Cardinality(HiresOf(j)) + 1
      <4>1. ~Accepting(j)'
        BY <1>1, <1>2, <1>5, <3>2 DEF Accepting, HiringTypeOK
      <4>2. QED
        BY <1>2, <1>5, <2>1, <3>1, <4>1
    <3>3. CASE ~(Headcount[j] <= Cardinality(HiresOf(j)) + 1)
      BY <1>2, <1>5, <2>1, <3>1, <3>3
    <3>4. QED
      BY <3>2, <3>3
  <2>2. CASE i # j
    <3>1. HiresOf(i)' = HiresOf(i) /\ (Accepting(i)' <=> Accepting(i))
      BY <1>2, <1>5, <2>2 DEF Accepting, HiringTypeOK
    <3>2. QED
      BY <1>2, <3>1 DEF PlacesAreLeft, HeadcountKept
  <2>3. QED
    BY <2>1, <2>2
<1>7. PlacesAreLeft' /\ HeadcountKept'
  BY <1>5, <1>6 DEF PlacesAreLeft, HeadcountKept
<1>8. QED
  BY <1>2, <1>3, <1>4, <1>7, FinishFrees

\* Every step preserves the inductive invariant.
LEMMA HiringNextPreserves == HiringInvariant /\ [HiringNext]_hiringVars => HiringInvariant'
<1> SUFFICES ASSUME HiringInvariant, [HiringNext]_hiringVars PROVE HiringInvariant'
  OBVIOUS
<1>1. CASE UNCHANGED hiringVars
  <2>1. HiringTypeOK'
    BY <1>1 DEF hiringVars, HiringInvariant, HiringTypeOK
  <2>2. QED
    BY <1>1, <2>1, QuietStep DEF hiringVars
<1>2. CASE HiringNext
  BY <1>2, JobOfferStep, JobStep, StageStep, LockStep, CommitStep, RefusalStep DEF HiringNext
<1>3. QED
  BY <1>1, <1>2

-----------------------------------------------------------------------------
(* The theorems.                                                           *)

\* The inductive invariant holds in every reachable state.
THEOREM HiringInvariance == HiringSpec => []HiringInvariant
BY HiringInitEstablishes, HiringNextPreserves, PTL DEF HiringSpec

\* Rows and requests keep their types; locks belong to the hires that took
\* them, an applicant's for its applicant and a job's for the job applied for.
THEOREM HiringTypeCorrect == HiringSpec => []HiringTypeOK
<1>1. HiringInvariant => HiringTypeOK
  BY DEF HiringInvariant
<1>2. QED
  BY HiringInvariance, <1>1, PTL

\* No job hires past its headcount except through openings by hand (POST hire
\* holds the job FOR UPDATE from its check to the commit).
THEOREM HeadcountHolds == HiringSpec => []HeadcountKept
<1>1. HiringInvariant => HeadcountKept
  BY DEF HiringInvariant
<1>2. QED
  BY HiringInvariance, <1>1, PTL

\* A decided application keeps its stage: a hire under way holds its applicant.
THEOREM DecidedStageStands == HiringSpec => DecisionStands
<1>1. ASSUME HiringInvariant, [HiringNext]_hiringVars
      PROVE  [\A a \in Applicants : stage[a] \in {"hired", "rejected", "withdrawn"} =>
                  stage'[a] = stage[a]]_hiringVars
  <2> SUFFICES ASSUME HiringNext, NEW a \in Applicants,
                      stage[a] \in {"hired", "rejected", "withdrawn"}
               PROVE  stage'[a] = stage[a]
    BY <1>1
  <2>1. stage \in [Applicants -> Stages \cup {"none"}]
    BY <1>1 DEF HiringInvariant, HiringTypeOK
  <2>2. CASE \E b \in Applicants : Apply(b)
    BY <2>1, <2>2 DEF Apply
  <2>3. CASE \E b \in Applicants, s \in Stages : ChangeStage(b, s)
    BY <2>1, <2>3 DEF ChangeStage, NextStages, Onward
  <2>4. CASE \E r \in Recruiters : HireCommits(r)
    <3>1. PICK r \in Recruiters : HireCommits(r)
      BY <2>4
    <3>2. stage[recruiter[r].to] = "offer"
      BY <1>1, <3>1 DEF HireCommits, HiringInvariant, HiresHold
    <3>3. QED
      BY <2>1, <3>1, <3>2 DEF HireCommits
  <2>5. CASE UNCHANGED stage
    BY <2>5
  <2>6. QED
    BY <2>2, <2>3, <2>4, <2>5
       DEF HiringNext, DayPasses, SetJobStatus, HireReads, HireLocksJob, HireRefused,
           CreateOffer, MoveOffer, LinkOffer, ReviseOffer, RespondOffer, offerVars
<1>2. QED
  BY HiringInvariance, <1>1, PTL DEF HiringSpec, DecisionStands

-----------------------------------------------------------------------------
(* The company feed.                                                       *)

SavedRecord == [draft : Drafts, ver : Nat]

\* An answered save has a record, and so has what is posted.
AnswersHaveRecords ==
    \A t \in Tabs :
        /\ task[t].op = "saved" => task[t].answer.record \in SavedRecord
        /\ task[t].op = "saving" /\ task[t].answer # Null /\ task[t].answer.ok
             => task[t].answer.record \in SavedRecord

PostsHaveRecords ==
    \A p \in Posts : post[p].st \in {"sent", "locked", "created"}
        => post[p].record \in SavedRecord

\* A post that is about to commit holds its draft, which is still active.
PostsHoldDrafts ==
    \A p \in Posts : post[p].st = "locked"
        => LET d == post[p].record.draft
           IN  draftLock[d] = p /\ draft[d].st = "active"

OneIsActive == \A c, d \in Current : c = d

PostsAreNamed == \A d \in Drafts : draft[d].st = "published" => draft[d].post \in Posts

RowsAreTyped ==
    /\ typed \subseteq Edits
    /\ tab \in [Tabs -> TabState]
    /\ task \in [Tabs -> Task]
    /\ call \in [Tabs -> Call]
    /\ buffer \in [text : SUBSET Edits, newer : BOOLEAN] \cup {Null}
    /\ \A r \in stray : r.text \subseteq Edits /\ r.expects \in Nat
    /\ draft \in [Drafts -> DraftRow]
    /\ draftLock \in [Drafts -> Posts \cup {Null}]
    /\ post \in [Posts -> PostRow]

ServerHolds ==
    /\ PostsHaveRecords
    /\ PostsHoldDrafts
    /\ OneIsActive
    /\ PostsAreNamed
    /\ PublishedOnce

FeedInvariant == RowsAreTyped /\ AnswersHaveRecords /\ ServerHolds

-----------------------------------------------------------------------------
(* What changes a draft.                                                   *)

\* A change of drafts nobody holds, which publishes nothing and leaves one
\* active, disturbs no publishing.
DraftsMove ==
    /\ draft' \in [Drafts -> DraftRow]
    /\ \A d \in Drafts : \/ draft'[d] = draft[d]
                         \/ /\ draftLock[d] = Null
                            /\ draft[d].st # "published"
                            /\ draft'[d].st # "published"
    /\ \A c, d \in Drafts : draft'[c].st = "active" /\ draft'[d].st = "active" => c = d

\* A step that only moves draft rows on keeps what the server promises.
LEMMA MovesAreSafe ==
    ASSUME FeedInvariant, DraftsMove, UNCHANGED <<draftLock, post>>
    PROVE  ServerHolds'
<1> USE FeedAssumption
<1>1. PostsHaveRecords' /\ OneIsActive' /\ PostsAreNamed'
  BY DEF FeedInvariant, ServerHolds, DraftsMove, PostsHaveRecords, OneIsActive, PostsAreNamed,
         Current
<1>2. PostsHoldDrafts'
  <2> SUFFICES ASSUME NEW p \in Posts, post[p].st = "locked", NEW d, d = post[p].record.draft
               PROVE  draftLock[d] = p /\ draft'[d].st = "active"
    BY DEF PostsHoldDrafts
  <2>1. post[p].record \in SavedRecord
    BY DEF FeedInvariant, ServerHolds, PostsHaveRecords
  <2>2. d \in Drafts /\ draftLock[d] = p /\ draft[d].st = "active"
    BY <2>1 DEF FeedInvariant, ServerHolds, PostsHoldDrafts, SavedRecord
  <2>3. QED
    BY <2>2 DEF DraftsMove
<1>3. PublishedOnce'
  <2>1. ASSUME NEW p \in Posts, post[p].st = "created", post[p].status = "published",
               NEW d, d = post[p].record.draft
        PROVE  draft'[d].st = "published" /\ draft'[d].post = p
    <3>1. post[p].record \in SavedRecord
      BY <2>1 DEF FeedInvariant, ServerHolds, PostsHaveRecords
    <3>2. d \in Drafts /\ draft[d].st = "published" /\ draft[d].post = p
      BY <2>1, <3>1 DEF FeedInvariant, ServerHolds, PublishedOnce, SavedRecord
    <3>3. QED
      BY <3>2 DEF DraftsMove
  <2>2. ASSUME NEW d \in Drafts, draft'[d].st = "published"
        PROVE  post[draft'[d].post].st = "created"
    BY <2>2 DEF FeedInvariant, ServerHolds, PublishedOnce, DraftsMove
  <2>3. QED
    BY <2>1, <2>2 DEF PublishedOnce
<1>4. QED
  BY <1>1, <1>2, <1>3 DEF ServerHolds

\* The statements of a save: with the advisory lock there is no second row.
LEMMA WritesMove ==
    ASSUME FeedInvariant, NEW d \in Drafts, NEW text \in SUBSET Edits, NEW expects \in Nat,
           Writes(d, text, expects)
    PROVE  /\ DraftsMove
           /\ buffer' \in [text : SUBSET Edits, newer : BOOLEAN] \cup {Null}
           /\ draft'[d].ver \in Nat
<1>1. draft \in [Drafts -> DraftRow]
  BY DEF FeedInvariant, RowsAreTyped
<1> DEFINE ver == IF draft[d].st = "active" THEN draft[d].ver + 1 ELSE 1
           row == [st |-> "active", ver |-> ver, text |-> text, post |-> Null]
<1>2. draft[d].ver \in Nat
  BY <1>1 DEF DraftRow
<1>3. row \in DraftRow /\ row.st = "active" /\ row.ver \in Nat
  BY <1>2 DEF DraftRow
<1>4. draftLock[d] = Null /\ draft' = [draft EXCEPT ![d] = row]
  BY <1>1 DEF Writes
<1>5. IF Current = {} THEN draft[d].st = "none" ELSE d \in Current
  BY DEF Writes
<1> HIDE DEF row, ver
<1>6. /\ draft' \in [Drafts -> DraftRow] /\ draft'[d] = row
      /\ \A c \in Drafts : c # d => draft'[c] = draft[c]
  BY <1>1, <1>3, <1>4
<1>7. draft[d].st # "published"
  BY <1>5 DEF Current
<1>8. \A c \in Drafts : draft[c].st = "active" => c = d
  BY <1>5 DEF FeedInvariant, ServerHolds, OneIsActive, Current
<1>9. DraftsMove
  BY <1>3, <1>4, <1>6, <1>7, <1>8 DEF DraftsMove
<1>10. buffer' \in [text : SUBSET Edits, newer : BOOLEAN] \cup {Null}
  BY DEF Writes, FeedInvariant, RowsAreTyped
<1>11. QED
  BY <1>3, <1>6, <1>9, <1>10

\* A row with another status and version.
LEMMA RowsOfDrafts ==
    ASSUME NEW r \in DraftRow, NEW v \in Nat,
           NEW st \in {"none", "active", "published", "discarded"}
    PROVE  /\ [r EXCEPT !.st = st, !.ver = v] \in DraftRow
           /\ [r EXCEPT !.st = st, !.ver = v].st = st
BY DEF DraftRow

\* Discarding drafts no post has locked moves them on.
LEMMA DiscardsMove ==
    ASSUME FeedInvariant, draft' = Discarded(draft), \A d \in Current : draftLock[d] = Null
    PROVE  DraftsMove
<1>1. draft \in [Drafts -> DraftRow]
  BY DEF FeedInvariant, RowsAreTyped
<1>2. ASSUME NEW d \in Drafts
      PROVE  /\ draft'[d] \in DraftRow /\ draft'[d].st # "active"
             /\ \/ draft'[d] = draft[d]
                \/ /\ draftLock[d] = Null
                   /\ draft[d].st # "published"
                   /\ draft'[d].st # "published"
  <2>1. draft[d] \in DraftRow
    BY <1>1, SMTT(30)
  <2> DEFINE row == [draft[d] EXCEPT !.st = "discarded", !.ver = @ + 1]
  <2>2. row \in DraftRow /\ row.st = "discarded"
    <3>1. draft[d].ver + 1 \in Nat
      BY <2>1 DEF DraftRow
    <3>2. QED
      BY <2>1, <3>1, RowsOfDrafts
  <2>3. draft'[d] = IF draft[d].st = "active" THEN row ELSE draft[d]
    BY DEF Discarded
  <2> HIDE DEF row
  <2>4. CASE draft[d].st = "active"
    <3>1. draftLock[d] = Null
      BY <2>4 DEF Current
    <3>2. QED
      BY <2>2, <2>3, <2>4, <3>1
  <2>5. CASE draft[d].st # "active"
    BY <2>1, <2>3, <2>5
  <2>6. QED
    BY <2>4, <2>5
<1>3. draft' = [d \in Drafts |-> draft'[d]]
  BY DEF Discarded
<1>4. draft' \in [Drafts -> DraftRow]
  BY <1>2, <1>3
<1>5. QED
  BY <1>2, <1>4 DEF DraftsMove

\* Of one active draft, a lock on one is a lock on all.
LEMMA FreeDrafts ==
    ASSUME FeedInvariant, \E d \in Current : draftLock[d] = Null
    PROVE  \A d \in Current : draftLock[d] = Null
BY DEF FeedInvariant, ServerHolds, OneIsActive

\* A step of a tab alone keeps what the server promises.
LEMMA ServerStays ==
    ASSUME FeedInvariant, UNCHANGED <<draft, draftLock, post>> PROVE ServerHolds'
<1>1. \A d \in Drafts : draft'[d] = draft[d]
  OBVIOUS
<1>2. QED
  BY DEF FeedInvariant, ServerHolds, PostsHaveRecords, PostsHoldDrafts, OneIsActive,
         PostsAreNamed, PublishedOnce, Current

-----------------------------------------------------------------------------
(* The steps of a tab.                                                     *)

\* What a tab runs next has the types, and an answer that names its record.
NextTask(t, x) ==
    /\ x \in Task
    /\ x.op = "saved" => x.answer.record \in SavedRecord
    /\ x.op = "saving" /\ x.answer # Null /\ x.answer.ok => x.answer.record \in SavedRecord

\* A tab's next task is typed and its answer carries a record.
LEMMA TasksHold ==
    ASSUME FeedInvariant, NEW t \in Tabs, NEW x, NextTask(t, x), task' = [task EXCEPT ![t] = x]
    PROVE  task' \in [Tabs -> Task] /\ AnswersHaveRecords'
<1>1. /\ task' \in [Tabs -> Task] /\ task'[t] = x
      /\ \A s \in Tabs : s # t => task'[s] = task[s]
  BY DEF FeedInvariant, RowsAreTyped, NextTask
<1>2. QED
  BY <1>1 DEF FeedInvariant, AnswersHaveRecords, NextTask

\* The task of an idle tab is a task without an answer.
LEMMA IdleIsTyped == NoTask \in Task /\ NoTask.answer = Null /\ NoTask.op = "idle"
BY FeedAssumption DEF NoTask, Task, Answer

\* A tab may always fall idle.
LEMMA IdleIsNext == ASSUME NEW t \in Tabs PROVE NextTask(t, NoTask)
BY IdleIsTyped DEF NextTask

\* What an answer of the server is.
LEMMA RecordsOfDrafts == ASSUME FeedInvariant, NEW d \in Drafts PROVE RecordOf(d) \in SavedRecord
BY DEF FeedInvariant, RowsAreTyped, RecordOf, SavedRecord, DraftRow

\* What the server answers of the active draft is a record or nothing.
LEMMA RecordsOfCurrent ==
    ASSUME FeedInvariant, NEW rows \in SUBSET Drafts
    PROVE  (IF rows = {} THEN Null ELSE RecordOf(CHOOSE d \in rows : TRUE)) \in Record
<1>1. CASE rows = {}
  BY <1>1 DEF Record
<1>2. CASE rows # {}
  <2>1. (CHOOSE d \in rows : TRUE) \in Drafts
    BY <1>2
  <2>2. RecordOf(CHOOSE d \in rows : TRUE) \in SavedRecord
    BY <2>1, RecordsOfDrafts
  <2>3. QED
    BY <1>2, <2>2 DEF Record, SavedRecord
<1>3. QED
  BY <1>1, <1>2

\* The author types.
LEMMA TypeEditKeeps ==
    ASSUME FeedInvariant, NEW t \in Tabs, NEW e \in Edits, TypeEdit(t, e) PROVE FeedInvariant'
<1> DEFINE x == [tab[t] EXCEPT !.text = @ \cup {e}]
<1>1. x \in TabState
  BY DEF FeedInvariant, RowsAreTyped, TabState
<1>2. tab' = [tab EXCEPT ![t] = x] /\ typed' = typed \cup {e}
  BY DEF TypeEdit
<1> HIDE DEF x
<1>3. RowsAreTyped'
  BY <1>1, <1>2 DEF TypeEdit, FeedInvariant, RowsAreTyped
<1>4. QED
  BY <1>3, ServerStays DEF TypeEdit, FeedInvariant, AnswersHaveRecords

\* The tab sends a save.
LEMMA BeginSaveKeeps ==
    ASSUME FeedInvariant, NEW t \in Tabs, NEW publish \in BOOLEAN, BeginSave(t, publish)
    PROVE  FeedInvariant'
<1> DEFINE expects == IF tab[t].record = Null THEN 0 ELSE tab[t].record.ver
           x == [NoTask EXCEPT !.op = "saving", !.publish = publish, !.text = tab[t].text,
                               !.expects = expects]
<1>1. expects \in Nat /\ tab[t].text \in SUBSET Edits
  <2>1. tab[t] \in TabState
    BY DEF FeedInvariant, RowsAreTyped
  <2>2. QED
    BY <2>1 DEF TabState, Record
<1>2. task' = [task EXCEPT ![t] = x]
  BY DEF BeginSave
<1>3. buffer' = [text |-> tab[t].text, newer |-> TRUE]
  BY DEF BeginSave
<1> HIDE DEF expects
<1>4. NextTask(t, x)
  <2>1. NoTask \in Task /\ NoTask.answer = Null
    BY IdleIsTyped
  <2>2. x \in Task /\ x.op = "saving" /\ x.answer = Null
    BY <1>1, <2>1 DEF Task
  <2> HIDE DEF x
  <2>3. QED
    BY <2>2 DEF NextTask
<1> HIDE DEF x
<1>5. task' \in [Tabs -> Task] /\ AnswersHaveRecords'
  BY <1>2, <1>4, TasksHold
<1>6. buffer' \in [text : SUBSET Edits, newer : BOOLEAN]
  BY <1>1, <1>3
<1>7. RowsAreTyped'
  BY <1>5, <1>6 DEF BeginSave, FeedInvariant, RowsAreTyped
<1>8. QED
  BY <1>5, <1>7, ServerStays DEF BeginSave, FeedInvariant

\* The tab publishes what it already saved.
LEMMA PublishSavedKeeps ==
    ASSUME FeedInvariant, NEW t \in Tabs, PublishSaved(t) PROVE FeedInvariant'
<1> DEFINE a == [ok |-> TRUE, record |-> tab[t].record]
           x == [NoTask EXCEPT !.op = "saved", !.answer = a]
<1>1. tab[t].record \in SavedRecord
  <2>1. tab[t] \in TabState
    BY DEF FeedInvariant, RowsAreTyped
  <2>2. QED
    BY <2>1 DEF PublishSaved, TabState, Record, SavedRecord
<1>2. task' = [task EXCEPT ![t] = x]
  BY DEF PublishSaved
<1>3. NextTask(t, x)
  <2>1. a \in Answer /\ a.record \in SavedRecord
    BY <1>1 DEF Answer, Record, SavedRecord
  <2> HIDE DEF a
  <2>2. x \in Task /\ x.op = "saved" /\ x.answer = a
    BY <2>1, IdleIsTyped DEF Task
  <2> HIDE DEF x
  <2>3. QED
    BY <2>1, <2>2 DEF NextTask
<1> HIDE DEF x
<1>4. RowsAreTyped' /\ AnswersHaveRecords'
  BY <1>2, <1>3, TasksHold DEF PublishSaved, FeedInvariant, RowsAreTyped
<1>5. QED
  BY <1>4, ServerStays DEF PublishSaved, FeedInvariant

\* A save reaches the server: a new draft, a new version or a conflict.
LEMMA SaveArrivesKeeps ==
    ASSUME FeedInvariant, NEW t \in Tabs, SaveArrives(t) PROVE FeedInvariant'
<1>1. /\ task[t] \in Task /\ task[t].op = "saving"
      /\ task[t].text \in SUBSET Edits /\ task[t].expects \in Nat
  BY DEF FeedInvariant, RowsAreTyped, Task, SaveArrives, Unanswered
<1>2. ASSUME NEW a, a \in [ok : BOOLEAN, record : Record],
             a.ok => a.record \in SavedRecord,
             task' = [task EXCEPT ![t].answer = a]
      PROVE  task' \in [Tabs -> Task] /\ AnswersHaveRecords'
  <2> DEFINE x == [task[t] EXCEPT !.answer = a]
  <2>1. task' = [task EXCEPT ![t] = x]
    BY <1>2
  <2>2. x \in Task /\ x.op = "saving" /\ x.answer = a
    BY <1>1, <1>2 DEF Task, Answer
  <2> HIDE DEF x
  <2>3. NextTask(t, x)
    BY <1>2, <2>2 DEF NextTask
  <2>4. QED
    BY <2>1, <2>3, TasksHold
<1>3. CASE /\ Refuses(task[t].expects)
           /\ task' = [task EXCEPT ![t].answer =
                 [ok |-> FALSE, record |-> IF Current = {} THEN Null
                                ELSE RecordOf(CHOOSE d \in Current : TRUE)]]
  <2>1. PICK r \in Record : task' = [task EXCEPT ![t].answer = [ok |-> FALSE, record |-> r]]
    <3>1. Current \in SUBSET Drafts
      BY DEF Current
    <3>2. QED
      BY <1>3, <3>1, RecordsOfCurrent
  <2>2. task' \in [Tabs -> Task] /\ AnswersHaveRecords'
    <3>1. /\ [ok |-> FALSE, record |-> r] \in [ok : BOOLEAN, record : Record]
          /\ ~[ok |-> FALSE, record |-> r].ok
      OBVIOUS
    <3>2. QED
      BY <1>2, <2>1, <3>1
  <2>3. UNCHANGED <<typed, tab, call, buffer, stray, draft, draftLock, post>>
    BY <1>3 DEF SaveArrives, Refuses
  <2>4. QED
    BY <2>2, <2>3, ServerStays DEF FeedInvariant, RowsAreTyped
<1>4. ASSUME NEW d \in Drafts, Writes(d, task[t].text, task[t].expects),
             task' = [task EXCEPT ![t].answer =
                         [ok |-> TRUE, record |-> [draft |-> d, ver |-> draft'[d].ver]]]
      PROVE  FeedInvariant'
  <2>1. /\ DraftsMove /\ draft'[d].ver \in Nat
        /\ buffer' \in [text : SUBSET Edits, newer : BOOLEAN] \cup {Null}
    BY <1>1, <1>4, WritesMove
  <2>2. [draft |-> d, ver |-> draft'[d].ver] \in SavedRecord
    BY <2>1 DEF SavedRecord
  <2>3. PICK r \in SavedRecord : task' = [task EXCEPT ![t].answer = [ok |-> TRUE, record |-> r]]
    BY <1>4, <2>2
  <2>4. task' \in [Tabs -> Task] /\ AnswersHaveRecords'
    BY <1>2, <2>3 DEF Record, SavedRecord
  <2>5. UNCHANGED <<typed, tab, call, stray, draftLock, post>>
    BY DEF SaveArrives
  <2>6. QED
    BY <2>1, <2>4, <2>5, MovesAreSafe DEF FeedInvariant, RowsAreTyped, DraftsMove
<1>5. QED
  BY <1>3, <1>4 DEF SaveArrives

\* A save that is given up may still be on its way.
LEMMA LateSaves ==
    ASSUME FeedInvariant, NEW t \in Tabs, SaveLost(t)
    PROVE  \A r \in stray' : r.text \subseteq Edits /\ r.expects \in Nat
<1>1. task[t].text \subseteq Edits /\ task[t].expects \in Nat
  <2>1. task[t] \in Task
    BY DEF FeedInvariant, RowsAreTyped
  <2>2. QED
    BY <2>1 DEF Task
<1>2. stray' \subseteq stray \cup {[text |-> task[t].text, expects |-> task[t].expects]}
  BY DEF SaveLost
<1>3. QED
  BY <1>1, <1>2 DEF FeedInvariant, RowsAreTyped

\* A save without an answer is sent again; the first may still arrive.
LEMMA SaveRetriesKeeps ==
    ASSUME FeedInvariant, NEW t \in Tabs, SaveRetries(t) PROVE FeedInvariant'
<1> DEFINE x == [task[t] EXCEPT !.tries = @ + 1, !.answer = Null]
<1>1. task[t] \in Task /\ task[t].op = "saving" /\ task[t].tries < MaxRetries
  BY DEF FeedInvariant, RowsAreTyped, SaveRetries
<1>2. task' = [task EXCEPT ![t] = x]
  BY <1>1 DEF FeedInvariant, RowsAreTyped, SaveRetries
<1>3. task[t].tries + 1 \in 0..MaxRetries
  BY <1>1, FeedAssumption DEF Task
<1>4. x \in Task /\ x.op = "saving" /\ x.answer = Null
  BY <1>1, <1>3 DEF Task, Answer
<1> HIDE DEF x
<1>5. task' \in [Tabs -> Task] /\ AnswersHaveRecords'
  <2>1. NextTask(t, x)
    BY <1>4 DEF NextTask
  <2>2. QED
    BY <1>2, <2>1, TasksHold
<1>6. QED
  BY <1>5, ServerStays, LateSaves DEF SaveRetries, FeedInvariant, RowsAreTyped

\* The tab gives a save up; it may still arrive.
LEMMA SaveGivesUpKeeps ==
    ASSUME FeedInvariant, NEW t \in Tabs, SaveGivesUp(t) PROVE FeedInvariant'
<1>1. task' \in [Tabs -> Task] /\ AnswersHaveRecords'
  BY IdleIsNext, TasksHold DEF SaveGivesUp
<1>2. QED
  BY <1>1, ServerStays, LateSaves DEF SaveGivesUp, FeedInvariant, RowsAreTyped

\* The answer of a save reaches the tab.
LEMMA SaveAnsweredKeeps ==
    ASSUME FeedInvariant, NEW t \in Tabs, SaveAnswered(t) PROVE FeedInvariant'
<1>1. /\ task[t] \in Task /\ tab[t] \in TabState /\ task[t].op = "saving"
      /\ task[t].answer # Null
      /\ task[t].answer.ok \in BOOLEAN /\ task[t].answer.record \in Record
      /\ task[t].answer.ok => task[t].answer.record \in SavedRecord
      /\ task[t].text \in SUBSET Edits /\ tab[t].text \in SUBSET Edits
  <2>1. task[t] \in Task /\ tab[t] \in TabState
    BY DEF FeedInvariant, RowsAreTyped
  <2>2. task[t].op = "saving" /\ task[t].answer # Null
    BY DEF SaveAnswered
  <2>3. task[t].answer \in [ok : BOOLEAN, record : Record]
    BY <2>1, <2>2 DEF Task, Answer
  <2>4. QED
    BY <2>1, <2>2, <2>3 DEF FeedInvariant, AnswersHaveRecords, Task, TabState
<1>2. UNCHANGED <<typed, call, stray, draft, draftLock, post>>
  BY DEF SaveAnswered
<1>3. /\ tab' \in [Tabs -> TabState]
      /\ buffer' \in [text : SUBSET Edits, newer : BOOLEAN] \cup {Null}
      /\ task' \in [Tabs -> Task] /\ AnswersHaveRecords'
  <2>1. CASE task[t].answer.ok
    <3> DEFINE x == [tab[t] EXCEPT !.record = task[t].answer.record, !.saved = task[t].text]
               y == [task[t] EXCEPT !.op = "saved"]
    <3>1. x \in TabState
      BY <1>1, <2>1 DEF TabState
    <3>2. tab' = [tab EXCEPT ![t] = x]
      BY <2>1 DEF SaveAnswered, FeedInvariant, RowsAreTyped
    <3>3. y \in Task /\ y.op = "saved" /\ y.answer = task[t].answer
      BY <1>1 DEF Task
    <3>4. task' = [task EXCEPT ![t] = y] \/ task' = [task EXCEPT ![t] = NoTask]
      BY <2>1 DEF SaveAnswered, FeedInvariant, RowsAreTyped
    <3>5. buffer' \in {Null, [text |-> tab[t].text, newer |-> TRUE]}
      BY <2>1 DEF SaveAnswered
    <3> HIDE DEF x, y
    <3>6. NextTask(t, y)
      BY <1>1, <2>1, <3>3 DEF NextTask
    <3>7. task' \in [Tabs -> Task] /\ AnswersHaveRecords'
      BY <3>4, <3>6, IdleIsNext, TasksHold
    <3>8. tab' \in [Tabs -> TabState]
      BY <3>1, <3>2 DEF FeedInvariant, RowsAreTyped
    <3>9. [text |-> tab[t].text, newer |-> TRUE] \in [text : SUBSET Edits, newer : BOOLEAN]
      BY <1>1
    <3>10. QED
      BY <3>5, <3>7, <3>8, <3>9
  <2>2. CASE ~task[t].answer.ok
    <3>1. PICK r \in Record : tab' = [tab EXCEPT ![t].conflict = TRUE, ![t].record = r]
      <4>1. tab[t].record \in Record
        BY <1>1 DEF TabState
      <4>2. tab' = [tab EXCEPT ![t].conflict = TRUE,
                       ![t].record = IF task[t].answer.record = Null THEN tab[t].record
                                     ELSE task[t].answer.record]
        BY <2>2 DEF SaveAnswered, FeedInvariant, RowsAreTyped
      <4>3. QED
        BY <1>1, <4>1, <4>2
    <3> DEFINE x == [tab[t] EXCEPT !.conflict = TRUE, !.record = r]
    <3>2. x \in TabState
      BY <1>1 DEF TabState
    <3>3. tab' = [tab EXCEPT ![t] = x]
      BY <3>1 DEF FeedInvariant, RowsAreTyped
    <3> HIDE DEF x
    <3>4. task' \in [Tabs -> Task] /\ AnswersHaveRecords'
      BY <2>2, IdleIsNext, TasksHold DEF SaveAnswered
    <3>5. QED
      BY <2>2, <3>2, <3>3, <3>4 DEF SaveAnswered, FeedInvariant, RowsAreTyped
  <2>3. QED
    BY <1>1, <2>1, <2>2
<1>4. QED
  BY <1>2, <1>3, ServerStays DEF FeedInvariant, RowsAreTyped

\* What a tab asks outside its queue.
LEMMA CallsHold ==
    ASSUME FeedInvariant, NEW t \in Tabs, NEW x \in Call, call' = [call EXCEPT ![t] = x]
    PROVE  call' \in [Tabs -> Call]
BY DEF FeedInvariant, RowsAreTyped

\* A tab that asks nothing, and one that asks something else of what it read.
LEMMA CallsAreTyped ==
    /\ NoCall \in Call
    /\ \A x \in Call, op \in {"none", "restoring", "read", "discarding", "discarded"} :
          [x EXCEPT !.op = op] \in Call
BY DEF NoCall, Call, Record

\* A step of a tab that leaves its queue, the server and the buffer.
LEMMA AsideKeeps ==
    ASSUME FeedInvariant, NEW t \in Tabs, NEW x \in TabState, NEW y \in Call,
           tab' = [tab EXCEPT ![t] = x], call' = [call EXCEPT ![t] = y],
           UNCHANGED <<typed, task, stray, draft, draftLock, post>>,
           buffer' \in {buffer, Null}
    PROVE  FeedInvariant'
<1>1. tab' \in [Tabs -> TabState]
  BY DEF FeedInvariant, RowsAreTyped
<1>2. call' \in [Tabs -> Call]
  BY CallsHold
<1>3. RowsAreTyped' /\ AnswersHaveRecords'
  BY <1>1, <1>2 DEF FeedInvariant, RowsAreTyped, AnswersHaveRecords
<1>4. QED
  BY <1>3, ServerStays DEF FeedInvariant

\* A tab leaves its form as it is.
LEMMA SameTab ==
    ASSUME FeedInvariant, NEW t \in Tabs
    PROVE  /\ tab[t] \in TabState /\ tab = [tab EXCEPT ![t] = tab[t]]
           /\ call[t] \in Call
BY DEF FeedInvariant, RowsAreTyped

\* A tab asks the server for the draft, and saves again after a conflict.
LEMMA BeginRestoreKeeps ==
    ASSUME FeedInvariant, NEW t \in Tabs, NEW fresh \in BOOLEAN, BeginRestore(t, fresh)
    PROVE  FeedInvariant'
<1> DEFINE x == [record |-> IF fresh THEN Null ELSE tab[t].record,
                 text |-> IF fresh THEN {} ELSE tab[t].text, saved |-> {}, conflict |-> FALSE]
           y == [call[t] EXCEPT !.op = "restoring"]
<1>1. x \in TabState
  BY SameTab DEF TabState, Record
<1>2. y \in Call
  BY SameTab, CallsAreTyped
<1>3. tab' = [tab EXCEPT ![t] = x] /\ call' = [call EXCEPT ![t] = y]
  BY DEF BeginRestore, FeedInvariant, RowsAreTyped
<1> HIDE DEF x, y
<1>4. QED
  BY <1>1, <1>2, <1>3, AsideKeeps DEF BeginRestore

\* The server answers with its active draft, if it is reached and has one.
LEMMA RestoreReadsKeeps ==
    ASSUME FeedInvariant, NEW t \in Tabs, NEW rows \in SUBSET Drafts, RestoreReads(t, rows)
    PROVE  FeedInvariant'
<1> DEFINE record == IF rows = {} THEN Null ELSE RecordOf(CHOOSE d \in rows : TRUE)
           text == UNION {draft[d].text : d \in rows}
           y == [op |-> "read", record |-> record, text |-> text]
<1>1. record \in Record
  BY RecordsOfCurrent
<1>2. text \in SUBSET Edits
  <2>1. \A d \in rows : draft[d].text \in SUBSET Edits
    BY DEF FeedInvariant, RowsAreTyped, DraftRow
  <2>2. QED
    BY <2>1
<1>3. call' = [call EXCEPT ![t] = y] /\ tab' = [tab EXCEPT ![t] = tab[t]]
  BY SameTab DEF RestoreReads
<1> HIDE DEF record, text
<1>4. y \in Call
  BY <1>1, <1>2 DEF Call
<1> HIDE DEF y
<1>5. QED
  BY <1>3, <1>4, SameTab, AsideKeeps DEF RestoreReads

\* The form is filled with what was read or with the local buffer.
LEMMA RestoreAnsweredKeeps ==
    ASSUME FeedInvariant, NEW t \in Tabs, NEW mine \in BOOLEAN, RestoreAnswered(t, mine)
    PROVE  FeedInvariant'
<1> DEFINE r == call[t].record
           text == IF mine THEN buffer.text ELSE IF r # Null THEN call[t].text ELSE tab[t].text
           x == [tab[t] EXCEPT !.record = r, !.text = text]
<1>1. r \in Record /\ call[t].text \in SUBSET Edits
  BY SameTab DEF Call
<1>2. text \in SUBSET Edits
  <2>1. tab[t].text \in SUBSET Edits
    BY SameTab DEF TabState
  <2>2. mine => buffer # Null
    BY DEF RestoreAnswered
  <2>3. mine => buffer.text \in SUBSET Edits
    BY <2>2 DEF FeedInvariant, RowsAreTyped
  <2>4. QED
    BY <1>1, <2>1, <2>3
<1>3. tab' = [tab EXCEPT ![t] = x] /\ call' = [call EXCEPT ![t] = NoCall]
  BY DEF RestoreAnswered, FeedInvariant, RowsAreTyped
<1> HIDE DEF r, text
<1>4. x \in TabState
  BY <1>1, <1>2, SameTab DEF TabState
<1> HIDE DEF x
<1>5. QED
  BY <1>3, <1>4, CallsAreTyped, AsideKeeps DEF RestoreAnswered

\* The author discards the draft: the local copy goes first.
LEMMA BeginDiscardKeeps ==
    ASSUME FeedInvariant, NEW t \in Tabs, BeginDiscard(t) PROVE FeedInvariant'
<1> DEFINE x == [tab[t] EXCEPT !.saved = {}, !.conflict = FALSE]
           y == [call[t] EXCEPT !.op = "discarding"]
<1>1. x \in TabState
  BY SameTab DEF TabState
<1>2. y \in Call
  BY SameTab, CallsAreTyped
<1>3. tab' = [tab EXCEPT ![t] = x] /\ call' = [call EXCEPT ![t] = y]
  BY DEF BeginDiscard, FeedInvariant, RowsAreTyped
<1> HIDE DEF x, y
<1>4. QED
  BY <1>1, <1>2, <1>3, AsideKeeps DEF BeginDiscard

\* The server discards what no post has locked.
LEMMA DiscardArrivesKeeps ==
    ASSUME FeedInvariant, NEW t \in Tabs, DiscardArrives(t) PROVE FeedInvariant'
<1> DEFINE y == [call[t] EXCEPT !.op = "discarded"]
<1>1. y \in Call
  BY SameTab, CallsAreTyped
<1>2. call' = [call EXCEPT ![t] = y]
  BY DEF DiscardArrives, FeedInvariant, RowsAreTyped
<1> HIDE DEF y
<1>3. call' \in [Tabs -> Call]
  BY <1>1, <1>2, CallsHold
<1>4. DraftsMove
  BY DiscardsMove DEF DiscardArrives
<1>5. UNCHANGED <<typed, tab, task, buffer, stray, draftLock, post>>
  BY DEF DiscardArrives
<1>6. QED
  BY <1>3, <1>4, <1>5, MovesAreSafe
     DEF FeedInvariant, RowsAreTyped, AnswersHaveRecords, DraftsMove

\* The tab hears of the discard and empties its form.
LEMMA DiscardAnsweredKeeps ==
    ASSUME FeedInvariant, NEW t \in Tabs, DiscardAnswered(t) PROVE FeedInvariant'
<1> DEFINE x == [tab[t] EXCEPT !.record = Null, !.text = {}]
<1>1. x \in TabState
  BY SameTab DEF TabState, Record
<1>2. tab' = [tab EXCEPT ![t] = x] /\ call' = [call EXCEPT ![t] = NoCall]
  BY DEF DiscardAnswered, FeedInvariant, RowsAreTyped
<1> HIDE DEF x
<1>3. QED
  BY <1>1, <1>2, CallsAreTyped, AsideKeeps DEF DiscardAnswered

\* The tab does not hear of it.
LEMMA DiscardFailsKeeps ==
    ASSUME FeedInvariant, NEW t \in Tabs, DiscardFails(t) PROVE FeedInvariant'
BY SameTab, CallsAreTyped, AsideKeeps DEF DiscardFails

\* The answer of a post reaches the tab.
LEMMA PostAnsweredKeeps ==
    ASSUME FeedInvariant, NEW t \in Tabs, PostAnswered(t) PROVE FeedInvariant'
<1> DEFINE published == post[task[t].post].status = "published"
           x == IF published
                THEN [record |-> Null, text |-> {}, saved |-> {}, conflict |-> FALSE]
                ELSE [tab[t] EXCEPT !.text = {}]
<1>1. x \in TabState
  <2>1. tab[t] \in TabState
    BY DEF FeedInvariant, RowsAreTyped
  <2>2. QED
    BY <2>1 DEF TabState, Record
<1>2. tab' = tab \/ tab' = [tab EXCEPT ![t] = x]
  BY DEF PostAnswered
<1> HIDE DEF x
<1>3. tab' \in [Tabs -> TabState]
  BY <1>1, <1>2 DEF FeedInvariant, RowsAreTyped
<1>4. task' \in [Tabs -> Task] /\ AnswersHaveRecords'
  BY IdleIsNext, TasksHold DEF PostAnswered
<1>5. buffer' \in {Null, buffer} /\ UNCHANGED <<typed, call, stray, draft, draftLock, post>>
  BY DEF PostAnswered
<1>6. QED
  BY <1>3, <1>4, <1>5, ServerStays DEF FeedInvariant, RowsAreTyped

\* The tab stops waiting for a post, which goes on at the server.
LEMMA PostTimesOutKeeps ==
    ASSUME FeedInvariant, NEW t \in Tabs, PostTimesOut(t) PROVE FeedInvariant'
<1>1. task' \in [Tabs -> Task] /\ AnswersHaveRecords'
  BY IdleIsNext, TasksHold DEF PostTimesOut
<1>2. QED
  BY <1>1, ServerStays DEF PostTimesOut, FeedInvariant, RowsAreTyped

-----------------------------------------------------------------------------
(* Publishing.                                                             *)

\* The tab sends a post of the draft it saved.
LEMMA SendPostKeeps ==
    ASSUME FeedInvariant, NEW t \in Tabs, NEW p \in Posts, NEW status \in PostStatuses,
           SendPost(t, p, status)
    PROVE  FeedInvariant'
<1> DEFINE x == [st |-> "sent", record |-> task[t].answer.record, status |-> status]
           y == [NoTask EXCEPT !.op = "posting", !.post = p]
<1>1. task[t].answer.record \in SavedRecord
  BY DEF SendPost, FeedInvariant, AnswersHaveRecords
<1>2. x \in PostRow
  BY <1>1 DEF PostRow, Record, SavedRecord
<1>3. NextTask(t, y)
  <2>1. y \in Task /\ y.op = "posting"
    BY IdleIsTyped DEF Task
  <2> HIDE DEF y
  <2>2. QED
    BY <2>1 DEF NextTask
<1>4. /\ post' = [post EXCEPT ![p] = x] /\ task' = [task EXCEPT ![t] = y]
      /\ post[p].st = "none" /\ x.st = "sent" /\ x.record = task[t].answer.record
      /\ UNCHANGED <<typed, tab, call, buffer, stray, draft, draftLock>>
  BY DEF SendPost
<1> HIDE DEF x, y
<1>5. task' \in [Tabs -> Task] /\ AnswersHaveRecords'
  BY <1>3, <1>4, TasksHold
<1>6. /\ post' \in [Posts -> PostRow] /\ post'[p] = x
      /\ \A r \in Posts : r # p => post'[r] = post[r]
  BY <1>2, <1>4 DEF FeedInvariant, RowsAreTyped
<1>7. PostsHaveRecords'
  BY <1>1, <1>4, <1>6 DEF FeedInvariant, ServerHolds, PostsHaveRecords
<1>8. PostsHoldDrafts'
  BY <1>4, <1>6 DEF FeedInvariant, ServerHolds, PostsHoldDrafts
<1>9. OneIsActive' /\ PostsAreNamed'
  BY <1>4 DEF FeedInvariant, ServerHolds, OneIsActive, PostsAreNamed, Current
<1>10. PublishedOnce'
  BY <1>4, <1>6 DEF FeedInvariant, ServerHolds, PublishedOnce, PostsAreNamed
<1>11. QED
  BY <1>4, <1>5, <1>6, <1>7, <1>8, <1>9, <1>10 DEF FeedInvariant, RowsAreTyped, ServerHolds

\* What a post becomes, when it publishes nothing.
LEMMA PostsMove ==
    ASSUME FeedInvariant, NEW p \in Posts, NEW st \in {"locked", "repeated", "refused"},
           post[p].st \in {"sent", "locked"}, post' = [post EXCEPT ![p].st = st],
           UNCHANGED <<typed, tab, task, call, buffer, stray, draft>>
    PROVE  /\ post' \in [Posts -> PostRow] /\ post'[p].st = st
           /\ \A r \in Posts : post'[r].record = post[r].record
           /\ \A r \in Posts : r # p => post'[r] = post[r]
           /\ PostsHaveRecords' /\ OneIsActive' /\ PostsAreNamed' /\ PublishedOnce'
           /\ AnswersHaveRecords'
<1> DEFINE x == [post[p] EXCEPT !.st = st]
<1>1. post \in [Posts -> PostRow] /\ post[p] \in PostRow
  BY DEF FeedInvariant, RowsAreTyped
<1>2. x \in PostRow /\ x.st = st /\ x.record = post[p].record
  BY <1>1 DEF PostRow
<1>3. post' = [post EXCEPT ![p] = x]
  BY <1>1
<1> HIDE DEF x
<1>4. /\ post' \in [Posts -> PostRow] /\ post'[p] = x
      /\ \A r \in Posts : r # p => post'[r] = post[r]
  BY <1>1, <1>2, <1>3
<1>5. \A r \in Posts : post'[r].record = post[r].record
  BY <1>2, <1>4
<1>6. PostsHaveRecords'
  BY <1>2, <1>4 DEF FeedInvariant, ServerHolds, PostsHaveRecords
<1>7. OneIsActive' /\ PostsAreNamed' /\ AnswersHaveRecords'
  BY DEF FeedInvariant, ServerHolds, OneIsActive, PostsAreNamed, Current, AnswersHaveRecords
<1>8. PublishedOnce'
  BY <1>2, <1>4 DEF FeedInvariant, ServerHolds, PublishedOnce, PostsAreNamed
<1>9. QED
  BY <1>2, <1>4, <1>5, <1>6, <1>7, <1>8

\* A post locks its draft and finds it active.
LEMMA PostReadsKeeps ==
    ASSUME FeedInvariant, NEW p \in Posts, PostReads(p) PROVE FeedInvariant'
<1> DEFINE d == post[p].record.draft
<1>1. post[p].st = "sent" /\ post[p].record \in SavedRecord
  BY DEF PostReads, FeedInvariant, ServerHolds, PostsHaveRecords
<1>2. d \in Drafts
  BY <1>1 DEF SavedRecord
<1>3. draftLock[d] = Null /\ UNCHANGED <<typed, tab, task, call, buffer, stray, draft>>
  BY DEF PostReads
<1>4. PICK st \in {"locked", "repeated", "refused"} :
          /\ post' = [post EXCEPT ![p].st = st]
          /\ st = "locked" => /\ draft[d].st = "active"
                              /\ draftLock' = [draftLock EXCEPT ![d] = p]
          /\ st # "locked" => UNCHANGED draftLock
  BY DEF PostReads
<1> HIDE DEF d
<1>5. /\ post' \in [Posts -> PostRow] /\ post'[p].st = st
      /\ \A r \in Posts : post'[r].record = post[r].record
      /\ \A r \in Posts : r # p => post'[r] = post[r]
      /\ PostsHaveRecords' /\ OneIsActive' /\ PostsAreNamed' /\ PublishedOnce'
      /\ AnswersHaveRecords'
  BY <1>1, <1>3, <1>4, PostsMove
<1>6. /\ draftLock' \in [Drafts -> Posts \cup {Null}]
      /\ st = "locked" => draftLock'[d] = p
      /\ \A c \in Drafts : draftLock[c] # Null => draftLock'[c] = draftLock[c]
  <2>1. draftLock \in [Drafts -> Posts \cup {Null}]
    BY DEF FeedInvariant, RowsAreTyped
  <2>2. QED
    BY <1>2, <1>3, <1>4, <2>1
<1>7. PostsHoldDrafts'
  <2> SUFFICES ASSUME NEW r \in Posts, post'[r].st = "locked",
                      NEW c, c = post'[r].record.draft
               PROVE  draftLock'[c] = r /\ draft'[c].st = "active"
    BY DEF PostsHoldDrafts
  <2>1. CASE r = p
    <3>1. c = d /\ st = "locked"
      BY <1>5, <2>1 DEF d
    <3>2. QED
      BY <1>3, <1>4, <1>6, <2>1, <3>1
  <2>2. CASE r # p
    <3>1. post[r].st = "locked" /\ post[r].record \in SavedRecord /\ c = post[r].record.draft
      BY <1>5, <2>2 DEF FeedInvariant, ServerHolds, PostsHaveRecords
    <3>2. c \in Drafts /\ draftLock[c] = r /\ draft[c].st = "active"
      BY <3>1 DEF FeedInvariant, ServerHolds, PostsHoldDrafts, SavedRecord
    <3>3. QED
      BY <1>3, <1>6, <3>2, FeedAssumption
  <2>3. QED
    BY <2>1, <2>2
<1>8. QED
  BY <1>3, <1>5, <1>6, <1>7 DEF FeedInvariant, RowsAreTyped, ServerHolds

\* A lock is freed by its holder only.
LEMMA UnlockedKeeps ==
    ASSUME FeedInvariant, NEW p \in Posts, draftLock' = Unlocked(p)
    PROVE  /\ draftLock' \in [Drafts -> Posts \cup {Null}]
           /\ \A c \in Drafts : draftLock[c] # p => draftLock'[c] = draftLock[c]
BY DEF FeedInvariant, RowsAreTyped, Unlocked

\* A post is refused and releases its draft.
LEMMA PostFailsKeeps ==
    ASSUME FeedInvariant, NEW p \in Posts, PostFails(p) PROVE FeedInvariant'
<1>1. /\ post[p].st \in {"sent", "locked"} /\ post' = [post EXCEPT ![p].st = "refused"]
      /\ UNCHANGED <<typed, tab, task, call, buffer, stray, draft>> /\ draftLock' = Unlocked(p)
  BY DEF PostFails
<1>2. /\ post' \in [Posts -> PostRow] /\ post'[p].st = "refused"
      /\ \A r \in Posts : r # p => post'[r] = post[r]
      /\ PostsHaveRecords' /\ OneIsActive' /\ PostsAreNamed' /\ PublishedOnce'
      /\ AnswersHaveRecords'
  BY <1>1, PostsMove
<1>3. PostsHoldDrafts'
  <2> SUFFICES ASSUME NEW r \in Posts, post'[r].st = "locked",
                      NEW c, c = post'[r].record.draft
               PROVE  draftLock'[c] = r /\ draft'[c].st = "active"
    BY DEF PostsHoldDrafts
  <2>1. r # p /\ post'[r] = post[r]
    BY <1>2
  <2>2. post[r].record \in SavedRecord
    BY <2>1 DEF FeedInvariant, ServerHolds, PostsHaveRecords
  <2>3. c \in Drafts /\ draftLock[c] = r /\ draft[c].st = "active"
    BY <2>1, <2>2 DEF FeedInvariant, ServerHolds, PostsHoldDrafts, SavedRecord
  <2>4. QED
    BY <1>1, <2>1, <2>3, UnlockedKeeps
<1>4. QED
  BY <1>1, <1>2, <1>3, UnlockedKeeps DEF FeedInvariant, RowsAreTyped, ServerHolds

\* What was locked is active still, and nothing else was published from it.
LEMMA PostCommitsKeeps ==
    ASSUME FeedInvariant, NEW p \in Posts, PostCommits(p) PROVE FeedInvariant'
<1> USE FeedAssumption
<1> DEFINE d == post[p].record.draft
           x == [post[p] EXCEPT !.st = "created"]
           y == [draft[d] EXCEPT !.st = "published", !.ver = @ + 1, !.post = p]
           publishes == post[p].status = "published"
<1>1. /\ post[p].st = "locked" /\ post[p] \in PostRow /\ post[p].record \in SavedRecord
      /\ post \in [Posts -> PostRow] /\ draft \in [Drafts -> DraftRow]
      /\ UNCHANGED <<typed, tab, task, call, buffer, stray>> /\ draftLock' = Unlocked(p)
  BY DEF PostCommits, FeedInvariant, RowsAreTyped, ServerHolds, PostsHaveRecords
<1>2. d \in Drafts /\ draftLock[d] = p /\ draft[d].st = "active"
  BY <1>1 DEF FeedInvariant, ServerHolds, PostsHoldDrafts, SavedRecord
<1>3. x \in PostRow /\ x.st = "created" /\ x.record = post[p].record /\ x.status = post[p].status
  BY <1>1 DEF PostRow
<1>4. y \in DraftRow /\ y.st = "published" /\ y.post = p
  <2>1. draft[d] \in DraftRow
    BY <1>1, <1>2
  <2>2. draft[d].ver + 1 \in Nat
    BY <2>1 DEF DraftRow
  <2> DEFINE v == draft[d].ver + 1
  <2> HIDE DEF d, v
  <2>3. [draft[d] EXCEPT !.st = "published", !.ver = v, !.post = p] \in DraftRow
    BY <2>1, <2>2 DEF DraftRow, v
  <2>4. /\ [draft[d] EXCEPT !.st = "published", !.ver = v, !.post = p].st = "published"
        /\ [draft[d] EXCEPT !.st = "published", !.ver = v, !.post = p].post = p
    BY <2>1 DEF DraftRow
  <2>5. QED
    BY <2>3, <2>4 DEF v
<1>5. post' = [post EXCEPT ![p] = x]
  BY <1>1 DEF PostCommits
<1>6. draft' = IF publishes THEN [draft EXCEPT ![d] = y] ELSE draft
  BY <1>1, <1>2 DEF PostCommits
<1> HIDE DEF x, y
<1>7. /\ post' \in [Posts -> PostRow] /\ post'[p] = x
      /\ \A r \in Posts : r # p => post'[r] = post[r]
  BY <1>1, <1>3, <1>5
<1>8. /\ draft' \in [Drafts -> DraftRow]
      /\ publishes => draft'[d] = y
      /\ \A c \in Drafts : c # d \/ ~publishes => draft'[c] = draft[c]
  BY <1>1, <1>2, <1>4, <1>6
<1>9. /\ draftLock' \in [Drafts -> Posts \cup {Null}]
      /\ \A c \in Drafts : draftLock[c] # p => draftLock'[c] = draftLock[c]
  BY <1>1, UnlockedKeeps
<1>10. PostsHaveRecords'
  BY <1>1, <1>3, <1>7 DEF FeedInvariant, ServerHolds, PostsHaveRecords
<1>11. PostsHoldDrafts'
  <2> SUFFICES ASSUME NEW r \in Posts, post'[r].st = "locked",
                      NEW c, c = post'[r].record.draft
               PROVE  draftLock'[c] = r /\ draft'[c].st = "active"
    BY DEF PostsHoldDrafts
  <2>1. r # p /\ post'[r] = post[r]
    BY <1>3, <1>7
  <2>2. post[r].record \in SavedRecord
    BY <2>1 DEF FeedInvariant, ServerHolds, PostsHaveRecords
  <2>3. c \in Drafts /\ draftLock[c] = r /\ draft[c].st = "active"
    BY <2>1, <2>2 DEF FeedInvariant, ServerHolds, PostsHoldDrafts, SavedRecord
  <2>4. c # d
    BY <1>2, <2>1, <2>3
  <2> HIDE DEF d
  <2>5. QED
    BY <1>8, <1>9, <2>1, <2>3, <2>4
<1> DEFINE created == post[p].record
<1>12. OneIsActive' /\ PostsAreNamed'
  <2>1. \A c \in Drafts : draft'[c].st = "active" => draft[c].st = "active"
    BY <1>2, <1>8
  <2>2. \A c \in Drafts : draft'[c].st = "published" => draft'[c].post \in Posts
    <3> HIDE DEF d
    <3>1. QED
      BY <1>4, <1>8 DEF FeedInvariant, ServerHolds, PostsAreNamed
  <2>3. QED
    BY <2>1, <2>2 DEF FeedInvariant, ServerHolds, OneIsActive, PostsAreNamed, Current
<1>13. PublishedOnce'
  <2>1. ASSUME NEW r \in Posts, post'[r].st = "created", post'[r].status = "published",
               NEW c, c = post'[r].record.draft
        PROVE  draft'[c].st = "published" /\ draft'[c].post = r
    <3>1. CASE r = p
      <4>1. c = d /\ publishes
        BY <1>3, <1>7, <2>1, <3>1
      <4> HIDE DEF d, publishes
      <4>2. QED
        BY <1>4, <1>8, <3>1, <4>1
    <3>2. CASE r # p
      <4>1. post'[r] = post[r]
        BY <1>7, <3>2
      <4>2. post[r].record \in SavedRecord
        BY <2>1, <4>1 DEF FeedInvariant, ServerHolds, PostsHaveRecords
      <4>3. c \in Drafts /\ draft[c].st = "published" /\ draft[c].post = r
        BY <2>1, <4>1, <4>2 DEF FeedInvariant, ServerHolds, PublishedOnce, SavedRecord
      <4>4. c # d
        BY <1>2, <4>3
      <4> HIDE DEF d
      <4>5. QED
        BY <1>8, <4>3, <4>4
    <3>3. QED
      BY <3>1, <3>2
  <2>2. ASSUME NEW c \in Drafts, draft'[c].st = "published"
        PROVE  post'[draft'[c].post].st = "created"
    <3>1. CASE c = d /\ publishes
      <4> HIDE DEF d
      <4>1. QED
        BY <1>3, <1>4, <1>7, <1>8, <3>1
    <3>2. CASE ~(c = d /\ publishes)
      <4>1. draft'[c] = draft[c]
        BY <1>8, <3>2
      <4>2. draft[c].post \in Posts /\ post[draft[c].post].st = "created"
        BY <2>2, <4>1 DEF FeedInvariant, ServerHolds, PublishedOnce, PostsAreNamed
      <4>3. QED
        BY <1>1, <1>7, <4>1, <4>2
    <3>3. QED
      BY <3>1, <3>2
  <2>3. QED
    BY <2>1, <2>2 DEF PublishedOnce
<1>14. AnswersHaveRecords'
  BY <1>1 DEF FeedInvariant, AnswersHaveRecords
<1>15. QED
  BY <1>1, <1>7, <1>8, <1>9, <1>10, <1>11, <1>12, <1>13, <1>14
     DEF FeedInvariant, RowsAreTyped, ServerHolds

-----------------------------------------------------------------------------
(* The server's own steps, and the theorems.                               *)

\* A save its tab gave up arrives late.
LEMMA StrayArrivesKeeps ==
    ASSUME FeedInvariant, NEW r \in stray, StrayArrives(r) PROVE FeedInvariant'
<1>1. r.text \in SUBSET Edits /\ r.expects \in Nat
  BY DEF FeedInvariant, RowsAreTyped
<1>2. stray' = stray \ {r} /\ UNCHANGED <<typed, tab, task, call, draftLock, post>>
  BY DEF StrayArrives
<1>3. CASE Refuses(r.expects)
  <2>1. UNCHANGED <<draft, buffer>>
    BY <1>3 DEF Refuses
  <2>2. QED
    BY <1>2, <2>1, ServerStays DEF FeedInvariant, RowsAreTyped, AnswersHaveRecords
<1>4. CASE \E d \in Drafts : Writes(d, r.text, r.expects)
  <2>1. /\ DraftsMove
        /\ buffer' \in [text : SUBSET Edits, newer : BOOLEAN] \cup {Null}
    BY <1>1, <1>4, WritesMove
  <2>2. QED
    BY <1>2, <2>1, MovesAreSafe DEF FeedInvariant, RowsAreTyped, AnswersHaveRecords, DraftsMove
<1>5. QED
  BY <1>3, <1>4 DEF StrayArrives

\* An image upload discards a draft nobody saved for thirty days.
LEMMA AbandonDraftKeeps == ASSUME FeedInvariant, AbandonDraft PROVE FeedInvariant'
<1>1. DraftsMove
  BY FreeDrafts, DiscardsMove DEF AbandonDraft
<1>2. QED
  BY <1>1, MovesAreSafe
     DEF AbandonDraft, FeedInvariant, RowsAreTyped, AnswersHaveRecords, DraftsMove

\* At the start nothing is typed, saved or posted.
LEMMA FeedInitEstablishes == FeedInit => FeedInvariant
<1> SUFFICES ASSUME FeedInit PROVE FeedInvariant
  OBVIOUS
<1>1. RowsAreTyped /\ AnswersHaveRecords
  BY FeedAssumption
     DEF FeedInit, RowsAreTyped, AnswersHaveRecords, NoTask, Task, Answer, NoCall, Call,
         TabState, Record, DraftRow, PostRow
<1>2. ServerHolds
  BY DEF FeedInit, ServerHolds, PostsHaveRecords, PostsHoldDrafts, OneIsActive, PostsAreNamed,
         PublishedOnce, Current
<1>3. QED
  BY <1>1, <1>2 DEF FeedInvariant

\* Every step of a tab or of the server keeps the invariant.
LEMMA FeedStepKeeps == FeedInvariant /\ [FeedNext]_feedVars => FeedInvariant'
<1> SUFFICES ASSUME FeedInvariant, [FeedNext]_feedVars PROVE FeedInvariant'
  OBVIOUS
<1>1. ASSUME NEW t \in Tabs, TabStep(t) PROVE FeedInvariant'
  BY <1>1, TypeEditKeeps, BeginSaveKeeps, PublishSavedKeeps, SaveArrivesKeeps,
     SaveRetriesKeeps, SaveGivesUpKeeps, SaveAnsweredKeeps, BeginRestoreKeeps,
     RestoreReadsKeeps, RestoreAnsweredKeeps, BeginDiscardKeeps, DiscardArrivesKeeps,
     DiscardAnsweredKeeps, DiscardFailsKeeps, SendPostKeeps, PostAnsweredKeeps,
     PostTimesOutKeeps DEF TabStep
<1>2. CASE UNCHANGED feedVars
  BY <1>2, ServerStays DEF feedVars, FeedInvariant, RowsAreTyped, AnswersHaveRecords
<1>3. QED
  BY <1>1, <1>2, StrayArrivesKeeps, PostReadsKeeps, PostCommitsKeeps, PostFailsKeeps,
     AbandonDraftKeeps DEF FeedNext

\* The inductive invariant holds in every behaviour of the feed.
THEOREM FeedInvariance == FeedSpec => []FeedInvariant
BY FeedInitEstablishes, FeedStepKeeps, PTL DEF FeedSpec

\* The invariant gives every variable its type, one active draft at most.
LEMMA FeedIsTyped == FeedInvariant => FeedTypeOK
<1> SUFFICES ASSUME FeedInvariant PROVE FeedTypeOK
  OBVIOUS
<1> DEFINE active == {d \in Drafts : draft[d].st = "active"}
<1>1. Cardinality(active) <= 1
  <2>1. \A c, d \in active : c = d
    BY DEF FeedInvariant, ServerHolds, OneIsActive, Current
  <2> HIDE DEF active
  <2>2. CASE active = {}
    BY <2>2, FS_EmptySet
  <2>3. CASE active # {}
    <3>1. PICK d \in active : active = {d}
      BY <2>1, <2>3
    <3>2. Cardinality({d}) = 1
      BY FS_Singleton
    <3>3. QED
      BY <3>1, <3>2
  <2>4. QED
    BY <2>2, <2>3
<1>2. QED
  BY <1>1 DEF FeedInvariant, RowsAreTyped, FeedTypeOK

\* However saves, restores and posts of an author's tabs overlap, a draft is
\* published by one post, the one it names (company-feed-routes.ts).
THEOREM DraftsPublishOnce == FeedSpec => [](FeedTypeOK /\ PublishedOnce)
<1>1. FeedInvariant => FeedTypeOK /\ PublishedOnce
  BY FeedIsTyped DEF FeedInvariant, ServerHolds
<1>2. QED
  BY <1>1, FeedInvariance, PTL

-----------------------------------------------------------------------------
(* The router.                                                             *)

\* An example that a promotion left and nobody brought back.
Promoted(q) == example[q].st = "approved" /\ ~example[q].again

\* What a request read is so until it ends.
PromotionHolds(r, t) ==
    /\ t.op \in {"embedding", "promoting"} =>
          t.about \in Candidates /\ t.text \in Queries /\ QueryOf[t.about] = t.text
    /\ t.op = "promoting" => promotionLock = r
    /\ t.op = "promoting" /\ t.adds =>
          \A s \in Queries : <<t.text, s>> \in Near => ~Promoted(s)
SharingHolds(r, t) ==
    /\ t.op = "contributing" =>
          /\ privacyLock = r /\ mode = "SHARED"
          /\ t.about \in Candidates /\ t.text \in Queries
          /\ candidate[t.about].st = "approved" /\ ~candidate[t.about].private
    /\ t.op = "sharing" =>
          /\ privacyLock = r /\ mode = "SHARED"
          /\ t.about \in Queries /\ t.text \in Queries
          /\ shareableLock[t.about] = r /\ shareable[t.about].st # "none"
RequestsHold == \A r \in Reviewers : PromotionHolds(r, review[r]) /\ SharingHolds(r, review[r])

\* An example knows the candidate it was learnt from.
ExamplesAreWhole == \A q \in Queries :
    IF example[q].st = "none" THEN example[q].from = Null ELSE example[q].from \in Candidates

\* What was offered to the other tenants is not of a private candidate.
OfferedIsOpen == \A q \in Queries : shareable[q].st # "none" =>
    example[q].st # "none" /\ ~candidate[example[q].from].private

LearningInvariant ==
    LearningTypeOK /\ ReviewsHold /\ RequestsHold /\ ExamplesAreWhole /\ OfferedIsOpen

\* At the start nothing was learnt and nobody reviews.
LEMMA LearningInitEstablishes == LearningInit => LearningInvariant
<1> SUFFICES ASSUME LearningInit PROVE LearningInvariant
  OBVIOUS
<1> USE LearningAssumption DEF LearningInit
<1>1. LearningTypeOK
  BY DEF LearningTypeOK, Modes, Holder, Example, Shared, Request, NoExample, NoShared, Idle
<1>2. ReviewsHold
  BY DEF ReviewsHold, PromotionsAgree, LearntFromApproved, NoExample
<1>3. RequestsHold
  BY DEF RequestsHold, PromotionHolds, SharingHolds, Idle
<1>4. ExamplesAreWhole /\ OfferedIsOpen
  BY DEF ExamplesAreWhole, OfferedIsOpen, NoExample, NoShared
<1>5. QED
  BY <1>1, <1>2, <1>3, <1>4 DEF LearningInvariant

-----------------------------------------------------------------------------
(* Candidates.                                                             *)

\* What a handler of a candidate may do: nothing to one that was approved.
LEMMA CandidateKeeps ==
    ASSUME LearningInvariant,
           UNCHANGED <<mode, example, shareable, corpus, review, lockVars>>,
           NEW c \in Candidates, NEW x \in [st : {"none", "pending", "approved", "rejected"},
               intent : Intents \cup {Null}, confirmed : BOOLEAN, private : BOOLEAN],
           candidate' = [candidate EXCEPT ![c] = x], candidate[c].st # "approved"
    PROVE  LearningInvariant'
<1> USE DEF lockVars
<1>1. LearningTypeOK'
  BY DEF LearningInvariant, LearningTypeOK
<1>2. \A d \in Candidates : candidate[d].st = "approved" => candidate'[d] = candidate[d]
  BY DEF LearningInvariant, LearningTypeOK
<1>3. \A q \in Queries : example[q].st # "none" =>
          /\ example[q].from \in Candidates /\ candidate[example[q].from].st = "approved"
          /\ candidate'[example[q].from] = candidate[example[q].from]
  BY <1>2 DEF LearningInvariant, ExamplesAreWhole, ReviewsHold, LearntFromApproved
<1>4. ReviewsHold' /\ ExamplesAreWhole' /\ OfferedIsOpen'
  BY <1>3 DEF LearningInvariant, ReviewsHold, PromotionsAgree, LearntFromApproved,
              ExamplesAreWhole, OfferedIsOpen
<1>5. RequestsHold'
  <2> SUFFICES ASSUME NEW r \in Reviewers
               PROVE  (PromotionHolds(r, review[r]) /\ SharingHolds(r, review[r]))'
    BY DEF RequestsHold
  <2>1. PromotionHolds(r, review[r]) /\ SharingHolds(r, review[r])
    BY DEF LearningInvariant, RequestsHold
  <2>2. QED
    BY <2>1, <1>2 DEF PromotionHolds, SharingHolds, Promoted
<1>6. QED
  BY <1>1, <1>4, <1>5 DEF LearningInvariant

\* Reviewing a candidate, without a transaction of several steps.
LEMMA CandidateStep ==
    ASSUME LearningInvariant, NEW c \in Candidates,
           \/ \E i \in Intents : CreateCandidate(c, i) \/ ChangeIntent(c, i)
           \/ \E private \in BOOLEAN : PrivateOnly(c, private)
           \/ RejectCandidate(c)
    PROVE  LearningInvariant'
<1> DEFINE Row == [st : {"none", "pending", "approved", "rejected"},
                   intent : Intents \cup {Null}, confirmed : BOOLEAN, private : BOOLEAN]
<1>0. candidate \in [Candidates -> Row] /\ candidate[c] \in Row
  BY DEF LearningInvariant, LearningTypeOK
<1>1. ASSUME NEW i \in Intents, CreateCandidate(c, i) PROVE LearningInvariant'
  <2> DEFINE x == [candidate[c] EXCEPT !.st = "pending", !.intent = i]
  <2>1. x \in Row
    BY <1>0
  <2>2. /\ candidate' = [candidate EXCEPT ![c] = x] /\ candidate[c].st # "approved"
        /\ UNCHANGED <<mode, example, shareable, corpus, review, lockVars>>
    BY <1>0, <1>1 DEF CreateCandidate
  <2> HIDE DEF x
  <2>3. QED
    BY <2>1, <2>2, CandidateKeeps
<1>2. ASSUME NEW i \in Intents, ChangeIntent(c, i) PROVE LearningInvariant'
  <2> DEFINE x == [candidate[c] EXCEPT !.intent = i]
  <2>1. x \in Row
    BY <1>0
  <2>2. /\ candidate' = [candidate EXCEPT ![c] = x] /\ candidate[c].st # "approved"
        /\ UNCHANGED <<mode, example, shareable, corpus, review, lockVars>>
    BY <1>0, <1>2 DEF ChangeIntent, Pending
  <2> HIDE DEF x
  <2>3. QED
    BY <2>1, <2>2, CandidateKeeps
<1>3. ASSUME NEW private \in BOOLEAN, PrivateOnly(c, private) PROVE LearningInvariant'
  <2> DEFINE x == [candidate[c] EXCEPT !.private = private]
  <2>1. x \in Row
    BY <1>0
  <2>2. /\ candidate' = [candidate EXCEPT ![c] = x] /\ candidate[c].st # "approved"
        /\ UNCHANGED <<mode, example, shareable, corpus, review, lockVars>>
    BY <1>0, <1>3 DEF PrivateOnly, Pending
  <2> HIDE DEF x
  <2>3. QED
    BY <2>1, <2>2, CandidateKeeps
<1>4. ASSUME RejectCandidate(c) PROVE LearningInvariant'
  <2> DEFINE x == [candidate[c] EXCEPT !.st = "rejected"]
  <2>1. x \in Row
    BY <1>0
  <2>2. /\ candidate' = [candidate EXCEPT ![c] = x] /\ candidate[c].st # "approved"
        /\ UNCHANGED <<mode, example, shareable, corpus, review, lockVars>>
    BY <1>0, <1>4 DEF RejectCandidate, Pending
  <2> HIDE DEF x
  <2>3. QED
    BY <2>1, <2>2, CandidateKeeps
<1>5. QED
  BY <1>1, <1>2, <1>3, <1>4

-----------------------------------------------------------------------------
(* Requests.                                                               *)

\* A request that moves on without ending: it takes only locks that are free.
LEMMA RequestMoves ==
    ASSUME LearningInvariant, NEW r \in Reviewers, NEW t \in Request,
           review' = [review EXCEPT ![r] = t], UNCHANGED rowVars,
           candidateLock' \in [Candidates -> Holder],
           promotionLock' \in Holder, privacyLock' \in Holder,
           shareableLock' \in [Queries -> Holder],
           promotionLock' = promotionLock \/ promotionLock = Null,
           privacyLock' = privacyLock \/ privacyLock = Null,
           \A q \in Queries : shareableLock'[q] = shareableLock[q] \/ shareableLock[q] = Null,
           PromotionHolds(r, t)', SharingHolds(r, t)'
    PROVE  LearningInvariant'
<1> USE LearningAssumption DEF rowVars
<1>1. /\ review' \in [Reviewers -> Request] /\ review'[r] = t
      /\ \A u \in Reviewers : u # r => review'[u] = review[u]
  BY DEF LearningInvariant, LearningTypeOK
<1>2. LearningTypeOK'
  BY <1>1 DEF LearningInvariant, LearningTypeOK
<1>3. ReviewsHold' /\ ExamplesAreWhole' /\ OfferedIsOpen'
  BY DEF LearningInvariant, ReviewsHold, PromotionsAgree, LearntFromApproved,
         ExamplesAreWhole, OfferedIsOpen
<1>4. RequestsHold'
  <2> SUFFICES ASSUME NEW u \in Reviewers
               PROVE  (PromotionHolds(u, review[u]) /\ SharingHolds(u, review[u]))'
    BY DEF RequestsHold
  <2>1. CASE u = r
    BY <2>1, <1>1 DEF PromotionHolds, SharingHolds
  <2>2. CASE u # r
    <3>1. review'[u] = review[u] /\ u # Null
      BY <2>2, <1>1
    <3>2. PromotionHolds(u, review[u]) /\ SharingHolds(u, review[u])
      BY DEF LearningInvariant, RequestsHold
    <3>3. PromotionHolds(u, review[u])'
      BY <3>1, <3>2 DEF PromotionHolds, Promoted
    <3>4. SharingHolds(u, review[u])'
      BY <3>1, <3>2 DEF SharingHolds
    <3>5. QED
      BY <3>3, <3>4
  <2>3. QED
    BY <2>1, <2>2
<1>5. QED
  BY <1>2, <1>3, <1>4 DEF LearningInvariant

\* What the locks are, as long as nothing is said of them.
LEMMA LocksAreTyped ==
    LearningInvariant => /\ candidateLock \in [Candidates -> Holder]
                         /\ promotionLock \in Holder /\ privacyLock \in Holder
                         /\ shareableLock \in [Queries -> Holder]
                         /\ review \in [Reviewers -> Request]
                         /\ example \in [Queries -> Example]
BY DEF LearningInvariant, LearningTypeOK

\* A confirmation reads its candidate, and takes no lock.
LEMMA BeginConfirmKeeps ==
    ASSUME LearningInvariant, NEW r \in Reviewers, NEW c \in Candidates, BeginConfirm(r, c)
    PROVE  LearningInvariant'
<1>1. PICK t \in Request :
          t = [op |-> "confirming", about |-> c, text |-> Null, intent |-> Null, adds |-> FALSE]
  BY DEF Request
<1>2. review' = [review EXCEPT ![r] = t] /\ UNCHANGED <<rowVars, lockVars>>
  BY <1>1 DEF BeginConfirm, Begin
<1>3. t.op = "confirming"
  BY <1>1
<1>4. PromotionHolds(r, t)' /\ SharingHolds(r, t)'
  BY <1>3 DEF PromotionHolds, SharingHolds
<1>5. QED
  BY <1>1, <1>2, <1>4, RequestMoves, LocksAreTyped DEF lockVars

\* A promotion reads its candidate before the embedding is computed.
LEMMA BeginPromotionKeeps ==
    ASSUME LearningInvariant, NEW r \in Reviewers, NEW c \in Candidates, BeginPromotion(r, c)
    PROVE  LearningInvariant'
<1> USE LearningAssumption
<1>1. PICK t \in Request :
          t = [op |-> "embedding", about |-> c, text |-> QueryOf[c],
               intent |-> candidate[c].intent, adds |-> IntentsOf(QueryOf[c]) = {}]
  BY DEF Request, LearningInvariant, LearningTypeOK
<1>2. review' = [review EXCEPT ![r] = t] /\ UNCHANGED <<rowVars, lockVars>>
  BY <1>1 DEF BeginPromotion, Begin
<1>3. t.op = "embedding" /\ t.about = c /\ t.text = QueryOf[c]
  BY <1>1
<1>4. PromotionHolds(r, t)' /\ SharingHolds(r, t)'
  BY <1>3 DEF PromotionHolds, SharingHolds
<1>5. QED
  BY <1>1, <1>2, <1>4, RequestMoves, LocksAreTyped DEF lockVars

\* A promotion locks and looks for near examples of another intent.
LEMMA CheckPromotionKeeps ==
    ASSUME LearningInvariant, NEW r \in Reviewers, CheckPromotion(r)
    PROVE  LearningInvariant'
<1> USE LearningAssumption
<1>1. PICK w \in Request : w = review[r]
  BY LocksAreTyped
<1>2. PICK adds \in BOOLEAN :
          adds = (w.adds /\ IntentsOf(w.text) = {} /\ NearIntents(w.text) = {})
  BY DEF Request
<1>3. /\ w.op = "embedding" /\ promotionLock = Null
      /\ review' = [review EXCEPT ![r].op = "promoting", ![r].adds = adds]
      /\ candidateLock' = [candidateLock EXCEPT ![w.about] = r]
      /\ promotionLock' = r
      /\ UNCHANGED <<rowVars, privacyLock, shareableLock>>
  BY <1>1, <1>2, LocksAreTyped DEF CheckPromotion
<1>4. w.about \in Candidates /\ w.text \in Queries /\ QueryOf[w.about] = w.text
  BY <1>1, <1>3 DEF LearningInvariant, RequestsHold, PromotionHolds
<1>5. adds => \A s \in Queries : <<w.text, s>> \in Near => ~Promoted(s)
  <2> SUFFICES ASSUME NearIntents(w.text) = {}, NEW s \in Queries, <<w.text, s>> \in Near, Promoted(s)
               PROVE  FALSE
    BY <1>2
  <2>1. example[s] \in Visible(s) /\ example[s].st = "approved"
    BY DEF Visible, Promoted
  <2>2. example[s].intent \in NearIntents(w.text)
    BY <2>1 DEF NearIntents
  <2>3. QED
    BY <2>2
<1>6. PICK t \in Request : t = [w EXCEPT !.op = "promoting", !.adds = adds]
  BY DEF Request
<1>7. review' = [review EXCEPT ![r] = t]
  BY <1>1, <1>3, <1>6, LocksAreTyped
<1>8. t.op = "promoting" /\ t.about = w.about /\ t.text = w.text /\ t.adds = adds
  BY <1>6 DEF Request
<1>9. PromotionHolds(r, t)' /\ SharingHolds(r, t)'
  BY <1>3, <1>4, <1>5, <1>8 DEF PromotionHolds, SharingHolds, Promoted, rowVars
<1>10. r \in Holder /\ candidateLock' \in [Candidates -> Holder]
  BY <1>3, LocksAreTyped DEF Holder
<1>11. QED
  BY <1>3, <1>7, <1>9, <1>10, RequestMoves, LocksAreTyped

\* A contribution reads its approved example.
LEMMA BeginContributionKeeps ==
    ASSUME LearningInvariant, NEW r \in Reviewers, NEW q \in Queries, BeginContribution(r, q)
    PROVE  LearningInvariant'
<1> USE LearningAssumption
<1>0. example[q].st = "approved" /\ example[q] \in Example
  BY LocksAreTyped DEF BeginContribution
<1>2. example[q].from \in Candidates /\ candidate[example[q].from].st = "approved"
  BY <1>0 DEF LearningInvariant, ExamplesAreWhole, ReviewsHold, LearntFromApproved
<1>3. PICK t \in Request :
          t = [op |-> "contributing", about |-> example[q].from, text |-> q,
               intent |-> example[q].intent, adds |-> FALSE]
  BY <1>0, <1>2 DEF Request, Example
<1>1. /\ privacyLock = Null /\ mode = "SHARED" /\ example[q].st = "approved"
      /\ ~candidate[example[q].from].private
      /\ review' = [review EXCEPT ![r] = t] /\ privacyLock' = r
      /\ UNCHANGED <<rowVars, candidateLock, promotionLock, shareableLock>>
  BY <1>3 DEF BeginContribution, Begin
<1>4. t.op = "contributing" /\ t.about = example[q].from /\ t.text = q
  BY <1>3
<1>5. PromotionHolds(r, t)' /\ SharingHolds(r, t)'
  BY <1>1, <1>2, <1>4 DEF PromotionHolds, SharingHolds, rowVars
<1>6. r \in Holder
  BY DEF Holder
<1>7. QED
  BY <1>1, <1>4, <1>5, <1>6, RequestMoves, LocksAreTyped

\* A review of a contribution locks it and looks for near examples.
LEMMA BeginSharingKeeps ==
    ASSUME LearningInvariant, NEW r \in Reviewers, NEW q \in Queries, NEW text \in Queries,
           NEW i \in Intents, BeginSharing(r, q, text, i)
    PROVE  LearningInvariant'
<1> USE LearningAssumption
<1> DEFINE t == [op |-> "sharing", about |-> q, text |-> text, intent |-> i, adds |-> TRUE]
<1>1. /\ privacyLock = Null /\ mode = "SHARED" /\ shareable[q].st = "pending"
      /\ shareableLock[q] = Null
      /\ review' = [review EXCEPT ![r] = t] /\ privacyLock' = r
      /\ shareableLock' = [shareableLock EXCEPT ![q] = r]
      /\ UNCHANGED <<rowVars, candidateLock, promotionLock>>
  BY DEF BeginSharing, Begin, Reviewable, Consented
<1>2. t \in Request /\ t.op = "sharing" /\ t.about = q /\ t.text = text
  BY DEF Request
<1> HIDE DEF t
<1>3. r \in Holder /\ shareableLock' \in [Queries -> Holder] /\ shareableLock'[q] = r
      /\ \A s \in Queries : shareableLock'[s] = shareableLock[s] \/ shareableLock[s] = Null
  BY <1>1, LocksAreTyped DEF Holder
<1>4. PromotionHolds(r, t)' /\ SharingHolds(r, t)'
  BY <1>1, <1>2, <1>3 DEF PromotionHolds, SharingHolds, rowVars
<1>5. QED
  BY <1>1, <1>2, <1>3, <1>4, RequestMoves, LocksAreTyped

\* A request that ends frees its locks and leaves the others theirs.
LEMMA EndingFrees ==
    ASSUME LearningInvariant, NEW r \in Reviewers, Ends(r)
    PROVE  /\ review' \in [Reviewers -> Request] /\ review'[r].op = "idle"
           /\ \A u \in Reviewers : u # r => review'[u] = review[u]
           /\ candidateLock' \in [Candidates -> Holder]
           /\ promotionLock' \in Holder /\ privacyLock' \in Holder
           /\ shareableLock' \in [Queries -> Holder]
           /\ promotionLock # r => promotionLock' = promotionLock
           /\ privacyLock # r => privacyLock' = privacyLock
           /\ \A q \in Queries : shareableLock[q] # r => shareableLock'[q] = shareableLock[q]
<1> USE LocksAreTyped DEF Ends
<1>1. Idle \in Request /\ Idle.op = "idle"
  BY DEF Idle, Request
<1>2. /\ review' \in [Reviewers -> Request] /\ review'[r].op = "idle"
      /\ \A u \in Reviewers : u # r => review'[u] = review[u]
  BY <1>1
<1>3. candidateLock' = [c \in Candidates |-> IF candidateLock[c] = r THEN Null ELSE candidateLock[c]]
  BY DEF Without
<1>4. shareableLock' = [q \in Queries |-> IF shareableLock[q] = r THEN Null ELSE shareableLock[q]]
  BY DEF Without
<1>5. candidateLock' \in [Candidates -> Holder] /\ shareableLock' \in [Queries -> Holder]
  BY <1>3, <1>4 DEF Holder
<1>6. promotionLock' \in Holder /\ privacyLock' \in Holder
  BY DEF Holder
<1>7. \A q \in Queries : shareableLock[q] # r => shareableLock'[q] = shareableLock[q]
  BY <1>4
<1>8. QED
  BY <1>2, <1>5, <1>6, <1>7

\* What the other requests read, when one of them ends: a promotion may have
\* left an example only if it had the promotions to itself.
LEMMA OthersHold ==
    ASSUME LearningInvariant, NEW r \in Reviewers, Ends(r), mode' = mode,
           \A c \in Candidates : candidate[c].st = "approved" =>
               candidate'[c].st = "approved" /\ candidate'[c].private = candidate[c].private,
           promotionLock = r \/ example' = example,
           \A q \in Queries : shareable[q].st # "none" => shareable'[q].st # "none"
    PROVE  RequestsHold'
<1> SUFFICES ASSUME NEW u \in Reviewers
             PROVE  (PromotionHolds(u, review[u]) /\ SharingHolds(u, review[u]))'
  BY DEF RequestsHold
<1>1. CASE u = r
  BY <1>1, EndingFrees DEF PromotionHolds, SharingHolds
<1>2. CASE u # r
  <2>1. review'[u] = review[u]
    BY <1>2, EndingFrees
  <2>2. PromotionHolds(u, review[u]) /\ SharingHolds(u, review[u])
    BY DEF LearningInvariant, RequestsHold
  <2>3. PromotionHolds(u, review[u])'
    <3>1. review[u].op = "promoting" => promotionLock = u /\ promotionLock' = u
      BY <1>2, <2>2, EndingFrees DEF PromotionHolds
    <3>2. review[u].op = "promoting" => example' = example
      BY <3>1, <1>2
    <3>3. QED
      BY <2>1, <2>2, <3>1, <3>2 DEF PromotionHolds, Promoted
  <2>4. SharingHolds(u, review[u])'
    <3>1. review[u].op \in {"contributing", "sharing"} => privacyLock' = u
      BY <1>2, <2>2, EndingFrees DEF SharingHolds
    <3>2. review[u].op = "sharing" => shareableLock'[review[u].about] = u
      BY <1>2, <2>2, EndingFrees DEF SharingHolds
    <3>3. QED
      BY <2>1, <2>2, <3>1, <3>2 DEF SharingHolds
  <2>5. QED
    BY <2>3, <2>4
<1>3. QED
  BY <1>1, <1>2

\* A refused or failed review releases its locks and writes nothing.
LEMMA RequestFailsKeeps ==
    ASSUME LearningInvariant, NEW r \in Reviewers, RequestFails(r) PROVE LearningInvariant'
<1> USE DEF rowVars
<1>1. Ends(r) /\ UNCHANGED rowVars
  BY DEF RequestFails
<1>2. RequestsHold'
  BY <1>1, OthersHold
<1>3. LearningTypeOK'
  BY <1>1, EndingFrees DEF LearningInvariant, LearningTypeOK
<1>4. QED
  BY <1>1, <1>2, <1>3 DEF LearningInvariant, ReviewsHold, PromotionsAgree, LearntFromApproved,
     ExamplesAreWhole, OfferedIsOpen

\* A confirmation may come after the review it was read before, and changes
\* nothing of it.
LEMMA CommitConfirmKeeps ==
    ASSUME LearningInvariant, NEW r \in Reviewers, CommitConfirm(r) PROVE LearningInvariant'
<1> DEFINE Row == [st : {"none", "pending", "approved", "rejected"},
                   intent : Intents \cup {Null}, confirmed : BOOLEAN, private : BOOLEAN]
           c == review[r].about
<1>1. /\ candidate' = [candidate EXCEPT ![c].confirmed = TRUE] /\ Ends(r)
      /\ UNCHANGED <<mode, example, shareable, corpus>>
  BY DEF CommitConfirm
<1>2. candidate \in [Candidates -> Row]
  BY DEF LearningInvariant, LearningTypeOK
<1> HIDE DEF c
<1>3. \A d \in Candidates :
          /\ candidate'[d] \in Row /\ candidate'[d].st = candidate[d].st
          /\ candidate'[d].private = candidate[d].private
  BY <1>1, <1>2
<1>4. candidate' \in [Candidates -> Row]
  BY <1>1, <1>2, <1>3
<1>5. RequestsHold'
  BY <1>1, <1>3, OthersHold
<1>6. LearningTypeOK'
  BY <1>1, <1>4, EndingFrees DEF LearningInvariant, LearningTypeOK
<1>7. \A q \in Queries : example[q].st # "none" => example[q].from \in Candidates
  BY DEF LearningInvariant, ExamplesAreWhole
<1>8. QED
  BY <1>1, <1>3, <1>5, <1>6, <1>7 DEF LearningInvariant, ReviewsHold, PromotionsAgree,
     LearntFromApproved, ExamplesAreWhole, OfferedIsOpen

\* A promotion writes the example and marks its candidate.
LEMMA CommitPromotionKeeps ==
    ASSUME LearningInvariant, NEW r \in Reviewers, CommitPromotion(r) PROVE LearningInvariant'
<1> USE LearningAssumption
<1> DEFINE t == review[r]
           x == [st |-> "approved", intent |-> t.intent, from |-> t.about, again |-> FALSE]
<1>1. t \in Request
  BY LocksAreTyped
<1>2. /\ t.op = "promoting" /\ (t.adds => example[t.text].st = "none")
      /\ example' = (IF ~t.adds THEN example ELSE [example EXCEPT ![t.text] = x])
      /\ candidate' = [candidate EXCEPT ![t.about].st = "approved"]
      /\ Ends(r) /\ UNCHANGED <<mode, shareable, corpus>>
  BY DEF CommitPromotion
<1>3. /\ t.about \in Candidates /\ t.text \in Queries /\ QueryOf[t.about] = t.text
      /\ promotionLock = r
      /\ t.adds => \A s \in Queries : <<t.text, s>> \in Near => ~Promoted(s)
  BY <1>2 DEF LearningInvariant, RequestsHold, PromotionHolds
<1>4. x \in Example /\ x.st = "approved" /\ x.from = t.about /\ ~x.again
  BY <1>1, <1>3 DEF Example, Request
<1> HIDE DEF t, x
<1>5. /\ candidate' \in [Candidates -> [st : {"none", "pending", "approved", "rejected"},
                intent : Intents \cup {Null}, confirmed : BOOLEAN, private : BOOLEAN]]
      /\ candidate'[t.about].st = "approved"
      /\ \A c \in Candidates : /\ candidate[c].st = "approved" => candidate'[c] = candidate[c]
                               /\ candidate'[c].private = candidate[c].private
  <2>1. candidate \in [Candidates -> [st : {"none", "pending", "approved", "rejected"},
                intent : Intents \cup {Null}, confirmed : BOOLEAN, private : BOOLEAN]]
    BY DEF LearningInvariant, LearningTypeOK
  <2>2. \A c \in Candidates : c # t.about => candidate'[c] = candidate[c]
    BY <1>2, <1>3, <2>1
  <2>3. candidate'[t.about] = [candidate[t.about] EXCEPT !.st = "approved"]
    BY <1>2, <1>3, <2>1
  <2>4. candidate[t.about].st = "approved" => candidate'[t.about] = candidate[t.about]
    BY <1>3, <2>1, <2>3
  <2>5. candidate'[t.about].st = "approved" /\ candidate'[t.about].private = candidate[t.about].private
    BY <1>3, <2>1, <2>3
  <2>6. candidate' \in [Candidates -> [st : {"none", "pending", "approved", "rejected"},
                intent : Intents \cup {Null}, confirmed : BOOLEAN, private : BOOLEAN]]
    BY <1>2, <1>3, <2>1
  <2>7. QED
    BY <2>2, <2>4, <2>5, <2>6
<1>6. /\ example' \in [Queries -> Example]
      /\ \A q \in Queries : \/ example'[q] = example[q]
                            \/ t.adds /\ q = t.text /\ example[q].st = "none" /\ example'[q] = x
  <2>1. CASE t.adds
    BY <2>1, <1>2, <1>3, <1>4, LocksAreTyped
  <2>2. CASE ~t.adds
    BY <2>2, <1>2, LocksAreTyped
  <2>3. QED
    BY <2>1, <2>2
<1>7. LearningTypeOK'
  BY <1>2, <1>5, <1>6, EndingFrees DEF LearningInvariant, LearningTypeOK
<1>8. RequestsHold'
  BY <1>2, <1>3, <1>5, OthersHold
<1>9. ExamplesAreWhole'
  BY <1>3, <1>4, <1>6 DEF LearningInvariant, ExamplesAreWhole
<1>10. LearntFromApproved'
  <2> SUFFICES ASSUME NEW q \in Queries, example'[q].st # "none"
               PROVE  candidate'[example'[q].from].st = "approved" /\ QueryOf[example'[q].from] = q
    BY DEF LearntFromApproved
  <2>1. CASE example'[q] = example[q]
    BY <2>1, <1>5 DEF LearningInvariant, ReviewsHold, LearntFromApproved, ExamplesAreWhole
  <2>2. CASE example'[q] # example[q]
    BY <2>2, <1>3, <1>4, <1>5, <1>6
  <2>3. QED
    BY <2>1, <2>2
<1>11. PromotionsAgree'
  <2> SUFFICES ASSUME NEW q \in Queries, NEW s \in Queries, <<q, s>> \in Near,
                      Promoted(q)', Promoted(s)'
               PROVE  example'[q].intent = example'[s].intent
    BY DEF PromotionsAgree, Promoted
  <2>1. <<s, q>> \in Near
    OBVIOUS
  <2>2. CASE example'[q] = example[q] /\ example'[s] = example[s]
    BY <2>2 DEF LearningInvariant, ReviewsHold, PromotionsAgree, Promoted
  <2>3. CASE example'[q] # example[q] /\ example'[s] = example[s]
    BY <2>3, <1>3, <1>6 DEF Promoted
  <2>4. CASE example'[q] = example[q] /\ example'[s] # example[s]
    BY <2>1, <2>4, <1>3, <1>6 DEF Promoted
  <2>5. CASE example'[q] # example[q] /\ example'[s] # example[s]
    BY <2>5, <1>6
  <2>6. QED
    BY <2>2, <2>3, <2>4, <2>5
<1>12. OfferedIsOpen'
  <2> SUFFICES ASSUME NEW q \in Queries, shareable[q].st # "none"
               PROVE  example'[q].st # "none" /\ ~candidate'[example'[q].from].private
    BY <1>2 DEF OfferedIsOpen
  <2>1. /\ example[q].st # "none" /\ ~candidate[example[q].from].private
        /\ example[q].from \in Candidates
    BY DEF LearningInvariant, OfferedIsOpen, ExamplesAreWhole
  <2>2. QED
    BY <2>1, <1>5, <1>6
<1>13. QED
  BY <1>7, <1>8, <1>9, <1>10, <1>11, <1>12 DEF LearningInvariant, ReviewsHold

\* A contribution is offered for review.
LEMMA CommitContributionKeeps ==
    ASSUME LearningInvariant, NEW r \in Reviewers, CommitContribution(r) PROVE LearningInvariant'
<1> USE LearningAssumption
<1> DEFINE t == review[r]
           x == [st |-> "pending", text |-> t.text, intent |-> t.intent]
<1>1. t \in Request
  BY LocksAreTyped
<1>2. /\ t.op = "contributing" /\ example[t.text].from = t.about
      /\ shareable' = (IF shareable[t.text].st # "none" THEN shareable
                       ELSE [shareable EXCEPT ![t.text] = x])
      /\ Ends(r) /\ UNCHANGED <<mode, candidate, example, corpus>>
  BY DEF CommitContribution
<1>3. t.about \in Candidates /\ t.text \in Queries /\ ~candidate[t.about].private
  BY <1>2 DEF LearningInvariant, RequestsHold, SharingHolds
<1>4. example[t.text].st # "none"
  BY <1>2, <1>3 DEF LearningInvariant, ExamplesAreWhole
<1>5. x \in Shared /\ x.st = "pending"
  BY <1>1, <1>3 DEF Shared, Request
<1> HIDE DEF t, x
<1>6. /\ shareable' \in [Queries -> Shared]
      /\ shareable[t.text].st # "none" \/ shareable'[t.text] = x
      /\ \A q \in Queries : shareable'[q] = shareable[q] \/ (q = t.text /\ shareable'[q] = x)
  BY <1>2, <1>3, <1>5 DEF LearningInvariant, LearningTypeOK
<1>7. LearningTypeOK'
  BY <1>2, <1>6, EndingFrees DEF LearningInvariant, LearningTypeOK
<1>8. RequestsHold'
  BY <1>2, <1>5, <1>6, OthersHold
<1>9. OfferedIsOpen'
  BY <1>2, <1>3, <1>4, <1>6 DEF LearningInvariant, OfferedIsOpen
<1>10. QED
  BY <1>2, <1>7, <1>8, <1>9 DEF LearningInvariant, ReviewsHold, PromotionsAgree,
     LearntFromApproved, ExamplesAreWhole

\* A contribution becomes a shared example.
LEMMA CommitSharingKeeps ==
    ASSUME LearningInvariant, NEW r \in Reviewers, CommitSharing(r) PROVE LearningInvariant'
<1> USE LearningAssumption
<1> DEFINE t == review[r]
           x == [st |-> "approved", text |-> t.text, intent |-> t.intent]
           y == [NoExample EXCEPT !.st = "approved", !.intent = t.intent]
<1>1. t \in Request
  BY LocksAreTyped
<1>2. /\ t.op = "sharing"
      /\ corpus' = [corpus EXCEPT ![t.text] = y] /\ shareable' = [shareable EXCEPT ![t.about] = x]
      /\ Ends(r) /\ UNCHANGED <<mode, candidate, example>>
  BY DEF CommitSharing
<1>3. t.about \in Queries /\ t.text \in Queries /\ shareable[t.about].st # "none"
  BY <1>2 DEF LearningInvariant, RequestsHold, SharingHolds
<1>4. x \in Shared /\ x.st = "approved" /\ y \in Example
  BY <1>1, <1>3 DEF Shared, Request, Example, NoExample
<1> HIDE DEF t, x, y
<1>5. /\ shareable' \in [Queries -> Shared] /\ corpus' \in [Queries -> Example]
      /\ \A q \in Queries : shareable'[q] = shareable[q] \/ (q = t.about /\ shareable'[q] = x)
  BY <1>2, <1>3, <1>4 DEF LearningInvariant, LearningTypeOK
<1>6. LearningTypeOK'
  BY <1>2, <1>5, EndingFrees DEF LearningInvariant, LearningTypeOK
<1>7. RequestsHold'
  BY <1>2, <1>4, <1>5, OthersHold
<1>8. OfferedIsOpen'
  BY <1>2, <1>3, <1>5 DEF LearningInvariant, OfferedIsOpen
<1>9. QED
  BY <1>2, <1>6, <1>7, <1>8 DEF LearningInvariant, ReviewsHold, PromotionsAgree,
     LearntFromApproved, ExamplesAreWhole

-----------------------------------------------------------------------------
(* Examples, the corpus and privacy.                                       *)

\* A switch brings back only what nothing checks any more.
LEMMA SwitchExampleKeeps ==
    ASSUME LearningInvariant, NEW q \in Queries, NEW on \in BOOLEAN, SwitchExample(q, on)
    PROVE  LearningInvariant'
<1> USE DEF lockVars
<1> DEFINE x == Switched(example[q], on)
<1>1. /\ example[q].st # "none" /\ example' = [example EXCEPT ![q] = x]
      /\ UNCHANGED <<mode, candidate, shareable, corpus, review, lockVars>>
  BY DEF SwitchExample
<1>2. example[q] \in Example
  BY LocksAreTyped
<1>3. /\ x \in Example /\ x.st # "none" /\ x.intent = example[q].intent
      /\ x.from = example[q].from
      /\ x.st = "approved" /\ ~x.again => Promoted(q)
  BY <1>1, <1>2 DEF Switched, Example, Promoted
<1> HIDE DEF x
<1>4. /\ example' \in [Queries -> Example] /\ example'[q] = x
      /\ \A s \in Queries : s # q => example'[s] = example[s]
  BY <1>1, <1>3, LocksAreTyped
<1>5. \A s \in Queries : /\ example'[s].st = "none" <=> example[s].st = "none"
                         /\ example'[s].from = example[s].from
                         /\ example'[s].intent = example[s].intent
                         /\ Promoted(s)' => Promoted(s)
  BY <1>1, <1>3, <1>4 DEF Promoted
<1>6. LearningTypeOK'
  BY <1>1, <1>4 DEF LearningInvariant, LearningTypeOK
<1>7. PromotionsAgree'
  BY <1>5 DEF LearningInvariant, ReviewsHold, PromotionsAgree, Promoted
<1>8. LearntFromApproved' /\ ExamplesAreWhole' /\ OfferedIsOpen'
  BY <1>1, <1>5 DEF LearningInvariant, ReviewsHold, LearntFromApproved, ExamplesAreWhole,
                    OfferedIsOpen
<1>9. RequestsHold'
  <2> SUFFICES ASSUME NEW u \in Reviewers
               PROVE  (PromotionHolds(u, review[u]) /\ SharingHolds(u, review[u]))'
    BY DEF RequestsHold
  <2>1. PromotionHolds(u, review[u]) /\ SharingHolds(u, review[u])
    BY DEF LearningInvariant, RequestsHold
  <2>2. PromotionHolds(u, review[u])'
    BY <1>1, <1>5, <2>1 DEF PromotionHolds
  <2>3. SharingHolds(u, review[u])'
    BY <1>1, <2>1 DEF SharingHolds
  <2>4. QED
    BY <2>2, <2>3
<1>10. QED
  BY <1>6, <1>7, <1>8, <1>9 DEF LearningInvariant, ReviewsHold

\* An example is deleted with what was offered of it.
LEMMA DeleteExampleKeeps ==
    ASSUME LearningInvariant, NEW q \in Queries, DeleteExample(q)
    PROVE  LearningInvariant'
<1> USE LearningAssumption DEF lockVars
<1>1. /\ shareableLock[q] = Null
      /\ example' = [example EXCEPT ![q] = NoExample]
      /\ shareable' = [shareable EXCEPT ![q] = NoShared]
      /\ UNCHANGED <<mode, candidate, corpus, review, lockVars>>
  BY DEF DeleteExample
<1>2. /\ NoExample \in Example /\ NoExample.st = "none" /\ NoExample.from = Null
      /\ NoShared \in Shared /\ NoShared.st = "none"
  BY DEF NoExample, Example, NoShared, Shared
<1>3. /\ example' \in [Queries -> Example] /\ example'[q] = NoExample
      /\ shareable' \in [Queries -> Shared] /\ shareable'[q] = NoShared
      /\ \A s \in Queries : s # q => example'[s] = example[s] /\ shareable'[s] = shareable[s]
  BY <1>1, <1>2 DEF LearningInvariant, LearningTypeOK
<1>4. LearningTypeOK'
  BY <1>1, <1>3 DEF LearningInvariant, LearningTypeOK
<1>5. PromotionsAgree' /\ LearntFromApproved' /\ ExamplesAreWhole' /\ OfferedIsOpen'
  BY <1>1, <1>2, <1>3 DEF LearningInvariant, ReviewsHold, PromotionsAgree, LearntFromApproved,
                          ExamplesAreWhole, OfferedIsOpen
<1>6. RequestsHold'
  <2> SUFFICES ASSUME NEW u \in Reviewers
               PROVE  (PromotionHolds(u, review[u]) /\ SharingHolds(u, review[u]))'
    BY DEF RequestsHold
  <2>1. PromotionHolds(u, review[u]) /\ SharingHolds(u, review[u])
    BY DEF LearningInvariant, RequestsHold
  <2>2. PromotionHolds(u, review[u])'
    BY <1>1, <1>2, <1>3, <2>1 DEF PromotionHolds, Promoted
  <2>3. SharingHolds(u, review[u])'
    BY <1>1, <1>3, <2>1 DEF SharingHolds
  <2>4. QED
    BY <2>2, <2>3
<1>7. QED
  BY <1>4, <1>5, <1>6 DEF LearningInvariant, ReviewsHold

\* No request that relies on the mode is at work while the mode changes.
LEMMA ChangePrivacyKeeps ==
    ASSUME LearningInvariant, NEW m \in Modes, ChangePrivacy(m) PROVE LearningInvariant'
<1> USE LearningAssumption DEF lockVars
<1>1. /\ privacyLock = Null /\ mode' = m
      /\ UNCHANGED <<candidate, example, shareable, corpus, review, lockVars>>
  BY DEF ChangePrivacy
<1>2. LearningTypeOK'
  BY <1>1 DEF LearningInvariant, LearningTypeOK
<1>3. RequestsHold'
  BY <1>1 DEF LearningInvariant, RequestsHold, PromotionHolds, SharingHolds, Promoted
<1>4. QED
  BY <1>1, <1>2, <1>3 DEF LearningInvariant, ReviewsHold, PromotionsAgree, LearntFromApproved,
     ExamplesAreWhole, OfferedIsOpen

\* A review of what was offered, and the switches of the corpus.
LEMMA OfferStep ==
    ASSUME LearningInvariant, NEW q \in Queries,
           \/ RejectShared(q)
           \/ \E text \in Queries, i \in Intents : EditShared(q, text, i)
           \/ \E on \in BOOLEAN : SwitchCorpus(q, on)
    PROVE  LearningInvariant'
<1> USE DEF lockVars
<1>1. /\ UNCHANGED <<mode, candidate, example, review, lockVars>>
      /\ shareable' \in [Queries -> Shared] /\ corpus' \in [Queries -> Example]
      /\ \A s \in Queries : shareable'[s].st # "none" <=> shareable[s].st # "none"
  <2>0. shareable \in [Queries -> Shared] /\ corpus \in [Queries -> Example]
    BY DEF LearningInvariant, LearningTypeOK
  <2>1. CASE RejectShared(q)
    BY <2>0, <2>1 DEF RejectShared, Reviewable, Shared
  <2>2. CASE \E text \in Queries, i \in Intents : EditShared(q, text, i)
    <3>1. PICK text \in Queries, i \in Intents : EditShared(q, text, i)
      BY <2>2
    <3>2. /\ shareable[q].st = "pending"
          /\ shareable' = [shareable EXCEPT ![q].text = text, ![q].intent = i]
          /\ UNCHANGED <<mode, candidate, example, corpus, review, lockVars>>
      BY <3>1 DEF EditShared, Reviewable
    <3> DEFINE row == [shareable[q] EXCEPT !.text = text, !.intent = i]
    <3>3. row \in Shared /\ row.st = shareable[q].st
      <4>1. shareable[q] \in Shared
        BY <2>0
      <4>2. QED
        BY <4>1 DEF Shared
    <3>4. shareable' = [shareable EXCEPT ![q] = row]
      BY <2>0, <3>2 DEF Shared
    <3> HIDE DEF row
    <3>5. QED
      BY <2>0, <3>2, <3>3, <3>4
  <2>3. CASE \E on \in BOOLEAN : SwitchCorpus(q, on)
    <3>1. PICK on \in BOOLEAN : SwitchCorpus(q, on)
      BY <2>3
    <3>2. Switched(corpus[q], on) \in Example
      <4>1. corpus[q] \in Example
        BY <2>0
      <4>2. QED
        BY <4>1 DEF Switched, Example
    <3>3. corpus' \in [Queries -> Example]
      BY <2>0, <3>1, <3>2 DEF SwitchCorpus
    <3>4. QED
      BY <2>0, <3>1, <3>3 DEF SwitchCorpus
  <2>4. QED
    BY <2>1, <2>2, <2>3
<1>2. LearningTypeOK'
  BY <1>1 DEF LearningInvariant, LearningTypeOK
<1>3. RequestsHold'
  <2> SUFFICES ASSUME NEW u \in Reviewers
               PROVE  (PromotionHolds(u, review[u]) /\ SharingHolds(u, review[u]))'
    BY DEF RequestsHold
  <2>1. PromotionHolds(u, review[u]) /\ SharingHolds(u, review[u])
    BY DEF LearningInvariant, RequestsHold
  <2>2. QED
    BY <1>1, <2>1 DEF PromotionHolds, SharingHolds, Promoted
<1>4. QED
  BY <1>1, <1>2, <1>3 DEF LearningInvariant, ReviewsHold, PromotionsAgree, LearntFromApproved,
     ExamplesAreWhole, OfferedIsOpen

\* Every step keeps the inductive invariant.
LEMMA LearningStepKeeps ==
    ASSUME LearningInvariant, [LearningNext]_learningVars PROVE LearningInvariant'
<1>1. CASE UNCHANGED learningVars
  BY <1>1 DEF learningVars, LearningInvariant, LearningTypeOK, ReviewsHold, PromotionsAgree,
     LearntFromApproved, ExamplesAreWhole, OfferedIsOpen, RequestsHold, PromotionHolds,
     SharingHolds, Promoted
<1>2. CASE LearningNext
  BY <1>2, CandidateStep, BeginConfirmKeeps, CommitConfirmKeeps, BeginPromotionKeeps,
     CheckPromotionKeeps, CommitPromotionKeeps, BeginContributionKeeps,
     CommitContributionKeeps, BeginSharingKeeps, CommitSharingKeeps, RequestFailsKeeps,
     SwitchExampleKeeps, DeleteExampleKeeps, OfferStep, ChangePrivacyKeeps
     DEF LearningNext
<1>3. QED
  BY <1>1, <1>2

\* However promotions, contributions, reviews and switches of the privacy mode
\* overlap, rows are typed and what a request read under its locks still holds.
THEOREM LearningInvariance == LearningSpec => []LearningInvariant
BY LearningInitEstablishes, LearningStepKeeps, PTL DEF LearningSpec

\* However promotions, reviews and switches overlap, promotions of near
\* queries agree and what was learnt comes from an approved candidate.
THEOREM ReviewsAlwaysHold == LearningSpec => []ReviewsHold
<1>1. LearningInvariant => ReviewsHold
  BY DEF LearningInvariant
<1>2. QED
  BY <1>1, LearningInvariance, PTL

\* Only two steps offer an example to the other tenants.
LEMMA SharingStep ==
    ASSUME LearningInvariant, [LearningNext]_learningVars
    PROVE  \A q \in Queries :
              shareable'[q].st # shareable[q].st /\ shareable'[q].st \in {"pending", "approved"}
              => /\ mode = "SHARED"
                 /\ example[q].st # "none"
                 /\ ~candidate[example[q].from].private
<1> SUFFICES ASSUME NEW q \in Queries, shareable'[q].st # shareable[q].st,
                    shareable'[q].st \in {"pending", "approved"}
             PROVE  mode = "SHARED" /\ example[q].st # "none" /\ ~candidate[example[q].from].private
  OBVIOUS
<1>1. shareable \in [Queries -> Shared]
  BY DEF LearningInvariant, LearningTypeOK
<1>2. ASSUME NEW r \in Reviewers, CommitContribution(r)
      PROVE  mode = "SHARED" /\ example[q].st # "none" /\ ~candidate[example[q].from].private
  <2>1. review[r].op = "contributing" /\ example[review[r].text].from = review[r].about
    BY <1>2 DEF CommitContribution
  <2>2. /\ mode = "SHARED" /\ review[r].about \in Candidates /\ review[r].text \in Queries
        /\ ~candidate[review[r].about].private
    BY <2>1 DEF LearningInvariant, RequestsHold, SharingHolds
  <2>3. q = review[r].text
    BY <1>1, <1>2, <2>2 DEF CommitContribution
  <2>4. QED
    BY <2>1, <2>2, <2>3, LearningAssumption DEF LearningInvariant, ExamplesAreWhole
<1>3. ASSUME NEW r \in Reviewers, CommitSharing(r)
      PROVE  mode = "SHARED" /\ example[q].st # "none" /\ ~candidate[example[q].from].private
  <2>1. review[r].op = "sharing"
    BY <1>3 DEF CommitSharing
  <2>2. /\ mode = "SHARED" /\ review[r].about \in Queries
        /\ shareable[review[r].about].st # "none"
    BY <2>1 DEF LearningInvariant, RequestsHold, SharingHolds
  <2>3. q = review[r].about
    BY <1>1, <1>3, <2>2 DEF CommitSharing
  <2>4. QED
    BY <2>2, <2>3 DEF LearningInvariant, OfferedIsOpen
<1>4. \/ \E r \in Reviewers : CommitContribution(r)
      \/ \E r \in Reviewers : CommitSharing(r)
  <2>1. shareable' # shareable
    OBVIOUS
  <2>2. \A s : RejectShared(s) => shareable'[q].st \in {shareable[q].st, "rejected"}
    BY <1>1 DEF RejectShared, Shared
  <2>3. \A s, text, i : EditShared(s, text, i) => shareable'[q].st = shareable[q].st
    BY <1>1 DEF EditShared, Shared
  <2>4. \A s : DeleteExample(s) => shareable'[q].st \in {shareable[q].st, "none"}
    BY <1>1 DEF DeleteExample, Shared, NoShared
  <2>5. \A c, i : (CreateCandidate(c, i) \/ ChangeIntent(c, i)) => shareable' = shareable
    BY DEF CreateCandidate, ChangeIntent
  <2>6. \A c, p : (PrivateOnly(c, p) \/ RejectCandidate(c)) => shareable' = shareable
    BY DEF PrivateOnly, RejectCandidate
  <2>7. \A r, c : (\/ BeginConfirm(r, c) \/ CommitConfirm(r)
                   \/ BeginPromotion(r, c) \/ CheckPromotion(r) \/ CommitPromotion(r))
                  => shareable' = shareable
    BY DEF BeginConfirm, CommitConfirm, BeginPromotion, CheckPromotion, CommitPromotion, rowVars
  <2>8. \A r, s : (BeginContribution(r, s) \/ RequestFails(r)) => shareable' = shareable
    BY DEF BeginContribution, RequestFails, rowVars
  <2>9. \A r, s, text, i : BeginSharing(r, s, text, i) => shareable' = shareable
    BY DEF BeginSharing, rowVars
  <2>10. \A s, on : (SwitchExample(s, on) \/ SwitchCorpus(s, on)) => shareable' = shareable
    BY DEF SwitchExample, SwitchCorpus
  <2>11. \A m : ChangePrivacy(m) => shareable' = shareable
    BY DEF ChangePrivacy
  <2>12. LearningNext
    BY <2>1 DEF learningVars
  <2>13. QED
    BY <2>1, <2>2, <2>3, <2>4, <2>5, <2>6, <2>7, <2>8, <2>9, <2>10, <2>11, <2>12 DEF LearningNext
<1>5. QED
  BY <1>2, <1>3, <1>4

\* Nothing a tenant learnt is offered to the others without its consent.
THEOREM SharingNeedsConsent == LearningSpec => SharedWithConsent
BY LearningInvariance, SharingStep, PTL DEF LearningSpec, SharedWithConsent

-----------------------------------------------------------------------------
(* The office.                                                             *)

\* A part never sees the others: what the office does is a step of the part
\* in focus, under its bounds, and the other parts rest.
LEMMA OfficeStepsAreOfParts ==
    ASSUME [OfficeNext]_officeVars
    PROVE  /\ [AccountsNext]_accountsVars
           /\ [AuthorityNext]_authorityVars
           /\ [HiringNext]_hiringVars
           /\ [FeedNext]_feedVars
           /\ [LearningNext]_learningVars
<1>1. CASE UNCHANGED officeVars
  BY <1>1 DEF officeVars
<1>2. CASE OfficeNext
  BY <1>2 DEF OfficeNext
<1>3. QED
  BY <1>1, <1>2

\* The office side by side does what each part may do alone, so whatever is
\* proved of a part holds of the office.
THEOREM OfficeImplementsItsParts ==
    OfficeSpec => AccountsSpec /\ AuthoritySpec /\ HiringSpec /\ FeedSpec /\ LearningSpec
<1>1. OfficeInit => /\ AccountsInit
                    /\ AuthorityInit
                    /\ HiringInit
                    /\ FeedInit
                    /\ LearningInit
  BY DEF OfficeInit
<1>2. [OfficeNext]_officeVars => /\ [AccountsNext]_accountsVars
                                 /\ [AuthorityNext]_authorityVars
                                 /\ [HiringNext]_hiringVars
                                 /\ [FeedNext]_feedVars
                                 /\ [LearningNext]_learningVars
  BY OfficeStepsAreOfParts
<1>3. QED
  BY <1>1, <1>2, PTL
     DEF OfficeSpec, AccountsSpec, AuthoritySpec, HiringSpec, FeedSpec, LearningSpec

\* Every part keeps its types beside the others.
THEOREM OfficeIsTyped == OfficeSpec => []OfficeTypeOK
<1>1. AuthorityInvariant => AuthorityTypeOK
  BY DEF AuthorityInvariant
<1>2. LearningInvariant => LearningTypeOK
  BY DEF LearningInvariant
<1>3. FeedInvariant => FeedTypeOK
  BY FeedIsTyped
<1>4. /\ AccountsTypeOK
      /\ AuthorityTypeOK
      /\ HiringTypeOK
      /\ FeedTypeOK
      /\ LearningTypeOK
      => OfficeTypeOK
  BY DEF OfficeTypeOK
<1>5. QED
  BY <1>1, <1>2, <1>3, <1>4, OfficeImplementsItsParts, AccountsTypeCorrect,
     AuthorityInvariance, HiringTypeCorrect, FeedInvariance, LearningInvariance, PTL
=============================================================================
