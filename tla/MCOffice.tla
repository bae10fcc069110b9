------------------------------ MODULE MCOffice ------------------------------
(* Accounts, authority, hiring, the company feed and the router's learning *)
(* side by side, for TLC.  They share no row, so no interleaving of one    *)
(* with another can matter: a behaviour exercises one part, the focus, and *)
(* the others rest in one of their initial states.                         *)
EXTENDS Accounts, Authority, Hiring, FeedDrafts, RouterLearning, TLC

CONSTANT Parts   \* the parts a run exercises
VARIABLE focus   \* the part a behaviour exercises

\* Rows of a table are interchangeable: they are inserted in the order of ids.
InOrder(table) == \A i, j \in DOMAIN table :
    i < j /\ table[j].st # "none" => table[i].st # "none"

OfficeInit ==
    /\ focus \in Parts
    /\ AccountsInit /\ AuthorityInit /\ HiringInit /\ FeedInit /\ LearningInit
    /\ InOrder(assigned)
    /\ assigned[1].grant.emp = CHOOSE e \in Staff : TRUE
    /\ registered \subseteq IF focus = "hiring" THEN {1} ELSE {}

\* Bounds of hiring: the second applicant applies once the first is at the
\* offer or decided, and only where the first had no account before, the day
\* passes once there is an offer, and the last change of the vacancy by hand
\* opens it (again).
HiringBound ==
    /\ stage'[2] # "none" => stage'[1] \in {"offer", "hired", "rejected", "withdrawn"}
    /\ stage[2] = "none" /\ stage'[2] # "none" => 1 \in employed \/ registered = {}
    /\ day' # day => offer[1].st # "none"
    /\ jobEdits < jobEdits' /\ jobEdits' = MaxJobEdits
           => \A j \in Vacancies : jobStatus'[j] = "open"

\* Bounds of the feed: two tabs publish, no save of theirs retried or late; one
\* tab does with both, and discards.  A tab restores or discards a draft it has
\* seen, or opens the page on one, while no other tab waits: of two tabs, one
\* that opens or met a conflict, while the other's queue is idle; where saves
\* may be late, before the first retry and with no post on its way.
NoRetries == /\ stray = {} /\ \A t \in Tabs : task[t].tries = 0
             /\ \A p \in Posts : post[p].status # "draft"
OneTab == \E t \in Tabs : tab[t].text = {} /\ tab[t].record = Null /\ task[t] = NoTask
CallBound ==
    \A t \in Tabs : call[t] = NoCall /\ call'[t] # NoCall =>
       /\ Current # {}
       /\ IF tab[t].record # Null THEN tab'[t].record # Null
          ELSE call'[t].op = "restoring" /\ tab'[t].text = {}
       /\ \A u \in Tabs : call[u] = NoCall
       /\ IF focus = "tabs"
          THEN /\ call'[t].op = "restoring"
               /\ tab[t].record = Null \/ tab[t].conflict
               /\ \A u \in Tabs \ {t} : task[u].op = "idle"
          ELSE /\ stray = {} /\ task[t].tries = 0
               /\ \A p \in Posts : post[p].st \notin {"sent", "locked"}

\* Bounds of the learning: two candidates, of near texts or of one, in a
\* tenant that shares nothing, or one candidate that may be shared.
TwoCandidates ==
    /\ mode = "PRIVATE"
    /\ \A c \in Candidates : ~candidate[c].private
    /\ candidate[3].st = "none" \/ candidate[1].st = "none"
    /\ candidate[2].st = "none" => candidate[3].st = "none"
OneCandidate == \A c \in Candidates : c # 1 => candidate[c].st = "none"

OfficeNext ==
    \/ /\ focus = "accounts" /\ AccountsNext /\ InOrder(session') /\ InOrder(link')
       /\ UNCHANGED <<focus, authorityVars, hiringVars, feedVars, learningVars>>
    \/ /\ focus = "authority" /\ AuthorityNext /\ InOrder(assigned')
       /\ UNCHANGED <<focus, accountsVars, hiringVars, feedVars, learningVars>>
    \/ /\ focus = "hiring" /\ HiringNext /\ InOrder(offer')
       /\ HiringBound
       /\ UNCHANGED <<focus, accountsVars, authorityVars, feedVars, learningVars>>
    \/ /\ focus \in {"tabs", "retries"} /\ FeedNext /\ InOrder(post')
       /\ CallBound
       /\ IF focus = "tabs" THEN NoRetries' ELSE OneTab'
       /\ UNCHANGED <<focus, accountsVars, authorityVars, hiringVars, learningVars>>
    \/ /\ focus \in {"promotions", "sharing"} /\ LearningNext
       /\ IF focus = "promotions" THEN TwoCandidates' ELSE OneCandidate'
       /\ UNCHANGED <<focus, accountsVars, authorityVars, hiringVars, feedVars>>

officeVars == <<focus, accountsVars, authorityVars, hiringVars, feedVars, learningVars>>

OfficeSpec == OfficeInit /\ [][OfficeNext]_officeVars

\* Every part keeps its types, its locks held by running transactions and
\* the uniqueness its indexes promise.
OfficeTypeOK ==
    AccountsTypeOK /\ AuthorityTypeOK /\ HiringTypeOK /\ FeedTypeOK
    /\ LearningTypeOK

MCJobOf == [a \in Applicants |-> CHOOSE j \in Vacancies : TRUE]
MCMailOf == [a \in Applicants |-> a]
MCHeadcount == [j \in Vacancies |-> 1]
MCNear == Queries \X Queries
MCQueryOf == [c \in Candidates |->
    LET first == CHOOSE q \in Queries : TRUE
    IN  IF c = 1 THEN first ELSE CHOOSE q \in Queries : q # first]
MCSymmetry == Permutations(Attempts)
=============================================================================
