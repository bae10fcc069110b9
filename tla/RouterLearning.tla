--------------------------- MODULE RouterLearning ---------------------------
(***************************************************************************)
(* What the command router learns: a query the language model resolved     *)
(* becomes a candidate, a reviewed candidate an example of the tenant, and *)
(* an example of a tenant that shares its learning one of the corpus that  *)
(* every tenant reads.                                                     *)
(*                                                                         *)
(*   src/server/intelligent-router/store.ts (promoteCandidate)             *)
(*   src/server/intelligent-router/semantic-admin.ts, routes.ts            *)
(*   migrations 20261002_intelligent_router, 20261005_semantic_intelligence*)
(*                                                                         *)
(* Confirming, promoting, contributing and sharing read, ask for a         *)
(* permission or an embedding or write an audit trail, and commit later;   *)
(* the other handlers lock all they read and are one step.  The vector of  *)
(* a query is what it is near to.  A candidate that expires is one nobody  *)
(* promotes any more.                                                      *)
(***************************************************************************)
EXTENDS Tenant

CONSTANTS
    Queries,     \* normalized texts
    Near,        \* pairs of queries above the duplicate boundary
    Intents,     \* registered intents
    Candidates,  \* router_candidates rows, each of another employee
    QueryOf,     \* the text of each candidate
    Reviewers    \* requests being handled

ASSUME LearningAssumption ==
    /\ Near \subseteq Queries \X Queries
    /\ \A q \in Queries : <<q, q>> \in Near
    /\ \A q, s \in Queries : <<q, s>> \in Near => <<s, q>> \in Near
    /\ QueryOf \in [Candidates -> Queries]
    /\ Null \notin Candidates \cup Queries \cup Reviewers

VARIABLES
    mode,           \* router_privacy_settings.mode
    candidate,      \* router_candidates
    example,        \* TENANT_PRIVATE rows of router_semantic_examples, by text
    shareable,      \* router_shared_candidates, by the example they come from
    corpus,         \* SHARED rows of router_semantic_examples, by text
    review,         \* what each request is doing
    candidateLock,  \* holder of the row lock of each candidate
    promotionLock,  \* holder of the promotion advisory locks
    privacyLock,    \* holder of the privacy advisory lock
    shareableLock   \* holder of the row lock of each shared candidate

learningVars == <<mode, candidate, example, shareable, corpus, review,
                  candidateLock, promotionLock, privacyLock, shareableLock>>
rowVars  == <<mode, candidate, example, shareable, corpus>>
lockVars == <<candidateLock, promotionLock, privacyLock, shareableLock>>

Modes   == {"SHARED", "PRIVATE", "STRICT_PRIVATE"}
Holder  == Reviewers \cup {Null}
\* again: a reactivation brought the row back, which nothing checks
Example == [st : {"none", "approved", "disabled"}, intent : Intents \cup {Null},
            from : Candidates \cup {Null}, again : BOOLEAN]
Shared  == [st : {"none", "pending", "approved", "rejected"},
            text : Queries \cup {Null}, intent : Intents \cup {Null}]
Request == [op : {"idle", "confirming", "embedding", "promoting", "contributing", "sharing"},
            about : Candidates \cup Queries \cup {Null},
            text : Queries \cup {Null}, intent : Intents \cup {Null},
            adds : BOOLEAN]

NoExample == [st |-> "none", intent |-> Null, from |-> Null, again |-> FALSE]
NoShared  == [st |-> "none", text |-> Null, intent |-> Null]
Idle == [op |-> "idle", about |-> Null, text |-> Null, intent |-> Null,
         adds |-> FALSE]

LearningTypeOK ==
    /\ mode \in Modes
    /\ candidate \in [Candidates ->
           [st : {"none", "pending", "approved", "rejected"},
            intent : Intents \cup {Null}, confirmed : BOOLEAN, private : BOOLEAN]]
    /\ example \in [Queries -> Example]
    /\ shareable \in [Queries -> Shared]
    /\ corpus \in [Queries -> Example]
    /\ review \in [Reviewers -> Request]
    /\ candidateLock \in [Candidates -> Holder]
    /\ promotionLock \in Holder
    /\ privacyLock \in Holder
    /\ shareableLock \in [Queries -> Holder]

LearningInit ==
    /\ mode = "PRIVATE"
    /\ candidate = [c \in Candidates |->
           [st |-> "none", intent |-> Null, confirmed |-> FALSE,
            private |-> FALSE]]
    /\ example = [q \in Queries |-> NoExample]
    /\ shareable = [q \in Queries |-> NoShared]
    /\ corpus = [q \in Queries |-> NoExample]
    /\ review = [r \in Reviewers |-> Idle]
    /\ candidateLock = [c \in Candidates |-> Null]
    /\ promotionLock = Null
    /\ privacyLock = Null
    /\ shareableLock = [q \in Queries |-> Null]

-----------------------------------------------------------------------------
(* Requests that stay open, and their locks.                               *)

Begin(r, op, about, text, intent, adds) ==
    /\ review[r] = Idle
    /\ review' = [review EXCEPT ![r] =
           [op |-> op, about |-> about, text |-> text, intent |-> intent,
            adds |-> adds]]

\* The end of a transaction frees its locks.
Without(r, locks) ==
    [k \in DOMAIN locks |-> IF locks[k] = r THEN Null ELSE locks[k]]

Ends(r) ==
    /\ review' = [review EXCEPT ![r] = Idle]
    /\ candidateLock' = Without(r, candidateLock)
    /\ promotionLock' = IF promotionLock = r THEN Null ELSE promotionLock
    /\ privacyLock' = IF privacyLock = r THEN Null ELSE privacyLock
    /\ shareableLock' = Without(r, shareableLock)

\* The provider fails, the audit trail is refused, the candidate expired.
RequestFails(r) ==
    /\ review[r] # Idle
    /\ Ends(r)
    /\ UNCHANGED rowVars

-----------------------------------------------------------------------------
(* Candidates.                                                             *)

CreateCandidate(c, i) ==
    /\ candidate[c].st = "none"
    /\ candidate' = [candidate EXCEPT ![c].st = "pending", ![c].intent = i]
    /\ UNCHANGED <<mode, example, shareable, corpus, review, lockVars>>

Pending(c) == candidate[c].st = "pending" /\ candidateLock[c] = Null

\* Confirming reads without a lock, and its update asks no more whether the
\* candidate is pending.
BeginConfirm(r, c) ==
    /\ candidate[c].st = "pending"
    /\ Begin(r, "confirming", c, Null, Null, FALSE)
    /\ UNCHANGED <<rowVars, lockVars>>

CommitConfirm(r) ==
    LET c == review[r].about IN
    /\ review[r].op = "confirming" /\ candidateLock[c] = Null
    /\ candidate' = [candidate EXCEPT ![c].confirmed = TRUE]
    /\ Ends(r)
    /\ UNCHANGED <<mode, example, shareable, corpus>>

\* One of the two routes also rejects what its author has not confirmed.
RejectCandidate(c) ==
    /\ Pending(c)
    /\ candidate' = [candidate EXCEPT ![c].st = "rejected"]
    /\ UNCHANGED <<mode, example, shareable, corpus, review, lockVars>>

ChangeIntent(c, i) ==
    /\ Pending(c) /\ candidate[c].confirmed
    /\ candidate' = [candidate EXCEPT ![c].intent = i]
    /\ UNCHANGED <<mode, example, shareable, corpus, review, lockVars>>

PrivateOnly(c, private) ==
    /\ Pending(c) /\ candidate[c].confirmed
    /\ candidate' = [candidate EXCEPT ![c].private = private]
    /\ UNCHANGED <<mode, example, shareable, corpus, review, lockVars>>

-----------------------------------------------------------------------------
(* Promotion.                                                              *)

\* What row level security shows the tenant: its own examples and, unless it
\* is strictly private, the corpus.
Visible(q) == {example[q]} \cup IF mode = "STRICT_PRIVATE" THEN {} ELSE {corpus[q]}
IntentsOf(q) == {e.intent : e \in {v \in Visible(q) : v.st # "none"}}
NearIntents(q) ==
    {e.intent : e \in {v \in UNION {Visible(s) : s \in {s \in Queries :
                                                       <<q, s>> \in Near}} :
                       v.st = "approved"}}

\* One row is read, whichever comes first; the same intent is a duplicate.
Agrees(q, i) == IntentsOf(q) = {} \/ i \in IntentsOf(q)

\* The first transactions read the candidate and its duplicates; only what
\* has none is embedded, outside every lock.
BeginPromotion(r, c) ==
    LET q == QueryOf[c] IN
    /\ candidate[c].st = "pending" /\ candidate[c].confirmed
    /\ Agrees(q, candidate[c].intent)
    /\ Begin(r, "embedding", c, q, candidate[c].intent, IntentsOf(q) = {})
    /\ UNCHANGED <<rowVars, lockVars>>

\* Variant of CheckPromotion: the promotions of a tenant are not serialized.
CheckPromotionUnserialized(r) ==
    LET t == review[r] IN
    /\ t.op = "embedding"
    /\ Pending(t.about) /\ candidate[t.about].confirmed
    /\ Agrees(t.text, t.intent)
    /\ t.adds => NearIntents(t.text) \subseteq {t.intent}
    /\ review' = [review EXCEPT ![r].op = "promoting",
           ![r].adds = @ /\ IntentsOf(t.text) = {} /\ NearIntents(t.text) = {}]
    /\ candidateLock' = [candidateLock EXCEPT ![t.about] = r]
    /\ UNCHANGED <<rowVars, promotionLock, privacyLock, shareableLock>>

\* The last transaction locks the candidate, the phrase and the space of
\* vectors, in this order, and looks again; the intent is the one read first.
CheckPromotion(r) ==
    LET t == review[r] IN
    /\ t.op = "embedding"
    /\ Pending(t.about) /\ candidate[t.about].confirmed
    /\ promotionLock = Null
    /\ Agrees(t.text, t.intent)
    /\ t.adds => NearIntents(t.text) \subseteq {t.intent}
    /\ review' = [review EXCEPT ![r].op = "promoting",
           ![r].adds = @ /\ IntentsOf(t.text) = {} /\ NearIntents(t.text) = {}]
    /\ candidateLock' = [candidateLock EXCEPT ![t.about] = r]
    /\ promotionLock' = r
    /\ UNCHANGED <<rowVars, privacyLock, shareableLock>>

\* The unique index on the text; a duplicate is approved without a row.
CommitPromotion(r) ==
    LET t == review[r] IN
    /\ t.op = "promoting"
    /\ t.adds => example[t.text].st = "none"
    /\ example' = IF ~t.adds THEN example ELSE
           [example EXCEPT ![t.text] = [st |-> "approved", intent |-> t.intent,
                                        from |-> t.about, again |-> FALSE]]
    /\ candidate' = [candidate EXCEPT ![t.about].st = "approved"]
    /\ Ends(r)
    /\ UNCHANGED <<mode, shareable, corpus>>

-----------------------------------------------------------------------------
(* The tenant's examples and its privacy.                                  *)

Switched(row, on) ==
    [row EXCEPT !.st = IF on THEN "approved" ELSE "disabled",
                !.again = @ \/ (on /\ row.st = "disabled")]

SwitchExample(q, on) ==
    /\ example[q].st # "none"
    /\ example' = [example EXCEPT ![q] = Switched(@, on)]
    /\ UNCHANGED <<mode, candidate, shareable, corpus, review, lockVars>>

\* The foreign key of a shared candidate becomes NULL, which waits for its
\* row; without its example it can only be rejected, and is forgotten here.
DeleteExample(q) ==
    /\ example[q].st # "none"
    /\ shareableLock[q] = Null
    /\ example' = [example EXCEPT ![q] = NoExample]
    /\ shareable' = [shareable EXCEPT ![q] = NoShared]
    /\ UNCHANGED <<mode, candidate, corpus, review, lockVars>>

\* Variant of ChangePrivacy: the advisory lock is not taken.
ChangePrivacyUnlocked(m) ==
    /\ mode' = m
    /\ UNCHANGED <<candidate, example, shareable, corpus, review, lockVars>>

ChangePrivacy(m) ==
    /\ privacyLock = Null
    /\ mode' = m
    /\ UNCHANGED <<candidate, example, shareable, corpus, review, lockVars>>

-----------------------------------------------------------------------------
(* Contributing to the corpus.                                             *)

\* Under the privacy lock: the mode, the example and its candidate.
BeginContribution(r, q) ==
    /\ privacyLock = Null
    /\ mode = "SHARED"
    /\ example[q].st = "approved"
    /\ ~candidate[example[q].from].private
    /\ Begin(r, "contributing", example[q].from, q, example[q].intent, FALSE)
    /\ privacyLock' = r
    /\ UNCHANGED <<rowVars, candidateLock, promotionLock, shareableLock>>

\* The foreign key needs the example still; a second one changes nothing.
CommitContribution(r) ==
    LET t == review[r] IN
    /\ t.op = "contributing"
    /\ example[t.text].from = t.about
    /\ shareable' = IF shareable[t.text].st # "none" THEN shareable ELSE
           [shareable EXCEPT ![t.text] =
               [st |-> "pending", text |-> t.text, intent |-> t.intent]]
    /\ Ends(r)
    /\ UNCHANGED <<mode, candidate, example, corpus>>

\* A platform review: the row lock, then the privacy lock of its tenant.
Reviewable(q) ==
    /\ shareable[q].st = "pending"
    /\ shareableLock[q] = Null /\ privacyLock = Null
Consented(q) == mode = "SHARED" /\ example[q].st = "approved"

RejectShared(q) ==
    /\ Reviewable(q)
    /\ shareable' = [shareable EXCEPT ![q].st = "rejected"]
    /\ UNCHANGED <<mode, candidate, example, corpus, review, lockVars>>

EditShared(q, text, intent) ==
    /\ Reviewable(q) /\ Consented(q)
    /\ shareable' = [shareable EXCEPT ![q].text = text, ![q].intent = intent]
    /\ UNCHANGED <<mode, candidate, example, corpus, review, lockVars>>

\* Nothing of the corpus has the text, not even switched off, and nothing
\* that is on is near it.
BeginSharing(r, q, text, intent) ==
    /\ Reviewable(q) /\ Consented(q)
    /\ corpus[text].st = "none"
    /\ \A s \in Queries : <<text, s>> \in Near => corpus[s].st # "approved"
    /\ Begin(r, "sharing", q, text, intent, TRUE)
    /\ shareableLock' = [shareableLock EXCEPT ![q] = r]
    /\ privacyLock' = r
    /\ UNCHANGED <<rowVars, candidateLock, promotionLock>>

CommitSharing(r) ==
    LET t == review[r] IN
    /\ t.op = "sharing"
    /\ corpus' = [corpus EXCEPT ![t.text] =
           [NoExample EXCEPT !.st = "approved", !.intent = t.intent]]
    /\ shareable' = [shareable EXCEPT ![t.about] =
           [st |-> "approved", text |-> t.text, intent |-> t.intent]]
    /\ Ends(r)
    /\ UNCHANGED <<mode, candidate, example>>

SwitchCorpus(q, on) ==
    /\ corpus[q].st # "none"
    /\ corpus' = [corpus EXCEPT ![q] = Switched(@, on)]
    /\ UNCHANGED <<mode, candidate, example, shareable, review, lockVars>>

-----------------------------------------------------------------------------
LearningNext ==
    \/ \E c \in Candidates :
          \/ \E i \in Intents : CreateCandidate(c, i) \/ ChangeIntent(c, i)
          \/ \E private \in BOOLEAN : PrivateOnly(c, private)
          \/ RejectCandidate(c)
    \/ \E r \in Reviewers :
          \/ \E c \in Candidates : BeginConfirm(r, c) \/ BeginPromotion(r, c)
          \/ CommitConfirm(r)
          \/ CheckPromotion(r) \/ CommitPromotion(r)
          \/ \E q \in Queries : BeginContribution(r, q)
          \/ CommitContribution(r)
          \/ \E q, text \in Queries, i \in Intents : BeginSharing(r, q, text, i)
          \/ CommitSharing(r)
          \/ RequestFails(r)
    \/ \E q \in Queries :
          \/ \E on \in BOOLEAN : SwitchExample(q, on) \/ SwitchCorpus(q, on)
          \/ DeleteExample(q) \/ RejectShared(q)
          \/ \E text \in Queries, i \in Intents : EditShared(q, text, i)
    \/ \E m \in Modes : ChangePrivacy(m)

LearningSpec == LearningInit /\ [][LearningNext]_learningVars

-----------------------------------------------------------------------------
(* Properties.                                                             *)

\* However promotions of near queries overlap ("Serialize phrase promotion to
\* reject concurrent contradictory intent approvals", store.ts:77), the
\* examples they left never send near queries to different intents.  What an
\* administrator brings back by hand is not checked again.
PromotionsAgree ==
    \A q, s \in Queries :
        /\ example[q].st = "approved" /\ ~example[q].again
        /\ example[s].st = "approved" /\ ~example[s].again
        /\ <<q, s>> \in Near
        => example[q].intent = example[s].intent

\* A review decides once although its embedding runs outside every lock: what
\* was learnt comes from a candidate that was approved, of the same text, and
\* a candidate rejected meanwhile teaches nothing.
LearntFromApproved ==
    \A q \in Queries : example[q].st # "none" =>
        /\ candidate[example[q].from].st = "approved"
        /\ QueryOf[example[q].from] = q

ReviewsHold == PromotionsAgree /\ LearntFromApproved

\* Nothing a tenant learnt is offered to the other tenants, or enters their
\* corpus, at a moment the tenant does not share its learning, and nothing of
\* a candidate that was kept private: the mode was read, and is still what it
\* was when the request commits.
SharedWithConsent ==
    [][\A q \in Queries :
          shareable'[q].st # shareable[q].st
              /\ shareable'[q].st \in {"pending", "approved"}
          => /\ mode = "SHARED"
             /\ example[q].st # "none"
             /\ ~candidate[example[q].from].private]_learningVars
=============================================================================
