----------------------- MODULE CommunicationDelivery -----------------------
(***************************************************************************)
(* Sending a company email: the draft and send routes, the BullMQ queue,   *)
(* the communications worker, the external provider, and the listener that *)
(* reconciles terminally failed jobs.                                      *)
(*                                                                         *)
(*   src/server/communications/communications-routes.ts                    *)
(*   src/server/communications/communications-queue.ts                     *)
(*                                                                         *)
(* All messages have one sender, whose permission may be revoked and       *)
(* granted again; messages linked to a grievance also depend on the case.  *)
(* BullMQ and the email provider are external.  The provider remembers an  *)
(* idempotency key for 24 hours; time is the age of the first attempt:     *)
(* 0 under 20 hours, 1 from 20 to 24 hours, 2 beyond.                      *)
(***************************************************************************)
EXTENDS Integers, FiniteSets

CONSTANTS
    Messages,
    CaseLinked,        \* the messages linked to a grievance
    Workers,           \* worker slots (concurrency 1 per process)
    NoOne,             \* no worker, no message
    MaxAttempts,       \* attempts of a job and of a message (4 in the code)
    MaxStalls,         \* BullMQ maxStalledCount (1 by default)
    MaxEdits,          \* bound: draft saves
    MaxFlips,          \* bound: changes of the sender's permission or the case
    MaxRedisLoss,      \* bound: how often Redis loses its data
    ListenerMayDie     \* a reconciliation may be lost to a crash or an error

ASSUME CommunicationAssumption ==
    /\ CaseLinked \subseteq Messages
    /\ NoOne \notin Workers \cup Messages
    /\ MaxAttempts \in Nat \ {0}
    /\ {MaxStalls, MaxEdits, MaxFlips, MaxRedisLoss} \subseteq Nat

ASSUME ListenerAssumption == ListenerMayDie \in BOOLEAN

VARIABLES
    \* communication_messages
    status,        \* message status
    attempts,      \* claims made by the worker, counted up to MaxAttempts
    started,       \* first_attempt_at is set
    age,           \* age of first_attempt_at, in the steps above
    code,          \* failure_code
    content,       \* version of the subject, body and recipients
    \* permissions
    authorised,    \* the sender is active and may send this category
    caseOpen,      \* the sender may respond to the linked grievance
    \* the web process
    dispatching,   \* messages whose queue.add is still to land
    \* Redis
    job,           \* job message-<id>: state, attempts made, stalls
    lock,          \* worker holding the job's lock
    \* the worker processes
    worker,        \* phase, message, claimed attempt and body, provider result
    listener,      \* failed jobs whose reconciliation is still to run
    \* the provider
    delivered,     \* emails accepted under the message's key
    bodies,        \* contents the provider was called with
    \* bounds
    used           \* how much of each bound is used

vars == <<status, attempts, started, age, code, content, authorised, caseOpen,
          dispatching, job, lock, worker, listener, delivered, bodies, used>>

message  == <<status, attempts, started, age, code, content>>
access   == <<authorised, caseOpen>>
redis    == <<job, lock>>
provider == <<delivered, bodies>>

Statuses  == {"draft", "queued", "sending", "sent", "failed", "cancelled"}
Live      == {"queued", "sending"}
Terminal  == {"sent", "failed", "cancelled"}
Codes     == {"none", "provider", "revoked", "reconcile", "exhausted"}
JobStates == {"none", "waiting", "active", "completed", "failed"}
Phases    == {"idle", "taken", "calling", "called", "return", "throw", "fatal"}
Results   == {"none", "ok", "transient", "permanent"}
Bounds    == {"edits", "flips", "redis"}

NoJob == [st |-> "none", made |-> 0, stalls |-> 0]

\* What a worker slot holds: where its processor is, on which message, with
\* which claimed attempt and body, and what the provider answered.
Slot(phase, m, att, body, res) ==
    [phase |-> phase, msg |-> m, att |-> att, body |-> body, res |-> res]
Idle == Slot("idle", NoOne, 0, 0, "none")

TypeOK ==
    /\ status \in [Messages -> Statuses]
    /\ attempts \in [Messages -> 0..MaxAttempts]
    /\ started \in [Messages -> BOOLEAN]
    /\ age \in [Messages -> 0..2]
    /\ code \in [Messages -> Codes]
    /\ content \in [Messages -> Nat]
    /\ authorised \in BOOLEAN /\ caseOpen \in BOOLEAN
    /\ dispatching \subseteq Messages
    /\ job \in [Messages -> [st : JobStates, made : Nat, stalls : Nat]]
    /\ lock \in [Messages -> Workers \cup {NoOne}]
    /\ worker \in [Workers -> [phase : Phases, msg : Messages \cup {NoOne},
                               att : 0..MaxAttempts, body : Nat, res : Results]]
    /\ \A w \in Workers : worker[w].phase # "idle" => worker[w].msg \in Messages
    /\ listener \subseteq Messages
    /\ delivered \in [Messages -> Nat]
    /\ bodies \in [Messages -> SUBSET Nat]
    /\ used \in [Bounds -> Nat]

Init ==
    /\ status = [m \in Messages |-> "draft"]
    /\ attempts = [m \in Messages |-> 0]
    /\ started = [m \in Messages |-> FALSE]
    /\ age = [m \in Messages |-> 0]
    /\ code = [m \in Messages |-> "none"]
    /\ content = [m \in Messages |-> 0]
    /\ authorised = TRUE /\ caseOpen = TRUE
    /\ dispatching = {}
    /\ job = [m \in Messages |-> NoJob]
    /\ lock = [m \in Messages |-> NoOne]
    /\ worker = [w \in Workers |-> Idle]
    /\ listener = {}
    /\ delivered = [m \in Messages |-> 0]
    /\ bodies = [m \in Messages |-> {}]
    /\ used = [b \in Bounds |-> 0]

Spend(b, limit) ==
    /\ used[b] < limit
    /\ used' = [used EXCEPT ![b] = @ + 1]

CaseAllowed(m) == m \in CaseLinked => caseOpen

-----------------------------------------------------------------------------
(* The routes                                                              *)

\* Variant of SaveDraft: a queued message can still be edited.
SaveDraftAnyTime(m) ==
    /\ authorised /\ CaseAllowed(m)
    /\ status[m] \in {"draft", "queued"}
    /\ Spend("edits", MaxEdits)
    /\ content' = [content EXCEPT ![m] = @ + 1]
    /\ UNCHANGED <<status, attempts, started, age, code, access, dispatching,
                   redis, worker, listener, provider>>

\* PUT /drafts/:id, which updates only a draft.
SaveDraft(m) ==
    /\ authorised /\ CaseAllowed(m)
    /\ status[m] = "draft"
    /\ Spend("edits", MaxEdits)
    /\ content' = [content EXCEPT ![m] = @ + 1]
    /\ UNCHANGED <<status, attempts, started, age, code, access, dispatching,
                   redis, worker, listener, provider>>

\* POST /messages/:id/send on a draft: the row is locked, checked again and
\* frozen as queued; the job is dispatched after the commit.
Send(m) ==
    /\ authorised /\ CaseAllowed(m)
    /\ status[m] = "draft"
    /\ status' = [status EXCEPT ![m] = "queued"]
    /\ dispatching' = dispatching \cup {m}
    /\ UNCHANGED <<attempts, started, age, code, content, access, redis,
                   worker, listener, provider, used>>

\* The same request on a message that is already queued dispatches it again.
RetryDispatch(m) ==
    /\ authorised /\ CaseAllowed(m)
    /\ status[m] = "queued"
    /\ dispatching' = dispatching \cup {m}
    /\ UNCHANGED <<message, access, redis, worker, listener, provider, used>>

\* queue.add lands; an existing job of that id, finished or not, is kept.
Dispatch(m) ==
    /\ m \in dispatching
    /\ dispatching' = dispatching \ {m}
    /\ job' = IF job[m].st = "none" THEN [job EXCEPT ![m].st = "waiting"]
                                    ELSE job
    /\ UNCHANGED <<message, access, lock, worker, listener, provider, used>>

\* queue.add is lost (the client is told 503), or the web process died first.
DispatchFails(m) ==
    /\ m \in dispatching
    /\ dispatching' = dispatching \ {m}
    /\ UNCHANGED <<message, access, redis, worker, listener, provider, used>>

\* POST /messages/:id/cancel.
Cancel(m) ==
    /\ authorised
    /\ status[m] \in {"draft", "queued"}
    /\ status' = [status EXCEPT ![m] = "cancelled"]
    /\ UNCHANGED <<attempts, started, age, code, content, access, dispatching,
                   redis, worker, listener, provider, used>>

\* The sender is deactivated, loses a permission, or gets it back.
FlipSender ==
    /\ Spend("flips", MaxFlips)
    /\ authorised' = ~authorised
    /\ UNCHANGED <<message, caseOpen, dispatching, redis, worker, listener,
                   provider>>

\* The linked grievance moves out of the sender's reach, or back.
FlipCase ==
    /\ Spend("flips", MaxFlips)
    /\ caseOpen' = ~caseOpen
    /\ UNCHANGED <<message, authorised, dispatching, redis, worker, listener,
                   provider>>

-----------------------------------------------------------------------------
(* processMessage                                                          *)

\* BullMQ hands a waiting job to a free worker and gives it the job's lock.
Take(w, m) ==
    /\ worker[w].phase = "idle"
    /\ job[m].st = "waiting"
    /\ job' = [job EXCEPT ![m].st = "active"]
    /\ lock' = [lock EXCEPT ![m] = w]
    /\ worker' = [worker EXCEPT ![w] = Slot("taken", m, 0, 0, "none")]
    /\ UNCHANGED <<message, access, dispatching, listener, provider, used>>

\* The processor of w is about to return or throw.
Ends(w, m, how) ==
    worker' = [worker EXCEPT ![w] = Slot(how, m, 0, 0, "none")]

\* The first transaction: the message is no longer queued or sending.
ClaimSkips(w, m) ==
    /\ worker[w].phase = "taken" /\ worker[w].msg = m
    /\ status[m] \notin Live
    /\ Ends(w, m, "return")
    /\ UNCHANGED <<message, access, dispatching, redis, listener, provider,
                   used>>

\* Permission is checked before the first attempt; a linked case every time.
Revoked(m) ==
    /\ ~started[m] \/ ~CaseAllowed(m)
    /\ ~(CaseAllowed(m) /\ authorised)

\* The message fails without a provider call.
FailClaim(w, m, c) ==
    /\ status' = [status EXCEPT ![m] = "failed"]
    /\ code' = [code EXCEPT ![m] = c]
    /\ Ends(w, m, "return")
    /\ UNCHANGED <<attempts, started, age, content, access, dispatching,
                   redis, listener, provider, used>>

ClaimRevoked(w, m) ==
    /\ worker[w].phase = "taken" /\ worker[w].msg = m
    /\ status[m] \in Live
    /\ Revoked(m)
    /\ FailClaim(w, m, "revoked")

\* More than 20 hours after the first attempt the outcome is left to a person.
ClaimTooOld(w, m) ==
    /\ worker[w].phase = "taken" /\ worker[w].msg = m
    /\ status[m] \in Live
    /\ ~Revoked(m)
    /\ started[m] /\ age[m] > 0
    /\ FailClaim(w, m, "reconcile")

\* attempts + 1: only "below MaxAttempts" is ever asked of it.
NextAttempt(m) == IF attempts[m] < MaxAttempts THEN attempts[m] + 1
                                               ELSE attempts[m]

\* Variant of ClaimSends: no limit on the age of the first attempt.
ClaimSendsAtAnyAge(w, m) ==
    /\ worker[w].phase = "taken" /\ worker[w].msg = m
    /\ status[m] \in Live
    /\ ~Revoked(m)
    /\ status' = [status EXCEPT ![m] = "sending"]
    /\ attempts' = [attempts EXCEPT ![m] = NextAttempt(m)]
    /\ started' = [started EXCEPT ![m] = TRUE]
    /\ code' = [code EXCEPT ![m] = "none"]
    /\ worker' = [worker EXCEPT ![w] =
                     Slot("calling", m, NextAttempt(m), content[m], "none")]
    /\ UNCHANGED <<age, content, access, dispatching, redis, listener,
                   provider, used>>

\* Variant of ClaimSends: first_attempt_at is left for later.
ClaimSendsUnmarked(w, m) ==
    /\ worker[w].phase = "taken" /\ worker[w].msg = m
    /\ status[m] \in Live
    /\ ~Revoked(m)
    /\ ~started[m] \/ age[m] = 0
    /\ status' = [status EXCEPT ![m] = "sending"]
    /\ attempts' = [attempts EXCEPT ![m] = NextAttempt(m)]
    /\ code' = [code EXCEPT ![m] = "none"]
    /\ worker' = [worker EXCEPT ![w] =
                     Slot("calling", m, NextAttempt(m), content[m], "none")]
    /\ UNCHANGED <<started, age, content, access, dispatching, redis,
                   listener, provider, used>>

\* The message is claimed for one more attempt, with the body read here.
ClaimSends(w, m) ==
    /\ worker[w].phase = "taken" /\ worker[w].msg = m
    /\ status[m] \in Live
    /\ ~Revoked(m)
    /\ ~started[m] \/ age[m] = 0
    /\ status' = [status EXCEPT ![m] = "sending"]
    /\ attempts' = [attempts EXCEPT ![m] = NextAttempt(m)]
    /\ started' = [started EXCEPT ![m] = TRUE]
    /\ code' = [code EXCEPT ![m] = "none"]
    /\ worker' = [worker EXCEPT ![w] =
                     Slot("calling", m, NextAttempt(m), content[m], "none")]
    /\ UNCHANGED <<age, content, access, dispatching, redis, listener,
                   provider, used>>

\* The provider is called with key stanza-message-<id>.  It may accept the
\* email even when the caller sees an error; while it remembers the key a
\* second acceptance sends nothing.
CallProvider(w, m, res) ==
    /\ worker[w].phase = "calling" /\ worker[w].msg = m
    /\ bodies' = [bodies EXCEPT ![m] = @ \cup {worker[w].body}]
    /\ \E accepts \in BOOLEAN :
          /\ res = "ok" => accepts
          /\ res = "permanent" => ~accepts
          /\ delivered' = IF accepts /\ ~(delivered[m] > 0 /\ age[m] < 2)
                          THEN [delivered EXCEPT ![m] = @ + 1]
                          ELSE delivered
    /\ worker' = [worker EXCEPT ![w] =
                     Slot("called", m, worker[w].att, 0, res)]
    /\ UNCHANGED <<message, access, dispatching, redis, listener, used>>

\* classifyDelivery.
Retries(res, att) == res = "transient" /\ att < MaxAttempts

Outcome(res, att) == IF res = "ok" THEN "sent"
                     ELSE IF Retries(res, att) THEN "queued" ELSE "failed"

\* Variant of Finalize: the status is not read again.
FinalizeUnchecked(w, m) ==
    /\ worker[w].phase = "called" /\ worker[w].msg = m
    /\ LET res == worker[w].res
           att == worker[w].att
       IN  /\ status' = [status EXCEPT ![m] = Outcome(res, att)]
           /\ code' = [code EXCEPT ![m] = IF res = "ok" THEN "none"
                                                        ELSE "provider"]
           /\ Ends(w, m, CASE res = "ok" -> "return"
                           [] Retries(res, att) -> "throw"
                           [] OTHER -> "fatal")
    /\ UNCHANGED <<attempts, started, age, content, access, dispatching,
                   redis, listener, provider, used>>

\* Variant of Finalize: a retryable outcome returns instead of throwing.
FinalizeReturns(w, m) ==
    /\ worker[w].phase = "called" /\ worker[w].msg = m
    /\ Ends(w, m, "return")
    /\ IF status[m] \notin Live
       THEN UNCHANGED <<status, code>>
       ELSE /\ status' = [status EXCEPT ![m] = Outcome(worker[w].res,
                                                       worker[w].att)]
            /\ code' = [code EXCEPT ![m] =
                            IF worker[w].res = "ok" THEN "none" ELSE "provider"]
    /\ UNCHANGED <<attempts, started, age, content, access, dispatching,
                   redis, listener, provider, used>>

\* The second transaction records the outcome, unless a replay or a user
\* settled the message meanwhile; then the job returns, is retried or fails.
Finalize(w, m) ==
    /\ worker[w].phase = "called" /\ worker[w].msg = m
    /\ LET res == worker[w].res
           att == worker[w].att
       IN  IF status[m] \notin Live
           THEN /\ Ends(w, m, "return")
                /\ UNCHANGED <<status, code>>
           ELSE /\ status' = [status EXCEPT ![m] = Outcome(res, att)]
                /\ code' = [code EXCEPT ![m] =
                                IF res = "ok" THEN "none" ELSE "provider"]
                /\ Ends(w, m, CASE res = "ok" -> "return"
                                [] Retries(res, att) -> "throw"
                                [] OTHER -> "fatal")
    /\ UNCHANGED <<attempts, started, age, content, access, dispatching,
                   redis, listener, provider, used>>

\* A transaction fails, that of the claim, the look at the tenant before the
\* call or that of the outcome, and the processor throws.
DatabaseError(w) ==
    /\ worker[w].phase \in {"taken", "calling", "called"}
    /\ Ends(w, worker[w].msg, "throw")
    /\ UNCHANGED <<message, access, dispatching, redis, listener, provider,
                   used>>

-----------------------------------------------------------------------------
(* BullMQ, the failed listener and Redis                                   *)

\* The processor returned; the job completes if w still holds its lock.
Complete(w, m) ==
    /\ worker[w].phase = "return" /\ worker[w].msg = m
    /\ IF lock[m] = w
       THEN /\ job' = [job EXCEPT ![m].st = "completed"]
            /\ lock' = [lock EXCEPT ![m] = NoOne]
       ELSE UNCHANGED redis
    /\ worker' = [worker EXCEPT ![w] = Idle]
    /\ UNCHANGED <<message, access, dispatching, listener, provider, used>>

\* Variant of JobFails: the listener compares attempts with > instead of >=.
JobFailsUnheard(w, m) ==
    /\ worker[w].phase \in {"throw", "fatal"} /\ worker[w].msg = m
    /\ LET made == job[m].made + 1
           dead == worker[w].phase = "fatal" \/ made >= MaxAttempts
       IN  IF lock[m] = w
           THEN /\ job' = [job EXCEPT ![m].made = made,
                             ![m].st = IF dead THEN "failed" ELSE "waiting"]
                /\ lock' = [lock EXCEPT ![m] = NoOne]
                /\ listener' = IF made > MaxAttempts THEN listener \cup {m}
                                                     ELSE listener
           ELSE UNCHANGED <<redis, listener>>
    /\ worker' = [worker EXCEPT ![w] = Idle]
    /\ UNCHANGED <<message, access, dispatching, provider, used>>

\* The processor threw: the job is retried, or fails when out of attempts or
\* when the error is unrecoverable.  The listener of the failed event only
\* reconciles a job that is out of attempts.
JobFails(w, m) ==
    /\ worker[w].phase \in {"throw", "fatal"} /\ worker[w].msg = m
    /\ LET made == job[m].made + 1
           dead == worker[w].phase = "fatal" \/ made >= MaxAttempts
       IN  IF lock[m] = w
           THEN /\ job' = [job EXCEPT ![m].made = made,
                             ![m].st = IF dead THEN "failed" ELSE "waiting"]
                /\ lock' = [lock EXCEPT ![m] = NoOne]
                /\ listener' = IF made >= MaxAttempts THEN listener \cup {m}
                                                      ELSE listener
           ELSE UNCHANGED <<redis, listener>>
    /\ worker' = [worker EXCEPT ![w] = Idle]
    /\ UNCHANGED <<message, access, dispatching, provider, used>>

\* reconcileFailedJob: a message still queued or sending becomes failed.
Reconcile(m) ==
    /\ m \in listener
    /\ listener' = listener \ {m}
    /\ IF status[m] \in Live
       THEN /\ status' = [status EXCEPT ![m] = "failed"]
            /\ code' = [code EXCEPT ![m] = IF started[m] THEN "reconcile"
                                                         ELSE "exhausted"]
       ELSE UNCHANGED <<status, code>>
    /\ UNCHANGED <<attempts, started, age, content, access, dispatching,
                   redis, worker, provider, used>>

\* The reconciliation fails, which is only logged, or its process dies first.
ReconcileLost(m) ==
    /\ m \in listener
    /\ ListenerMayDie
    /\ listener' = listener \ {m}
    /\ UNCHANGED <<message, access, dispatching, redis, worker, provider, used>>

\* Variant of Crash: the slot forgets its message but not that it was busy.
CrashKeepsPhase(w) ==
    /\ worker[w].phase # "idle"
    /\ worker' = [worker EXCEPT ![w].msg = NoOne]
    /\ UNCHANGED <<message, access, dispatching, redis, listener, provider,
                   used>>

\* A worker process dies; the job stays active under a lock nobody renews.
Crash(w) ==
    /\ worker[w].phase # "idle"
    /\ worker' = [worker EXCEPT ![w] = Idle]
    /\ UNCHANGED <<message, access, dispatching, redis, listener, provider,
                   used>>

\* The lock of an active job expires, its holder dead or merely late: the job
\* is redelivered, or fails as stalled, which the listener reconciles.
Stall(m) ==
    /\ job[m].st = "active"
    /\ LET dead == job[m].stalls >= MaxStalls
       IN  /\ job' = [job EXCEPT ![m].stalls = @ + 1,
                         ![m].st = IF dead THEN "failed" ELSE "waiting"]
           /\ listener' = IF dead THEN listener \cup {m} ELSE listener
    /\ lock' = [lock EXCEPT ![m] = NoOne]
    /\ UNCHANGED <<message, access, dispatching, worker, provider, used>>

\* removeOnComplete / removeOnFail drop an old finished job.
Evict(m) ==
    /\ job[m].st \in {"completed", "failed"}
    /\ job' = [job EXCEPT ![m] = NoJob]
    /\ UNCHANGED <<message, access, dispatching, lock, worker, listener,
                   provider, used>>

\* Redis loses its data.
RedisLoss ==
    /\ Spend("redis", MaxRedisLoss)
    /\ job' = [m \in Messages |-> NoJob]
    /\ lock' = [m \in Messages |-> NoOne]
    /\ UNCHANGED <<message, access, dispatching, worker, listener, provider>>

\* Time passes.  Assumption: a provider call ends within the four hours
\* between the 20-hour limit and the provider's 24-hour memory.
GrowOlder(m) ==
    /\ started[m] /\ age[m] < 2
    /\ age[m] = 1 => \A w \in Workers :
                        ~(worker[w].phase = "calling" /\ worker[w].msg = m)
    /\ age' = [age EXCEPT ![m] = @ + 1]
    /\ UNCHANGED <<status, attempts, started, code, content, access,
                   dispatching, redis, worker, listener, provider, used>>

-----------------------------------------------------------------------------
RouteStep(m) == \/ SaveDraft(m) \/ Send(m) \/ RetryDispatch(m) \/ Cancel(m)
                \/ Dispatch(m) \/ DispatchFails(m)

Attempt(w, m) ==
    \/ Take(w, m) \/ ClaimSkips(w, m) \/ ClaimRevoked(w, m)
    \/ ClaimTooOld(w, m) \/ ClaimSends(w, m)
    \/ \E res \in Results \ {"none"} : CallProvider(w, m, res)
    \/ Finalize(w, m) \/ Complete(w, m) \/ JobFails(w, m)

QueueStep(m) == Reconcile(m) \/ ReconcileLost(m) \/ Stall(m) \/ Evict(m)

Next ==
    \/ \E m \in Messages : RouteStep(m) \/ QueueStep(m) \/ GrowOlder(m)
    \/ \E w \in Workers, m \in Messages : Attempt(w, m)
    \/ \E w \in Workers : DatabaseError(w) \/ Crash(w)
    \/ FlipSender \/ FlipCase \/ RedisLoss

Spec == Init /\ [][Next]_vars

\* An active job whose holder is not working on it.
Orphaned(m) ==
    /\ job[m].st = "active"
    /\ \A w \in Workers : lock[m] = w => worker[w].phase = "idle"
                                         \/ worker[w].msg # m

\* BullMQ serves waiting jobs in turn and finds orphaned ones, a processor
\* that is running gets on with its work, and the failed listener runs.
Fairness ==
    \A m \in Messages :
        /\ SF_vars(\E w \in Workers : Take(w, m))
        /\ WF_vars(Orphaned(m) /\ Stall(m))
        /\ WF_vars(Reconcile(m))
        /\ \A w \in Workers :
              WF_vars(worker[w].phase # "idle" /\ Attempt(w, m))

FairSpec == Spec /\ Fairness

-----------------------------------------------------------------------------
(* Properties                                                              *)

\* The recipients get a message at most once, however often its job is
\* retried, redelivered or dispatched again: every call carries the same key,
\* and none is made after the provider may have forgotten it.
DeliveredAtMostOnce == \A m \in Messages : delivered[m] <= 1

\* "The same frozen payload is retried" (docs/communications.md:53): every
\* provider call for a message carries the content it was queued with.
FrozenContent == \A m \in Messages : bodies[m] \subseteq {content[m]}

\* A message is only marked sent once the provider accepted it.
SentMeansAccepted ==
    \A m \in Messages : status[m] = "sent" => delivered[m] > 0

\* The codes that tell an operator nothing was attempted tell the truth: the
\* provider was not called and no worker is about to call it.  (A revoked case
\* also stops later attempts of a linked message, under the same code.)
NeverAttempted(m) ==
    /\ bodies[m] = {}
    /\ \A w \in Workers : worker[w].msg = m => worker[w].phase # "calling"
UnattemptedCodesAreTrue ==
    \A m \in Messages :
        \/ code[m] = "exhausted"
        \/ code[m] = "revoked" /\ m \notin CaseLinked
        => NeverAttempted(m)

\* A confirmed outcome is never overwritten: not by a late worker that lost
\* its job, not by the listener, not by a user.
TerminalIsFinal ==
    [][\A m \in Messages : status[m] \in Terminal =>
          status'[m] = status[m] /\ code'[m] = code[m]]_vars

\* What the sender is promised of a message: the queue's states are one, and
\* the contents that went out are those the provider was called with.
Promised == INSTANCE MessageContract WITH
                stage <- [m \in Messages |->
                            IF status[m] \in Live THEN "underway" ELSE status[m]],
                text <- content,
                begun <- started,
                mailed <- delivered,
                letters <- [m \in Messages |->
                              IF delivered[m] = 0 THEN {} ELSE bodies[m]]

\* Retries, stalls, redispatch, cancellation and a lost Redis are invisible to
\* the sender: a message goes out once and unchanged, never after a
\* cancellation that came before its first attempt, and its outcome is final.
KeepsPromise == Promised!Spec

\* A completed job leaves no message waiting for it: dispatching that message
\* again would be swallowed by the job id that already exists.
CompletedJobIsSettled ==
    \A m \in Messages : job[m].st = "completed" => status[m] \in Terminal

\* A failed job leaves its message settled, or its reconciliation pending.
FailedJobIsReconciled ==
    \A m \in Messages :
        job[m].st = "failed" => status[m] \in Terminal \/ m \in listener

\* communications-queue.ts:86 "A terminal BullMQ failure must not leave the
\* persisted message saying it is sending."
FailedJobNotSending ==
    \A m \in Messages :
        job[m].st = "failed" /\ m \notin listener => status[m] # "sending"

\* A message whose job is in the queue is eventually sent, failed or cancelled.
JobSettlesMessage ==
    \A m \in Messages :
        job[m].st \in {"waiting", "active"} ~> status[m] \in Terminal

-----------------------------------------------------------------------------
(* The inductive invariant behind the safety properties                    *)

\* Nothing reaches the provider before first_attempt_at is committed, nor
\* with anything but the content the message was queued with.
CallsAreMarked ==
    /\ \A m \in Messages :
          /\ bodies[m] # {} \/ delivered[m] > 0 => started[m]
          /\ age[m] > 0 => started[m]
          /\ started[m] => status[m] # "draft"
    /\ \A w \in Workers : worker[w].phase = "calling" =>
          /\ started[worker[w].msg]
          /\ age[worker[w].msg] < 2
          /\ worker[w].body = content[worker[w].msg]

\* A message that reached the queue is no longer a draft.
QueuedIsFrozen ==
    /\ \A m \in Messages :
          m \in dispatching \/ job[m].st # "none" => status[m] # "draft"
    /\ \A w \in Workers :
          worker[w].phase # "idle" => status[worker[w].msg] # "draft"

\* A worker that saw an acceptance is right; one that is about to return, or
\* to fail its job for good, leaves a settled message behind.
WorkersAreRight ==
    \A w \in Workers :
        /\ worker[w].phase = "called" /\ worker[w].res = "ok" =>
              delivered[worker[w].msg] > 0
        /\ worker[w].phase \in {"return", "fatal"} =>
              status[worker[w].msg] \in Terminal

\* The codes of an unattempted failure are only given to unmarked messages.
CodesAreRight ==
    \A m \in Messages :
        /\ code[m] \in {"exhausted", "revoked"} => status[m] = "failed"
        /\ \/ code[m] = "exhausted"
           \/ code[m] = "revoked" /\ m \notin CaseLinked
           => ~started[m]

InductiveInvariant ==
    /\ TypeOK
    /\ CallsAreMarked
    /\ QueuedIsFrozen
    /\ WorkersAreRight
    /\ CodesAreRight
    /\ DeliveredAtMostOnce
    /\ FrozenContent
    /\ SentMeansAccepted
    /\ CompletedJobIsSettled
=============================================================================
