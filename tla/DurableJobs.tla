---------------------------- MODULE DurableJobs ----------------------------
(***************************************************************************)
(* Durable background work: PostgreSQL outbox rows, the BullMQ queue they  *)
(* are copied to, the HR worker that consumes it and the recovery timer    *)
(* that copies pending rows again.                                         *)
(*                                                                         *)
(*   src/lib/durable-background.ts, src/lib/hr-background.ts,              *)
(*   src/lib/queue-bounds.ts, src/workers/hr-worker.ts,                    *)
(*   src/server/attendance/attendance-rollup.ts                            *)
(*                                                                         *)
(* Events are committed domain changes of one employee on one day (clock   *)
(* in, clock out, break...).  Each asks for an audit row, a recomputation  *)
(* of the daily summary, or both.  BullMQ is external: a job is added once *)
(* per job id, taken under a lock, retried, declared stalled, evicted, and *)
(* may be lost with Redis.                                                 *)
(***************************************************************************)
EXTENDS Integers, FiniteSets

CONSTANTS
    Events,        \* committed domain changes
    Effects,       \* Effects[e]: the kinds of background work e asks for
    Workers,       \* worker slots (concurrency 1 per process)
    NoWorker,      \* nobody
    MaxAttempts,   \* BullMQ "attempts" of a job
    MaxStalls,     \* BullMQ maxStalledCount (1 by default)
    BatchLimit,    \* LIMIT of the recovery query (100 in the code)
    MaxRedisLoss   \* bound: how often Redis loses its data

Kinds == {"audit", "rollup"}

ASSUME DurableJobsAssumption ==
    /\ IsFiniteSet(Events)
    /\ Effects \in [Events -> SUBSET Kinds]
    /\ NoWorker \notin Workers
    /\ MaxAttempts \in Nat \ {0}
    /\ MaxStalls \in Nat
    /\ BatchLimit \in Nat \ {0}
    /\ MaxRedisLoss \in Nat

\* An outbox row: which event asked for which kind of work.
Rows == {row \in Events \X Kinds : row[2] \in Effects[row[1]]}
EventOf(r) == r[1]
KindOf(r)  == r[2]
AuditRows  == {r \in Rows : KindOf(r) = "audit"}

VARIABLES
    \* PostgreSQL
    logs,        \* events committed to time_logs
    summary,     \* events the stored daily summary accounts for
    auditLog,    \* number of audit_logs rows written for each audit request
    created,     \* position of a row in outbox_events, 0 while not inserted
    processed,   \* rows with processed_at set
    dayLock,     \* holder of the rollup advisory lock
    \* the web process, between the domain commit and queue.add
    stage,       \* "none", "due", "adding", "done" or "lost", per row
    \* Redis
    job,         \* state, attempts and stalls of job dispatch-<row>
    lock,        \* worker holding the job's lock
    losses,      \* how often Redis has lost its data
    \* the worker processes
    worker,      \* phase, row and rollup snapshot of each worker
    scan         \* rows the recovery pass has selected and not yet re-added

vars == <<logs, summary, auditLog, created, processed, dayLock, stage,
          job, lock, losses, worker, scan>>

JobStates == {"none", "waiting", "active", "completed", "failed"}
NoJob     == [st |-> "none", attempts |-> 0, stalls |-> 0]
Stages    == {"none", "due", "adding", "done", "lost"}
Phases    == {"idle", "work", "writing", "complete", "ack"}
Idle      == [phase |-> "idle", row |-> NoWorker, snap |-> {}]

TypeOK ==
    /\ logs \subseteq Events
    /\ summary \subseteq Events
    /\ auditLog \in [Rows -> Nat]
    /\ created \in [Rows -> Nat]
    /\ processed \subseteq Rows
    /\ dayLock \in Workers \cup {NoWorker}
    /\ stage \in [Rows -> Stages]
    /\ job \in [Rows -> [st : JobStates, attempts : Nat, stalls : Nat]]
    /\ lock \in [Rows -> Workers \cup {NoWorker}]
    /\ losses \in 0..MaxRedisLoss
    /\ worker \in [Workers -> [phase : Phases, row : Rows \cup {NoWorker},
                               snap : SUBSET Events]]
    /\ \A w \in Workers : worker[w].phase # "idle" => worker[w].row \in Rows
    /\ scan \subseteq Rows

Init ==
    /\ logs = {}
    /\ summary = {}
    /\ auditLog = [r \in Rows |-> 0]
    /\ created = [r \in Rows |-> 0]
    /\ processed = {}
    /\ dayLock = NoWorker
    /\ stage = [r \in Rows |-> "none"]
    /\ job = [r \in Rows |-> NoJob]
    /\ lock = [r \in Rows |-> NoWorker]
    /\ losses = 0
    /\ worker = [w \in Workers |-> Idle]
    /\ scan = {}

database == <<logs, summary, auditLog, created, processed, dayLock>>
redis    == <<job, lock, losses>>

-----------------------------------------------------------------------------
(* The outbox and the queue                                                *)

Inserted == {r \in Rows : created[r] > 0}
Pending  == Inserted \ processed

\* The oldest BatchLimit unprocessed rows: ORDER BY created_at LIMIT 100.
Batch ==
    {r \in Pending :
        Cardinality({q \in Pending : created[q] < created[r]}) < BatchLimit}

\* queue.add with jobId dispatch-<row>: a job that still exists, finished
\* ones included, is left as it is.
AddJob(r) ==
    job' = IF job[r].st = "none" THEN [job EXCEPT ![r].st = "waiting"] ELSE job

-----------------------------------------------------------------------------
(* The web process: durableEnqueue after the domain transaction            *)

\* The domain transaction of event e commits; its background requests are due.
Commit(e) ==
    /\ e \notin logs
    /\ logs' = logs \cup {e}
    /\ stage' = [r \in Rows |-> IF EventOf(r) = e THEN "due" ELSE stage[r]]
    /\ UNCHANGED <<summary, auditLog, created, processed, dayLock, redis,
                   worker, scan>>

\* The outbox row is inserted in a transaction of its own.
InsertRow(r) ==
    /\ stage[r] = "due"
    /\ stage' = [stage EXCEPT ![r] = "adding"]
    /\ created' = [created EXCEPT ![r] = Cardinality(Inserted) + 1]
    /\ UNCHANGED <<logs, summary, auditLog, processed, dayLock, redis,
                   worker, scan>>

\* The insert fails, or the web process dies before it: the request is gone.
LoseRequest(r) ==
    /\ stage[r] = "due"
    /\ stage' = [stage EXCEPT ![r] = "lost"]
    /\ UNCHANGED <<database, redis, worker, scan>>

\* The add lands in Redis, perhaps long after the caller's 3 s bound expired.
DirectAdd(r) ==
    /\ stage[r] = "adding"
    /\ stage' = [stage EXCEPT ![r] = "done"]
    /\ AddJob(r)
    /\ UNCHANGED <<database, lock, losses, worker, scan>>

\* The add never lands; the error is logged and swallowed.
DirectAddFails(r) ==
    /\ stage[r] = "adding"
    /\ stage' = [stage EXCEPT ![r] = "done"]
    /\ UNCHANGED <<database, redis, worker, scan>>

-----------------------------------------------------------------------------
(* The recovery timer: dispatchPendingBackground                           *)

\* One pass at a time selects its rows; they are re-added one by one later,
\* from a selection that may be stale by then.
StartScan ==
    /\ scan = {}
    /\ Batch # {}
    /\ scan' = Batch
    /\ UNCHANGED <<database, stage, redis, worker>>

\* The oldest selected row is re-added.
ScanAdd(r) ==
    /\ r \in scan
    /\ \A q \in scan : created[r] <= created[q]
    /\ AddJob(r)
    /\ scan' = scan \ {r}
    /\ UNCHANGED <<database, stage, lock, losses, worker>>

\* An add times out, landed or not: the rest of the pass is abandoned.
ScanFails(r) ==
    /\ r \in scan
    /\ \A q \in scan : created[r] <= created[q]
    /\ AddJob(r) \/ UNCHANGED job
    /\ scan' = {}
    /\ UNCHANGED <<database, stage, lock, losses, worker>>

-----------------------------------------------------------------------------
(* The HR worker                                                           *)

\* BullMQ hands a waiting job to a free worker and gives it the job's lock.
Take(w, r) ==
    /\ worker[w].phase = "idle"
    /\ job[r].st = "waiting"
    /\ worker' = [worker EXCEPT ![w] =
                     [phase |-> "work", row |-> r, snap |-> {}]]
    /\ job' = [job EXCEPT ![r].st = "active"]
    /\ lock' = [lock EXCEPT ![r] = w]
    /\ UNCHANGED <<database, stage, losses, scan>>

\* Variant of WriteAuditLog: marking is left to completeBackground.
WriteAuditLogUnmarked(w, r) ==
    /\ worker[w].phase = "work"
    /\ worker[w].row = r
    /\ r \in AuditRows
    /\ auditLog' = IF r \in processed THEN auditLog
                                      ELSE [auditLog EXCEPT ![r] = @ + 1]
    /\ worker' = [worker EXCEPT ![w].phase = "complete"]
    /\ UNCHANGED <<logs, summary, created, processed, dayLock, stage, redis,
                   scan>>

\* writeAuditLog: one transaction locks the row and, unless it is missing or
\* already processed, marks it processed and inserts the audit row.
WriteAuditLog(w, r) ==
    /\ worker[w].phase = "work"
    /\ worker[w].row = r
    /\ r \in AuditRows
    /\ IF r \notin Inserted \/ r \in processed
       THEN UNCHANGED <<processed, auditLog>>
       ELSE /\ processed' = processed \cup {r}
            /\ auditLog' = [auditLog EXCEPT ![r] = @ + 1]
    /\ worker' = [worker EXCEPT ![w].phase = "complete"]
    /\ UNCHANGED <<logs, summary, created, dayLock, stage, redis, scan>>

\* Variant of BeginRollup: no advisory lock.
BeginRollupUnlocked(w, r) ==
    /\ worker[w].phase = "work"
    /\ worker[w].row = r
    /\ KindOf(r) = "rollup"
    /\ worker' = [worker EXCEPT ![w].phase = "writing", ![w].snap = logs]
    /\ UNCHANGED <<database, stage, redis, scan>>

\* Variant of BeginRollup: a rollup that finds the day locked leaves its work to
\* the holder.
BeginRollupTries(w, r) ==
    /\ worker[w].phase = "work"
    /\ worker[w].row = r
    /\ KindOf(r) = "rollup"
    /\ IF dayLock = NoWorker
       THEN /\ dayLock' = w
            /\ worker' = [worker EXCEPT ![w].phase = "writing",
                                        ![w].snap = logs]
       ELSE /\ dayLock' = dayLock
            /\ worker' = [worker EXCEPT ![w].phase = "complete"]
    /\ UNCHANGED <<logs, summary, auditLog, created, processed, stage, redis,
                   scan>>

\* rollupAttendanceDailySummary takes the advisory lock of the day; the
\* statement after it reads the time logs ...
BeginRollup(w, r) ==
    /\ worker[w].phase = "work"
    /\ worker[w].row = r
    /\ KindOf(r) = "rollup"
    /\ dayLock = NoWorker
    /\ dayLock' = w
    /\ worker' = [worker EXCEPT ![w].phase = "writing", ![w].snap = logs]
    /\ UNCHANGED <<logs, summary, auditLog, created, processed, stage, redis,
                   scan>>

\* ... and upserts the summary computed from what it read; the commit
\* releases the lock.
CommitRollup(w) ==
    /\ worker[w].phase = "writing"
    /\ summary' = worker[w].snap
    /\ dayLock' = NoWorker
    /\ worker' = [worker EXCEPT ![w].phase = "complete", ![w].snap = {}]
    /\ UNCHANGED <<logs, auditLog, created, processed, stage, redis, scan>>

\* Variant of CompleteBackground: its failure is swallowed.
CompleteBackgroundSwallowed(w) ==
    /\ worker[w].phase = "complete"
    /\ worker' = [worker EXCEPT ![w].phase = "ack"]
    /\ UNCHANGED <<database, stage, redis, scan>>

\* completeBackground, in a transaction of its own after the work.
CompleteBackground(w) ==
    /\ worker[w].phase = "complete"
    /\ processed' = processed \cup ({worker[w].row} \cap Inserted)
    /\ worker' = [worker EXCEPT ![w].phase = "ack"]
    /\ UNCHANGED <<logs, summary, auditLog, created, dayLock, stage, redis,
                   scan>>

\* The processor returns; BullMQ completes the job if w still holds its lock.
Ack(w) ==
    /\ worker[w].phase = "ack"
    /\ LET r == worker[w].row
       IN  IF lock[r] = w
           THEN /\ job' = [job EXCEPT ![r].st = "completed"]
                /\ lock' = [lock EXCEPT ![r] = NoWorker]
           ELSE UNCHANGED <<job, lock>>
    /\ worker' = [worker EXCEPT ![w] = Idle]
    /\ UNCHANGED <<database, stage, losses, scan>>

\* Variant of ReleaseDay: the lock is released whoever holds it.
ReleaseAnyDay(w) == dayLock' = NoWorker

\* A transaction of w ends without committing: its advisory lock is released.
ReleaseDay(w) == dayLock' = IF dayLock = w THEN NoWorker ELSE dayLock

\* The processor throws; BullMQ retries the job or, out of attempts, parks it
\* in the failed set.
Fail(w) ==
    /\ worker[w].phase \in {"work", "writing", "complete"}
    /\ LET r    == worker[w].row
           made == job[r].attempts + 1
       IN  IF lock[r] = w
           THEN /\ job' = [job EXCEPT ![r].attempts = made,
                              ![r].st = IF made < MaxAttempts THEN "waiting"
                                                              ELSE "failed"]
                /\ lock' = [lock EXCEPT ![r] = NoWorker]
           ELSE UNCHANGED <<job, lock>>
    /\ ReleaseDay(w)
    /\ worker' = [worker EXCEPT ![w] = Idle]
    /\ UNCHANGED <<logs, summary, auditLog, created, processed, stage, losses,
                   scan>>

\* Variant of Crash: the slot forgets its row but not that it was busy.
CrashKeepsPhase(w) ==
    /\ worker[w].phase # "idle"
    /\ ReleaseDay(w)
    /\ worker' = [worker EXCEPT ![w].row = NoWorker]
    /\ UNCHANGED <<logs, summary, auditLog, created, processed, stage, redis,
                   scan>>

\* The worker process dies: its transaction rolls back, the job stays active
\* under a lock nobody renews.
Crash(w) ==
    /\ worker[w].phase # "idle"
    /\ ReleaseDay(w)
    /\ worker' = [worker EXCEPT ![w] = Idle]
    /\ UNCHANGED <<logs, summary, auditLog, created, processed, stage, redis,
                   scan>>

-----------------------------------------------------------------------------
(* BullMQ and Redis                                                        *)

\* The lock of an active job expires: its holder died, or is alive but could
\* not renew it and goes on working.  The job is redelivered, or fails once it
\* has stalled too often.
Stall(r) ==
    /\ job[r].st = "active"
    /\ job' = [job EXCEPT ![r].stalls = @ + 1,
                  ![r].st = IF job[r].stalls < MaxStalls THEN "waiting"
                                                         ELSE "failed"]
    /\ lock' = [lock EXCEPT ![r] = NoWorker]
    /\ UNCHANGED <<database, stage, losses, worker, scan>>

\* removeOnComplete / removeOnFail drop old finished jobs, and with them the
\* memory of their ids.
Evict(r) ==
    /\ job[r].st \in {"completed", "failed"}
    /\ job' = [job EXCEPT ![r] = NoJob]
    /\ UNCHANGED <<database, stage, lock, losses, worker, scan>>

\* Redis loses its data.
RedisLoss ==
    /\ losses < MaxRedisLoss
    /\ losses' = losses + 1
    /\ job' = [r \in Rows |-> NoJob]
    /\ lock' = [r \in Rows |-> NoWorker]
    /\ UNCHANGED <<database, stage, worker, scan>>

-----------------------------------------------------------------------------
WebStep(r) == \/ InsertRow(r) \/ LoseRequest(r)
              \/ DirectAdd(r) \/ DirectAddFails(r)

RecoveryStep(r) == ScanAdd(r) \/ ScanFails(r)

WorkerStep(w) ==
    \/ \E r \in Rows : Take(w, r) \/ WriteAuditLog(w, r) \/ BeginRollup(w, r)
    \/ CommitRollup(w) \/ CompleteBackground(w) \/ Ack(w)
    \/ Fail(w) \/ Crash(w)

QueueStep == RedisLoss \/ \E r \in Rows : Stall(r) \/ Evict(r)

Next ==
    \/ \E e \in Events : Commit(e)
    \/ \E r \in Rows : WebStep(r) \/ RecoveryStep(r)
    \/ StartScan
    \/ \E w \in Workers : WorkerStep(w)
    \/ QueueStep

Spec == Init /\ [][Next]_vars

\* An active job whose holder is not working on it.
Orphaned(r) ==
    /\ job[r].st = "active"
    /\ \A w \in Workers : lock[r] = w => worker[w].phase = "idle"
                                         \/ worker[w].row # r

\* What the code and its runtime keep doing: the timer fires every 5 s and
\* Redis accepts commands again and again; BullMQ serves waiting jobs in turn
\* and finds orphaned ones; PostgreSQL grants advisory locks in turn; a
\* processor that is running gets on with its work.  Nothing is assumed of
\* direct adds, failures, crashes, evictions or losses.
Fairness ==
    /\ WF_vars(StartScan)
    /\ \A r \in Rows :
          /\ WF_vars(InsertRow(r) \/ LoseRequest(r))
          /\ SF_vars(ScanAdd(r))
          /\ SF_vars(\E w \in Workers : Take(w, r))
          /\ SF_vars(\E w \in Workers : BeginRollup(w, r))
          /\ WF_vars(Orphaned(r) /\ Stall(r))
    /\ \A w \in Workers :
          /\ WF_vars(\E r \in Rows : WriteAuditLog(w, r))
          /\ WF_vars(CommitRollup(w) \/ CompleteBackground(w) \/ Ack(w))

FairSpec == Spec /\ Fairness

-----------------------------------------------------------------------------
(* Properties                                                              *)

\* An audit request is written exactly when it is marked processed: however
\* often its job is redelivered, re-enqueued after eviction or Redis loss, or
\* run by two workers at once, writeAuditLog inserts one audit row.
AuditExactlyOnce ==
    \A r \in AuditRows : auditLog[r] = IF r \in processed THEN 1 ELSE 0

\* A rollup request is only marked processed once the stored summary accounts
\* for the event that asked for it, and it never stops doing so.
ProcessedRollupIsReflected ==
    \A r \in Rows :
        KindOf(r) = "rollup" /\ r \in processed => EventOf(r) \in summary

\* A finished job never leaves its outbox row pending: re-adding the row would
\* be a no-op and the work would be stuck behind its own completed job.
CompletedJobIsProcessed ==
    \A r \in Rows : job[r].st = "completed" => r \in processed

\* The daily summary never loses an event it accounted for: a rollup that read
\* the time logs earlier cannot overwrite the result of one that read later.
SummaryNeverRegresses == [][summary \subseteq summary']_vars

\* Every outbox row is eventually processed or parked in the failed set for an
\* operator, whatever is lost, crashes or stalls on the way.
EveryRowSettles ==
    \A r \in Rows :
        r \in Inserted ~> (r \in processed \/ job[r].st = "failed")

\* docs/operations.md:33 "Redis failure leaves durable pending work; the
\* worker periodically re-enqueues pending rows": a pending row without a job
\* gets one again.
PendingRowIsReenqueued ==
    \A r \in Rows :
        (r \in Pending /\ job[r].st = "none")
            ~> (r \in processed \/ job[r].st # "none")

\* The audit rows implement the exactly-once contract.
Contract == INSTANCE OutboxContract WITH
    Requests <- AuditRows,
    asked    <- Inserted \cap AuditRows,
    effect   <- [r \in AuditRows |-> auditLog[r]]

ImplementsContract == Contract!Spec

-----------------------------------------------------------------------------
(* The inductive invariant behind the safety properties                    *)

\* Only a committed event has requests; a row exists once it was inserted.
RequestsAreCommitted ==
    \A r \in Rows :
        /\ stage[r] # "none" => EventOf(r) \in logs
        /\ created[r] > 0 <=> stage[r] \in {"adding", "done"}

\* Everything that names a row outside PostgreSQL names an inserted one.
NamedRowsAreInserted ==
    /\ \A r \in Rows : job[r].st # "none" => r \in Inserted
    /\ \A w \in Workers : worker[w].phase # "idle" => worker[w].row \in Inserted
    /\ scan \subseteq Inserted
    /\ processed \subseteq Inserted

\* What a worker may rely on in each phase: it alone writes the summary, from
\* a snapshot that covers its own event and everything already summarised;
\* after the work its effect is in place, and before the acknowledgement its
\* row is processed.
WorkerIsSound ==
    \A w \in Workers :
        LET r == worker[w].row
        IN  /\ worker[w].phase = "writing" =>
                  /\ dayLock = w
                  /\ KindOf(r) = "rollup"
                  /\ EventOf(r) \in worker[w].snap
                  /\ summary \subseteq worker[w].snap
                  /\ worker[w].snap \subseteq logs
            /\ worker[w].phase \in {"complete", "ack"} =>
                  IF KindOf(r) = "audit" THEN r \in processed
                                         ELSE EventOf(r) \in summary
            /\ worker[w].phase = "ack" => r \in processed

InductiveInvariant ==
    /\ TypeOK
    /\ summary \subseteq logs
    /\ RequestsAreCommitted
    /\ NamedRowsAreInserted
    /\ WorkerIsSound
    /\ AuditExactlyOnce
    /\ ProcessedRollupIsReflected
    /\ CompletedJobIsProcessed
=============================================================================
