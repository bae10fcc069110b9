------------------------- MODULE DurableJobsProofs -------------------------
(***************************************************************************)
(* Proofs about DurableJobs: the inductive invariant, from which the       *)
(* safety properties follow for every set of events, workers and limits,   *)
(* and the refinement of OutboxContract.                                   *)
(***************************************************************************)
EXTENDS DurableJobs, FiniteSetTheorems, TLAPS

\* There are finitely many rows, each about an event and of one of two kinds.
LEMMA RowsFacts ==
    /\ IsFiniteSet(Rows)
    /\ \A r \in Rows : EventOf(r) \in Events /\ KindOf(r) \in Kinds
<1>1. IsFiniteSet(Events \X Kinds)
  <2>1. IsFiniteSet(Kinds)
    <3>1. Kinds = ({} \cup {"audit"}) \cup {"rollup"}
      BY DEF Kinds
    <3>2. IsFiniteSet({} \cup {"audit"})
      BY FS_AddElement, FS_EmptySet
    <3>3. QED
      BY <3>1, <3>2, FS_AddElement
  <2>2. QED
    BY <2>1, FS_Product, DurableJobsAssumption
<1>2. Rows \subseteq Events \X Kinds
  BY DEF Rows
<1>3. IsFiniteSet(Rows)
  BY <1>1, <1>2, FS_Subset
<1>4. \A r \in Rows : EventOf(r) \in Events /\ KindOf(r) \in Kinds
  BY <1>2 DEF EventOf, KindOf
<1>5. QED
  BY <1>3, <1>4

\* The position given to a new row is a positive number.
LEMMA PositionIsPositive ==
    Cardinality(Inserted) + 1 \in Nat /\ Cardinality(Inserted) + 1 > 0
<1>1. IsFiniteSet(Inserted)
  BY RowsFacts, FS_Subset DEF Inserted
<1>2. Cardinality(Inserted) \in Nat
  BY <1>1, FS_CardinalityType
<1>3. QED
  BY <1>2

\* The initial state satisfies the inductive invariant.
LEMMA InitEstablishes == Init => InductiveInvariant
<1> SUFFICES ASSUME Init PROVE InductiveInvariant
  OBVIOUS
<1> USE DurableJobsAssumption DEF Init
<1>1. TypeOK
  BY DEF TypeOK, Stages, JobStates, Phases, NoJob, Idle
<1>2. summary \subseteq logs
  OBVIOUS
<1>3. RequestsAreCommitted
  BY DEF RequestsAreCommitted
<1>4. NamedRowsAreInserted
  BY DEF NamedRowsAreInserted, NoJob, Idle
<1>5. WorkerIsSound
  BY DEF WorkerIsSound, Idle
<1>6. AuditExactlyOnce /\ ProcessedRollupIsReflected /\ CompletedJobIsProcessed
  BY DEF AuditExactlyOnce, ProcessedRollupIsReflected,
         CompletedJobIsProcessed, AuditRows, NoJob
<1>7. QED
  BY <1>1, <1>2, <1>3, <1>4, <1>5, <1>6 DEF InductiveInvariant

JobRecords == [st : JobStates, attempts : Nat, stalls : Nat]

\* Adding a job keeps the queue well typed.
LEMMA AddJobType ==
    ASSUME job \in [Rows -> JobRecords], NEW r \in Rows, AddJob(r)
    PROVE  job' \in [Rows -> JobRecords]
BY DEF AddJob, JobRecords, JobStates

\* Type correctness is preserved by every step.
LEMMA TypeStep == InductiveInvariant /\ [Next]_vars => TypeOK'
<1> SUFFICES ASSUME InductiveInvariant, [Next]_vars PROVE TypeOK'
  OBVIOUS
<1> USE DurableJobsAssumption DEF TypeOK, Stages, JobStates, Phases
<1>0. TypeOK
  BY DEF InductiveInvariant
<1>1. ASSUME NEW e \in Events, Commit(e) PROVE TypeOK'
  BY <1>0, <1>1 DEF Commit, redis
<1>2. ASSUME NEW r \in Rows, InsertRow(r) PROVE TypeOK'
  BY <1>0, <1>2, PositionIsPositive DEF InsertRow, redis
<1>3. ASSUME NEW r \in Rows, LoseRequest(r) \/ DirectAddFails(r) PROVE TypeOK'
  BY <1>0, <1>3 DEF LoseRequest, DirectAddFails, redis, database
<1>4. ASSUME NEW r \in Rows, DirectAdd(r) PROVE TypeOK'
  BY <1>0, <1>4, AddJobType DEF DirectAdd, database, JobRecords
<1>5. ASSUME NEW r \in Rows, ScanAdd(r) \/ ScanFails(r) PROVE TypeOK'
  <2>1. job \in [Rows -> JobRecords]
    BY <1>0 DEF JobRecords
  <2>2. job' \in [Rows -> JobRecords]
    BY <1>5, <2>1, AddJobType DEF ScanAdd, ScanFails
  <2>3. scan' \subseteq Rows
    BY <1>0, <1>5 DEF ScanAdd, ScanFails
  <2>4. UNCHANGED <<database, stage, lock, losses, worker>>
    BY <1>5 DEF ScanAdd, ScanFails
  <2>5. QED
    BY <1>0, <2>2, <2>3, <2>4 DEF database, JobRecords
<1>6. CASE StartScan
  BY <1>0, <1>6 DEF StartScan, Batch, Pending, Inserted, redis, database
<1>7. ASSUME NEW w \in Workers, NEW r \in Rows, Take(w, r) PROVE TypeOK'
  BY <1>0, <1>7, SMTT(30) DEF Take, database
<1>8. ASSUME NEW w \in Workers, NEW r \in Rows, WriteAuditLog(w, r) PROVE TypeOK'
  <2>1. auditLog' \in [Rows -> Nat]
    <3>1. [auditLog EXCEPT ![r] = @ + 1] \in [Rows -> Nat]
      BY <1>0
    <3>2. QED
      BY <1>0, <1>8, <3>1 DEF WriteAuditLog
  <2>2. processed' \subseteq Rows
    BY <1>0, <1>8 DEF WriteAuditLog
  <2>3. QED
    BY <1>0, <1>8, <2>1, <2>2, SMTT(30) DEF WriteAuditLog, redis
<1>9. ASSUME NEW w \in Workers, NEW r \in Rows, BeginRollup(w, r) PROVE TypeOK'
  BY <1>0, <1>9, ZenonT(60) DEF BeginRollup, redis
<1>10. ASSUME NEW w \in Workers, CommitRollup(w) PROVE TypeOK'
  BY <1>0, <1>10, ZenonT(60) DEF CommitRollup, redis
<1>11. ASSUME NEW w \in Workers, CompleteBackground(w) PROVE TypeOK'
  BY <1>0, <1>11, ZenonT(60) DEF CompleteBackground, redis, Inserted
<1>12. ASSUME NEW w \in Workers, Ack(w) PROVE TypeOK'
  BY <1>0, <1>12, SMTT(30) DEF Ack, database, Idle
<1>13. ASSUME NEW w \in Workers, Fail(w) PROVE TypeOK'
  <2>1. PICK r \in Rows : r = worker[w].row
    BY <1>0, <1>13 DEF Fail
  <2>2. job' \in [Rows -> JobRecords]
    BY <1>0, <1>13, <2>1, SMTT(30) DEF Fail, JobRecords
  <2>3. lock' \in [Rows -> Workers \cup {NoWorker}]
    BY <1>0, <1>13, <2>1 DEF Fail
  <2>4. QED
    BY <1>0, <1>13, <2>2, <2>3 DEF Fail, ReleaseDay, Idle, JobRecords
<1>14. ASSUME NEW w \in Workers, Crash(w) PROVE TypeOK'
  BY <1>0, <1>14 DEF Crash, ReleaseDay, redis, Idle
<1>15. ASSUME NEW r \in Rows, Stall(r) PROVE TypeOK'
  BY <1>0, <1>15 DEF Stall, database
<1>16. ASSUME NEW r \in Rows, Evict(r) PROVE TypeOK'
  BY <1>0, <1>16 DEF Evict, database, NoJob
<1>17. CASE RedisLoss
  BY <1>0, <1>17 DEF RedisLoss, database, NoJob
<1>18. CASE UNCHANGED vars
  BY <1>0, <1>18 DEF vars
<1>19. QED
  BY <1>1, <1>2, <1>3, <1>4, <1>5, <1>6, <1>7, <1>8, <1>9, <1>10, <1>11,
     <1>12, <1>13, <1>14, <1>15, <1>16, <1>17, <1>18
     DEF Next, WebStep, RecoveryStep, WorkerStep, QueueStep

\* Requests stay behind the commit of their event.
LEMMA RequestsStep == InductiveInvariant /\ [Next]_vars => RequestsAreCommitted'
<1> SUFFICES ASSUME InductiveInvariant, [Next]_vars PROVE RequestsAreCommitted'
  OBVIOUS
<1>0. TypeOK /\ RequestsAreCommitted /\ TypeOK'
  BY TypeStep DEF InductiveInvariant
<1> USE DEF TypeOK, RequestsAreCommitted, Stages
<1>1. ASSUME NEW e \in Events, Commit(e) PROVE RequestsAreCommitted'
  BY <1>0, <1>1 DEF Commit, redis, database
<1>2. ASSUME NEW r \in Rows, InsertRow(r) PROVE RequestsAreCommitted'
  BY <1>0, <1>2, PositionIsPositive DEF InsertRow, redis
<1>3. ASSUME NEW r \in Rows, LoseRequest(r) \/ DirectAddFails(r) PROVE
   RequestsAreCommitted'
  BY <1>0, <1>3 DEF LoseRequest, DirectAddFails, redis, database
<1>4. ASSUME NEW r \in Rows, DirectAdd(r) PROVE RequestsAreCommitted'
  BY <1>0, <1>4 DEF DirectAdd, AddJob, database
<1>5. ASSUME NEW r \in Rows, ScanAdd(r) \/ ScanFails(r) PROVE
   RequestsAreCommitted'
  BY <1>0, <1>5 DEF ScanAdd, ScanFails, AddJob, database
<1>6. CASE StartScan
  BY <1>0, <1>6 DEF StartScan, Batch, Pending, redis, database
<1>7. ASSUME NEW w \in Workers, NEW r \in Rows, Take(w, r) PROVE
   RequestsAreCommitted'
  BY <1>0, <1>7 DEF Take, database
<1>8. ASSUME NEW w \in Workers, NEW r \in Rows, WriteAuditLog(w, r) PROVE
   RequestsAreCommitted'
  BY <1>0, <1>8 DEF WriteAuditLog, redis
<1>9. ASSUME NEW w \in Workers, NEW r \in Rows, BeginRollup(w, r) PROVE
   RequestsAreCommitted'
  BY <1>0, <1>9 DEF BeginRollup, redis
<1>10. ASSUME NEW w \in Workers, CommitRollup(w) PROVE RequestsAreCommitted'
  BY <1>0, <1>10 DEF CommitRollup, redis
<1>11. ASSUME NEW w \in Workers, CompleteBackground(w) PROVE
   RequestsAreCommitted'
  BY <1>0, <1>11 DEF CompleteBackground, redis
<1>12. ASSUME NEW w \in Workers, Ack(w) PROVE RequestsAreCommitted'
  BY <1>0, <1>12 DEF Ack, database, Idle
<1>13. ASSUME NEW w \in Workers, Fail(w) PROVE RequestsAreCommitted'
  BY <1>0, <1>13 DEF Fail, ReleaseDay, Idle
<1>14. ASSUME NEW w \in Workers, Crash(w) PROVE RequestsAreCommitted'
  BY <1>0, <1>14 DEF Crash, ReleaseDay, redis, Idle
<1>15. ASSUME NEW r \in Rows, Stall(r) PROVE RequestsAreCommitted'
  BY <1>0, <1>15 DEF Stall, database
<1>16. ASSUME NEW r \in Rows, Evict(r) PROVE RequestsAreCommitted'
  BY <1>0, <1>16 DEF Evict, database, NoJob
<1>17. CASE RedisLoss
  BY <1>0, <1>17 DEF RedisLoss, database, NoJob
<1>18. CASE UNCHANGED vars
  BY <1>0, <1>18 DEF vars
<1>19. QED
  BY <1>1, <1>2, <1>3, <1>4, <1>5, <1>6, <1>7, <1>8, <1>9, <1>10, <1>11,
     <1>12, <1>13, <1>14, <1>15, <1>16, <1>17, <1>18
     DEF Next, WebStep, RecoveryStep, WorkerStep, QueueStep

\* Every row named in Redis or by a worker stays an inserted one.
LEMMA NamedStep == InductiveInvariant /\ [Next]_vars => NamedRowsAreInserted'
<1> SUFFICES ASSUME InductiveInvariant, [Next]_vars PROVE NamedRowsAreInserted'
  OBVIOUS
<1>0. TypeOK /\ NamedRowsAreInserted /\ TypeOK'
  BY TypeStep DEF InductiveInvariant
<1> USE DEF TypeOK, NamedRowsAreInserted, Inserted
<1>1. ASSUME NEW e \in Events, Commit(e) PROVE NamedRowsAreInserted'
  BY <1>0, <1>1 DEF Commit, redis, database
<1>2. ASSUME NEW r \in Rows, InsertRow(r) PROVE NamedRowsAreInserted'
  BY <1>0, <1>2, PositionIsPositive DEF InsertRow, redis
<1>3. ASSUME NEW r \in Rows, LoseRequest(r) \/ DirectAddFails(r) PROVE
   NamedRowsAreInserted'
  BY <1>0, <1>3 DEF LoseRequest, DirectAddFails, redis, database
<1>4. ASSUME NEW r \in Rows, DirectAdd(r) PROVE NamedRowsAreInserted'
  BY <1>0, <1>4 DEF DirectAdd, AddJob, database, InductiveInvariant,
                    RequestsAreCommitted
<1>5. ASSUME NEW r \in Rows, ScanAdd(r) \/ ScanFails(r) PROVE
   NamedRowsAreInserted'
  BY <1>0, <1>5 DEF ScanAdd, ScanFails, AddJob, database
<1>6. CASE StartScan
  BY <1>0, <1>6 DEF StartScan, Batch, Pending, redis, database
<1>7. ASSUME NEW w \in Workers, NEW r \in Rows, Take(w, r) PROVE
   NamedRowsAreInserted'
  BY <1>0, <1>7 DEF Take, database
<1>8. ASSUME NEW w \in Workers, NEW r \in Rows, WriteAuditLog(w, r) PROVE
   NamedRowsAreInserted'
  BY <1>0, <1>8 DEF WriteAuditLog, redis
<1>9. ASSUME NEW w \in Workers, NEW r \in Rows, BeginRollup(w, r) PROVE
   NamedRowsAreInserted'
  BY <1>0, <1>9 DEF BeginRollup, redis
<1>10. ASSUME NEW w \in Workers, CommitRollup(w) PROVE NamedRowsAreInserted'
  BY <1>0, <1>10 DEF CommitRollup, redis
<1>11. ASSUME NEW w \in Workers, CompleteBackground(w) PROVE
   NamedRowsAreInserted'
  BY <1>0, <1>11 DEF CompleteBackground, redis
<1>12. ASSUME NEW w \in Workers, Ack(w) PROVE NamedRowsAreInserted'
  BY <1>0, <1>12 DEF Ack, database, Idle
<1>13. ASSUME NEW w \in Workers, Fail(w) PROVE NamedRowsAreInserted'
  BY <1>0, <1>13 DEF Fail, ReleaseDay, Idle
<1>14. ASSUME NEW w \in Workers, Crash(w) PROVE NamedRowsAreInserted'
  BY <1>0, <1>14 DEF Crash, ReleaseDay, redis, Idle
<1>15. ASSUME NEW r \in Rows, Stall(r) PROVE NamedRowsAreInserted'
  BY <1>0, <1>15 DEF Stall, database
<1>16. ASSUME NEW r \in Rows, Evict(r) PROVE NamedRowsAreInserted'
  BY <1>0, <1>16 DEF Evict, database, NoJob
<1>17. CASE RedisLoss
  BY <1>0, <1>17 DEF RedisLoss, database, NoJob
<1>18. CASE UNCHANGED vars
  BY <1>0, <1>18 DEF vars
<1>19. QED
  BY <1>1, <1>2, <1>3, <1>4, <1>5, <1>6, <1>7, <1>8, <1>9, <1>10, <1>11,
     <1>12, <1>13, <1>14, <1>15, <1>16, <1>17, <1>18
     DEF Next, WebStep, RecoveryStep, WorkerStep, QueueStep

\* What a worker relies on in each phase stays true.
LEMMA WorkerStepSound == InductiveInvariant /\ [Next]_vars => WorkerIsSound'
<1> SUFFICES ASSUME InductiveInvariant, [Next]_vars PROVE WorkerIsSound'
  OBVIOUS
<1>0. TypeOK /\ WorkerIsSound /\ TypeOK'
  BY TypeStep DEF InductiveInvariant
<1> USE DEF TypeOK, WorkerIsSound
<1>1. ASSUME NEW e \in Events, Commit(e) PROVE WorkerIsSound'
  BY <1>0, <1>1 DEF Commit, redis, database
<1>2. ASSUME NEW r \in Rows, InsertRow(r) PROVE WorkerIsSound'
  BY <1>0, <1>2 DEF InsertRow, redis
<1>3. ASSUME NEW r \in Rows, LoseRequest(r) \/ DirectAddFails(r) PROVE
   WorkerIsSound'
  BY <1>0, <1>3 DEF LoseRequest, DirectAddFails, redis, database
<1>4. ASSUME NEW r \in Rows, DirectAdd(r) PROVE WorkerIsSound'
  BY <1>0, <1>4 DEF DirectAdd, AddJob, database
<1>5. ASSUME NEW r \in Rows, ScanAdd(r) \/ ScanFails(r) PROVE WorkerIsSound'
  BY <1>0, <1>5 DEF ScanAdd, ScanFails, AddJob, database
<1>6. CASE StartScan
  BY <1>0, <1>6 DEF StartScan, Batch, Pending, redis, database
<1>7. ASSUME NEW w \in Workers, NEW r \in Rows, Take(w, r) PROVE
   WorkerIsSound'
  BY <1>0, <1>7 DEF Take, database
<1>8. ASSUME NEW w \in Workers, NEW r \in Rows, WriteAuditLog(w, r) PROVE
   WorkerIsSound'
  <2>1. r \in Inserted /\ KindOf(r) = "audit"
    BY <1>0, <1>8 DEF WriteAuditLog, AuditRows, InductiveInvariant,
                      NamedRowsAreInserted
  <2>2. r \in processed'
    BY <1>8, <2>1 DEF WriteAuditLog
  <2>3. processed \subseteq processed'
    BY <1>8 DEF WriteAuditLog
  <2>4. QED
    BY <1>0, <1>8, <2>1, <2>2, <2>3 DEF WriteAuditLog, redis
<1>9. ASSUME NEW w \in Workers, NEW r \in Rows, BeginRollup(w, r) PROVE
   WorkerIsSound'
  <2>1. EventOf(r) \in logs /\ summary \subseteq logs
    BY <1>0, <1>9 DEF BeginRollup, InductiveInvariant, NamedRowsAreInserted,
                      RequestsAreCommitted, Inserted
  <2>2. \A v \in Workers : worker[v].phase # "writing"
    BY <1>0, <1>9, DurableJobsAssumption DEF BeginRollup
  <2>3. QED
    BY <1>0, <1>9, <2>1, <2>2 DEF BeginRollup, redis
<1>10. ASSUME NEW w \in Workers, CommitRollup(w) PROVE WorkerIsSound'
  BY <1>0, <1>10 DEF CommitRollup, redis
<1>11. ASSUME NEW w \in Workers, CompleteBackground(w) PROVE WorkerIsSound'
  <2>1. worker[w].row \in processed'
    BY <1>0, <1>11 DEF CompleteBackground, InductiveInvariant,
                       NamedRowsAreInserted
  <2>2. processed \subseteq processed'
    BY <1>11 DEF CompleteBackground
  <2>3. QED
    BY <1>0, <1>11, <2>1, <2>2 DEF CompleteBackground, redis
<1>12. ASSUME NEW w \in Workers, Ack(w) PROVE WorkerIsSound'
  BY <1>0, <1>12 DEF Ack, database, Idle
<1>13. ASSUME NEW w \in Workers, Fail(w) PROVE WorkerIsSound'
  BY <1>0, <1>13 DEF Fail, ReleaseDay, Idle
<1>14. ASSUME NEW w \in Workers, Crash(w) PROVE WorkerIsSound'
  BY <1>0, <1>14 DEF Crash, ReleaseDay, redis, Idle
<1>15. ASSUME NEW r \in Rows, Stall(r) PROVE WorkerIsSound'
  BY <1>0, <1>15 DEF Stall, database
<1>16. ASSUME NEW r \in Rows, Evict(r) PROVE WorkerIsSound'
  BY <1>0, <1>16 DEF Evict, database, NoJob
<1>17. CASE RedisLoss
  BY <1>0, <1>17 DEF RedisLoss, database, NoJob
<1>18. CASE UNCHANGED vars
  BY <1>0, <1>18, SMTT(30) DEF vars
<1>19. QED
  BY <1>1, <1>2, <1>3, <1>4, <1>5, <1>6, <1>7, <1>8, <1>9, <1>10, <1>11,
     <1>12, <1>13, <1>14, <1>15, <1>16, <1>17, <1>18
     DEF Next, WebStep, RecoveryStep, WorkerStep, QueueStep

\* Only the two worker transactions that mark a row touch processed and
\* auditLog, and only a rollup commit touches the summary.
LEMMA DatabaseFrame ==
    ASSUME [Next]_vars
    PROVE  /\ \/ UNCHANGED <<processed, auditLog>>
              \/ \E w \in Workers, r \in Rows : WriteAuditLog(w, r)
              \/ \E w \in Workers : CompleteBackground(w)
           /\ UNCHANGED summary \/ \E w \in Workers : CommitRollup(w)
           /\ logs \subseteq logs'
BY ZenonT(60) DEF Next, WebStep, RecoveryStep, WorkerStep, QueueStep, vars, database,
       redis, Commit, InsertRow, LoseRequest, DirectAdd, DirectAddFails,
       StartScan, ScanAdd, ScanFails, Take, WriteAuditLog, BeginRollup,
       CommitRollup, CompleteBackground, Ack, Fail, Crash, Stall, Evict,
       RedisLoss

\* The audit row is inserted in the transaction that marks its request; a
\* later completeBackground marks a request that is already marked.
LEMMA AuditStep == InductiveInvariant /\ [Next]_vars => AuditExactlyOnce'
<1> SUFFICES ASSUME InductiveInvariant, [Next]_vars PROVE AuditExactlyOnce'
  OBVIOUS
<1>0. TypeOK /\ AuditExactlyOnce
  BY DEF InductiveInvariant
<1>1. CASE UNCHANGED <<processed, auditLog>>
  BY <1>0, <1>1 DEF AuditExactlyOnce
<1>2. ASSUME NEW w \in Workers, NEW r \in Rows, WriteAuditLog(w, r)
      PROVE  AuditExactlyOnce'
  BY <1>0, <1>2 DEF AuditExactlyOnce, AuditRows, TypeOK, WriteAuditLog
<1>3. ASSUME NEW w \in Workers, CompleteBackground(w)
      PROVE  AuditExactlyOnce'
  <2>1. ASSUME worker[w].row \in AuditRows PROVE worker[w].row \in processed
    BY <1>3, <2>1 DEF InductiveInvariant, WorkerIsSound, CompleteBackground,
                      AuditRows
  <2>2. QED
    BY <1>0, <1>3, <2>1 DEF AuditExactlyOnce, CompleteBackground
<1>4. QED
  BY <1>1, <1>2, <1>3, DatabaseFrame

\* The summary only grows: the rollup that commits holds the day's lock and
\* read a superset of what is stored.
LEMMA SummaryGrows ==
    ASSUME InductiveInvariant, [Next]_vars
    PROVE  /\ summary \subseteq summary'
           /\ summary' \subseteq logs'
<1>1. CASE UNCHANGED summary
  BY <1>1, DatabaseFrame DEF InductiveInvariant
<1>2. ASSUME NEW w \in Workers, CommitRollup(w)
      PROVE  /\ summary \subseteq summary'
             /\ summary' \subseteq logs'
  BY <1>2, DatabaseFrame
     DEF InductiveInvariant, WorkerIsSound, CommitRollup
<1>3. QED
  BY <1>1, <1>2, DatabaseFrame

\* A rollup row is marked only after its work, whose effect lasts.
LEMMA RollupStep ==
    InductiveInvariant /\ [Next]_vars => ProcessedRollupIsReflected'
<1> SUFFICES ASSUME InductiveInvariant, [Next]_vars
             PROVE  ProcessedRollupIsReflected'
  OBVIOUS
<1>0. TypeOK /\ ProcessedRollupIsReflected
  BY DEF InductiveInvariant
<1>1. summary \subseteq summary'
  BY SummaryGrows
<1>2. CASE UNCHANGED <<processed, auditLog>>
  BY <1>0, <1>1, <1>2 DEF ProcessedRollupIsReflected
<1>3. ASSUME NEW w \in Workers, NEW r \in Rows, WriteAuditLog(w, r)
      PROVE  ProcessedRollupIsReflected'
  BY <1>0, <1>1, <1>3 DEF ProcessedRollupIsReflected, WriteAuditLog, AuditRows
<1>4. ASSUME NEW w \in Workers, CompleteBackground(w)
      PROVE  ProcessedRollupIsReflected'
  <2>1. KindOf(worker[w].row) = "rollup" =>
            EventOf(worker[w].row) \in summary
    BY <1>4 DEF InductiveInvariant, WorkerIsSound, CompleteBackground
  <2>2. QED
    BY <1>0, <1>1, <1>4, <2>1
       DEF ProcessedRollupIsReflected, CompleteBackground
<1>5. QED
  BY <1>2, <1>3, <1>4, DatabaseFrame

\* A job is completed only after its row was marked.
LEMMA CompletedStep == InductiveInvariant /\ [Next]_vars => CompletedJobIsProcessed'
<1> SUFFICES ASSUME InductiveInvariant, [Next]_vars PROVE CompletedJobIsProcessed'
  OBVIOUS
<1>0. TypeOK /\ CompletedJobIsProcessed /\ TypeOK'
  BY TypeStep DEF InductiveInvariant
<1> USE DEF TypeOK, CompletedJobIsProcessed
<1>1. ASSUME NEW e \in Events, Commit(e) PROVE CompletedJobIsProcessed'
  BY <1>0, <1>1 DEF Commit, redis, database
<1>2. ASSUME NEW r \in Rows, InsertRow(r) PROVE CompletedJobIsProcessed'
  BY <1>0, <1>2 DEF InsertRow, redis
<1>3. ASSUME NEW r \in Rows, LoseRequest(r) \/ DirectAddFails(r) PROVE
   CompletedJobIsProcessed'
  BY <1>0, <1>3 DEF LoseRequest, DirectAddFails, redis, database
<1>4. ASSUME NEW r \in Rows, DirectAdd(r) PROVE CompletedJobIsProcessed'
  BY <1>0, <1>4 DEF DirectAdd, AddJob, database
<1>5. ASSUME NEW r \in Rows, ScanAdd(r) \/ ScanFails(r) PROVE
   CompletedJobIsProcessed'
  BY <1>0, <1>5 DEF ScanAdd, ScanFails, AddJob, database
<1>6. CASE StartScan
  BY <1>0, <1>6 DEF StartScan, Batch, Pending, redis, database
<1>7. ASSUME NEW w \in Workers, NEW r \in Rows, Take(w, r) PROVE
   CompletedJobIsProcessed'
  BY <1>0, <1>7 DEF Take, database
<1>8. ASSUME NEW w \in Workers, NEW r \in Rows, WriteAuditLog(w, r) PROVE
   CompletedJobIsProcessed'
  BY <1>0, <1>8 DEF WriteAuditLog, redis
<1>9. ASSUME NEW w \in Workers, NEW r \in Rows, BeginRollup(w, r) PROVE
   CompletedJobIsProcessed'
  BY <1>0, <1>9 DEF BeginRollup, redis
<1>10. ASSUME NEW w \in Workers, CommitRollup(w) PROVE
   CompletedJobIsProcessed'
  BY <1>0, <1>10 DEF CommitRollup, redis
<1>11. ASSUME NEW w \in Workers, CompleteBackground(w) PROVE
   CompletedJobIsProcessed'
  BY <1>0, <1>11 DEF CompleteBackground, redis
<1>12. ASSUME NEW w \in Workers, Ack(w) PROVE CompletedJobIsProcessed'
  <2>1. worker[w].row \in processed
    BY <1>12 DEF Ack, InductiveInvariant, WorkerIsSound
  <2>2. QED
    BY <1>0, <1>12, <2>1 DEF Ack, database, Idle
<1>13. ASSUME NEW w \in Workers, Fail(w) PROVE CompletedJobIsProcessed'
  BY <1>0, <1>13 DEF Fail, ReleaseDay, Idle
<1>14. ASSUME NEW w \in Workers, Crash(w) PROVE CompletedJobIsProcessed'
  BY <1>0, <1>14 DEF Crash, ReleaseDay, redis, Idle
<1>15. ASSUME NEW r \in Rows, Stall(r) PROVE CompletedJobIsProcessed'
  BY <1>0, <1>15 DEF Stall, database
<1>16. ASSUME NEW r \in Rows, Evict(r) PROVE CompletedJobIsProcessed'
  BY <1>0, <1>16 DEF Evict, database, NoJob
<1>17. CASE RedisLoss
  BY <1>0, <1>17 DEF RedisLoss, database, NoJob
<1>18. CASE UNCHANGED vars
  BY <1>0, <1>18 DEF vars
<1>19. QED
  BY <1>1, <1>2, <1>3, <1>4, <1>5, <1>6, <1>7, <1>8, <1>9, <1>10, <1>11,
     <1>12, <1>13, <1>14, <1>15, <1>16, <1>17, <1>18
     DEF Next, WebStep, RecoveryStep, WorkerStep, QueueStep

\* Every step preserves the inductive invariant.
LEMMA StepPreserves ==
    InductiveInvariant /\ [Next]_vars => InductiveInvariant'
BY TypeStep, RequestsStep, NamedStep, WorkerStepSound, AuditStep, RollupStep,
   CompletedStep, SummaryGrows DEF InductiveInvariant

\* The inductive invariant holds in every reachable state.
THEOREM Invariance == Spec => []InductiveInvariant
BY InitEstablishes, StepPreserves, PTL DEF Spec

\* Every reachable state is well typed.
THEOREM TypeCorrect == Spec => []TypeOK
<1>1. InductiveInvariant => TypeOK
  BY DEF InductiveInvariant
<1>2. QED
  BY <1>1, Invariance, PTL

\* A durable audit request is written exactly once, however its job is
\* redelivered, re-enqueued or run twice.
THEOREM AuditWrittenOnce == Spec => []AuditExactlyOnce
<1>1. InductiveInvariant => AuditExactlyOnce
  BY DEF InductiveInvariant
<1>2. QED
  BY <1>1, Invariance, PTL

\* A processed rollup request is accounted for in the stored summary.
THEOREM RollupNotLost == Spec => []ProcessedRollupIsReflected
<1>1. InductiveInvariant => ProcessedRollupIsReflected
  BY DEF InductiveInvariant
<1>2. QED
  BY <1>1, Invariance, PTL

\* No row is left pending behind its own completed job.
THEOREM NothingStuckBehindCompletedJob == Spec => []CompletedJobIsProcessed
<1>1. InductiveInvariant => CompletedJobIsProcessed
  BY DEF InductiveInvariant
<1>2. QED
  BY <1>1, Invariance, PTL

\* The daily summary never loses an event it accounted for.
THEOREM SummaryIsMonotone == Spec => SummaryNeverRegresses
<1>1. InductiveInvariant /\ [Next]_vars => [summary \subseteq summary']_vars
  BY SummaryGrows
<1>2. QED
  BY <1>1, Invariance, PTL DEF Spec, SummaryNeverRegresses

\* The initial state maps to the initial state of the contract.
LEMMA ContractInit == Init => Contract!Init
BY DEF Init, Contract!Init, Inserted, AuditRows

\* Inserting an audit row is Ask, writing its audit log is Do, and every other
\* step leaves the contract's state alone.
LEMMA ContractStep ==
    InductiveInvariant /\ [Next]_vars =>
        [Contract!Next]_(Contract!contractVars)
<1> SUFFICES ASSUME InductiveInvariant, [Next]_vars
             PROVE  [Contract!Next]_(Contract!contractVars)
  OBVIOUS
<1> DEFINE asked == Inserted \cap AuditRows
           effect == [r \in AuditRows |-> auditLog[r]]
<1>0. TypeOK /\ AuditExactlyOnce /\ NamedRowsAreInserted
  BY DEF InductiveInvariant
<1>1. ASSUME NEW r \in Rows, InsertRow(r)
      PROVE  [Contract!Next]_(Contract!contractVars)
  <2>1. UNCHANGED auditLog /\ r \notin Inserted
    BY <1>1 DEF InsertRow, InductiveInvariant, RequestsAreCommitted, Inserted
  <2>2. Inserted' = Inserted \cup {r}
    BY <1>0, <1>1, PositionIsPositive DEF InsertRow, Inserted, TypeOK
  <2>3. CASE r \in AuditRows
    <3>1. asked' = asked \cup {r} /\ r \notin asked
      BY <2>1, <2>2, <2>3
    <3>2. effect' = effect
      BY <2>1
    <3>3. QED
      BY <2>3, <3>1, <3>2 DEF Contract!Next, Contract!Ask
  <2>4. CASE r \notin AuditRows
    <3>1. asked' = asked /\ effect' = effect
      BY <2>1, <2>2, <2>4
    <3>2. QED
      BY <3>1 DEF Contract!contractVars
  <2>5. QED
    BY <2>3, <2>4
<1>2. ASSUME NEW w \in Workers, NEW r \in Rows, WriteAuditLog(w, r)
      PROVE  [Contract!Next]_(Contract!contractVars)
  <2>1. asked' = asked
    BY <1>2 DEF WriteAuditLog, Inserted
  <2>2. r \in AuditRows /\ r \in asked
    BY <1>0, <1>2 DEF WriteAuditLog, NamedRowsAreInserted, TypeOK
  <2>3. CASE r \in processed
    <3>1. effect' = effect
      BY <1>2, <2>3 DEF WriteAuditLog
    <3>2. QED
      BY <2>1, <3>1 DEF Contract!contractVars
  <2>4. CASE r \notin processed
    <3>1. auditLog[r] = 0
      BY <1>0, <2>2, <2>4 DEF AuditExactlyOnce
    <3>2. auditLog' = [auditLog EXCEPT ![r] = 1]
      BY <1>0, <1>2, <2>2, <2>4, <3>1 DEF WriteAuditLog, TypeOK
    <3>3. effect[r] = 0 /\ effect' = [effect EXCEPT ![r] = 1]
      BY <1>0, <2>2, <3>1, <3>2 DEF TypeOK, AuditRows
    <3>4. QED
      BY <2>1, <2>2, <3>3 DEF Contract!Next, Contract!Do
  <2>5. QED
    BY <2>3, <2>4
<1>3. ASSUME UNCHANGED <<created, auditLog>>
      PROVE  [Contract!Next]_(Contract!contractVars)
  BY <1>3 DEF Contract!contractVars, Inserted
<1>4. \/ UNCHANGED <<created, auditLog>>
      \/ \E r \in Rows : InsertRow(r)
      \/ \E w \in Workers, r \in Rows : WriteAuditLog(w, r)
  BY ZenonT(60) DEF Next, WebStep, RecoveryStep, WorkerStep, QueueStep, vars, database,
         redis, Commit, LoseRequest, DirectAdd, DirectAddFails, StartScan,
         ScanAdd, ScanFails, Take, BeginRollup, CommitRollup,
         CompleteBackground, Ack, Fail, Crash, Stall, Evict, RedisLoss
<1>5. QED
  BY <1>1, <1>2, <1>3, <1>4

\* The outbox, its queue and its workers implement the exactly-once contract.
THEOREM RefinesContract == Spec => ImplementsContract
BY ContractInit, ContractStep, Invariance, PTL
   DEF Spec, ImplementsContract, Contract!Spec
=============================================================================
