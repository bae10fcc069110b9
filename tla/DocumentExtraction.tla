------------------------- MODULE DocumentExtraction -------------------------
(***************************************************************************)
(* Reading documents: an upload is admitted under a tenant-wide limit, a   *)
(* provider extracts its fields within a timeout, and the result is kept   *)
(* for some hours, unless its owner deletes it.                            *)
(*                                                                         *)
(*   src/server/document-extraction/extraction-service.ts                  *)
(*   db/migrations (document_extraction_jobs)                              *)
(*                                                                         *)
(* An upload is two transactions with the provider's call in between.  The *)
(* first sweeps expired jobs, looks for a duplicate and only then queues   *)
(* for the advisory lock under which the limit is counted.  The hourly     *)
(* request and byte quotas are counted in the same query and left out, as  *)
(* is the temporary file.                                                  *)
(***************************************************************************)
EXTENDS Tenant

CONSTANTS
    Uploads,        \* concurrent POST /api/document-extractions requests
    Jobs,           \* document_extraction_jobs rows
    Documents,      \* contents, by their hash
    MaxProcessing   \* TENANT_CONCURRENT_LIMIT

ASSUME ExtractionAssumption ==
    /\ MaxProcessing \in Nat /\ IsFiniteSet(Jobs)
    /\ Null \notin Uploads \cup Jobs \cup Documents

VARIABLES
    job,      \* document_extraction_jobs
    due,      \* jobs whose expires_at has passed
    upload,   \* what each upload is doing
    gate      \* holder of the tenant's admission lock

extractionVars == <<job, due, upload, gate>>

Kept == {"processing", "completed", "failed"}
JobRow == [st : {"none", "expired", "deleted"} \cup Kept, emp : Subjects \cup {Null},
           doc : Documents \cup {Null}, result : BOOLEAN]
Upload == [op : {"idle", "admit", "insert", "provider"}, emp : Subjects \cup {Null},
           doc : Documents \cup {Null}, job : Jobs \cup {Null},
           swept : SUBSET Jobs]   \* expired by its open transaction

NoUpload == [op |-> "idle", emp |-> Null, doc |-> Null, job |-> Null, swept |-> {}]

ExtractionTypeOK ==
    /\ job \in [Jobs -> JobRow]
    /\ due \subseteq Jobs
    /\ upload \in [Uploads -> Upload]
    /\ gate \in Uploads \cup {Null}
    /\ \A j \in Jobs : job[j].result <=> job[j].st = "completed"

ExtractionInit ==
    /\ job = [j \in Jobs |-> [st |-> "none", emp |-> Null, doc |-> Null, result |-> FALSE]]
    /\ due = {}
    /\ upload = [u \in Uploads |-> NoUpload]
    /\ gate = Null

Processing == {j \in Jobs : job[j].st = "processing"}

\* Jobs of e for the same document in one of the states, those of S left out.
Same(e, d, states, S) ==
    {j \in Jobs \ S : job[j].emp = e /\ job[j].doc = d /\ job[j].st \in states}

\* The rows an open transaction has swept are locked by it.
Unswept(j) == \A u \in Uploads : j \notin upload[u].swept
Sweep(S) == [j \in Jobs |-> IF j \in S THEN [job[j] EXCEPT !.st = "expired", !.result = FALSE]
                            ELSE job[j]]

-----------------------------------------------------------------------------
(* Admission.                                                              *)

Expirable == {j \in due : job[j].st \in Kept}

\* The document was read already: its job answers, and the sweep commits.
UploadAgain(u, e, d) ==
    /\ upload[u].op = "idle"
    /\ \A j \in Expirable : Unswept(j)
    /\ Same(e, d, {"completed"}, due) # {}
    /\ job' = Sweep(Expirable)
    /\ UNCHANGED <<due, upload, gate>>

\* Neither read nor being read, as far as committed rows tell.
BeginUpload(u, e, d) ==
    /\ upload[u].op = "idle"
    /\ \A j \in Expirable : Unswept(j)
    /\ Same(e, d, {"completed", "processing"}, Expirable) = {}
    /\ upload' = [upload EXCEPT ![u] = [op |-> "admit", emp |-> e, doc |-> d, job |-> Null,
                                        swept |-> Expirable]]
    /\ UNCHANGED <<job, due, gate>>

\* Variant of EnforceLimits: the limit is counted without the advisory lock.
EnforceLimitsUnlocked(u) ==
    /\ upload[u].op = "admit"
    /\ Cardinality(Processing \ upload[u].swept) < MaxProcessing
    /\ upload' = [upload EXCEPT ![u].op = "insert"]
    /\ UNCHANGED <<job, due, gate>>

\* The advisory lock is waited for, and kept until the job's row commits.
EnforceLimits(u) ==
    /\ upload[u].op = "admit" /\ gate = Null
    /\ Cardinality(Processing \ upload[u].swept) < MaxProcessing
    /\ gate' = u
    /\ upload' = [upload EXCEPT ![u].op = "insert"]
    /\ UNCHANGED <<job, due>>

Ungated(u) == IF gate = u THEN Null ELSE gate

CommitUpload(u, j) ==
    /\ upload[u].op = "insert" /\ job[j].st = "none"
    /\ job' = [Sweep(upload[u].swept) EXCEPT ![j] = [st |-> "processing", emp |-> upload[u].emp,
                                                    doc |-> upload[u].doc, result |-> FALSE]]
    /\ upload' = [upload EXCEPT ![u].op = "provider", ![u].job = j, ![u].swept = {}]
    /\ gate' = Ungated(u)
    /\ UNCHANGED due

\* 429 at the limit, or any failure before the row commits: the sweep is undone.
RejectUpload(u) ==
    /\ upload[u].op \in {"admit", "insert"}
    /\ upload' = [upload EXCEPT ![u] = NoUpload]
    /\ gate' = Ungated(u)
    /\ UNCHANGED <<job, due>>

-----------------------------------------------------------------------------
(* The provider's answer.                                                  *)

Completes(j) == job[j].st = "processing"

\* A job that was deleted or swept meanwhile is left as it is.
ProviderAnswers(u) ==
    LET j == upload[u].job IN
    /\ upload[u].op = "provider" /\ Unswept(j)
    /\ job' = [job EXCEPT ![j].st = IF Completes(j) THEN "completed" ELSE @,
                          ![j].result = Completes(j)]
    /\ upload' = [upload EXCEPT ![u] = NoUpload]
    /\ UNCHANGED <<due, gate>>

\* An error of the provider, or 20 seconds without an answer.
ProviderFails(u) ==
    LET j == upload[u].job IN
    /\ upload[u].op = "provider" /\ Unswept(j)
    /\ job' = [job EXCEPT ![j].st = IF @ = "processing" THEN "failed" ELSE @]
    /\ upload' = [upload EXCEPT ![u] = NoUpload]
    /\ UNCHANGED <<due, gate>>

\* The process ends during the call: the row says processing until it expires.
UploadCrashes(u) ==
    /\ upload[u].op = "provider"
    /\ upload' = [upload EXCEPT ![u] = NoUpload]
    /\ UNCHANGED <<job, due, gate>>

-----------------------------------------------------------------------------
(* The owner, and time.                                                    *)

\* The owner's read of an expired job writes nothing: its update is undone by
\* the error that reports it.  A deletion follows such a read.
DeleteJob(j) ==
    /\ job[j].st \in Kept /\ Unswept(j)
    /\ job' = [job EXCEPT ![j].st = "deleted", ![j].result = FALSE]
    /\ UNCHANGED <<due, upload, gate>>

JobExpires(j) ==
    /\ job[j].st \in Kept /\ j \notin due
    /\ due' = due \cup {j}
    /\ UNCHANGED <<job, upload, gate>>

ExtractionNext ==
    \/ \E u \in Uploads, e \in Subjects, d \in Documents : UploadAgain(u, e, d)
    \/ \E u \in Uploads, e \in Subjects, d \in Documents : BeginUpload(u, e, d)
    \/ \E u \in Uploads : EnforceLimits(u)
    \/ \E u \in Uploads, j \in Jobs : CommitUpload(u, j)
    \/ \E u \in Uploads : RejectUpload(u)
    \/ \E u \in Uploads : ProviderAnswers(u)
    \/ \E u \in Uploads : ProviderFails(u)
    \/ \E u \in Uploads : UploadCrashes(u)
    \/ \E j \in Jobs : DeleteJob(j)
    \/ \E j \in Jobs : JobExpires(j)

-----------------------------------------------------------------------------
(* Properties.                                                             *)

\* Concurrent uploads cannot race past the limit of jobs being processed, with
\* crashed uploads counted until they expire.
ProcessingWithinLimit == Cardinality(Processing) <= MaxProcessing
=============================================================================
