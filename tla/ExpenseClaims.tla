---------------------------- MODULE ExpenseClaims ----------------------------
(***************************************************************************)
(* Expense claims: an employee submits a claim, perhaps from a receipt the *)
(* extraction service read and perhaps twice, and others decide it and pay *)
(* it back.                                                                *)
(*                                                                         *)
(*   src/server/expenses/expense-routes.ts, expense-contract.ts            *)
(*   db/migrations/20260729_add_expense_claims.sql                         *)
(*                                                                         *)
(* A submission is three steps: it waits for the lock of its idempotency   *)
(* key and looks the key up, checks the receipt's job, and inserts under   *)
(* the two unique keys of the table.  A decision locks the claim's row and *)
(* is one step.  Approvers, notifications and audit rows, which follow the *)
(* claim in its transaction, are left out.                                 *)
(***************************************************************************)
EXTENDS DocumentExtraction

CONSTANTS
    Claims,    \* expense_claims rows
    Keys,      \* idempotency keys a client may send
    Requests   \* concurrent POST /api/me/expense-claims

ASSUME ClaimsAssumption ==
    /\ Null \notin Claims \cup Requests /\ Null \notin Keys

VARIABLES
    claim,     \* expense_claims
    request,   \* what each submission is doing
    keyLock    \* holder of the advisory lock of each employee's key

claimVars == <<claim, request, keyLock>>

ClaimRow == [st : {"none", "pending", "approved", "rejected", "cancelled", "reimbursed"},
             emp : Subjects \cup {Null}, key : Keys \cup {Null}, job : Jobs \cup {Null}]
Submission == [op : {"idle", "check", "insert"}, emp : Subjects \cup {Null},
               key : Keys \cup {Null}, job : Jobs \cup {Null}]

NoClaim == [st |-> "none", emp |-> Null, key |-> Null, job |-> Null]
NoSubmission == [op |-> "idle", emp |-> Null, key |-> Null, job |-> Null]

ClaimsTypeOK ==
    /\ claim \in [Claims -> ClaimRow]
    /\ request \in [Requests -> Submission]
    /\ keyLock \in [Subjects \X Keys -> Requests \cup {Null}]

ClaimsInit ==
    /\ ExtractionInit
    /\ claim = [c \in Claims |-> NoClaim]
    /\ request = [q \in Requests |-> NoSubmission]
    /\ keyLock = [k \in Subjects \X Keys |-> Null]

Submitted == {c \in Claims : claim[c].st # "none"}

\* The claim an employee submitted under a key, and the one made from a job.
OfKey(e, k) == {c \in Submitted : k # Null /\ claim[c].emp = e /\ claim[c].key = k}
OfJob(j)    == {c \in Submitted : j # Null /\ claim[c].job = j}

-----------------------------------------------------------------------------
(* Submitting.                                                             *)

\* Variant of KeyFree: the advisory lock is not taken.
KeyFreeAlways(e, k) == TRUE

KeyFree(e, k) == k # Null => keyLock[<<e, k>>] = Null

\* The key's lock is waited for, then the key is looked up.  A key that is
\* known writes nothing: its claim answers the same request, another request
\* is refused.
BeginSubmit(q, e, k, j) ==
    /\ request[q].op = "idle" /\ KeyFree(e, k)
    /\ j # Null => job[j].emp = e
    /\ OfKey(e, k) = {}
    /\ request' = [request EXCEPT ![q] = [op |-> "check", emp |-> e, key |-> k, job |-> j]]
    /\ keyLock' = IF k = Null THEN keyLock ELSE [keyLock EXCEPT ![<<e, k>>] = q]
    /\ UNCHANGED <<claim, extractionVars>>

\* The receipt's job is read without a lock.
ReceiptIsReady(e, j) ==
    j # Null => (job[j].emp = e /\ job[j].st = "completed" /\ j \notin due)

CheckReceipt(q) ==
    /\ request[q].op = "check"
    /\ ReceiptIsReady(request[q].emp, request[q].job)
    /\ request' = [request EXCEPT ![q].op = "insert"]
    /\ UNCHANGED <<claim, keyLock, extractionVars>>

\* The locks a transaction leaves when it ends.
KeysWithout(q) == [k \in Subjects \X Keys |-> IF keyLock[k] = q THEN Null ELSE keyLock[k]]

\* The unique keys of the table.
Admitted(r) == OfKey(r.emp, r.key) = {} /\ OfJob(r.job) = {}

InsertClaim(q, c) ==
    LET r == request[q] IN
    /\ r.op = "insert" /\ claim[c].st = "none"
    /\ Admitted(r)
    /\ claim' = [claim EXCEPT ![c] = [st |-> "pending", emp |-> r.emp, key |-> r.key, job |-> r.job]]
    /\ request' = [request EXCEPT ![q] = NoSubmission]
    /\ keyLock' = KeysWithout(q)
    /\ UNCHANGED extractionVars

\* The receipt is not ready, a unique key refuses the row, or the transaction
\* fails: nothing was written.
SubmitFails(q) ==
    /\ request[q].op # "idle"
    /\ request' = [request EXCEPT ![q] = NoSubmission]
    /\ keyLock' = KeysWithout(q)
    /\ UNCHANGED <<claim, extractionVars>>

-----------------------------------------------------------------------------
(* Deciding, paying and withdrawing.                                       *)

SetClaim(c, s) ==
    /\ claim' = [claim EXCEPT ![c].st = s]
    /\ UNCHANGED <<request, keyLock, extractionVars>>

CancelClaim(c) == claim[c].st = "pending" /\ SetClaim(c, "cancelled")

\* By anyone with the authority except the claimant.
DecideClaim(c, e, s) == claim[c].st = "pending" /\ claim[c].emp # e /\ SetClaim(c, s)

Reimburse(c, e) == claim[c].st = "approved" /\ claim[c].emp # e /\ SetClaim(c, "reimbursed")

ClaimsNext ==
    \/ \E q \in Requests, e \in Subjects, k \in Keys \cup {Null}, j \in Jobs \cup {Null} :
           BeginSubmit(q, e, k, j)
    \/ \E q \in Requests : CheckReceipt(q)
    \/ \E q \in Requests, c \in Claims : InsertClaim(q, c)
    \/ \E q \in Requests : SubmitFails(q)
    \/ \E c \in Claims : CancelClaim(c)
    \/ \E c \in Claims, e \in Staff, s \in {"approved", "rejected"} : DecideClaim(c, e, s)
    \/ \E c \in Claims, e \in Staff : Reimburse(c, e)
    \/ ExtractionNext /\ UNCHANGED claimVars

ClaimsSpec == ClaimsInit /\ [][ClaimsNext]_<<claimVars, extractionVars>>

-----------------------------------------------------------------------------
(* Properties.                                                             *)

\* A request sent twice is answered twice with one claim: the unique key of
\* the idempotency key, whose violation would be an internal error, is never
\* what stops the second.
RetryIsAnswered ==
    \A q \in Requests : request[q].op = "insert" => OfKey(request[q].emp, request[q].key) = {}
=============================================================================
