------------------------------- MODULE Payroll -------------------------------
(***************************************************************************)
(* Payroll: a run writes one record per employee of a period and takes the *)
(* instalments of active loans off it; records are approved, paid or       *)
(* cancelled, loans settled by hand and salaries changed meanwhile.        *)
(*                                                                         *)
(*   src/server/payroll/payroll-routes.ts, loan-routes.ts,                 *)
(*   compensation-routes.ts; db/schema.sql (sections 8 to 10)              *)
(*                                                                         *)
(* A run is one transaction over many employees.  It locks the record it   *)
(* finds, else the loans it will charge, and holds its locks to the end;   *)
(* a period with no record yet has no row to lock, and two first runs of   *)
(* it meet only at the unique key.  The other handlers write one row and   *)
(* are one step.  Of a payslip only its loan deduction is kept.            *)
(***************************************************************************)
EXTENDS Tenant

Ext == INSTANCE FiniteSetsExt

CONSTANTS
    Periods,     \* pay periods, by their first day
    Loans,       \* employee_loans rows; ids in the order they are created
    Runs,        \* concurrent requests to run payroll
    LoanTerms,   \* loans that may be granted
    MaxSettled   \* bound: status changes of loans and salary changes by hand

ASSUME PayrollAssumption ==
    /\ Periods \subseteq Nat /\ IsFiniteSet(Periods)
    /\ Loans \subseteq Nat /\ IsFiniteSet(Loans)
    /\ LoanTerms \subseteq [emp : Subjects, principal : Nat, repayment : Nat]
    /\ MaxSettled \in Nat
    /\ Null \notin Runs /\ Null \notin Periods /\ Null \notin LoanTerms

VARIABLES
    payroll,      \* payroll_records: one of each employee and period
    loan,         \* employee_loans
    payment,      \* employee_loan_payments: what each record took off each loan
    profile,      \* first day of each employee's active salary, or Null
    payRun,       \* what each payroll run is doing
    payrollLock,  \* holder of the row lock or of the unique key of each record
    loanLock,     \* holder of the row lock of each loan
    waived,       \* auxiliary: balances written off by marking a loan paid
    settled       \* how much of the bound is used

payrollVars == <<payroll, loan, payment, profile, payRun, payrollLock, loanLock,
                 waived, settled>>

Total(f, S) == Ext!MapThenSumSet(LAMBDA x : f[x], S)

Finalized == {"approved", "paid", "cancelled"}
PayrollKeys == Subjects \X Periods

PayrollRow == [st : {"none", "draft"} \cup Finalized, deducted : Nat]
LoanRow == [st : {"none", "active", "paid", "cancelled"}, terms : LoanTerms \cup {Null},
            balance : Nat]
PayRun == [op : {"idle", "next", "loans", "insert"}, period : Periods \cup {Null},
           todo : SUBSET Subjects,       \* employees still to be written
           emp : Subjects \cup {Null},   \* the one at hand
           fresh : SUBSET Subjects,      \* those whose record was not found
           wanted : SUBSET Loans,     \* loans selected, still to lock
           owed : [Loans -> Nat],      \* instalments planned
           done : SUBSET Subjects]       \* those written

NoPayrollRun == [op |-> "idle", period |-> Null, todo |-> {}, emp |-> Null, fresh |-> {},
                 wanted |-> {}, owed |-> [l \in Loans |-> 0], done |-> {}]

PayrollTypeOK ==
    /\ payroll \in [PayrollKeys -> PayrollRow]
    /\ loan \in [Loans -> LoanRow]
    /\ \A l \in Loans : loan[l].st = "none" <=> loan[l].terms = Null
    /\ payment \in [Loans \X Periods -> Nat]
    /\ profile \in [Subjects -> Periods \cup {Null}]
    /\ payRun \in [Runs -> PayRun]
    /\ payrollLock \in [PayrollKeys -> Runs \cup {Null}]
    /\ loanLock \in [Loans -> Runs \cup {Null}]
    /\ waived \in [Loans -> Nat]
    /\ settled \in 0..MaxSettled
    /\ \A k \in PayrollKeys : payrollLock[k] # Null => payRun[payrollLock[k]].period = k[2]
    /\ \A l \in Loans : loanLock[l] # Null => payRun[loanLock[l]].op # "idle"

PayrollInit ==
    /\ payroll = [k \in PayrollKeys |-> [st |-> "none", deducted |-> 0]]
    /\ loan = [l \in Loans |-> [st |-> "none", terms |-> Null, balance |-> 0]]
    /\ payment = [p \in Loans \X Periods |-> 0]
    /\ profile = [e \in Subjects |-> Null]
    /\ payRun = [t \in Runs |-> NoPayrollRun]
    /\ payrollLock = [k \in PayrollKeys |-> Null]
    /\ loanLock = [l \in Loans |-> Null]
    /\ waived = [l \in Loans |-> 0]
    /\ settled = 0

-----------------------------------------------------------------------------
(* Loans and salaries.                                                     *)

IssueLoan(l, x) ==
    /\ \A k \in Loans : k < l => loan[k].st # "none"
    /\ loan[l].st = "none"
    /\ loan' = [loan EXCEPT ![l] = [st |-> "active", terms |-> x, balance |-> x.principal]]
    /\ UNCHANGED <<payroll, payment, profile, payRun, payrollLock, loanLock, waived, settled>>

\* An administrator sets any status; 'paid' writes the balance off.  The row
\* is read without a lock, the update waits for a run that holds it.
SetLoanStatus(l, s) ==
    /\ loan[l].st # "none" /\ loanLock[l] = Null
    /\ settled < MaxSettled
    /\ loan' = [loan EXCEPT ![l].st = s, ![l].balance = IF s = "paid" THEN 0 ELSE @]
    /\ waived' = [waived EXCEPT ![l] = IF s = "paid" THEN @ + loan[l].balance ELSE @]
    /\ settled' = settled + 1
    /\ UNCHANGED <<payroll, payment, profile, payRun, payrollLock, loanLock>>

\* A salary replaces the active one at once, whatever day it takes effect.
SaveSalary(e, p) ==
    /\ settled < MaxSettled
    /\ profile' = [profile EXCEPT ![e] = p]
    /\ settled' = settled + 1
    /\ UNCHANGED <<payroll, loan, payment, payRun, payrollLock, loanLock, waived>>

-----------------------------------------------------------------------------
(* Payroll records.                                                        *)

AllowedStatus(s) == CASE s = "draft"    -> {"approved", "cancelled"}
                      [] s = "approved" -> {"paid", "cancelled"}
                      [] OTHER          -> {}

\* The update repeats the status it read, but holds the row lock anyway.
SetPayrollStatus(k, s) ==
    /\ payrollLock[k] = Null
    /\ s \in AllowedStatus(payroll[k].st)
    /\ payroll' = [payroll EXCEPT ![k].st = s]
    /\ UNCHANGED <<loan, payment, profile, payRun, payrollLock, loanLock, waived, settled>>

-----------------------------------------------------------------------------
(* A payroll run.                                                          *)

\* Employees with a salary in force on the first day, or all by a fallback.
OnPayroll(p, fallback) ==
    {e \in Subjects : fallback \/ (profile[e] # Null /\ profile[e] <= p)}

BeginPayroll(t, p, fallback) ==
    /\ payRun[t].op = "idle"
    /\ payRun' = [payRun EXCEPT ![t] = [NoPayrollRun EXCEPT
           !.op = "next", !.period = p, !.todo = OnPayroll(p, fallback)]]
    /\ UNCHANGED <<payroll, loan, payment, profile, payrollLock, loanLock, waived, settled>>

\* Loans of e that a run charges, oldest first.
Owing(e) == {l \in Loans : loan[l].st = "active" /\ loan[l].balance > 0 /\ loan[l].terms.emp = e}

\* Variant of FindDraft: the record is read without FOR UPDATE.
FindDraftUnlocked(t, e) ==
    /\ payRun[t].op = "next" /\ e \in payRun[t].todo
    /\ payroll[<<e, payRun[t].period>>].st = "draft"
    /\ payRun' = [payRun EXCEPT ![t].op = "insert", ![t].emp = e]
    /\ UNCHANGED <<payroll, loan, payment, profile, payrollLock, loanLock, waived, settled>>

\* SELECT ... FOR UPDATE of the record of e: a draft is locked and rewritten.
FindDraft(t, e) ==
    /\ payRun[t].op = "next" /\ e \in payRun[t].todo
    /\ payroll[<<e, payRun[t].period>>].st = "draft"
    /\ payrollLock[<<e, payRun[t].period>>] = Null
    /\ payrollLock' = [payrollLock EXCEPT ![<<e, payRun[t].period>>] = t]
    /\ payRun' = [payRun EXCEPT ![t].op = "insert", ![t].emp = e]
    /\ UNCHANGED <<payroll, loan, payment, profile, loanLock, waived, settled>>

\* No record is committed: nothing is locked, and the loans are selected.
FindNoRecord(t, e) ==
    /\ payRun[t].op = "next" /\ e \in payRun[t].todo
    /\ payroll[<<e, payRun[t].period>>].st = "none"
    /\ payRun' = [payRun EXCEPT ![t].op = "loans", ![t].emp = e,
                                ![t].fresh = @ \cup {e}, ![t].wanted = Owing(e)]
    /\ UNCHANGED <<payroll, loan, payment, profile, payrollLock, loanLock, waived, settled>>

\* The instalment of a loan: the repayment agreed, or what is left.
Instalment(l, e) ==
    LET x == loan[l] IN
    IF l \notin Owing(e) THEN 0
    ELSE IF x.terms.repayment < x.balance THEN x.terms.repayment ELSE x.balance

\* Variant of LockLoan: the loans are selected without FOR UPDATE.
LockLoanUnlocked(t, l) ==
    /\ payRun[t].op = "loans" /\ l \in payRun[t].wanted
    /\ \A k \in payRun[t].wanted : l <= k
    /\ payRun' = [payRun EXCEPT ![t].wanted = @ \ {l},
                                ![t].owed[l] = Instalment(l, payRun[t].emp)]
    /\ UNCHANGED <<payroll, loan, payment, profile, payrollLock, loanLock, waived, settled>>

\* FOR UPDATE of the selected loans in the order of their creation: each waits
\* for its holder and is looked at again before its instalment is planned.
LockLoan(t, l) ==
    /\ payRun[t].op = "loans" /\ l \in payRun[t].wanted
    /\ \A k \in payRun[t].wanted : l <= k
    /\ loanLock[l] = Null
    /\ loanLock' = [loanLock EXCEPT ![l] = t]
    /\ payRun' = [payRun EXCEPT ![t].wanted = @ \ {l},
                                ![t].owed[l] = Instalment(l, payRun[t].emp)]
    /\ UNCHANGED <<payroll, loan, payment, profile, payrollLock, waived, settled>>

LoansLocked(t) ==
    /\ payRun[t].op = "loans" /\ payRun[t].wanted = {}
    /\ payRun' = [payRun EXCEPT ![t].op = "insert"]
    /\ UNCHANGED <<payroll, loan, payment, profile, payrollLock, loanLock, waived, settled>>

\* INSERT ... ON CONFLICT DO UPDATE waits for whoever holds the key; the loans
\* and payments that follow are written under locks the run already has.
UpsertPayroll(t) ==
    LET k == <<payRun[t].emp, payRun[t].period>> IN
    /\ payRun[t].op = "insert"
    /\ payrollLock[k] \in {Null, t}
    /\ payrollLock' = [payrollLock EXCEPT ![k] = t]
    /\ payRun' = [payRun EXCEPT ![t].op = "next", ![t].emp = Null,
                                ![t].todo = @ \ {k[1]}, ![t].done = @ \cup {k[1]}]
    /\ UNCHANGED <<payroll, loan, payment, profile, loanLock, waived, settled>>

FreePayRun(t) ==
    /\ payRun' = [payRun EXCEPT ![t] = NoPayrollRun]
    /\ payrollLock' = [k \in PayrollKeys |-> IF payrollLock[k] = t THEN Null ELSE payrollLock[k]]
    /\ loanLock' = [l \in Loans |-> IF loanLock[l] = t THEN Null ELSE loanLock[l]]

\* What a record of e deducts: the sum of the instalments of e's loans.
DueOf(owed, e) ==
    Total(owed, {l \in Loans : loan[l].terms # Null /\ loan[l].terms.emp = e})

Less(a, b) == IF a > b THEN a - b ELSE 0

\* COMMIT: every record is a draft again, whatever it was, and is charged with
\* the instalments of this run only.
CommitPayroll(t) ==
    LET r == payRun[t] IN
    /\ r.op = "next" /\ r.todo = {}
    /\ payroll' = [k \in PayrollKeys |->
           IF k[2] = r.period /\ k[1] \in r.done
           THEN [st |-> "draft", deducted |-> DueOf(r.owed, k[1])] ELSE payroll[k]]
    /\ loan' = [l \in Loans |-> IF r.owed[l] = 0 THEN loan[l]
           ELSE [loan[l] EXCEPT !.balance = Less(@, r.owed[l]),
                                !.st = IF Less(loan[l].balance, r.owed[l]) = 0 THEN "paid" ELSE @]]
    /\ payment' = [p \in Loans \X Periods |->
           IF p[2] = r.period THEN payment[p] + r.owed[p[1]] ELSE payment[p]]
    /\ FreePayRun(t)
    /\ UNCHANGED <<profile, waived, settled>>

\* 409 on a finalized record, a deadlock broken, a lost connection: ROLLBACK.
RollBackPayroll(t) ==
    /\ payRun[t].op # "idle"
    /\ FreePayRun(t)
    /\ UNCHANGED <<payroll, loan, payment, profile, waived, settled>>

PayrollNext ==
    \/ \E l \in Loans, x \in LoanTerms : IssueLoan(l, x)
    \/ \E l \in Loans, s \in {"active", "paid", "cancelled"} : SetLoanStatus(l, s)
    \/ \E e \in Subjects, p \in Periods : SaveSalary(e, p)
    \/ \E k \in PayrollKeys, s \in Finalized : SetPayrollStatus(k, s)
    \/ \E t \in Runs, p \in Periods, fallback \in BOOLEAN : BeginPayroll(t, p, fallback)
    \/ \E t \in Runs, e \in Subjects : FindDraft(t, e)
    \/ \E t \in Runs, e \in Subjects : FindNoRecord(t, e)
    \/ \E t \in Runs, l \in Loans : LockLoan(t, l)
    \/ \E t \in Runs : LoansLocked(t)
    \/ \E t \in Runs : UpsertPayroll(t)
    \/ \E t \in Runs : CommitPayroll(t)
    \/ \E t \in Runs : RollBackPayroll(t)

PayrollSpec == PayrollInit /\ [][PayrollNext]_payrollVars

-----------------------------------------------------------------------------
(* Properties.                                                             *)

\* The books of a loan balance whatever runs overlap: the principal is what is
\* outstanding, what the payments of all periods took off, and what was
\* written off by hand.  No instalment is charged against a balance another
\* run has already used.
LoanBooksBalance ==
    \A l \in Loans : loan[l].st # "none" =>
        loan[l].terms.principal = loan[l].balance + waived[l]
            + Total([p \in Periods |-> payment[<<l, p>>]], Periods)

\* Only a run that found no record may reset one that was approved, paid or
\* cancelled: a re-run of a draft never overwrites a decision taken while it
\* was running.  (docs/payroll-qa.md says it of every run; of two first runs of
\* a period the second finds nothing to lock and overwrites what was approved.)
RerunKeepsDecisions == [][\A k \in PayrollKeys :
    (payroll[k].st \in Finalized /\ payroll'[k].st = "draft") =>
        \E t \in Runs : k[2] = payRun[t].period /\ k[1] \in payRun[t].fresh]_payrollVars
=============================================================================
