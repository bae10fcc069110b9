-------------------------- MODULE WorkforceProofs ---------------------------
(***************************************************************************)
(* Proofs about Payroll, DocumentExtraction, ExpenseClaims and Assets, and *)
(* about the workforce MCWorkforce composes, for every set of employees    *)
(* and rows.  What a loan still owes is what no payroll has recovered, a   *)
(* second run of a period keeps the decisions of the first, the jobs of a  *)
(* tenant stay within their limit, a repeated claim is answered with one   *)
(* row, the inventory counts the seats that are taken; and the composition *)
(* does what its parts may do.                                             *)
(***************************************************************************)
EXTENDS MCWorkforce, AttendanceProofs

-----------------------------------------------------------------------------
(* Totals over finite sets.                                                *)

First(T) == CHOOSE x \in T : TRUE
SumsOf(t, f, S) ==
    t = [T \in SUBSET S |-> IF T = {} THEN 0 ELSE f[First(T)] + t[T \ {First(T)}]]

\* A total is the value at S of the partial sums of S.
LEMMA TotalUnfolds ==
    ASSUME NEW f, NEW S
    PROVE  Total(f, S) = (CHOOSE t : SumsOf(t, f, S))[S]
BY DEF Total, Ext!MapThenSumSet, Ext!MapThenFoldSet, SumsOf, First

\* Induction over a finite set: G holds all its subsets if it holds every one
\* whose proper subsets it holds.  (A smallest one outside G cannot be.)
LEMMA SubsetInduction ==
    ASSUME NEW S, IsFiniteSet(S), NEW G,
           \A T \in SUBSET S : (\A U \in SUBSET T : U # T => U \in G) => T \in G
    PROVE  S \in G
<1> DEFINE D == (SUBSET S) \ G
<1>1. D \in SUBSET (SUBSET S)
  OBVIOUS
<1>2. ASSUME D # {} PROVE FALSE
  <2>1. SUBSET S = FiniteSubsetsOf(S)
    BY FS_FiniteSubsetsOfFinite
  <2>2. IsWellFoundedOn(StrictSubsetOrdering(S), SUBSET S)
    BY <2>1, FS_StrictSubsetOrderingWellFounded
  <2> HIDE DEF D
  <2>3. PICK T \in D : \A U \in D : ~(<<U, T>> \in StrictSubsetOrdering(S))
    BY <1>1, <1>2, <2>2, WFMin
  <2>4. \A U \in SUBSET T : U # T => U \notin D
    BY <1>1, <2>3 DEF StrictSubsetOrdering
  <2>5. T \in SUBSET S /\ T \notin G
    BY DEF D
  <2>6. \A U \in SUBSET T : U # T => U \in G
    BY <2>4, <2>5 DEF D
  <2>7. QED
    BY <2>5, <2>6
<1>3. QED
  BY <1>2

\* The sum of a subset is its first member plus the sum of the rest.
LEMMA SumsOfMember ==
    ASSUME NEW f, NEW S, NEW t, SumsOf(t, f, S), NEW T \in SUBSET S
    PROVE  t[T] = IF T = {} THEN 0 ELSE f[First(T)] + t[T \ {First(T)}]
BY DEF SumsOf

\* Taking the first member off a set leaves a smaller one.
LEMMA FirstIsMember ==
    ASSUME NEW T, T # {}
    PROVE  First(T) \in T /\ T \ {First(T)} \in SUBSET T /\ T \ {First(T)} # T
BY DEF First

\* Any two partial sums of a finite set agree: where they differ first, they
\* agree on everything smaller.
LEMMA SumsAreUnique ==
    ASSUME NEW f, NEW S, IsFiniteSet(S), NEW t, NEW u, SumsOf(t, f, S), SumsOf(u, f, S)
    PROVE  t[S] = u[S]
<1>a. \A T \in SUBSET S : t[T] = (IF T = {} THEN 0 ELSE f[First(T)] + t[T \ {First(T)}])
  BY DEF SumsOf
<1>b. \A T \in SUBSET S : u[T] = (IF T = {} THEN 0 ELSE f[First(T)] + u[T \ {First(T)}])
  BY DEF SumsOf
<1> DEFINE G == {T \in SUBSET S : t[T] = u[T]}
<1>1. ASSUME NEW T \in SUBSET S, \A U \in SUBSET T : U # T => U \in G
      PROVE  T \in G
  <2>1. t[T] = (IF T = {} THEN 0 ELSE f[First(T)] + t[T \ {First(T)}])
    BY <1>a
  <2>2. u[T] = (IF T = {} THEN 0 ELSE f[First(T)] + u[T \ {First(T)}])
    BY <1>b
  <2>3. CASE T = {}
    <3>1. t[T] = u[T]
      BY ONLY <2>1, <2>2, <2>3
    <3>2. QED
      BY <3>1
  <2>4. CASE T # {}
    <3>1. T \ {First(T)} \in SUBSET T /\ T \ {First(T)} # T
      BY <2>4, FirstIsMember
    <3>2. T \ {First(T)} \in G
      BY <1>1, <3>1
    <3>3. t[T \ {First(T)}] = u[T \ {First(T)}]
      BY <3>2
    <3>4. t[T] = u[T]
      BY ONLY <2>1, <2>2, <2>4, <3>3
    <3>5. QED
      BY <3>4
  <2>5. QED
    BY <2>3, <2>4
<1> HIDE DEF G
<1>2. S \in G
  BY <1>1, SubsetInduction
<1>3. QED
  BY <1>2 DEF G

\* Partial sums of a set are partial sums of each subset.
LEMMA SumsRestrict ==
    ASSUME NEW f, NEW S, NEW t, SumsOf(t, f, S), NEW U \in SUBSET S
    PROVE  SumsOf([T \in SUBSET U |-> t[T]], f, U)
<1> DEFINE r == [T \in SUBSET U |-> t[T]]
<1>1. \A T \in SUBSET U : r[T] = IF T = {} THEN 0 ELSE f[First(T)] + r[T \ {First(T)}]
  BY SumsOfMember
<1>2. r = [T \in SUBSET U |-> IF T = {} THEN 0 ELSE f[First(T)] + r[T \ {First(T)}]]
  BY <1>1
<1>3. QED
  BY <1>2 DEF SumsOf

\* A finite set has partial sums.
LEMMA SumsExist ==
    ASSUME NEW f, NEW S, IsFiniteSet(S)
    PROVE  \E t : SumsOf(t, f, S)
<1> DEFINE G == {T \in SUBSET S : \E t : SumsOf(t, f, T)}
<1>1. ASSUME NEW T \in SUBSET S, \A U \in SUBSET T : U # T => U \in G
      PROVE  T \in G
  <2> DEFINE s(U) == CHOOSE t : SumsOf(t, f, U)
             r == [U \in SUBSET T |-> IF U = {} THEN 0
                       ELSE f[First(U)] + s(U \ {First(U)})[U \ {First(U)}]]
  <2>1. \A U \in SUBSET T : U # T => SumsOf(s(U), f, U)
    BY <1>1
  <2>2. \A U \in SUBSET T : r[U] = (IF U = {} THEN 0
                       ELSE f[First(U)] + s(U \ {First(U)})[U \ {First(U)}])
    OBVIOUS
  <2>3. r = [U \in SUBSET T |-> r[U]]
    OBVIOUS
  <2> HIDE DEF s, r
  <2>4. ASSUME NEW U \in SUBSET T, U # T, NEW V \in SUBSET U
        PROVE  s(U)[V] = s(V)[V]
    <3>1. V \in SUBSET T /\ V # T /\ IsFiniteSet(V)
      BY <2>4, FS_Subset
    <3>2. SumsOf(s(U), f, U) /\ SumsOf(s(V), f, V)
      BY <2>1, <2>4, <3>1
    <3>3. SumsOf([W \in SUBSET V |-> s(U)[W]], f, V)
      BY <3>2, SumsRestrict
    <3>4. [W \in SUBSET V |-> s(U)[W]][V] = s(V)[V]
      BY <3>1, <3>2, <3>3, SumsAreUnique
    <3>5. QED
      BY <3>4
  <2>5. ASSUME NEW U \in SUBSET T, U # T PROVE r[U] = s(U)[U]
    <3>1. s(U)[U] = (IF U = {} THEN 0 ELSE f[First(U)] + s(U)[U \ {First(U)}])
      <4>1. SumsOf(s(U), f, U)
        BY <2>1, <2>5
      <4>2. QED
        BY <4>1, SumsOfMember
    <3>2. s(U)[U \ {First(U)}] = s(U \ {First(U)})[U \ {First(U)}]
      BY <2>4, <2>5
    <3>3. QED
      BY <2>2, <3>1, <3>2
  <2>6. \A U \in SUBSET T : r[U] = (IF U = {} THEN 0 ELSE f[First(U)] + r[U \ {First(U)}])
    <3> SUFFICES ASSUME NEW U \in SUBSET T
                 PROVE  r[U] = (IF U = {} THEN 0 ELSE f[First(U)] + r[U \ {First(U)}])
      OBVIOUS
    <3>1. CASE U = {}
      BY <2>2, <3>1
    <3>2. CASE U # {}
      <4>1. U \ {First(U)} \in SUBSET T /\ U \ {First(U)} # T
        BY <3>2, FirstIsMember
      <4>2. r[U \ {First(U)}] = s(U \ {First(U)})[U \ {First(U)}]
        BY <4>1, <2>5
      <4>3. QED
        BY <2>2, <3>2, <4>2
    <3>3. QED
      BY <3>1, <3>2
  <2>7. SumsOf(r, f, T)
    BY <2>3, <2>6 DEF SumsOf
  <2>8. QED
    BY <2>7
<1> HIDE DEF G
<1>2. S \in G
  BY <1>1, SubsetInduction
<1>3. QED
  BY <1>2 DEF G

\* A total is taken one element at a time.
LEMMA TotalIsRecursive ==
    ASSUME NEW f, NEW S, IsFiniteSet(S)
    PROVE  Total(f, S) = IF S = {} THEN 0 ELSE f[First(S)] + Total(f, S \ {First(S)})
<1> DEFINE t == CHOOSE t : SumsOf(t, f, S)
           U == S \ {First(S)}
           u == CHOOSE u : SumsOf(u, f, U)
<1>1. IsFiniteSet(U)
  BY FS_Subset
<1>2. SumsOf(t, f, S) /\ SumsOf(u, f, U)
  BY <1>1, SumsExist
<1>3. Total(f, S) = t[S] /\ Total(f, U) = u[U]
  BY TotalUnfolds
<1> HIDE DEF t, u
<1>4. SumsOf([T \in SUBSET U |-> t[T]], f, U)
  BY <1>2, SumsRestrict
<1>5. [T \in SUBSET U |-> t[T]][U] = u[U]
  BY <1>1, <1>2, <1>4, SumsAreUnique
<1>6. t[S] = IF S = {} THEN 0 ELSE f[First(S)] + t[U]
  BY <1>2, SumsOfMember
<1> HIDE DEF U
<1>7. t[U] = u[U]
  BY <1>5
<1>8. QED
  BY <1>3, <1>6, <1>7 DEF U

\* A total of naturals is a natural.
LEMMA TotalIsNat ==
    ASSUME NEW f, NEW S, IsFiniteSet(S), \A x \in S : f[x] \in Nat
    PROVE  Total(f, S) \in Nat
<1> DEFINE G == {T \in SUBSET S : Total(f, T) \in Nat}
<1>1. ASSUME NEW T \in SUBSET S, \A U \in SUBSET T : U # T => U \in G
      PROVE  T \in G
  <2>1. IsFiniteSet(T)
    BY FS_Subset
  <2>2. Total(f, T) = IF T = {} THEN 0 ELSE f[First(T)] + Total(f, T \ {First(T)})
    BY <2>1, TotalIsRecursive
  <2>3. CASE T = {}
    BY <2>2, <2>3
  <2>4. CASE T # {}
    <3>1. First(T) \in T /\ T \ {First(T)} \in SUBSET T /\ T \ {First(T)} # T
      BY <2>4, FirstIsMember
    <3>2. T \ {First(T)} \in G
      BY <1>1, <3>1
    <3>3. f[First(T)] \in Nat /\ Total(f, T \ {First(T)}) \in Nat
      BY <3>1, <3>2
    <3>4. Total(f, T) \in Nat
      BY <2>2, <2>4, <3>3
    <3>5. QED
      BY <3>4
  <2>5. QED
    BY <2>3, <2>4
<1> HIDE DEF G
<1>2. S \in G
  BY <1>1, SubsetInduction
<1>3. QED
  BY <1>2 DEF G

\* The total of instalments none of which is due is nothing.
LEMMA TotalOfNothing ==
    ASSUME NEW f, NEW S, IsFiniteSet(S), \A x \in S : f[x] = 0
    PROVE  Total(f, S) = 0
<1> DEFINE G == {T \in SUBSET S : Total(f, T) = 0}
<1>1. ASSUME NEW T \in SUBSET S, \A U \in SUBSET T : U # T => U \in G
      PROVE  T \in G
  <2>1. IsFiniteSet(T)
    BY FS_Subset
  <2>2. Total(f, T) = IF T = {} THEN 0 ELSE f[First(T)] + Total(f, T \ {First(T)})
    BY <2>1, TotalIsRecursive
  <2>3. CASE T = {}
    BY <2>2, <2>3
  <2>4. CASE T # {}
    <3>1. First(T) \in T /\ T \ {First(T)} \in SUBSET T /\ T \ {First(T)} # T
      BY <2>4, FirstIsMember
    <3>2. T \ {First(T)} \in G
      BY <1>1, <3>1
    <3>3. f[First(T)] = 0 /\ Total(f, T \ {First(T)}) = 0
      BY <3>1, <3>2
    <3>4. Total(f, T) = 0
      BY <2>2, <2>4, <3>3
    <3>5. QED
      BY <3>4
  <2>5. QED
    BY <2>3, <2>4
<1> HIDE DEF G
<1>2. S \in G
  BY <1>1, SubsetInduction
<1>3. QED
  BY <1>2 DEF G

\* What one element gains the total gains.
LEMMA TotalGains ==
    ASSUME NEW f, NEW g, NEW S, IsFiniteSet(S), NEW p \in S, NEW d \in Nat,
           \A x \in S : f[x] \in Nat,
           \A x \in S : g[x] = IF x = p THEN f[x] + d ELSE f[x]
    PROVE  Total(g, S) = Total(f, S) + d
<1> DEFINE Gain(T) == IF p \in T THEN d ELSE 0
           G == {T \in SUBSET S : Total(g, T) = Total(f, T) + Gain(T)}
<1>1. ASSUME NEW T \in SUBSET S, \A U \in SUBSET T : U # T => U \in G
      PROVE  T \in G
  <2>1. IsFiniteSet(T)
    BY FS_Subset
  <2>2. Total(f, T) = IF T = {} THEN 0 ELSE f[First(T)] + Total(f, T \ {First(T)})
    BY <2>1, TotalIsRecursive
  <2>3. Total(g, T) = IF T = {} THEN 0 ELSE g[First(T)] + Total(g, T \ {First(T)})
    BY <2>1, TotalIsRecursive
  <2>4. CASE T = {}
    BY <2>2, <2>3, <2>4
  <2>5. CASE T # {}
    <3> DEFINE x == First(T)  U == T \ {x}
    <3>1. x \in T /\ U \in SUBSET T /\ U # T
      BY <2>5, FirstIsMember
    <3>2. U \in G
      BY <1>1, <3>1
    <3>3. Total(g, U) = Total(f, U) + Gain(U)
      BY <3>2
    <3>4. Total(f, U) \in Nat
      <4>1. IsFiniteSet(U) /\ \A y \in U : f[y] \in Nat
        BY <2>1, <3>1, FS_Subset
      <4>2. QED
        BY <4>1, TotalIsNat
    <3>5. f[x] \in Nat /\ g[x] = IF x = p THEN f[x] + d ELSE f[x]
      BY <3>1
    <3>6. Gain(T) = (IF x = p THEN d ELSE Gain(U)) /\ (x = p => Gain(U) = 0) /\ Gain(U) \in Nat
      BY <3>1
    <3>7. Total(g, T) = g[x] + Total(g, U) /\ Total(f, T) = f[x] + Total(f, U)
      BY <2>2, <2>3, <2>5
    <3> HIDE DEF Gain, x, U
    <3>8. Total(g, T) = Total(f, T) + Gain(T)
      BY ONLY <3>3, <3>4, <3>5, <3>6, <3>7, d \in Nat
    <3>9. QED
      BY <3>8
  <2>6. QED
    BY <2>4, <2>5
<1> HIDE DEF G
<1>2. S \in G
  BY <1>1, SubsetInduction
<1>3. QED
  BY <1>2 DEF G

-----------------------------------------------------------------------------
(* Payroll.                                                                *)

\* A run at work knows its period and, within a record, whose it is.
RunsAreWhole == \A t \in Runs : LET r == payRun[t] IN
    /\ r.op = "idle" => r = NoPayrollRun
    /\ r.op # "idle" => r.period \in Periods
    /\ r.op \in {"loans", "insert"} => r.emp \in Subjects
    /\ r.op = "loans" => r.emp \in r.fresh

\* An instalment is planned under the lock of its loan, and within its balance.
PlansAreLocked == \A t \in Runs, l \in Loans : payRun[t].owed[l] # 0 =>
    /\ loanLock[l] = t
    /\ loan[l].st = "active"
    /\ payRun[t].owed[l] <= loan[l].balance

\* A record that is rewritten was not found, or is a draft the run has locked.
DraftsAreLocked == \A t \in Runs, e \in Subjects : LET r == payRun[t] IN
    e \in r.done \/ (r.op = "insert" /\ r.emp = e) =>
        \/ e \in r.fresh
        \/ payrollLock[<<e, r.period>>] = t /\ payroll[<<e, r.period>>].st = "draft"

\* Nothing is booked on a loan before it is issued.
UnissuedIsEmpty == \A l \in Loans : loan[l].st = "none" =>
    /\ loan[l].balance = 0 /\ waived[l] = 0
    /\ \A p \in Periods : payment[<<l, p>>] = 0

PayrollInvariant ==
    /\ PayrollTypeOK /\ LoanBooksBalance
    /\ RunsAreWhole /\ PlansAreLocked /\ DraftsAreLocked /\ UnissuedIsEmpty

\* At the start nothing was paid and nobody runs payroll.
LEMMA PayrollInitEstablishes == PayrollInit => PayrollInvariant
<1> SUFFICES ASSUME PayrollInit PROVE PayrollInvariant
  OBVIOUS
<1> USE PayrollAssumption, TenantAssumption DEF PayrollInit
<1>1. NoPayrollRun \in PayRun
  BY DEF NoPayrollRun, PayRun
<1>2. PayrollTypeOK
  BY <1>1 DEF PayrollTypeOK, PayrollRow, LoanRow, PayrollKeys
<1>3. LoanBooksBalance /\ UnissuedIsEmpty
  BY DEF LoanBooksBalance, UnissuedIsEmpty
<1>4. RunsAreWhole /\ PlansAreLocked /\ DraftsAreLocked
  BY DEF RunsAreWhole, PlansAreLocked, DraftsAreLocked, NoPayrollRun
<1>5. QED
  BY <1>2, <1>3, <1>4 DEF PayrollInvariant

\* The books read the loans, the payments and what was written off.
LEMMA BooksAreLeft ==
    ASSUME PayrollInvariant, UNCHANGED <<loan, payment, waived>>
    PROVE  LoanBooksBalance' /\ UnissuedIsEmpty'
BY DEF PayrollInvariant, LoanBooksBalance, UnissuedIsEmpty

\* A step of a run that writes no row: it may take locks that are free, and
\* what it then does rests on what it has locked.
RunMayBecome(t, r) ==
    /\ r \in PayRun /\ r.op # "idle" /\ r.period \in Periods
    /\ r.op \in {"loans", "insert"} => r.emp \in Subjects
    /\ r.op = "loans" => r.emp \in r.fresh
    /\ payRun' = [payRun EXCEPT ![t] = r]
    /\ UNCHANGED <<payroll, loan, payment, profile, waived, settled>>
    /\ payrollLock' \in [PayrollKeys -> Runs \cup {Null}]
    /\ \A k \in PayrollKeys :
          /\ payrollLock[k] = t => k[2] = r.period
          /\ \/ payrollLock'[k] = payrollLock[k]
             \/ payrollLock[k] = Null /\ payrollLock'[k] = t /\ k[2] = r.period
    /\ loanLock' \in [Loans -> Runs \cup {Null}]
    /\ \A l \in Loans :
          /\ \/ loanLock'[l] = loanLock[l]
             \/ loanLock[l] = Null /\ loanLock'[l] = t
          /\ r.owed[l] # 0 =>
                loanLock'[l] = t /\ loan[l].st = "active" /\ r.owed[l] <= loan[l].balance
    /\ \A e \in Subjects : e \in r.done \/ (r.op = "insert" /\ r.emp = e) =>
          \/ e \in r.fresh
          \/ payrollLock'[<<e, r.period>>] = t /\ payroll[<<e, r.period>>].st = "draft"

\* A step of one run that only locks and plans.
LEMMA RunStepKeeps ==
    ASSUME PayrollInvariant, NEW t \in Runs, NEW r, RunMayBecome(t, r)
    PROVE  PayrollInvariant'
<1> USE DEF RunMayBecome
<1> USE PayrollAssumption
<1>1. PayrollTypeOK
  BY DEF PayrollInvariant
<1>2. /\ payRun' \in [Runs -> PayRun] /\ payRun'[t] = r
      /\ \A u \in Runs : u # t => payRun'[u] = payRun[u]
  BY <1>1 DEF PayrollTypeOK
<1>3. \A k \in PayrollKeys : payrollLock'[k] # Null => payRun'[payrollLock'[k]].period = k[2]
  BY <1>1, <1>2 DEF PayrollTypeOK
<1>4. \A l \in Loans : loanLock'[l] # Null => payRun'[loanLock'[l]].op # "idle"
  BY <1>1, <1>2 DEF PayrollTypeOK
<1>5. PayrollTypeOK'
  BY <1>1, <1>2, <1>3, <1>4 DEF PayrollTypeOK
<1>6. RunsAreWhole'
  BY <1>2 DEF PayrollInvariant, RunsAreWhole
<1>7. PlansAreLocked'
  <2> SUFFICES ASSUME NEW u \in Runs, NEW l \in Loans, payRun'[u].owed[l] # 0
               PROVE  loanLock'[l] = u /\ loan[l].st = "active"
                      /\ payRun'[u].owed[l] <= loan[l].balance
    BY DEF PlansAreLocked
  <2>1. CASE u = t
    BY <2>1, <1>2
  <2>2. CASE u # t
    BY <2>2, <1>2 DEF PayrollInvariant, PlansAreLocked
  <2>3. QED
    BY <2>1, <2>2
<1>8. DraftsAreLocked'
  <2> SUFFICES ASSUME NEW u \in Runs, NEW e \in Subjects,
                      e \in payRun'[u].done \/ (payRun'[u].op = "insert" /\ payRun'[u].emp = e)
               PROVE  \/ e \in payRun'[u].fresh
                      \/ /\ payrollLock'[<<e, payRun'[u].period>>] = u
                         /\ payroll[<<e, payRun'[u].period>>].st = "draft"
    BY DEF DraftsAreLocked
  <2>1. CASE u = t
    BY <2>1, <1>2
  <2>2. CASE u # t
    <3>1. payRun'[u] = payRun[u]
      BY <2>2, <1>2
    <3>2. payRun[u].period \in Periods
      BY <3>1 DEF PayrollInvariant, RunsAreWhole, NoPayrollRun
    <3>3. <<e, payRun[u].period>> \in PayrollKeys
      BY <3>2 DEF PayrollKeys
    <3>4. \/ e \in payRun[u].fresh
          \/ /\ payrollLock[<<e, payRun[u].period>>] = u
             /\ payroll[<<e, payRun[u].period>>].st = "draft"
      BY <3>1 DEF PayrollInvariant, DraftsAreLocked
    <3>5. QED
      BY <3>1, <3>3, <3>4
  <2>3. QED
    BY <2>1, <2>2
<1>9. QED
  BY <1>5, <1>6, <1>7, <1>8, BooksAreLeft DEF PayrollInvariant

\* The fields a step of a run sets, one at a time.
LEMMA PayRunFields ==
    ASSUME NEW r \in PayRun
    PROVE  /\ \A o \in {"next", "loans", "insert"}, e \in Subjects \cup {Null} :
                 [r EXCEPT !.op = o, !.emp = e] \in PayRun
           /\ \A F \in SUBSET Subjects, W \in SUBSET Loans :
                 [r EXCEPT !.fresh = F, !.wanted = W] \in PayRun
           /\ \A D, T \in SUBSET Subjects : [r EXCEPT !.todo = T, !.done = D] \in PayRun
BY DEF PayRun

\* A run begins with nothing planned.
LEMMA BeginPayrollKeeps ==
    ASSUME PayrollInvariant, NEW t \in Runs, NEW p \in Periods, NEW fallback \in BOOLEAN,
           BeginPayroll(t, p, fallback)
    PROVE  PayrollInvariant'
<1> USE PayrollAssumption
<1> DEFINE r == [NoPayrollRun EXCEPT !.op = "next", !.period = p, !.todo = OnPayroll(p, fallback)]
<1>1. OnPayroll(p, fallback) \in SUBSET Subjects
  BY DEF OnPayroll
<1>2. /\ r \in PayRun /\ r.op = "next" /\ r.period = p /\ r.done = {}
      /\ \A l \in Loans : r.owed[l] = 0
  BY <1>1 DEF NoPayrollRun, PayRun
<1>3. /\ payRun' = [payRun EXCEPT ![t] = r]
      /\ UNCHANGED <<payroll, loan, payment, profile, payrollLock, loanLock, waived, settled>>
  BY DEF BeginPayroll
<1>4. \A k \in PayrollKeys : payrollLock[k] # t
  <2>1. payRun[t].period = Null
    BY DEF BeginPayroll, PayrollInvariant, RunsAreWhole, NoPayrollRun
  <2>2. \A k \in PayrollKeys : k[2] # Null
    BY DEF PayrollKeys
  <2>3. QED
    BY <2>1, <2>2 DEF PayrollInvariant, PayrollTypeOK
<1> HIDE DEF r
<1>5. payrollLock \in [PayrollKeys -> Runs \cup {Null}] /\ loanLock \in [Loans -> Runs \cup {Null}]
  BY DEF PayrollInvariant, PayrollTypeOK
<1>6. RunMayBecome(t, r)
  BY <1>2, <1>3, <1>4, <1>5 DEF RunMayBecome
<1>q. QED
  BY <1>6, RunStepKeeps

\* What a step of a run may count on.
LEMMA RunAtWork ==
    ASSUME PayrollInvariant, NEW t \in Runs, payRun[t].op # "idle"
    PROVE  /\ payRun[t] \in PayRun /\ payRun[t].period \in Periods
           /\ payrollLock \in [PayrollKeys -> Runs \cup {Null}]
           /\ loanLock \in [Loans -> Runs \cup {Null}]
           /\ \A k \in PayrollKeys : payrollLock[k] = t => k[2] = payRun[t].period
           /\ \A l \in Loans : payRun[t].owed[l] # 0 =>
                 loanLock[l] = t /\ loan[l].st = "active" /\ payRun[t].owed[l] <= loan[l].balance
           /\ \A e \in Subjects :
                 e \in payRun[t].done \/ (payRun[t].op = "insert" /\ payRun[t].emp = e) =>
                    \/ e \in payRun[t].fresh
                    \/ /\ payrollLock[<<e, payRun[t].period>>] = t
                       /\ payroll[<<e, payRun[t].period>>].st = "draft"
BY PayrollAssumption
   DEF PayrollInvariant, PayrollTypeOK, RunsAreWhole, PlansAreLocked, DraftsAreLocked

\* A run has its type.
LEMMA RunsAreTyped == PayrollInvariant => payRun \in [Runs -> PayRun]
BY DEF PayrollInvariant, PayrollTypeOK

\* A run locks the draft it finds of an employee.
LEMMA FindDraftKeeps ==
    ASSUME PayrollInvariant, NEW t \in Runs, NEW e \in Subjects, FindDraft(t, e)
    PROVE  PayrollInvariant'
<1> DEFINE r == [payRun[t] EXCEPT !.op = "insert", !.emp = e]
           k == <<e, payRun[t].period>>
<1>1. payRun[t].op # "idle"
  BY DEF FindDraft
<1>2. payRun[t] \in PayRun
  BY <1>1, RunAtWork
<1>3. /\ r \in PayRun /\ r.op = "insert" /\ r.emp = e /\ r.period = payRun[t].period
      /\ r.owed = payRun[t].owed /\ r.done = payRun[t].done /\ r.fresh = payRun[t].fresh
  BY <1>2, PayRunFields, ZenonT(60) DEF PayRun
<1>4. k \in PayrollKeys /\ k = <<e, r.period>> /\ k[2] = r.period
  BY <1>1, <1>3, RunAtWork DEF PayrollKeys
<1>5. /\ payRun' = [payRun EXCEPT ![t] = r]
      /\ UNCHANGED <<payroll, loan, payment, profile, loanLock, waived, settled>>
      /\ payrollLock[k] = Null /\ payrollLock' = [payrollLock EXCEPT ![k] = t]
      /\ payroll[k].st = "draft"
  BY <1>1, RunsAreTyped DEF FindDraft
<1> HIDE DEF r, k
<1>6. /\ payrollLock' \in [PayrollKeys -> Runs \cup {Null}] /\ payrollLock'[k] = t
      /\ \A j \in PayrollKeys : j # k => payrollLock'[j] = payrollLock[j]
  BY <1>1, <1>4, <1>5, RunAtWork
<1>7. \A d \in Subjects : d \in r.done \/ (r.op = "insert" /\ r.emp = d) =>
          \/ d \in r.fresh
          \/ payrollLock'[<<d, r.period>>] = t /\ payroll[<<d, r.period>>].st = "draft"
  <2> SUFFICES ASSUME NEW d \in Subjects, d \in r.done \/ (r.op = "insert" /\ r.emp = d),
                      d \notin r.fresh
               PROVE  payrollLock'[<<d, r.period>>] = t /\ payroll[<<d, r.period>>].st = "draft"
    OBVIOUS
  <2>1. CASE d = e
    BY <2>1, <1>4, <1>5, <1>6
  <2>2. CASE d # e
    <3>1. <<d, r.period>> \in PayrollKeys /\ <<d, r.period>> # k
      BY <2>2, <1>1, <1>3, <1>4, RunAtWork DEF PayrollKeys
    <3>2. payrollLock[<<d, r.period>>] = t /\ payroll[<<d, r.period>>].st = "draft"
      BY <2>2, <1>1, <1>3, RunAtWork
    <3>3. QED
      BY <3>1, <3>2, <1>6
  <2>3. QED
    BY <2>1, <2>2
<1>8. RunMayBecome(t, r)
  BY <1>1, <1>3, <1>4, <1>5, <1>6, <1>7, RunAtWork DEF RunMayBecome
<1>q. QED
  BY <1>8, RunStepKeeps

\* A run finds no record and lists the loans of the employee.
LEMMA FindNoRecordKeeps ==
    ASSUME PayrollInvariant, NEW t \in Runs, NEW e \in Subjects, FindNoRecord(t, e)
    PROVE  PayrollInvariant'
<1> DEFINE r == [payRun[t] EXCEPT !.op = "loans", !.emp = e,
                                  !.fresh = @ \cup {e}, !.wanted = Owing(e)]
<1>1. payRun[t].op # "idle"
  BY DEF FindNoRecord
<1>2. payRun[t] \in PayRun /\ Owing(e) \in SUBSET Loans
  BY <1>1, RunAtWork DEF Owing
<1>3. /\ r \in PayRun /\ r.op = "loans" /\ r.emp = e /\ r.period = payRun[t].period
      /\ r.owed = payRun[t].owed /\ r.done = payRun[t].done
      /\ r.fresh = payRun[t].fresh \cup {e}
  BY <1>2 DEF PayRun
<1>4. /\ payRun' = [payRun EXCEPT ![t] = r]
      /\ UNCHANGED <<payroll, loan, payment, profile, payrollLock, loanLock, waived, settled>>
  BY <1>1, RunsAreTyped DEF FindNoRecord
<1> HIDE DEF r
<1>5. \A d \in Subjects : d \in r.done \/ (r.op = "insert" /\ r.emp = d) =>
          \/ d \in r.fresh
          \/ payrollLock'[<<d, r.period>>] = t /\ payroll[<<d, r.period>>].st = "draft"
  BY <1>1, <1>3, <1>4, RunAtWork
<1>6. RunMayBecome(t, r)
  BY <1>1, <1>3, <1>4, <1>5, RunAtWork DEF RunMayBecome
<1>q. QED
  BY <1>6, RunStepKeeps

\* A run locks a loan and plans its instalment.
LEMMA LockLoanKeeps ==
    ASSUME PayrollInvariant, NEW t \in Runs, NEW l \in Loans, LockLoan(t, l)
    PROVE  PayrollInvariant'
<1> DEFINE d == Instalment(l, payRun[t].emp)
           r == [payRun[t] EXCEPT !.wanted = @ \ {l}, !.owed[l] = d]
<1>1. payRun[t].op = "loans"
  BY DEF LockLoan
<1>2. payRun[t] \in PayRun
  BY <1>1, RunAtWork
<1>3. d \in Nat /\ (d # 0 => loan[l].st = "active" /\ d <= loan[l].balance)
  <2>1. loan[l] \in LoanRow
    BY DEF PayrollInvariant, PayrollTypeOK
  <2>2. CASE l \notin Owing(payRun[t].emp)
    BY <2>2 DEF Instalment
  <2>3. CASE l \in Owing(payRun[t].emp)
    <3>1. loan[l].st = "active" /\ loan[l].balance \in Nat /\ loan[l].terms # Null
      BY <2>1, <2>3 DEF Owing, LoanRow, PayrollInvariant, PayrollTypeOK
    <3>2. loan[l].terms.repayment \in Nat
      BY <2>1, <3>1, PayrollAssumption DEF LoanRow
    <3>3. QED
      BY <2>3, <3>1, <3>2 DEF Instalment
  <2>4. QED
    BY <2>2, <2>3
<1>4. /\ payRun' = [payRun EXCEPT ![t] = r]
      /\ UNCHANGED <<payroll, loan, payment, profile, payrollLock, waived, settled>>
      /\ loanLock[l] = Null /\ loanLock' = [loanLock EXCEPT ![l] = t]
  BY <1>1, RunsAreTyped DEF LockLoan
<1> HIDE DEF d
<1>5. /\ r \in PayRun /\ r.op = "loans" /\ r.emp = payRun[t].emp /\ r.period = payRun[t].period
      /\ r.owed[l] = d /\ (\A m \in Loans : m # l => r.owed[m] = payRun[t].owed[m])
      /\ r.done = payRun[t].done /\ r.fresh = payRun[t].fresh
  BY <1>2, <1>1, <1>3 DEF PayRun
<1> HIDE DEF r
<1>6. /\ loanLock' \in [Loans -> Runs \cup {Null}] /\ loanLock'[l] = t
      /\ \A m \in Loans : m # l => loanLock'[m] = loanLock[m]
  BY <1>1, <1>4, RunAtWork
<1>7. \A m \in Loans : r.owed[m] # 0 =>
          loanLock'[m] = t /\ loan[m].st = "active" /\ r.owed[m] <= loan[m].balance
  <2> SUFFICES ASSUME NEW m \in Loans, r.owed[m] # 0
               PROVE  loanLock'[m] = t /\ loan[m].st = "active" /\ r.owed[m] <= loan[m].balance
    OBVIOUS
  <2>1. CASE m = l
    BY <2>1, <1>3, <1>5, <1>6
  <2>2. CASE m # l
    BY <2>2, <1>1, <1>5, <1>6, RunAtWork
  <2>3. QED
    BY <2>1, <2>2
<1>8. r.emp \in Subjects /\ r.emp \in r.fresh
  BY <1>1, <1>5 DEF PayrollInvariant, RunsAreWhole
<1>9. \A e \in Subjects : e \in r.done \/ (r.op = "insert" /\ r.emp = e) =>
          \/ e \in r.fresh
          \/ payrollLock'[<<e, r.period>>] = t /\ payroll[<<e, r.period>>].st = "draft"
  BY <1>1, <1>4, <1>5, RunAtWork
<1>10. RunMayBecome(t, r)
  BY <1>1, <1>4, <1>5, <1>6, <1>7, <1>8, <1>9, RunAtWork DEF RunMayBecome
<1>q. QED
  BY <1>10, RunStepKeeps

\* A run has locked every loan it lists.
LEMMA LoansLockedKeeps ==
    ASSUME PayrollInvariant, NEW t \in Runs, LoansLocked(t)
    PROVE  PayrollInvariant'
<1> DEFINE r == [payRun[t] EXCEPT !.op = "insert"]
<1>1. payRun[t].op = "loans"
  BY DEF LoansLocked
<1>2. payRun[t] \in PayRun
  BY <1>1, RunAtWork
<1>3. /\ r \in PayRun /\ r.op = "insert" /\ r.emp = payRun[t].emp /\ r.period = payRun[t].period
      /\ r.owed = payRun[t].owed /\ r.done = payRun[t].done /\ r.fresh = payRun[t].fresh
  BY <1>2 DEF PayRun
<1>4. /\ payRun' = [payRun EXCEPT ![t] = r]
      /\ UNCHANGED <<payroll, loan, payment, profile, payrollLock, loanLock, waived, settled>>
  BY <1>1, RunsAreTyped DEF LoansLocked
<1> HIDE DEF r
<1>5. r.emp \in Subjects /\ r.emp \in r.fresh
  BY <1>1, <1>3 DEF PayrollInvariant, RunsAreWhole
<1>6. \A e \in Subjects : e \in r.done \/ (r.op = "insert" /\ r.emp = e) =>
          \/ e \in r.fresh
          \/ payrollLock'[<<e, r.period>>] = t /\ payroll[<<e, r.period>>].st = "draft"
  BY <1>1, <1>3, <1>4, <1>5, RunAtWork
<1>7. RunMayBecome(t, r)
  BY <1>1, <1>3, <1>4, <1>5, <1>6, RunAtWork DEF RunMayBecome
<1>q. QED
  BY <1>7, RunStepKeeps

\* A run plans the record of an employee under its key.
LEMMA UpsertPayrollKeeps ==
    ASSUME PayrollInvariant, NEW t \in Runs, UpsertPayroll(t)
    PROVE  PayrollInvariant'
<1> DEFINE e == payRun[t].emp
           k == <<e, payRun[t].period>>
           r == [payRun[t] EXCEPT !.op = "next", !.emp = Null,
                                  !.todo = @ \ {e}, !.done = @ \cup {e}]
<1>1. payRun[t].op = "insert"
  BY DEF UpsertPayroll
<1>2. payRun[t] \in PayRun /\ e \in Subjects
  BY <1>1, RunAtWork DEF PayrollInvariant, RunsAreWhole
<1>3. k \in PayrollKeys /\ k[1] = e /\ k[2] = payRun[t].period
  BY <1>1, <1>2, RunAtWork DEF PayrollKeys
<1>4. /\ payRun' = [payRun EXCEPT ![t] = r]
      /\ UNCHANGED <<payroll, loan, payment, profile, loanLock, waived, settled>>
      /\ payrollLock[k] \in {Null, t} /\ payrollLock' = [payrollLock EXCEPT ![k] = t]
  BY <1>1, <1>3, RunsAreTyped DEF UpsertPayroll
<1> HIDE DEF e, k
<1>5. /\ r \in PayRun /\ r.op = "next" /\ r.period = payRun[t].period
      /\ r.owed = payRun[t].owed /\ r.done = payRun[t].done \cup {e}
      /\ r.fresh = payRun[t].fresh
  BY <1>2 DEF PayRun
<1> HIDE DEF r
<1>6. /\ payrollLock' \in [PayrollKeys -> Runs \cup {Null}] /\ payrollLock'[k] = t
      /\ \A j \in PayrollKeys : j # k => payrollLock'[j] = payrollLock[j]
  BY <1>1, <1>3, <1>4, RunAtWork
<1>7. \A d \in Subjects : d \in r.done \/ (r.op = "insert" /\ r.emp = d) =>
          \/ d \in r.fresh
          \/ payrollLock'[<<d, r.period>>] = t /\ payroll[<<d, r.period>>].st = "draft"
  <2> SUFFICES ASSUME NEW d \in Subjects, d \in r.done, d \notin r.fresh
               PROVE  payrollLock'[<<d, r.period>>] = t /\ payroll[<<d, r.period>>].st = "draft"
    BY <1>5
  <2>1. payrollLock[<<d, r.period>>] = t /\ payroll[<<d, r.period>>].st = "draft"
    BY <1>1, <1>5, RunAtWork DEF e
  <2>2. <<d, r.period>> \in PayrollKeys
    BY <1>1, <1>5, RunAtWork DEF PayrollKeys
  <2>3. QED
    BY <2>1, <2>2, <1>6
<1>8. RunMayBecome(t, r)
  BY <1>1, <1>3, <1>4, <1>5, <1>6, <1>7, RunAtWork DEF RunMayBecome
<1>q. QED
  BY <1>8, RunStepKeeps

\* A run that ends frees what it holds; what the others hold is as it was but
\* for records that became drafts.
LEMMA EndingRunKeeps ==
    ASSUME PayrollInvariant, NEW t \in Runs, FreePayRun(t),
           payroll' \in [PayrollKeys -> PayrollRow],
           \A k \in PayrollKeys : payroll'[k].st = payroll[k].st \/ payroll'[k].st = "draft",
           \A l \in Loans : loanLock[l] # t => loan'[l] = loan[l],
           loan' \in [Loans -> LoanRow],
           \A l \in Loans : loan'[l].st = "none" <=> loan'[l].terms = Null,
           payment' \in [Loans \X Periods -> Nat],
           UNCHANGED <<profile, waived, settled>>
    PROVE  PayrollTypeOK' /\ RunsAreWhole' /\ PlansAreLocked' /\ DraftsAreLocked'
<1> USE PayrollAssumption
<1>1. PayrollTypeOK
  BY DEF PayrollInvariant
<1>2. NoPayrollRun \in PayRun
  BY DEF NoPayrollRun, PayRun
<1>3. /\ payRun' \in [Runs -> PayRun] /\ payRun'[t] = NoPayrollRun
      /\ \A u \in Runs : u # t => payRun'[u] = payRun[u]
  BY <1>1, <1>2 DEF FreePayRun, PayrollTypeOK
<1>4. /\ payrollLock' \in [PayrollKeys -> Runs \cup {Null}]
      /\ \A k \in PayrollKeys : payrollLock'[k] = IF payrollLock[k] = t THEN Null ELSE payrollLock[k]
  BY <1>1 DEF FreePayRun, PayrollTypeOK
<1>5. /\ loanLock' \in [Loans -> Runs \cup {Null}]
      /\ \A l \in Loans : loanLock'[l] = IF loanLock[l] = t THEN Null ELSE loanLock[l]
  BY <1>1 DEF FreePayRun, PayrollTypeOK
<1>6. \A k \in PayrollKeys : payrollLock'[k] # Null => payRun'[payrollLock'[k]].period = k[2]
  BY <1>1, <1>3, <1>4 DEF PayrollTypeOK
<1>7. \A l \in Loans : loanLock'[l] # Null => payRun'[loanLock'[l]].op # "idle"
  BY <1>1, <1>3, <1>5 DEF PayrollTypeOK
<1>8. PayrollTypeOK'
  BY <1>1, <1>3, <1>4, <1>5, <1>6, <1>7 DEF PayrollTypeOK
<1>9. RunsAreWhole'
  BY <1>3 DEF PayrollInvariant, RunsAreWhole, NoPayrollRun
<1>10. \A u \in Runs, l \in Loans : payRun'[u].owed[l] # 0 => u # t
  BY <1>3 DEF NoPayrollRun
<1>11. PlansAreLocked'
  <2> SUFFICES ASSUME NEW u \in Runs, NEW l \in Loans, payRun'[u].owed[l] # 0
               PROVE  /\ loanLock'[l] = u
                      /\ loan'[l].st = "active"
                      /\ payRun'[u].owed[l] <= loan'[l].balance
    BY DEF PlansAreLocked
  <2>1. u # t /\ payRun'[u] = payRun[u]
    BY <1>3, <1>10
  <2>2. /\ loanLock[l] = u /\ loan[l].st = "active"
        /\ payRun[u].owed[l] <= loan[l].balance
    BY <2>1 DEF PayrollInvariant, PlansAreLocked
  <2>3. loan'[l] = loan[l] /\ loanLock'[l] = u
    BY <1>5, <2>1, <2>2
  <2>4. QED
    BY <2>1, <2>2, <2>3
<1>12. DraftsAreLocked'
  <2> SUFFICES ASSUME NEW u \in Runs, NEW e \in Subjects,
                      e \in payRun'[u].done \/ (payRun'[u].op = "insert" /\ payRun'[u].emp = e)
               PROVE  \/ e \in payRun'[u].fresh
                      \/ /\ payrollLock'[<<e, payRun'[u].period>>] = u
                         /\ payroll'[<<e, payRun'[u].period>>].st = "draft"
    BY DEF DraftsAreLocked
  <2>1. u # t /\ payRun'[u] = payRun[u]
    BY <1>3 DEF NoPayrollRun
  <2>2. payRun[u].period \in Periods
    BY <2>1 DEF PayrollInvariant, RunsAreWhole, NoPayrollRun
  <2>3. <<e, payRun[u].period>> \in PayrollKeys
    BY <2>2 DEF PayrollKeys
  <2>4. \/ e \in payRun[u].fresh
        \/ /\ payrollLock[<<e, payRun[u].period>>] = u
           /\ payroll[<<e, payRun[u].period>>].st = "draft"
    BY <2>1 DEF PayrollInvariant, DraftsAreLocked
  <2>5. QED
    BY <2>1, <2>3, <2>4, <1>4
<1>13. QED
  BY <1>8, <1>9, <1>11, <1>12

\* A run is refused, releases its locks and writes nothing.
LEMMA RollBackPayrollKeeps ==
    ASSUME PayrollInvariant, NEW t \in Runs, RollBackPayroll(t)
    PROVE  PayrollInvariant'
<1>1. FreePayRun(t) /\ UNCHANGED <<payroll, loan, payment, profile, waived, settled>>
  BY DEF RollBackPayroll
<1>2. PayrollTypeOK' /\ RunsAreWhole' /\ PlansAreLocked' /\ DraftsAreLocked'
  BY <1>1, EndingRunKeeps DEF PayrollInvariant, PayrollTypeOK
<1>3. QED
  BY <1>1, <1>2, BooksAreLeft DEF PayrollInvariant

\* What a record deducts is a number.
LEMMA DueIsNat ==
    ASSUME PayrollInvariant, NEW owed \in [Loans -> Nat], NEW e
    PROVE  DueOf(owed, e) \in Nat
<1> DEFINE S == {l \in Loans : loan[l].terms # Null /\ loan[l].terms.emp = e}
<1>1. IsFiniteSet(S)
  BY FS_Subset, PayrollAssumption
<1>2. \A l \in S : owed[l] \in Nat
  OBVIOUS
<1> HIDE DEF S
<1>3. Total(owed, S) \in Nat
  BY <1>1, <1>2, TotalIsNat
<1>4. QED
  BY <1>3 DEF DueOf, S

\* A run writes its records, payments and balances at once.
LEMMA CommitPayrollKeeps ==
    ASSUME PayrollInvariant, NEW t \in Runs, CommitPayroll(t)
    PROVE  PayrollInvariant'
<1> DEFINE r == payRun[t]
<1>1. r.op # "idle" /\ r \in PayRun /\ r.period \in Periods /\ r.owed \in [Loans -> Nat]
  BY RunAtWork DEF CommitPayroll, PayRun
<1>2. PayrollTypeOK
  BY DEF PayrollInvariant
<1>3. /\ payroll' = [k \in PayrollKeys |-> IF k[2] = r.period /\ k[1] \in r.done
                        THEN [st |-> "draft", deducted |-> DueOf(r.owed, k[1])] ELSE payroll[k]]
      /\ payment' = [p \in Loans \X Periods |->
                        IF p[2] = r.period THEN payment[p] + r.owed[p[1]] ELSE payment[p]]
      /\ loan' = [l \in Loans |-> IF r.owed[l] = 0 THEN loan[l]
            ELSE [loan[l] EXCEPT !.balance = Less(@, r.owed[l]),
                     !.st = IF Less(loan[l].balance, r.owed[l]) = 0 THEN "paid" ELSE @]]
      /\ FreePayRun(t) /\ UNCHANGED <<profile, waived, settled>>
  BY DEF CommitPayroll
<1>4. \A l \in Loans : r.owed[l] # 0 =>
          loanLock[l] = t /\ loan[l].st = "active" /\ r.owed[l] <= loan[l].balance
  BY <1>1, RunAtWork
<1> HIDE DEF r
<1>5. /\ payroll' \in [PayrollKeys -> PayrollRow]
      /\ \A k \in PayrollKeys : payroll'[k].st = payroll[k].st \/ payroll'[k].st = "draft"
  <2>1. \A k \in PayrollKeys : [st |-> "draft", deducted |-> DueOf(r.owed, k[1])] \in PayrollRow
    BY <1>1, DueIsNat DEF PayrollRow
  <2>2. QED
    BY <1>2, <1>3, <2>1 DEF PayrollTypeOK
<1>6. /\ payment' \in [Loans \X Periods -> Nat]
      /\ \A l \in Loans, p \in Periods : payment'[<<l, p>>] =
            IF p = r.period THEN payment[<<l, p>>] + r.owed[l] ELSE payment[<<l, p>>]
  <2>1. \A q \in Loans \X Periods :
            /\ q[1] \in Loans /\ payment[q] \in Nat /\ r.owed[q[1]] \in Nat
            /\ payment'[q] = IF q[2] = r.period THEN payment[q] + r.owed[q[1]] ELSE payment[q]
    BY <1>1, <1>2, <1>3 DEF PayrollTypeOK
  <2>2. \A q \in Loans \X Periods : payment'[q] \in Nat
    BY <2>1
  <2>3. payment' = [q \in Loans \X Periods |-> payment'[q]]
    BY <1>3
  <2>4. payment' \in [Loans \X Periods -> Nat]
    BY <2>2, <2>3
  <2>5. QED
    BY <2>1, <2>4
<1>7. \A l \in Loans :
          /\ loan'[l] \in LoanRow /\ loan'[l].terms = loan[l].terms
          /\ loan'[l].balance = loan[l].balance - r.owed[l]
          /\ loan'[l].st = "none" <=> loan[l].st = "none"
          /\ r.owed[l] = 0 => loan'[l] = loan[l]
  <2> SUFFICES ASSUME NEW l \in Loans
               PROVE  /\ loan'[l] \in LoanRow /\ loan'[l].terms = loan[l].terms
                      /\ loan'[l].balance = loan[l].balance - r.owed[l]
                      /\ loan'[l].st = "none" <=> loan[l].st = "none"
                      /\ r.owed[l] = 0 => loan'[l] = loan[l]
    OBVIOUS
  <2>1. loan[l] \in LoanRow /\ loan[l].balance \in Nat /\ r.owed[l] \in Nat
    BY <1>1, <1>2 DEF PayrollTypeOK, LoanRow
  <2>2. CASE r.owed[l] = 0
    <3>1. loan'[l] = loan[l]
      BY <2>2, <1>3
    <3>2. loan[l].balance = loan[l].balance - r.owed[l]
      BY ONLY <2>1, <2>2
    <3>3. QED
      BY <2>1, <3>1, <3>2
  <2>3. CASE r.owed[l] # 0
    <3> DEFINE left == loan[l].balance - r.owed[l]
               n == IF left = 0 THEN "paid" ELSE loan[l].st
    <3>1. left \in Nat /\ Less(loan[l].balance, r.owed[l]) = left
      BY <2>1, <2>3, <1>4 DEF Less
    <3>2. n \in {"active", "paid"} /\ loan[l].st = "active"
      BY <2>3, <1>4
    <3>3. loan'[l] = [loan[l] EXCEPT !.balance = left, !.st = n]
      BY <2>3, <1>3, <3>1
    <3> HIDE DEF left, n
    <3>4. /\ loan'[l] \in LoanRow /\ loan'[l].terms = loan[l].terms
          /\ loan'[l].balance = left /\ loan'[l].st = n
      BY <2>1, <3>1, <3>2, <3>3 DEF LoanRow
    <3>5. QED
      BY <2>3, <3>2, <3>4 DEF left
  <2>4. QED
    BY <2>2, <2>3
<1>8. loan' \in [Loans -> LoanRow] /\ \A l \in Loans : loan'[l].st = "none" <=> loan'[l].terms = Null
  <2>1. loan' = [l \in Loans |-> loan'[l]]
    BY <1>3
  <2>2. QED
    BY <1>2, <1>7, <2>1 DEF PayrollTypeOK
<1>9. PayrollTypeOK' /\ RunsAreWhole' /\ PlansAreLocked' /\ DraftsAreLocked'
  <2>1. \A l \in Loans : loanLock[l] # t => loan'[l] = loan[l]
    BY <1>4, <1>7
  <2>2. QED
    BY <1>3, <1>5, <1>6, <1>8, <2>1, EndingRunKeeps
<1>10. UnissuedIsEmpty'
  <2> SUFFICES ASSUME NEW l \in Loans, loan'[l].st = "none"
               PROVE  /\ loan'[l].balance = 0 /\ waived'[l] = 0
                      /\ \A p \in Periods : payment'[<<l, p>>] = 0
    BY DEF UnissuedIsEmpty
  <2>1. r.owed[l] = 0 /\ loan'[l] = loan[l]
    BY <1>4, <1>7
  <2>2. \A p \in Periods : payment'[<<l, p>>] = payment[<<l, p>>]
    BY <2>1, <1>2, <1>6 DEF PayrollTypeOK
  <2>3. QED
    BY <2>1, <2>2, <1>3 DEF PayrollInvariant, UnissuedIsEmpty
<1>11. LoanBooksBalance'
  <2> SUFFICES ASSUME NEW l \in Loans, loan'[l].st # "none"
               PROVE  loan'[l].terms.principal = loan'[l].balance + waived'[l]
                         + Total([p \in Periods |-> payment'[<<l, p>>]], Periods)
    BY DEF LoanBooksBalance
  <2> DEFINE f == [p \in Periods |-> payment[<<l, p>>]]
             g == [p \in Periods |-> payment'[<<l, p>>]]
             d == r.owed[l]
  <2>1. d \in Nat /\ \A p \in Periods : f[p] \in Nat
    BY <1>1, <1>2 DEF PayrollTypeOK
  <2>2. \A p \in Periods : g[p] = IF p = r.period THEN f[p] + d ELSE f[p]
    BY <1>6
  <2>3. loan[l].terms.principal = loan[l].balance + waived[l] + Total(f, Periods)
    BY <1>7 DEF PayrollInvariant, LoanBooksBalance
  <2>4. loan[l].balance \in Nat /\ waived[l] \in Nat
    BY <1>2, SMTT(30) DEF PayrollTypeOK, LoanRow
  <2>5. /\ loan'[l].terms = loan[l].terms /\ waived'[l] = waived[l]
        /\ loan'[l].balance = loan[l].balance - d
    BY <1>3, <1>7
  <2> HIDE DEF f, g, d
  <2>6. Total(g, Periods) = Total(f, Periods) + d /\ Total(f, Periods) \in Nat
    <3>1. IsFiniteSet(Periods)
      BY PayrollAssumption
    <3>2. Total(f, Periods) \in Nat
      BY ONLY <3>1, <2>1, TotalIsNat
    <3>3. Total(g, Periods) = Total(f, Periods) + d
      BY ONLY <3>1, <1>1, <2>1, <2>2, TotalGains
    <3>4. QED
      BY <3>2, <3>3
  <2>7. loan'[l].terms.principal = loan'[l].balance + waived'[l] + Total(g, Periods)
    BY <2>1, <2>3, <2>4, <2>5, <2>6
  <2>8. QED
    BY <2>7 DEF g
<1>12. QED
  BY <1>9, <1>10, <1>11 DEF PayrollInvariant

\* Loans issued and settled by hand, while no run has planned on them.
LEMMA LoanByHandKeeps ==
    ASSUME PayrollInvariant, NEW l \in Loans, NEW x \in LoanRow,
           loan' = [loan EXCEPT ![l] = x], x.terms # Null, x.st # "none",
           waived' \in [Loans -> Nat], \A m \in Loans : m # l => waived'[m] = waived[m],
           settled' \in 0..MaxSettled,
           UNCHANGED <<payroll, payment, profile, payRun, payrollLock, loanLock>>,
           loan[l].st # "active" \/ loanLock[l] = Null,
           x.terms.principal = x.balance + waived'[l]
              + Total([p \in Periods |-> payment[<<l, p>>]], Periods)
    PROVE  PayrollInvariant'
<1> USE PayrollAssumption
<1>1. PayrollTypeOK
  BY DEF PayrollInvariant
<1>2. /\ loan' \in [Loans -> LoanRow] /\ loan'[l] = x
      /\ \A m \in Loans : m # l => loan'[m] = loan[m]
  BY <1>1 DEF PayrollTypeOK
<1>3. PayrollTypeOK'
  <2>1. \A m \in Loans : loan'[m].st = "none" <=> loan'[m].terms = Null
    BY <1>1, <1>2 DEF PayrollTypeOK
  <2>2. QED
    BY <1>1, <1>2, <2>1 DEF PayrollTypeOK
<1>4. RunsAreWhole' /\ DraftsAreLocked'
  BY DEF PayrollInvariant, RunsAreWhole, DraftsAreLocked
<1>5. PlansAreLocked'
  <2>1. \A t \in Runs, m \in Loans : payRun[t].owed[m] # 0 => m # l
    BY DEF PayrollInvariant, PlansAreLocked
  <2>2. QED
    BY <2>1, <1>2 DEF PayrollInvariant, PlansAreLocked
<1>6. UnissuedIsEmpty'
  BY <1>2 DEF PayrollInvariant, UnissuedIsEmpty
<1>7. LoanBooksBalance'
  <2> SUFFICES ASSUME NEW m \in Loans, loan'[m].st # "none"
               PROVE  loan'[m].terms.principal = loan'[m].balance + waived'[m]
                         + Total([p \in Periods |-> payment[<<m, p>>]], Periods)
    BY DEF LoanBooksBalance
  <2>1. CASE m = l
    BY <2>1, <1>2
  <2>2. CASE m # l
    BY <2>2, <1>2 DEF PayrollInvariant, LoanBooksBalance
  <2>3. QED
    BY <2>1, <2>2
<1>8. QED
  BY <1>3, <1>4, <1>5, <1>6, <1>7 DEF PayrollInvariant

\* A loan is issued with its principal as its balance.
LEMMA IssueLoanKeeps ==
    ASSUME PayrollInvariant, NEW l \in Loans, NEW x \in LoanTerms, IssueLoan(l, x)
    PROVE  PayrollInvariant'
<1> DEFINE y == [st |-> "active", terms |-> x, balance |-> x.principal]
           f == [p \in Periods |-> payment[<<l, p>>]]
<1>1. x.principal \in Nat /\ x # Null
  BY PayrollAssumption
<1>2. y \in LoanRow /\ y.st = "active" /\ y.terms = x /\ y.balance = x.principal
  BY <1>1 DEF LoanRow
<1>3. /\ loan[l].st = "none" /\ loan' = [loan EXCEPT ![l] = y]
      /\ UNCHANGED <<payroll, payment, profile, payRun, payrollLock, loanLock, waived, settled>>
  BY DEF IssueLoan
<1>4. waived[l] = 0 /\ \A p \in Periods : f[p] = 0
  BY <1>3 DEF PayrollInvariant, UnissuedIsEmpty
<1> HIDE DEF y, f
<1>5. Total(f, Periods) = 0
  BY <1>4, TotalOfNothing, PayrollAssumption
<1>6. waived' \in [Loans -> Nat] /\ settled' \in 0..MaxSettled
  BY <1>3 DEF PayrollInvariant, PayrollTypeOK
<1>7. y.terms.principal = y.balance + waived'[l] + Total(f, Periods)
  BY <1>1, <1>2, <1>3, <1>4, <1>5
<1>8. y.terms.principal = y.balance + waived'[l]
         + Total([p \in Periods |-> payment[<<l, p>>]], Periods)
  BY <1>7 DEF f
<1>9. QED
  BY <1>1, <1>2, <1>3, <1>6, <1>8, LoanByHandKeeps

\* The status of a loan is set by hand.
LEMMA SetLoanStatusKeeps ==
    ASSUME PayrollInvariant, NEW l \in Loans, NEW s \in {"active", "paid", "cancelled"},
           SetLoanStatus(l, s)
    PROVE  PayrollInvariant'
<1> DEFINE b == IF s = "paid" THEN 0 ELSE loan[l].balance
           w == IF s = "paid" THEN waived[l] + loan[l].balance ELSE waived[l]
           x == [loan[l] EXCEPT !.st = s, !.balance = b]
           T == Total([p \in Periods |-> payment[<<l, p>>]], Periods)
<1>1. PayrollTypeOK
  BY DEF PayrollInvariant
<1>2. loan[l] \in LoanRow /\ loan[l].balance \in Nat /\ waived[l] \in Nat
  BY <1>1 DEF PayrollTypeOK, LoanRow
<1>3. loan[l].st # "none" /\ loan[l].terms # Null /\ loanLock[l] = Null
  BY <1>1 DEF SetLoanStatus, PayrollTypeOK
<1>4. b \in Nat /\ w \in Nat /\ b + w = loan[l].balance + waived[l]
  BY <1>2
<1>5. loan[l].terms.principal = loan[l].balance + waived[l] + T
  BY <1>3 DEF PayrollInvariant, LoanBooksBalance
<1>6. T \in Nat
  <2> DEFINE f == [p \in Periods |-> payment[<<l, p>>]]
  <2>1. \A p \in Periods : f[p] \in Nat
    BY <1>1 DEF PayrollTypeOK
  <2> HIDE DEF f
  <2>2. Total(f, Periods) \in Nat
    BY <2>1, TotalIsNat, PayrollAssumption
  <2>3. QED
    BY <2>2 DEF f
<1>7. /\ loan' = [loan EXCEPT ![l] = x]
      /\ waived' = [waived EXCEPT ![l] = w]
      /\ settled < MaxSettled /\ settled' = settled + 1
      /\ UNCHANGED <<payroll, payment, profile, payRun, payrollLock, loanLock>>
  BY <1>1 DEF SetLoanStatus, PayrollTypeOK
<1> HIDE DEF b, w
<1>8. x \in LoanRow /\ x.st = s /\ x.terms = loan[l].terms /\ x.balance = b
  BY <1>2, <1>4 DEF LoanRow
<1> HIDE DEF x
<1>9. /\ waived' \in [Loans -> Nat] /\ waived'[l] = w
      /\ \A m \in Loans : m # l => waived'[m] = waived[m]
  BY <1>1, <1>4, <1>7 DEF PayrollTypeOK
<1>10. settled' \in 0..MaxSettled
  BY <1>1, <1>7, PayrollAssumption DEF PayrollTypeOK
<1> HIDE DEF T
<1>11. x.terms.principal = x.balance + waived'[l] + T
  BY <1>2, <1>4, <1>5, <1>6, <1>8, <1>9
<1>12. QED
  BY <1>3, <1>7, <1>8, <1>9, <1>10, <1>11, LoanByHandKeeps DEF T

\* The other handlers: salaries, and records no run has locked.
LEMMA RowByHandKeeps ==
    ASSUME PayrollInvariant,
           \/ \E e \in Subjects, p \in Periods : SaveSalary(e, p)
           \/ \E k \in PayrollKeys, s \in Finalized : SetPayrollStatus(k, s)
    PROVE  PayrollInvariant'
<1> USE PayrollAssumption
<1>1. PayrollTypeOK
  BY DEF PayrollInvariant
<1>2. ASSUME NEW e \in Subjects, NEW p \in Periods, SaveSalary(e, p) PROVE PayrollInvariant'
  <2>1. UNCHANGED <<payroll, loan, payment, payRun, payrollLock, loanLock, waived>>
    BY <1>2 DEF SaveSalary
  <2>2. profile' \in [Subjects -> Periods \cup {Null}] /\ settled' \in 0..MaxSettled
    BY <1>1, <1>2 DEF SaveSalary, PayrollTypeOK
  <2>3. PayrollTypeOK'
    BY <1>1, <2>1, <2>2 DEF PayrollTypeOK
  <2>4. RunsAreWhole' /\ PlansAreLocked' /\ DraftsAreLocked'
    BY <2>1 DEF PayrollInvariant, RunsAreWhole, PlansAreLocked, DraftsAreLocked
  <2>5. QED
    BY <2>1, <2>3, <2>4, BooksAreLeft DEF PayrollInvariant
<1>3. ASSUME NEW k \in PayrollKeys, NEW s \in Finalized, SetPayrollStatus(k, s)
      PROVE  PayrollInvariant'
  <2>1. /\ UNCHANGED <<loan, payment, profile, payRun, payrollLock, loanLock, waived, settled>>
        /\ payrollLock[k] = Null
    BY <1>3 DEF SetPayrollStatus
  <2>2. /\ payroll' \in [PayrollKeys -> PayrollRow]
        /\ \A j \in PayrollKeys : j # k => payroll'[j] = payroll[j]
    BY <1>1, <1>3 DEF SetPayrollStatus, PayrollTypeOK, PayrollRow
  <2>3. PayrollTypeOK'
    BY <1>1, <2>1, <2>2 DEF PayrollTypeOK
  <2>4. DraftsAreLocked'
    <3> SUFFICES ASSUME NEW u \in Runs, NEW e \in Subjects,
                        e \in payRun[u].done \/ (payRun[u].op = "insert" /\ payRun[u].emp = e)
                 PROVE  \/ e \in payRun[u].fresh
                        \/ /\ payrollLock[<<e, payRun[u].period>>] = u
                           /\ payroll'[<<e, payRun[u].period>>].st = "draft"
      BY <2>1 DEF DraftsAreLocked
    <3>1. payRun[u].period \in Periods
      BY DEF PayrollInvariant, RunsAreWhole, NoPayrollRun
    <3>2. <<e, payRun[u].period>> \in PayrollKeys
      BY <3>1 DEF PayrollKeys
    <3>3. \/ e \in payRun[u].fresh
          \/ /\ payrollLock[<<e, payRun[u].period>>] = u
             /\ payroll[<<e, payRun[u].period>>].st = "draft"
      BY DEF PayrollInvariant, DraftsAreLocked
    <3>4. QED
      BY <2>1, <2>2, <3>2, <3>3
  <2>5. RunsAreWhole' /\ PlansAreLocked'
    BY <2>1 DEF PayrollInvariant, RunsAreWhole, PlansAreLocked
  <2>6. QED
    BY <2>1, <2>3, <2>4, <2>5, BooksAreLeft DEF PayrollInvariant
<1>4. QED
  BY <1>2, <1>3

\* Every step keeps the inductive invariant.
LEMMA PayrollStepKeeps ==
    ASSUME PayrollInvariant, [PayrollNext]_payrollVars PROVE PayrollInvariant'
<1>1. CASE UNCHANGED payrollVars
  BY <1>1 DEF payrollVars, PayrollInvariant, PayrollTypeOK, LoanBooksBalance, RunsAreWhole,
              PlansAreLocked, DraftsAreLocked, UnissuedIsEmpty
<1>2. CASE PayrollNext
  BY <1>2, IssueLoanKeeps, SetLoanStatusKeeps, RowByHandKeeps, BeginPayrollKeeps,
     FindDraftKeeps, FindNoRecordKeeps, LockLoanKeeps, LoansLockedKeeps, UpsertPayrollKeeps,
     CommitPayrollKeeps, RollBackPayrollKeeps DEF PayrollNext
<1>3. QED
  BY <1>1, <1>2

\* The inductive invariant holds throughout.
THEOREM PayrollInvariance == PayrollSpec => []PayrollInvariant
BY PayrollInitEstablishes, PayrollStepKeeps, PTL DEF PayrollSpec

\* However payroll runs overlap with each other and with loans settled by
\* hand, the books of every loan balance: no instalment is taken from a
\* balance that another run has used.
THEOREM LoanBooksAlwaysBalance == PayrollSpec => []LoanBooksBalance
<1>1. PayrollInvariant => LoanBooksBalance
  BY DEF PayrollInvariant
<1>2. QED
  BY <1>1, PayrollInvariance, PTL

\* A re-run turns no decided record back into a draft; a run that does found
\* no record when it looked.
LEMMA RerunStep ==
    ASSUME PayrollInvariant, [PayrollNext]_payrollVars
    PROVE  \A k \in PayrollKeys :
              (payroll[k].st \in Finalized /\ payroll'[k].st = "draft") =>
                 \E t \in Runs : k[2] = payRun[t].period /\ k[1] \in payRun[t].fresh
<1> SUFFICES ASSUME NEW k \in PayrollKeys, payroll[k].st \in Finalized,
                    payroll'[k].st = "draft"
             PROVE  \E t \in Runs : k[2] = payRun[t].period /\ k[1] \in payRun[t].fresh
  OBVIOUS
<1>1. payroll'[k] # payroll[k]
  BY DEF Finalized
<1>2. ASSUME NEW j \in PayrollKeys, NEW s \in Finalized, SetPayrollStatus(j, s) PROVE FALSE
  <2>1. payroll'[k].st \in {payroll[k].st, s}
    BY <1>2 DEF SetPayrollStatus, PayrollInvariant, PayrollTypeOK, PayrollRow
  <2>2. QED
    BY <2>1 DEF Finalized
<1>3. PICK t \in Runs : CommitPayroll(t)
  BY <1>1, <1>2 DEF PayrollNext, payrollVars, IssueLoan, SetLoanStatus, SaveSalary, BeginPayroll,
     FindDraft, FindNoRecord, LockLoan, LoansLocked, UpsertPayroll, RollBackPayroll
<1>4. k[2] = payRun[t].period /\ k[1] \in payRun[t].done
  BY <1>1, <1>3 DEF CommitPayroll
<1>5. k[1] \in Subjects /\ k = <<k[1], k[2]>>
  BY DEF PayrollKeys
<1>6. \/ k[1] \in payRun[t].fresh
      \/ payroll[<<k[1], payRun[t].period>>].st = "draft"
  BY <1>4, <1>5 DEF PayrollInvariant, DraftsAreLocked
<1>7. QED
  BY <1>4, <1>5, <1>6 DEF Finalized

\* A run over drafts never overwrites a record that was approved, paid or
\* cancelled while it was at work.
THEOREM RerunsKeepDecisions == PayrollSpec => RerunKeepsDecisions
BY PayrollInvariance, RerunStep, PTL DEF PayrollSpec, RerunKeepsDecisions

-----------------------------------------------------------------------------
(* Claims and their documents.                                             *)

-----------------------------------------------------------------------------
(* Document extraction.                                                    *)

\* An upload that counted the jobs holds the gate until its own is written,
\* and what it counted has not grown.
CountIsCurrent == \A u \in Uploads : upload[u].op = "insert" =>
    /\ gate = u
    /\ Cardinality(Processing \ upload[u].swept) < MaxProcessing

\* An upload that waits for the provider is the only one to complete its job.
ProviderOwnsJob == \A u \in Uploads : upload[u].op = "provider" =>
    /\ upload[u].job \in Jobs
    /\ job[upload[u].job].st \in {"processing", "expired", "deleted"}
    /\ \A v \in Uploads :
          upload[v].op = "provider" /\ upload[v].job = upload[u].job => v = u

ExtractionInvariant ==
    ExtractionTypeOK /\ ProcessingWithinLimit /\ CountIsCurrent /\ ProviderOwnsJob

\* The jobs being processed, and what is left of them, are finitely many.
LEMMA FewerProcessing ==
    ASSUME Processing' \subseteq Processing
    PROVE  \A S : /\ Cardinality(Processing' \ S) \in Nat /\ Cardinality(Processing \ S) \in Nat
                  /\ Cardinality(Processing' \ S) <= Cardinality(Processing \ S)
<1> SUFFICES ASSUME NEW S
             PROVE  /\ Cardinality(Processing' \ S) \in Nat /\ Cardinality(Processing \ S) \in Nat
                    /\ Cardinality(Processing' \ S) <= Cardinality(Processing \ S)
  OBVIOUS
<1>1. Processing \ S \in SUBSET Jobs /\ Processing' \ S \in SUBSET (Processing \ S)
  BY DEF Processing
<1>2. IsFiniteSet(Processing \ S)
  BY <1>1, FS_Subset, ExtractionAssumption
<1>3. IsFiniteSet(Processing' \ S)
  BY <1>1, <1>2, FS_Subset
<1>4. QED
  BY <1>1, <1>2, <1>3, FS_Subset, FS_CardinalityType

\* A step that writes no new job: nothing that was counted or is bounded grows.
LEMMA LimitStays ==
    ASSUME ExtractionInvariant, Processing' \subseteq Processing,
           \A u \in Uploads : upload'[u].op = "insert" =>
              \/ upload'[u] = upload[u] /\ gate' = gate
              \/ /\ gate' = u
                 /\ Cardinality(Processing \ upload'[u].swept) < MaxProcessing
    PROVE  ProcessingWithinLimit' /\ CountIsCurrent'
<1> USE ExtractionAssumption DEF ExtractionInvariant
<1>1. Processing = Processing \ {} /\ Processing' = Processing' \ {}
  OBVIOUS
<1>2. ProcessingWithinLimit'
  <2>1. /\ Cardinality(Processing') \in Nat /\ Cardinality(Processing) \in Nat
        /\ Cardinality(Processing') <= Cardinality(Processing)
    BY <1>1, FewerProcessing
  <2>2. QED
    BY <2>1 DEF ProcessingWithinLimit
<1>3. ASSUME NEW u \in Uploads, upload'[u].op = "insert"
      PROVE  gate' = u /\ Cardinality(Processing' \ upload'[u].swept) < MaxProcessing
  <2>1. gate' = u /\ Cardinality(Processing \ upload'[u].swept) < MaxProcessing
    BY <1>3 DEF CountIsCurrent
  <2>2. LET S == upload'[u].swept
        IN  /\ Cardinality(Processing' \ S) \in Nat /\ Cardinality(Processing \ S) \in Nat
            /\ Cardinality(Processing' \ S) <= Cardinality(Processing \ S)
    BY FewerProcessing
  <2>3. QED
    BY <2>1, <2>2
<1>4. QED
  BY <1>2, <1>3 DEF CountIsCurrent

\* A sweep completes nothing and leaves no job processing that was not.
LEMMA SweepOnlyEnds ==
    ASSUME ExtractionTypeOK, NEW S \in SUBSET Jobs
    PROVE  /\ Sweep(S) \in [Jobs -> JobRow]
           /\ \A j \in Jobs : /\ Sweep(S)[j].result <=> Sweep(S)[j].st = "completed"
                              /\ j \in S => Sweep(S)[j].st = "expired"
                              /\ j \notin S => Sweep(S)[j] = job[j]
BY DEF Sweep, ExtractionTypeOK, JobRow

\* The initial state satisfies the inductive invariant.
LEMMA ExtractionInitEstablishes == ExtractionInit => ExtractionInvariant
<1> SUFFICES ASSUME ExtractionInit PROVE ExtractionInvariant
  OBVIOUS
<1>1. ExtractionTypeOK
  BY DEF ExtractionInit, ExtractionTypeOK, JobRow, Kept, Upload, NoUpload
<1>2. Processing = {}
  BY DEF ExtractionInit, Processing
<1>3. ProcessingWithinLimit
  BY <1>2, FS_EmptySet, ExtractionAssumption DEF ProcessingWithinLimit
<1>4. CountIsCurrent /\ ProviderOwnsJob
  BY DEF ExtractionInit, CountIsCurrent, ProviderOwnsJob, NoUpload
<1>5. QED
  BY <1>1, <1>3, <1>4 DEF ExtractionInvariant

\* The steps that leave the jobs alone.
LEMMA AdmissionStep ==
    ASSUME ExtractionInvariant, NEW u \in Uploads,
           \/ \E e \in Subjects, d \in Documents : BeginUpload(u, e, d)
           \/ EnforceLimits(u) \/ RejectUpload(u) \/ UploadCrashes(u)
    PROVE  ExtractionInvariant'
<1> USE ExtractionAssumption DEF ExtractionInvariant, ExtractionTypeOK
<1>1. /\ UNCHANGED <<job, due>>
      /\ \A v \in Uploads : v # u => upload'[v] = upload[v]
      /\ upload' \in [Uploads -> Upload] /\ gate' \in Uploads \cup {Null}
      /\ upload'[u].op # "provider"
  <2>1. ASSUME NEW e \in Subjects, NEW d \in Documents, BeginUpload(u, e, d)
        PROVE  /\ UNCHANGED <<job, due>>
               /\ \A v \in Uploads : v # u => upload'[v] = upload[v]
               /\ upload' \in [Uploads -> Upload] /\ gate' \in Uploads \cup {Null}
               /\ upload'[u].op # "provider"
    BY <2>1 DEF BeginUpload, Upload, Expirable
  <2>2. QED
    BY <2>1 DEF EnforceLimits, RejectUpload, UploadCrashes, Upload, NoUpload, Ungated
<1>2. Processing' = Processing
  BY <1>1 DEF Processing
<1>3. \A v \in Uploads : upload'[v].op = "insert" =>
         \/ upload'[v] = upload[v] /\ gate' = gate
         \/ gate' = v /\ Cardinality(Processing \ upload'[v].swept) < MaxProcessing
  <2> SUFFICES ASSUME NEW v \in Uploads, upload'[v].op = "insert"
               PROVE  \/ upload'[v] = upload[v] /\ gate' = gate
                      \/ /\ gate' = v
                         /\ Cardinality(Processing \ upload'[v].swept) < MaxProcessing
    OBVIOUS
  <2>1. CASE v = u
    <3>1. EnforceLimits(u)
      BY <2>1 DEF BeginUpload, RejectUpload, UploadCrashes, NoUpload, Upload
    <3>2. /\ gate' = u /\ upload'[u].swept = upload[u].swept
          /\ Cardinality(Processing \ upload[u].swept) < MaxProcessing
      BY <3>1 DEF EnforceLimits, Upload
    <3>3. QED
      BY <2>1, <3>2
  <2>2. CASE v # u
    <3>1. upload'[v] = upload[v] /\ gate = v
      BY <2>2, <1>1 DEF CountIsCurrent
    <3>2. gate' = gate
      BY <2>2, <3>1 DEF BeginUpload, EnforceLimits, RejectUpload, UploadCrashes, Ungated
    <3>3. QED
      BY <3>1, <3>2
  <2>3. QED
    BY <2>1, <2>2
<1>4. ProcessingWithinLimit' /\ CountIsCurrent'
  <2>1. ExtractionInvariant /\ Processing' \subseteq Processing
    BY <1>2
  <2>2. QED
    BY ONLY <2>1, <1>3, LimitStays
<1>5. ProviderOwnsJob'
  BY <1>1 DEF ProviderOwnsJob
<1>6. QED
  BY <1>1, <1>4, <1>5

\* Writing the job of an upload: the gate kept the count true until now.
LEMMA CommitStep ==
    ASSUME ExtractionInvariant, NEW u \in Uploads, NEW j \in Jobs, CommitUpload(u, j)
    PROVE  ExtractionInvariant'
<1> USE ExtractionAssumption DEF ExtractionInvariant
<1> DEFINE S == upload[u].swept
<1>1. /\ upload[u].op = "insert" /\ job[j].st = "none" /\ S \in SUBSET Jobs
      /\ upload[u] \in Upload
      /\ job' = [Sweep(S) EXCEPT ![j] = [st |-> "processing", emp |-> upload[u].emp,
                                         doc |-> upload[u].doc, result |-> FALSE]]
      /\ upload' = [upload EXCEPT ![u].op = "provider", ![u].job = j, ![u].swept = {}]
      /\ gate' = Ungated(u) /\ due' = due
  BY DEF CommitUpload, ExtractionTypeOK, Upload
<1>2. /\ \A k \in Jobs : k # j => job'[k] = Sweep(S)[k]
      /\ job'[j] = [st |-> "processing", emp |-> upload[u].emp,
                    doc |-> upload[u].doc, result |-> FALSE]
      /\ job' \in [Jobs -> JobRow]
  BY <1>1, SweepOnlyEnds DEF Upload, JobRow, Kept
<1>3. /\ upload' \in [Uploads -> Upload] /\ upload'[u].op = "provider" /\ upload'[u].job = j
      /\ \A v \in Uploads : v # u => upload'[v] = upload[v]
  BY <1>1 DEF ExtractionTypeOK, Upload
<1>4. ExtractionTypeOK'
  <2>1. \A k \in Jobs : job'[k].result <=> job'[k].st = "completed"
    BY <1>1, <1>2, SweepOnlyEnds
  <2>2. QED
    BY <1>1, <1>2, <1>3, <2>1 DEF ExtractionTypeOK, Ungated
<1>5. ProcessingWithinLimit'
  <2>1. Processing' \subseteq (Processing \ S) \cup {j}
    BY <1>1, <1>2, SweepOnlyEnds DEF Processing
  <2>2. Cardinality(Processing \ S) < MaxProcessing
    BY <1>1 DEF CountIsCurrent
  <2>3. Processing \ S \in SUBSET Jobs
    BY DEF Processing
  <2>4. IsFiniteSet(Processing \ S)
    BY <2>3, FS_Subset
  <2>5. /\ IsFiniteSet((Processing \ S) \cup {j})
        /\ Cardinality((Processing \ S) \cup {j}) <= Cardinality(Processing \ S) + 1
        /\ Cardinality(Processing \ S) \in Nat
    <3>1. Cardinality(Processing \ S) \in Nat
      BY <2>4, FS_CardinalityType
    <3>2. /\ IsFiniteSet((Processing \ S) \cup {j})
          /\ Cardinality((Processing \ S) \cup {j}) =
                IF j \in Processing \ S THEN Cardinality(Processing \ S)
                ELSE Cardinality(Processing \ S) + 1
      BY <2>4, FS_AddElement
    <3>3. QED
      BY ONLY <3>1, <3>2
  <2>6. /\ Cardinality(Processing') <= Cardinality((Processing \ S) \cup {j})
        /\ Cardinality(Processing') \in Nat /\ Cardinality((Processing \ S) \cup {j}) \in Nat
    BY <2>1, <2>5, FS_Subset, FS_CardinalityType
  <2>7. QED
    BY <2>2, <2>5, <2>6 DEF ProcessingWithinLimit
<1>6. CountIsCurrent'
  BY <1>1, <1>3 DEF CountIsCurrent
<1>7. ProviderOwnsJob'
  <2>1. \A v \in Uploads : v # u /\ upload[v].op = "provider" =>
           /\ upload[v].job # j
           /\ job'[upload[v].job].st \in {"processing", "expired", "deleted"}
    BY <1>1, <1>2, SweepOnlyEnds DEF ProviderOwnsJob
  <2>2. QED
    BY <1>2, <1>3, <2>1 DEF ProviderOwnsJob
<1>8. QED
  BY <1>4, <1>5, <1>6, <1>7

\* The steps that end or expire a job: each is left in a state that is no
\* longer processing, or as it was.
LEMMA JobStep ==
    ASSUME ExtractionInvariant,
           job' \in [Jobs -> JobRow],
           \A j \in Jobs : /\ job'[j].result <=> job'[j].st = "completed"
                           /\ job'[j].st = "processing" => job[j].st = "processing",
           due' \subseteq Jobs, gate' = gate,
           upload' \in [Uploads -> Upload],
           \A u \in Uploads : upload'[u].op \in {"provider", "insert"} => upload'[u] = upload[u],
           \A u \in Uploads : upload'[u].op = "provider" =>
              \/ job'[upload[u].job] = job[upload[u].job]
              \/ job'[upload[u].job].st \in {"expired", "deleted"}
    PROVE  ExtractionInvariant'
<1>1. Processing' \subseteq Processing
  BY DEF Processing
<1>2. ProcessingWithinLimit' /\ CountIsCurrent'
  BY <1>1, LimitStays
<1>3. ProviderOwnsJob'
  BY DEF ExtractionInvariant, ProviderOwnsJob
<1>4. QED
  BY <1>2, <1>3 DEF ExtractionInvariant, ExtractionTypeOK

\* Every step of document extraction keeps the inductive invariant.
LEMMA ExtractionStep ==
    ASSUME ExtractionInvariant, ExtractionNext PROVE ExtractionInvariant'
<1>1. ASSUME NEW u \in Uploads, NEW e \in Subjects, NEW d \in Documents, UploadAgain(u, e, d)
      PROVE  ExtractionInvariant'
  <2>1. Expirable \in SUBSET Jobs /\ job' = Sweep(Expirable) /\ UNCHANGED <<due, upload, gate>>
    BY <1>1 DEF UploadAgain, Expirable, ExtractionInvariant, ExtractionTypeOK
  <2>2. /\ job' \in [Jobs -> JobRow]
        /\ \A j \in Jobs : /\ job'[j].result <=> job'[j].st = "completed"
                           /\ \/ job'[j] = job[j]
                              \/ job'[j].st = "expired"
    BY <2>1, SweepOnlyEnds DEF ExtractionInvariant
  <2>3. QED
    BY <2>1, <2>2, JobStep DEF ExtractionInvariant, ExtractionTypeOK, ProviderOwnsJob
<1>2. ASSUME NEW u \in Uploads, ProviderAnswers(u) \/ ProviderFails(u)
      PROVE  ExtractionInvariant'
  <2> DEFINE j == upload[u].job
  <2>1. /\ upload[u].op = "provider" /\ j \in Jobs
        /\ job[j].st \in {"processing", "expired", "deleted"}
        /\ \A v \in Uploads : upload[v].op = "provider" /\ upload[v].job = j => v = u
        /\ job[j] \in JobRow /\ job[j].result = FALSE
        /\ UNCHANGED <<due, gate>> /\ upload' = [upload EXCEPT ![u] = NoUpload]
    BY <1>2 DEF ProviderAnswers, ProviderFails, ExtractionInvariant, ExtractionTypeOK,
                ProviderOwnsJob, JobRow
  <2>2. /\ job' \in [Jobs -> JobRow]
        /\ \A k \in Jobs : k # j => job'[k] = job[k]
        /\ job'[j].result <=> job'[j].st = "completed"
        /\ job'[j].st # "processing"
    BY <1>2, <2>1 DEF ProviderAnswers, ProviderFails, Completes, JobRow, Kept,
                      ExtractionInvariant, ExtractionTypeOK
  <2>3. /\ upload' \in [Uploads -> Upload] /\ upload'[u].op = "idle"
        /\ \A v \in Uploads : v # u => upload'[v] = upload[v]
    BY <2>1 DEF ExtractionInvariant, ExtractionTypeOK, Upload, NoUpload
  <2>4. \A v \in Uploads : upload'[v].op = "provider" =>
           job'[upload[v].job] = job[upload[v].job]
    BY <2>1, <2>2, <2>3 DEF ExtractionInvariant, ProviderOwnsJob
  <2>5. QED
    BY <2>1, <2>2, <2>3, <2>4, JobStep DEF ExtractionInvariant, ExtractionTypeOK
<1>3. ASSUME NEW j \in Jobs, DeleteJob(j) PROVE ExtractionInvariant'
  <2>1. /\ job' \in [Jobs -> JobRow] /\ job'[j].st = "deleted"
        /\ \A k \in Jobs : k # j => job'[k] = job[k]
        /\ \A k \in Jobs : job'[k].result <=> job'[k].st = "completed"
        /\ UNCHANGED <<due, upload, gate>>
    BY <1>3, ZenonT(60) DEF DeleteJob, ExtractionInvariant, ExtractionTypeOK, JobRow
  <2>2. QED
    BY <2>1, JobStep DEF ExtractionInvariant, ExtractionTypeOK, ProviderOwnsJob
<1>4. ASSUME NEW j \in Jobs, JobExpires(j) PROVE ExtractionInvariant'
  <2>1. due' \subseteq Jobs /\ UNCHANGED <<job, upload, gate>>
    BY <1>4 DEF JobExpires, ExtractionInvariant, ExtractionTypeOK
  <2>2. QED
    BY <2>1, JobStep DEF ExtractionInvariant, ExtractionTypeOK
<1>5. QED
  BY <1>1, <1>2, <1>3, <1>4, AdmissionStep, CommitStep DEF ExtractionNext

-----------------------------------------------------------------------------
(* Expense claims.                                                         *)

\* A submission holds the lock of its key from the look-up to the end, so
\* nobody has submitted a claim under that key meanwhile.
KeyIsFree == \A q \in Requests : request[q].op # "idle" =>
    /\ request[q].emp \in Subjects
    /\ request[q].key # Null => keyLock[<<request[q].emp, request[q].key>>] = q
    /\ OfKey(request[q].emp, request[q].key) = {}

ClaimsInvariant == ExtractionInvariant /\ ClaimsTypeOK /\ KeyIsFree

\* The initial state satisfies the inductive invariant.
LEMMA ClaimsInitEstablishes == ClaimsInit => ClaimsInvariant
<1> SUFFICES ASSUME ClaimsInit PROVE ClaimsInvariant
  OBVIOUS
<1>1. ExtractionInvariant
  BY ExtractionInitEstablishes DEF ClaimsInit
<1>2. ClaimsTypeOK
  BY DEF ClaimsInit, ClaimsTypeOK, ClaimRow, NoClaim, Submission, NoSubmission
<1>3. KeyIsFree
  BY DEF ClaimsInit, KeyIsFree, NoSubmission
<1>4. QED
  BY <1>1, <1>2, <1>3 DEF ClaimsInvariant

\* The steps of a submission.
LEMMA SubmitStep ==
    ASSUME ClaimsTypeOK, KeyIsFree, NEW q \in Requests,
           \/ \E e \in Subjects, k \in Keys \cup {Null}, j \in Jobs \cup {Null} :
                 BeginSubmit(q, e, k, j)
           \/ CheckReceipt(q)
           \/ \E c \in Claims : InsertClaim(q, c)
           \/ SubmitFails(q)
    PROVE  ClaimsTypeOK' /\ KeyIsFree'
<1> USE ClaimsAssumption
<1>1. ASSUME NEW e \in Subjects, NEW k \in Keys \cup {Null}, NEW j \in Jobs \cup {Null},
             BeginSubmit(q, e, k, j)
      PROVE  ClaimsTypeOK' /\ KeyIsFree'
  <2>1. /\ request' \in [Requests -> Submission]
        /\ request'[q] = [op |-> "check", emp |-> e, key |-> k, job |-> j]
        /\ \A p \in Requests : p # q => request'[p] = request[p]
        /\ UNCHANGED claim /\ OfKey(e, k) = {}
    BY <1>1 DEF BeginSubmit, ClaimsTypeOK, Submission
  <2>2. /\ keyLock' \in [Subjects \X Keys -> Requests \cup {Null}]
        /\ k # Null => keyLock'[<<e, k>>] = q
        /\ \A x \in Subjects \X Keys : keyLock[x] # Null => keyLock'[x] = keyLock[x]
    BY <1>1 DEF BeginSubmit, ClaimsTypeOK, KeyFree
  <2>4. KeyIsFree'
    <3> SUFFICES ASSUME NEW p \in Requests, request'[p].op # "idle"
                 PROVE  /\ request'[p].emp \in Subjects
                        /\ request'[p].key # Null =>
                              keyLock'[<<request'[p].emp, request'[p].key>>] = p
                        /\ OfKey(request[p].emp, request[p].key)' = {}
      BY DEF KeyIsFree
    <3>1. CASE p = q
      BY <3>1, <2>1, <2>2 DEF OfKey, Submitted
    <3>2. CASE p # q
      <4>1. /\ request'[p] = request[p] /\ request[p].emp \in Subjects
            /\ request[p].key # Null => keyLock[<<request[p].emp, request[p].key>>] = p
            /\ OfKey(request[p].emp, request[p].key) = {}
            /\ request[p].key \in Keys \cup {Null}
        BY <3>2, <2>1 DEF KeyIsFree, ClaimsTypeOK, Submission
      <4>2. p # Null
        OBVIOUS
      <4>3. QED
        BY <4>1, <4>2, <2>1, <2>2 DEF OfKey, Submitted
    <3>3. QED
      BY <3>1, <3>2
  <2>5. QED
    BY <2>1, <2>2, <2>4 DEF ClaimsTypeOK
<1>2. ASSUME CheckReceipt(q) PROVE ClaimsTypeOK' /\ KeyIsFree'
  <2>1. /\ request' \in [Requests -> Submission] /\ request[q].op = "check"
        /\ \A p \in Requests : /\ request'[p].op # "idle" => request[p].op # "idle"
                               /\ request'[p].emp = request[p].emp
                               /\ request'[p].key = request[p].key
        /\ UNCHANGED <<claim, keyLock>>
    BY <1>2 DEF CheckReceipt, ClaimsTypeOK, Submission
  <2>2. \A a, b : OfKey(a, b)' = OfKey(a, b)
    BY <2>1 DEF OfKey, Submitted
  <2>3. QED
    BY <2>1, <2>2 DEF ClaimsTypeOK, KeyIsFree
<1>3. ASSUME request[q].op # "idle", request' = [request EXCEPT ![q] = NoSubmission],
             keyLock' = KeysWithout(q), claim' \in [Claims -> ClaimRow],
             \A p \in Requests : p # q /\ request[p].op # "idle" =>
                OfKey(request[p].emp, request[p].key)' = {}
      PROVE  ClaimsTypeOK' /\ KeyIsFree'
  <2>1. /\ request' \in [Requests -> Submission] /\ request'[q].op = "idle"
        /\ \A p \in Requests : p # q => request'[p] = request[p]
    BY <1>3 DEF ClaimsTypeOK, Submission, NoSubmission
  <2>2. /\ keyLock' \in [Subjects \X Keys -> Requests \cup {Null}]
        /\ \A x \in Subjects \X Keys : keyLock[x] # q => keyLock'[x] = keyLock[x]
    BY <1>3 DEF KeysWithout, ClaimsTypeOK
  <2>3. KeyIsFree'
    <3> SUFFICES ASSUME NEW p \in Requests, request'[p].op # "idle"
                 PROVE  /\ request'[p].emp \in Subjects
                        /\ request'[p].key # Null =>
                              keyLock'[<<request'[p].emp, request'[p].key>>] = p
                        /\ OfKey(request[p].emp, request[p].key)' = {}
      BY DEF KeyIsFree
    <3>1. /\ p # q /\ request'[p] = request[p] /\ request[p].emp \in Subjects
          /\ request[p].key # Null => keyLock[<<request[p].emp, request[p].key>>] = p
          /\ request[p].key \in Keys \cup {Null}
      BY <2>1 DEF KeyIsFree, ClaimsTypeOK, Submission
    <3>2. OfKey(request[p].emp, request[p].key)' = {}
      BY <3>1, <1>3
    <3>3. QED
      BY <3>1, <3>2, <2>2
  <2>4. QED
    BY <1>3, <2>1, <2>2, <2>3 DEF ClaimsTypeOK
<1>4. ASSUME NEW c \in Claims, InsertClaim(q, c) PROVE ClaimsTypeOK' /\ KeyIsFree'
  <2>1. /\ request[q].op = "insert" /\ request[q] \in Submission
        /\ claim' = [claim EXCEPT ![c] = [st |-> "pending", emp |-> request[q].emp,
                                          key |-> request[q].key, job |-> request[q].job]]
        /\ request' = [request EXCEPT ![q] = NoSubmission] /\ keyLock' = KeysWithout(q)
    BY <1>4 DEF InsertClaim, ClaimsTypeOK
  <2>2. claim' \in [Claims -> ClaimRow]
    BY <2>1 DEF ClaimsTypeOK, Submission, ClaimRow
  <2>3. ASSUME NEW p \in Requests, p # q, request[p].op # "idle"
        PROVE  OfKey(request[p].emp, request[p].key)' = {}
    <3>1. /\ OfKey(request[p].emp, request[p].key) = {}
          /\ request[p].key # Null => keyLock[<<request[p].emp, request[p].key>>] = p
          /\ request[q].key # Null => keyLock[<<request[q].emp, request[q].key>>] = q
      BY <2>1, <2>3 DEF KeyIsFree
    <3>2. request[p].key # Null =>
             ~(request[q].emp = request[p].emp /\ request[q].key = request[p].key)
      BY <3>1, <2>3
    <3>3. /\ claim'[c].emp = request[q].emp /\ claim'[c].key = request[q].key
          /\ \A d \in Claims : d # c => claim'[d] = claim[d]
      BY <2>1 DEF ClaimsTypeOK
    <3>4. \A d \in Claims : request[p].key # Null /\ claim'[d].st # "none" =>
             ~(claim'[d].emp = request[p].emp /\ claim'[d].key = request[p].key)
      BY <3>1, <3>2, <3>3 DEF OfKey, Submitted
    <3>5. request'[p] = request[p]
      BY <2>1, <2>3 DEF ClaimsTypeOK
    <3>6. QED
      BY <3>4, <3>5 DEF OfKey, Submitted
  <2>4. QED
    BY <2>1, <2>2, <2>3, <1>3
<1>5. ASSUME SubmitFails(q) PROVE ClaimsTypeOK' /\ KeyIsFree'
  <2>1. /\ request[q].op # "idle" /\ request' = [request EXCEPT ![q] = NoSubmission]
        /\ keyLock' = KeysWithout(q) /\ UNCHANGED claim
    BY <1>5 DEF SubmitFails
  <2>2. \A p \in Requests : p # q /\ request[p].op # "idle" =>
           OfKey(request[p].emp, request[p].key)' = {}
    BY <2>1 DEF KeyIsFree, OfKey, Submitted, ClaimsTypeOK
  <2>3. claim' \in [Claims -> ClaimRow]
    BY <2>1 DEF ClaimsTypeOK
  <2>4. QED
    BY <2>1, <2>2, <2>3, <1>3
<1>6. QED
  BY <1>1, <1>2, <1>4, <1>5

\* The steps that decide a claim, which keep its employee and its key.
LEMMA DecisionStep ==
    ASSUME ClaimsTypeOK, KeyIsFree, NEW c \in Claims, claim[c].st # "none",
           NEW s \in {"approved", "rejected", "cancelled", "reimbursed"}, SetClaim(c, s)
    PROVE  ClaimsTypeOK' /\ KeyIsFree'
<1>1. /\ claim' \in [Claims -> ClaimRow] /\ UNCHANGED <<request, keyLock>>
      /\ \A d \in Claims : /\ claim'[d].emp = claim[d].emp /\ claim'[d].key = claim[d].key
                           /\ claim'[d].st # "none" => claim[d].st # "none"
  BY DEF SetClaim, ClaimsTypeOK, ClaimRow
<1>2. \A a, b : OfKey(a, b)' \subseteq OfKey(a, b)
  BY <1>1 DEF OfKey, Submitted
<1>3. QED
  BY <1>1, <1>2 DEF ClaimsTypeOK, KeyIsFree

\* Every step keeps the inductive invariant.
LEMMA ClaimsStepKeeps ==
    ASSUME ClaimsInvariant, [ClaimsNext]_<<claimVars, extractionVars>> PROVE ClaimsInvariant'
<1> USE DEF ClaimsInvariant
<1>1. ASSUME UNCHANGED extractionVars PROVE ExtractionInvariant'
  BY <1>1, JobStep DEF extractionVars, ExtractionInvariant, ExtractionTypeOK
<1>2. ASSUME UNCHANGED claimVars PROVE ClaimsTypeOK' /\ KeyIsFree'
  BY <1>2 DEF claimVars, ClaimsTypeOK, KeyIsFree, OfKey, Submitted
<1>3. CASE ExtractionNext /\ UNCHANGED claimVars
  BY <1>2, <1>3, ExtractionStep
<1>4. CASE UNCHANGED <<claimVars, extractionVars>>
  BY <1>1, <1>2, <1>4
<1>5. ASSUME NEW q \in Requests,
             \/ \E e \in Subjects, k \in Keys \cup {Null}, j \in Jobs \cup {Null} :
                   BeginSubmit(q, e, k, j)
             \/ CheckReceipt(q)
             \/ \E c \in Claims : InsertClaim(q, c)
             \/ SubmitFails(q)
      PROVE  ClaimsInvariant'
  <2>1. UNCHANGED extractionVars
    BY <1>5 DEF BeginSubmit, CheckReceipt, InsertClaim, SubmitFails
  <2>2. QED
    BY <2>1, <1>1, <1>5, SubmitStep
<1>6. ASSUME NEW c \in Claims, NEW e \in Staff, NEW s \in {"approved", "rejected"},
             CancelClaim(c) \/ DecideClaim(c, e, s) \/ Reimburse(c, e)
      PROVE  ClaimsInvariant'
  <2>1. PICK t \in {"approved", "rejected", "cancelled", "reimbursed"} :
           claim[c].st # "none" /\ SetClaim(c, t)
    BY <1>6 DEF CancelClaim, DecideClaim, Reimburse
  <2>2. UNCHANGED extractionVars
    BY <2>1 DEF SetClaim
  <2>3. QED
    BY <2>1, <2>2, <1>1, DecisionStep
<1>7. ASSUME NEW c \in Claims, CancelClaim(c) PROVE ClaimsInvariant'
  <2>1. claim[c].st # "none" /\ SetClaim(c, "cancelled") /\ UNCHANGED extractionVars
    BY <1>7 DEF CancelClaim, SetClaim
  <2>2. QED
    BY <2>1, <1>1, DecisionStep
<1>8. QED
  BY <1>3, <1>4, <1>5, <1>6, <1>7 DEF ClaimsNext

\* The inductive invariant holds throughout.
THEOREM ClaimsInvariance == ClaimsSpec => []ClaimsInvariant
BY ClaimsInitEstablishes, ClaimsStepKeeps, PTL DEF ClaimsSpec

\* However uploads overlap, the jobs of a tenant being processed never exceed
\* the limit.
THEOREM ProcessingIsBounded == ClaimsSpec => []ProcessingWithinLimit
<1>1. ClaimsInvariant => ProcessingWithinLimit
  BY DEF ClaimsInvariant, ExtractionInvariant
<1>2. QED
  BY <1>1, ClaimsInvariance, PTL

\* A submission that comes to insert its claim finds its key unused, however
\* often the same submission was sent and whatever became of the others.
THEOREM RetriesAreAnswered == ClaimsSpec => []RetryIsAnswered
<1>1. ClaimsInvariant => RetryIsAnswered
  BY DEF ClaimsInvariant, KeyIsFree, RetryIsAnswered
<1>2. QED
  BY <1>1, ClaimsInvariance, PTL

-----------------------------------------------------------------------------
(* Assets.                                                                 *)

EquipmentOps == {"assign", "return", "condition", "patch", "lost", "retired"}
LicenceOps == {"seat", "unseat", "resize"}

\* A request at work holds the one row it read.
WorkIsLocked == \A k \in Keepers :
    /\ keeper[k].op \in EquipmentOps =>
          keeper[k].row \in Equipment /\ stockLock[keeper[k].row] = k
    /\ keeper[k].op \in LicenceOps =>
          keeper[k].row \in Licences /\ stockLock[keeper[k].row] = k
    /\ keeper[k].op \in {"assign", "seat", "unseat", "resign"} => keeper[k].emp \in Staff

\* What a request found when it locked its row is so until it ends.
WorkIsCurrent == \A k \in Keepers : LET h == keeper[k] IN
    /\ h.op = "assign" => asset[h.row].st = "available"
    /\ h.op \in {"lost", "retired"} => asset[h.row].st \in {"available", "maintenance"}
    /\ h.op = "seat" /\ licence[h.row].count # Null =>
          licence[h.row].used < licence[h.row].count
    /\ h.op = "resize" /\ h.seats # Null => licence[h.row].used <= h.seats

SeatsAreFinite == \A l \in Licences : IsFiniteSet(seated[l])

AssetsInvariant ==
    AssetsTypeOK /\ InventoryAgrees /\ SeatsAreFinite /\ WorkIsLocked /\ WorkIsCurrent

-----------------------------------------------------------------------------
(* What every step of a request has in common.                             *)

Rows == Equipment \cup Licences

\* Nothing but the inventory counts for what is said of the inventory and of
\* the requests at work.
LEMMA InventoryIsLeft ==
    ASSUME AssetsInvariant, UNCHANGED <<inventory, keeper, stockLock>>,
           resignation' \in [Resignations -> Resignation], owing' \subseteq Resignations
    PROVE  AssetsInvariant'
BY DEF AssetsInvariant, AssetsTypeOK, InventoryAgrees, SeatsAreFinite, WorkIsLocked,
       WorkIsCurrent, inventory

\* A request that ends frees its rows and leaves the others what they hold.
LEMMA EndingKeepsLocks ==
    ASSUME AssetsInvariant, NEW k \in Keepers, EndsHandling(k)
    PROVE  /\ keeper' \in [Keepers -> Handling] /\ keeper'[k].op = "idle"
           /\ stockLock' \in [Rows -> Keepers \cup {Null}]
           /\ \A m \in Keepers : m # k => keeper'[m] = keeper[m]
           /\ \A x \in Rows : stockLock'[x] # Null =>
                 keeper'[stockLock'[x]].op # "idle" /\ keeper'[stockLock'[x]].row = x
           /\ WorkIsLocked'
<1> USE AssetsAssumption DEF AssetsInvariant, AssetsTypeOK, EndsHandling, Rows
<1>1. NoHandling \in Handling /\ NoHandling.op = "idle"
  BY DEF NoHandling, Handling, Condition
<1>2. /\ keeper' \in [Keepers -> Handling] /\ keeper'[k].op = "idle"
      /\ \A m \in Keepers : m # k => keeper'[m] = keeper[m]
  BY <1>1
<1>3. /\ stockLock' \in [Rows -> Keepers \cup {Null}]
      /\ \A x \in Rows : stockLock'[x] = IF stockLock[x] = k THEN Null ELSE stockLock[x]
  OBVIOUS
<1>4. \A x \in Rows : stockLock'[x] # Null =>
          keeper'[stockLock'[x]].op # "idle" /\ keeper'[stockLock'[x]].row = x
  BY <1>2, <1>3
<1>5. WorkIsLocked'
  <2> SUFFICES ASSUME NEW m \in Keepers
               PROVE  /\ keeper'[m].op \in EquipmentOps =>
                            keeper'[m].row \in Equipment /\ stockLock'[keeper'[m].row] = m
                      /\ keeper'[m].op \in LicenceOps =>
                            keeper'[m].row \in Licences /\ stockLock'[keeper'[m].row] = m
                      /\ keeper'[m].op \in {"assign", "seat", "unseat", "resign"} =>
                            keeper'[m].emp \in Staff
    BY DEF WorkIsLocked
  <2>1. CASE m = k
    BY <2>1, <1>2 DEF EquipmentOps, LicenceOps
  <2>2. CASE m # k
    BY <2>2, <1>2, <1>3 DEF WorkIsLocked
  <2>3. QED
    BY <2>1, <2>2
<1>6. QED
  BY <1>2, <1>3, <1>4, <1>5

\* What another request found does not change when the row of k does, nor
\* when its own row does not.
LEMMA OthersStayCurrent ==
    ASSUME AssetsInvariant, NEW k \in Keepers, EndsHandling(k),
           \A a \in Equipment : stockLock[a] # k => asset'[a] = asset[a],
           \A l \in Licences : stockLock[l] # k => licence'[l] = licence[l]
    PROVE  WorkIsCurrent'
<1> SUFFICES ASSUME NEW m \in Keepers
             PROVE  LET h == keeper'[m] IN
                    /\ h.op = "assign" => asset'[h.row].st = "available"
                    /\ h.op \in {"lost", "retired"} =>
                          asset'[h.row].st \in {"available", "maintenance"}
                    /\ h.op = "seat" /\ licence'[h.row].count # Null =>
                          licence'[h.row].used < licence'[h.row].count
                    /\ h.op = "resize" /\ h.seats # Null => licence'[h.row].used <= h.seats
  BY DEF WorkIsCurrent
<1>1. CASE m = k
  BY <1>1, EndingKeepsLocks
<1>2. CASE m # k
  <2>1. keeper'[m] = keeper[m]
    BY <1>2, EndingKeepsLocks
  <2>2. /\ keeper[m].op \in EquipmentOps =>
              keeper[m].row \in Equipment /\ stockLock[keeper[m].row] = m
        /\ keeper[m].op \in LicenceOps =>
              keeper[m].row \in Licences /\ stockLock[keeper[m].row] = m
    BY DEF AssetsInvariant, WorkIsLocked
  <2>3. /\ keeper[m].op \in EquipmentOps => asset'[keeper[m].row] = asset[keeper[m].row]
        /\ keeper[m].op \in LicenceOps => licence'[keeper[m].row] = licence[keeper[m].row]
    BY <1>2, <2>2
  <2>4. QED
    BY <2>1, <2>3 DEF AssetsInvariant, WorkIsCurrent, EquipmentOps, LicenceOps
<1>3. QED
  BY <1>1, <1>2

\* A request that commits writes the row it holds and keeps the two tables
\* of that row in agreement.
LEMMA CommitKeeps ==
    ASSUME AssetsInvariant, NEW k \in Keepers, EndsHandling(k),
           UNCHANGED offboarding,
           asset' \in [Equipment -> [st : {"available", "assigned", "maintenance", "lost", "retired"},
                                     cond : Condition]],
           holder' \in [Equipment -> Staff \cup {Null}],
           licence' \in [Licences -> [count : SeatCounts \cup {Null}, used : Nat]],
           seated' \in [Licences -> SUBSET Staff],
           \A a \in Equipment :
              \/ asset'[a] = asset[a] /\ holder'[a] = holder[a]
              \/ stockLock[a] = k /\ (asset'[a].st = "assigned" <=> holder'[a] # Null),
           \A l \in Licences :
              \/ licence'[l] = licence[l] /\ seated'[l] = seated[l]
              \/ /\ stockLock[l] = k /\ IsFiniteSet(seated'[l])
                 /\ licence'[l].used = Cardinality(seated'[l])
                 /\ licence'[l].count # Null => licence'[l].used <= licence'[l].count
    PROVE  AssetsInvariant'
<1>1. /\ keeper' \in [Keepers -> Handling]
      /\ stockLock' \in [Rows -> Keepers \cup {Null}]
      /\ \A x \in Rows : stockLock'[x] # Null =>
            keeper'[stockLock'[x]].op # "idle" /\ keeper'[stockLock'[x]].row = x
      /\ WorkIsLocked'
  BY EndingKeepsLocks
<1>2. AssetsTypeOK'
  BY <1>1 DEF AssetsInvariant, AssetsTypeOK, offboarding, Rows
<1>3. InventoryAgrees' /\ SeatsAreFinite'
  BY DEF AssetsInvariant, InventoryAgrees, SeatsAreFinite
<1>4. WorkIsCurrent'
  BY OthersStayCurrent
<1>5. QED
  BY <1>1, <1>2, <1>3, <1>4 DEF AssetsInvariant

-----------------------------------------------------------------------------
(* The steps.                                                              *)

\* The initial state satisfies the inductive invariant.
LEMMA AssetsInitEstablishes == AssetsInit => AssetsInvariant
<1> SUFFICES ASSUME AssetsInit PROVE AssetsInvariant
  OBVIOUS
<1> USE AssetsAssumption, FS_EmptySet DEF AssetsInit
<1>1. AssetsTypeOK
  BY DEF AssetsTypeOK, Resignation, Handling, NoHandling, Condition
<1>2. InventoryAgrees /\ SeatsAreFinite
  BY DEF InventoryAgrees, SeatsAreFinite
<1>3. WorkIsLocked /\ WorkIsCurrent
  BY DEF WorkIsLocked, WorkIsCurrent, NoHandling, EquipmentOps, LicenceOps
<1>4. QED
  BY <1>1, <1>2, <1>3 DEF AssetsInvariant

\* Opening a row: the request holds it and nothing else changes.
LEMMA OpeningKeeps ==
    ASSUME AssetsInvariant, NEW k \in Keepers, NEW x \in Rows, NEW work \in Handling,
           Handles(k, x, work),
           \/ work.op \in EquipmentOps /\ x \in Equipment
           \/ work.op \in LicenceOps /\ x \in Licences,
           work.op \in {"assign", "seat", "unseat"} => work.emp \in Staff,
           work.op = "assign" => asset[x].st = "available",
           work.op \in {"lost", "retired"} => asset[x].st \in {"available", "maintenance"},
           work.op = "seat" /\ licence[x].count # Null => licence[x].used < licence[x].count,
           work.op = "resize" /\ work.seats # Null => licence[x].used <= work.seats
    PROVE  AssetsInvariant'
<1> USE AssetsAssumption DEF Handles, Rows, inventory, offboarding
<1>1. /\ keeper' \in [Keepers -> Handling]
      /\ keeper'[k] = [work EXCEPT !.row = x]
      /\ \A m \in Keepers : m # k => keeper'[m] = keeper[m]
  BY DEF AssetsInvariant, AssetsTypeOK, Handling
<1>2. /\ keeper'[k].op = work.op /\ keeper'[k].row = x /\ keeper'[k].emp = work.emp
      /\ keeper'[k].seats = work.seats
  BY <1>1 DEF Handling
<1>3. /\ stockLock' \in [Rows -> Keepers \cup {Null}]
      /\ stockLock[x] = Null /\ stockLock'[x] = k
      /\ \A y \in Rows : y # x => stockLock'[y] = stockLock[y]
  BY DEF AssetsInvariant, AssetsTypeOK
<1>4. \A y \in Rows : y # x => stockLock[y] # k
  BY DEF AssetsInvariant, AssetsTypeOK
<1>5. AssetsTypeOK'
  <2>1. \A y \in Rows : stockLock'[y] # Null =>
            keeper'[stockLock'[y]].op # "idle" /\ keeper'[stockLock'[y]].row = y
    <3> SUFFICES ASSUME NEW y \in Rows, stockLock'[y] # Null
                 PROVE  keeper'[stockLock'[y]].op # "idle" /\ keeper'[stockLock'[y]].row = y
      OBVIOUS
    <3>1. CASE y = x
      BY <3>1, <1>2, <1>3 DEF EquipmentOps, LicenceOps
    <3>2. CASE y # x
      BY <3>2, <1>1, <1>3, <1>4 DEF AssetsInvariant, AssetsTypeOK
    <3>3. QED
      BY <3>1, <3>2
  <2>2. QED
    BY <2>1, <1>1, <1>3 DEF AssetsInvariant, AssetsTypeOK
<1>6. InventoryAgrees' /\ SeatsAreFinite'
  BY DEF AssetsInvariant, InventoryAgrees, SeatsAreFinite
<1>7. WorkIsLocked'
  <2> SUFFICES ASSUME NEW m \in Keepers
               PROVE  /\ keeper'[m].op \in EquipmentOps =>
                            keeper'[m].row \in Equipment /\ stockLock'[keeper'[m].row] = m
                      /\ keeper'[m].op \in LicenceOps =>
                            keeper'[m].row \in Licences /\ stockLock'[keeper'[m].row] = m
                      /\ keeper'[m].op \in {"assign", "seat", "unseat", "resign"} =>
                            keeper'[m].emp \in Staff
    BY DEF WorkIsLocked
  <2>1. CASE m = k
    BY <2>1, <1>2, <1>3 DEF EquipmentOps, LicenceOps
  <2>2. CASE m # k
    <3>1. keeper[m].op \in EquipmentOps \cup LicenceOps => keeper[m].row # x
      BY <1>3 DEF AssetsInvariant, WorkIsLocked
    <3>2. QED
      BY <2>2, <3>1, <1>1, <1>3 DEF AssetsInvariant, WorkIsLocked
  <2>3. QED
    BY <2>1, <2>2
<1>8. WorkIsCurrent'
  <2> SUFFICES ASSUME NEW m \in Keepers
               PROVE  LET h == keeper'[m] IN
                    /\ h.op = "assign" => asset'[h.row].st = "available"
                    /\ h.op \in {"lost", "retired"} =>
                          asset'[h.row].st \in {"available", "maintenance"}
                    /\ h.op = "seat" /\ licence'[h.row].count # Null =>
                          licence'[h.row].used < licence'[h.row].count
                    /\ h.op = "resize" /\ h.seats # Null => licence'[h.row].used <= h.seats
    BY DEF WorkIsCurrent
  <2>1. CASE m = k
    BY <2>1, <1>2
  <2>2. CASE m # k
    BY <2>2, <1>1 DEF AssetsInvariant, WorkIsCurrent
  <2>3. QED
    BY <2>1, <2>2
<1>9. QED
  BY <1>5, <1>6, <1>7, <1>8 DEF AssetsInvariant

\* A keeper locks an asset it may handle.
LEMMA OpenAssetKeeps ==
    ASSUME AssetsInvariant, NEW k \in Keepers, NEW a \in Equipment, OpenAsset(k, a)
    PROVE  AssetsInvariant'
<1>1. ASSUME NEW e \in Staff, asset[a].st = "available",
             Handles(k, a, [NoHandling EXCEPT !.op = "assign", !.emp = e])
      PROVE  AssetsInvariant'
  <2> DEFINE work == [NoHandling EXCEPT !.op = "assign", !.emp = e]
  <2>1. /\ work \in Handling /\ work.op = "assign" /\ work.emp = e
        /\ work.op \in EquipmentOps /\ a \in Rows
    BY DEF EquipmentOps, LicenceOps, Handling, NoHandling, Condition, Rows
  <2> HIDE DEF work
  <2>2. Handles(k, a, work)
    BY <1>1 DEF work
  <2>3. /\ work.op \in {"assign", "seat", "unseat"} => work.emp \in Staff
        /\ work.op = "assign" => asset[a].st = "available"
        /\ work.op \in {"lost", "retired"} => asset[a].st \in {"available", "maintenance"}
        /\ work.op # "seat" /\ work.op # "resize"
    BY <2>1, <1>1
  <2>4. QED
    BY <2>1, <2>2, <2>3, OpeningKeeps
<1>2. ASSUME NEW c \in Condition, NEW op \in {"return", "condition", "patch"},
             Handles(k, a, [NoHandling EXCEPT !.op = op, !.cond = c])
      PROVE  AssetsInvariant'
  <2> DEFINE work == [NoHandling EXCEPT !.op = op, !.cond = c]
  <2>1. /\ work \in Handling /\ work.op = op
        /\ work.op \in EquipmentOps /\ a \in Rows
    BY DEF EquipmentOps, LicenceOps, Handling, NoHandling, Condition, Rows
  <2> HIDE DEF work
  <2>2. Handles(k, a, work)
    BY <1>2 DEF work
  <2>3. /\ work.op \in {"assign", "seat", "unseat"} => work.emp \in Staff
        /\ work.op = "assign" => asset[a].st = "available"
        /\ work.op \in {"lost", "retired"} => asset[a].st \in {"available", "maintenance"}
        /\ work.op # "seat" /\ work.op # "resize"
    BY <2>1
  <2>4. QED
    BY <2>1, <2>2, <2>3, OpeningKeeps
<1>3. ASSUME NEW next \in {"lost", "retired"}, asset[a].st \in {"available", "maintenance"},
             Handles(k, a, [NoHandling EXCEPT !.op = next])
      PROVE  AssetsInvariant'
  <2> DEFINE work == [NoHandling EXCEPT !.op = next]
  <2>1. /\ work \in Handling /\ work.op = next
        /\ work.op \in EquipmentOps /\ a \in Rows
    BY DEF EquipmentOps, LicenceOps, Handling, NoHandling, Condition, Rows
  <2> HIDE DEF work
  <2>2. Handles(k, a, work)
    BY <1>3 DEF work
  <2>3. /\ work.op \in {"assign", "seat", "unseat"} => work.emp \in Staff
        /\ work.op = "assign" => asset[a].st = "available"
        /\ work.op \in {"lost", "retired"} => asset[a].st \in {"available", "maintenance"}
        /\ work.op # "seat" /\ work.op # "resize"
    BY <2>1, <1>3
  <2>4. QED
    BY <2>1, <2>2, <2>3, OpeningKeeps
<1>4. QED
  BY <1>1, <1>2, <1>3 DEF OpenAsset

\* A keeper locks a licence it may give or take a seat of.
LEMMA OpenLicenceKeeps ==
    ASSUME AssetsInvariant, NEW k \in Keepers, NEW l \in Licences, OpenLicence(k, l)
    PROVE  AssetsInvariant'
<1>1. ASSUME NEW e \in Staff, NEW op \in {"seat", "unseat"},
             op = "seat" /\ licence[l].count # Null => licence[l].used < licence[l].count,
             Handles(k, l, [NoHandling EXCEPT !.op = op, !.emp = e])
      PROVE  AssetsInvariant'
  <2> DEFINE work == [NoHandling EXCEPT !.op = op, !.emp = e]
  <2>1. /\ work \in Handling /\ work.op = op /\ work.emp = e
        /\ work.op \in LicenceOps /\ l \in Rows
    BY DEF EquipmentOps, LicenceOps, Handling, NoHandling, Condition, Rows
  <2> HIDE DEF work
  <2>2. Handles(k, l, work)
    BY <1>1 DEF work
  <2>3. QED
    BY <2>1, <2>2, <1>1, OpeningKeeps
<1>2. ASSUME NEW n \in SeatCounts, n # Null => n >= licence[l].used,
             Handles(k, l, [NoHandling EXCEPT !.op = "resize", !.seats = n])
      PROVE  AssetsInvariant'
  <2> DEFINE work == [NoHandling EXCEPT !.op = "resize", !.seats = n]
  <2>1. /\ work \in Handling /\ work.op = "resize" /\ work.seats = n
        /\ work.op \in LicenceOps /\ l \in Rows
    BY DEF EquipmentOps, LicenceOps, Handling, NoHandling, Condition, Rows
  <2> HIDE DEF work
  <2>2. Handles(k, l, work)
    BY <1>2 DEF work
  <2>3. n # Null => licence[l].used <= n
    <3>1. n # Null => n \in Nat
      BY AssetsAssumption
    <3>2. licence[l].used \in Nat
      BY DEF AssetsInvariant, AssetsTypeOK
    <3>3. QED
      BY <1>2, <3>1, <3>2
  <2>4. QED
    BY <2>1, <2>2, <2>3, OpeningKeeps
<1>3. QED
  BY <1>1, <1>2 DEF OpenLicence

\* The commits of equipment.
LEMMA EquipmentStep ==
    ASSUME AssetsInvariant, NEW k \in Keepers,
           \/ AssignEquipment(k) \/ ReturnEquipment(k) \/ ReportCondition(k)
           \/ UpdateEquipment(k) \/ LoseOrRetire(k)
    PROVE  AssetsInvariant'
<1> DEFINE a == keeper[k].row
<1> USE DEF AssetsInvariant, AssetsTypeOK, InventoryAgrees, EquipmentOps, Unfit
<1>0. keeper[k] \in Handling /\ UNCHANGED <<licence, seated, offboarding>> /\ EndsHandling(k)
  BY DEF AssignEquipment, ReturnEquipment, ReportCondition, UpdateEquipment, LoseOrRetire
<1>1. keeper[k].op \in EquipmentOps
  BY DEF AssignEquipment, ReturnEquipment, ReportCondition, UpdateEquipment, LoseOrRetire
<1>2. a \in Equipment /\ stockLock[a] = k
  BY <1>1 DEF WorkIsLocked
<1>3. /\ asset' \in [Equipment -> [st : {"available", "assigned", "maintenance", "lost", "retired"},
                                   cond : Condition]]
      /\ holder' \in [Equipment -> Staff \cup {Null}]
      /\ \A b \in Equipment : b # a => asset'[b] = asset[b] /\ holder'[b] = holder[b]
      /\ asset'[a].st = "assigned" <=> holder'[a] # Null
  <2>1. CASE AssignEquipment(k)
    <3>1. keeper[k].emp \in Staff
      BY <2>1 DEF AssignEquipment, WorkIsLocked
    <3>2. QED
      BY <2>1, <3>1, <1>2, TenantAssumption DEF AssignEquipment
  <2>2. CASE ReturnEquipment(k)
    BY <2>2, <1>2, <1>0 DEF ReturnEquipment, Handling
  <2>3. CASE ReportCondition(k)
    BY <2>3, <1>2, <1>0 DEF ReportCondition, Handling
  <2>4. CASE UpdateEquipment(k)
    BY <2>4, <1>2, <1>0 DEF UpdateEquipment, Handling
  <2>5. CASE LoseOrRetire(k)
    <3>1. asset[a].st \in {"available", "maintenance"}
      BY <2>5 DEF LoseOrRetire, WorkIsCurrent
    <3>2. QED
      BY <2>5, <3>1, <1>2 DEF LoseOrRetire
  <2>6. QED
    BY <2>1, <2>2, <2>3, <2>4, <2>5
<1>4. \A b \in Equipment :
         \/ asset'[b] = asset[b] /\ holder'[b] = holder[b]
         \/ stockLock[b] = k /\ (asset'[b].st = "assigned" <=> holder'[b] # Null)
  BY <1>2, <1>3
<1>5. AssetsInvariant
  OBVIOUS
<1> QED
  BY ONLY <1>0, <1>3, <1>4, <1>5, CommitKeeps, k \in Keepers,
          licence \in [Licences -> [count : SeatCounts \cup {Null}, used : Nat]],
          seated \in [Licences -> SUBSET Staff]

\* The commits of licences.
LEMMA LicenceStep ==
    ASSUME AssetsInvariant, NEW k \in Keepers,
           TakeSeat(k) \/ LeaveSeat(k) \/ ResizeLicence(k)
    PROVE  AssetsInvariant'
<1> DEFINE l == keeper[k].row
<1> USE DEF AssetsInvariant, AssetsTypeOK, InventoryAgrees, LicenceOps
<1>0. /\ keeper[k] \in Handling /\ EndsHandling(k)
      /\ UNCHANGED <<asset, holder, offboarding>>
  BY DEF TakeSeat, LeaveSeat, ResizeLicence
<1>1. l \in Licences /\ stockLock[l] = k
  BY DEF WorkIsLocked, TakeSeat, LeaveSeat, ResizeLicence
<1>2. /\ licence[l] \in [count : SeatCounts \cup {Null}, used : Nat]
      /\ licence[l].used \in Nat /\ IsFiniteSet(seated[l])
      /\ licence[l].used = Cardinality(seated[l])
      /\ licence[l].count # Null =>
            licence[l].count \in Nat /\ licence[l].used <= licence[l].count
  BY <1>1, AssetsAssumption, ZenonT(60) DEF SeatsAreFinite
<1>3. /\ licence' \in [Licences -> [count : SeatCounts \cup {Null}, used : Nat]]
      /\ seated' \in [Licences -> SUBSET Staff]
      /\ \A m \in Licences : m # l => licence'[m] = licence[m] /\ seated'[m] = seated[m]
      /\ IsFiniteSet(seated'[l]) /\ licence'[l].used = Cardinality(seated'[l])
      /\ licence'[l].count # Null => licence'[l].used <= licence'[l].count
  <2>1. CASE TakeSeat(k)
    <3>1. /\ keeper[k].emp \in Staff /\ keeper[k].emp \notin seated[l]
          /\ licence[l].count # Null => licence[l].used < licence[l].count
      BY <2>1 DEF TakeSeat, WorkIsLocked, WorkIsCurrent
    <3>2. /\ IsFiniteSet(seated[l] \cup {keeper[k].emp})
          /\ Cardinality(seated[l] \cup {keeper[k].emp}) = licence[l].used + 1
      BY ONLY <1>2, <3>1, FS_AddElement
    <3>3. /\ seated' = [seated EXCEPT ![l] = @ \cup {keeper[k].emp}]
          /\ licence' = [licence EXCEPT ![l].used = @ + 1]
      BY <2>1 DEF TakeSeat
    <3>4. /\ seated'[l] = seated[l] \cup {keeper[k].emp}
          /\ licence'[l].used = licence[l].used + 1 /\ licence'[l].count = licence[l].count
      BY <3>3, <1>1, <1>2
    <3>5. licence'[l].count # Null => licence'[l].used <= licence'[l].count
      BY ONLY <3>1, <3>4, <1>2
    <3>6. /\ licence' \in [Licences -> [count : SeatCounts \cup {Null}, used : Nat]]
          /\ seated' \in [Licences -> SUBSET Staff]
          /\ \A m \in Licences : m # l => licence'[m] = licence[m] /\ seated'[m] = seated[m]
      BY <3>1, <3>2, <3>3, <1>1, <1>2
    <3>7. QED
      BY ONLY <3>2, <3>4, <3>5, <3>6
  <2>2. CASE LeaveSeat(k)
    <3>1. keeper[k].emp \in seated[l]
      BY <2>2 DEF LeaveSeat
    <3>2. /\ IsFiniteSet(seated[l] \ {keeper[k].emp})
          /\ Cardinality(seated[l] \ {keeper[k].emp}) = licence[l].used - 1
          /\ licence[l].used # 0
      BY <1>2, <3>1, FS_RemoveElement, FS_EmptySet
    <3>3. /\ seated' = [seated EXCEPT ![l] = @ \ {keeper[k].emp}]
          /\ licence' = [licence EXCEPT ![l].used = IF @ = 0 THEN 0 ELSE @ - 1]
      BY <2>2 DEF LeaveSeat
    <3>4. /\ seated'[l] = seated[l] \ {keeper[k].emp}
          /\ licence'[l].used = licence[l].used - 1 /\ licence'[l].count = licence[l].count
      BY <3>2, <3>3, <1>1, <1>2
    <3>5. licence'[l].count # Null => licence'[l].used <= licence'[l].count
      BY ONLY <3>2, <3>4, <1>2
    <3>6. /\ licence' \in [Licences -> [count : SeatCounts \cup {Null}, used : Nat]]
          /\ seated' \in [Licences -> SUBSET Staff]
          /\ \A m \in Licences : m # l => licence'[m] = licence[m] /\ seated'[m] = seated[m]
      <4> DEFINE n == IF licence[l].used = 0 THEN 0 ELSE licence[l].used - 1
      <4>1. n \in Nat
        BY ONLY <1>2
      <4>2. licence' = [licence EXCEPT ![l].used = n]
        BY ONLY <3>3
      <4> HIDE DEF n
      <4>3. QED
        BY <3>3, <1>1, <4>1, <4>2
    <3>7. QED
      BY ONLY <3>2, <3>4, <3>5, <3>6
  <2>3. CASE ResizeLicence(k)
    BY <2>3, <1>0, <1>1, <1>2 DEF ResizeLicence, Handling, WorkIsCurrent
  <2>4. QED
    BY <2>1, <2>2, <2>3
<1>4. \A m \in Licences :
         \/ licence'[m] = licence[m] /\ seated'[m] = seated[m]
         \/ /\ stockLock[m] = k /\ IsFiniteSet(seated'[m])
            /\ licence'[m].used = Cardinality(seated'[m])
            /\ licence'[m].count # Null => licence'[m].used <= licence'[m].count
  BY <1>1, <1>3
<1>5. /\ AssetsInvariant
      /\ asset \in [Equipment -> [st : {"available", "assigned", "maintenance", "lost", "retired"},
                                  cond : Condition]]
      /\ holder \in [Equipment -> Staff \cup {Null}]
  OBVIOUS
<1> QED
  BY ONLY <1>0, <1>3, <1>4, <1>5, CommitKeeps, k \in Keepers

\* A request that is refused, and those of the resignations.
LEMMA OtherStep ==
    ASSUME AssetsInvariant,
           \/ \E k \in Keepers : RefusedHandling(k)
           \/ \E k \in Keepers, e \in Staff : ResignChecks(k, e)
           \/ \E k \in Keepers, d \in Resignations : ResignCommits(k, d)
           \/ \E d \in Resignations, st \in {"approved", "rejected", "withdrawn"} :
                 SettleResignation(d, st)
           \/ \E d \in Resignations : ProcessResignation(d)
    PROVE  AssetsInvariant'
<1> USE DEF inventory, offboarding
<1>1. ASSUME NEW k \in Keepers, RefusedHandling(k) PROVE AssetsInvariant'
  <2>1. EndsHandling(k) /\ UNCHANGED <<inventory, offboarding>>
    BY <1>1 DEF RefusedHandling
  <2>2. QED
    BY <2>1, CommitKeeps DEF AssetsInvariant, AssetsTypeOK
<1>2. ASSUME NEW k \in Keepers, NEW e \in Staff, ResignChecks(k, e) PROVE AssetsInvariant'
  <2>1. /\ keeper' \in [Keepers -> Handling]
        /\ keeper[k].op = "idle" /\ keeper'[k].op = "resign" /\ keeper'[k].emp = e
        /\ \A m \in Keepers : m # k => keeper'[m] = keeper[m]
        /\ UNCHANGED <<inventory, offboarding, stockLock>>
    BY <1>2 DEF ResignChecks, AssetsInvariant, AssetsTypeOK, Handling, NoHandling, Condition
  <2>2. \A x \in Rows : stockLock[x] # k
    BY <2>1, AssetsAssumption DEF AssetsInvariant, AssetsTypeOK, Rows
  <2>3. AssetsTypeOK'
    BY <2>1, <2>2 DEF AssetsInvariant, AssetsTypeOK, Rows
  <2>4. WorkIsLocked' /\ WorkIsCurrent'
    BY <2>1 DEF AssetsInvariant, WorkIsLocked, WorkIsCurrent, EquipmentOps, LicenceOps
  <2>5. QED
    BY <2>1, <2>3, <2>4 DEF AssetsInvariant, InventoryAgrees, SeatsAreFinite
<1>3. ASSUME NEW k \in Keepers, NEW d \in Resignations, ResignCommits(k, d)
      PROVE  AssetsInvariant'
  <2>1. EndsHandling(k) /\ UNCHANGED <<inventory, owing>>
    BY <1>3 DEF ResignCommits
  <2>2. resignation' \in [Resignations -> Resignation]
    BY <1>3 DEF ResignCommits, AssetsInvariant, AssetsTypeOK, WorkIsLocked, Resignation
  <2>3. /\ keeper' \in [Keepers -> Handling]
        /\ stockLock' \in [Rows -> Keepers \cup {Null}]
        /\ \A x \in Rows : stockLock'[x] # Null =>
              keeper'[stockLock'[x]].op # "idle" /\ keeper'[stockLock'[x]].row = x
        /\ WorkIsLocked'
    BY <2>1, EndingKeepsLocks
  <2>4. WorkIsCurrent'
    BY <2>1, OthersStayCurrent
  <2>5. QED
    BY <2>1, <2>2, <2>3, <2>4
       DEF AssetsInvariant, AssetsTypeOK, InventoryAgrees, SeatsAreFinite, Rows
<1>4. ASSUME NEW d \in Resignations, NEW st \in {"approved", "rejected", "withdrawn"},
             SettleResignation(d, st)
      PROVE  AssetsInvariant'
  <2>1. resignation' \in [Resignations -> Resignation] /\ owing' \subseteq Resignations
    BY <1>4 DEF SettleResignation, AssetsInvariant, AssetsTypeOK, Resignation
  <2>2. QED
    BY <2>1, <1>4, InventoryIsLeft DEF SettleResignation
<1>5. ASSUME NEW d \in Resignations, ProcessResignation(d) PROVE AssetsInvariant'
  <2>1. resignation' \in [Resignations -> Resignation] /\ owing' \subseteq Resignations
    BY <1>5 DEF ProcessResignation, AssetsInvariant, AssetsTypeOK, Resignation
  <2>2. QED
    BY <2>1, <1>5, InventoryIsLeft DEF ProcessResignation
<1>6. QED
  BY <1>1, <1>2, <1>3, <1>4, <1>5

\* Every step keeps the inductive invariant.
LEMMA AssetsStepKeeps ==
    ASSUME AssetsInvariant, [AssetsNext]_assetsVars PROVE AssetsInvariant'
<1>1. CASE UNCHANGED assetsVars
  BY <1>1, InventoryIsLeft DEF assetsVars, inventory, AssetsInvariant, AssetsTypeOK
<1>2. CASE AssetsNext
  BY <1>2, OpenAssetKeeps, OpenLicenceKeeps, EquipmentStep, LicenceStep, OtherStep DEF AssetsNext
<1>3. QED
  BY <1>1, <1>2

\* The inductive invariant holds throughout.
THEOREM AssetsInvariance == AssetsSpec => []AssetsInvariant
BY AssetsInitEstablishes, AssetsStepKeeps, PTL DEF AssetsSpec

\* However requests for equipment and licences overlap, an asset is assigned
\* exactly while somebody holds it and seats_used counts the seats taken,
\* within the seats there are.
THEOREM InventoriesAgree == AssetsSpec => []InventoryAgrees
<1>1. AssetsInvariant => InventoryAgrees
  BY DEF AssetsInvariant
<1>2. QED
  BY <1>1, AssetsInvariance, PTL

-----------------------------------------------------------------------------
(* The workforce.                                                          *)

\* A part never sees the others: what the workforce does is a step of the
\* part in focus, under its bounds, and the other parts rest.
LEMMA WorkforceStepsAreOfParts ==
    ASSUME [WorkforceNext]_workforceVars
    PROVE  /\ [AttendanceNext]_attendanceVars
           /\ [PayrollNext]_payrollVars
           /\ [ClaimsNext]_<<claimVars, extractionVars>>
           /\ [QrNext]_qrVars
           /\ [AssetsNext]_assetsVars
<1>1. CASE UNCHANGED workforceVars
  BY <1>1 DEF workforceVars, claimsVars
<1>2. CASE WorkforceNext
  <2>1. ASSUME ExtractionNext, UNCHANGED claimVars PROVE ClaimsNext
    BY <2>1 DEF ClaimsNext
  <2>2. QED
    BY <1>2, <2>1 DEF WorkforceNext, claimsVars
<1>3. QED
  BY <1>1, <1>2

\* The workforce side by side does what each part may do alone, so whatever
\* is proved of a part holds of the workforce.
THEOREM WorkforceImplementsItsParts ==
    WorkforceSpec => AttendanceSpec /\ PayrollSpec /\ ClaimsSpec /\ QrSpec /\ AssetsSpec
<1>1. WorkforceInit => /\ AttendanceInit
                       /\ PayrollInit
                       /\ ClaimsInit
                       /\ QrInit
                       /\ AssetsInit
  BY DEF WorkforceInit
<1>2. [WorkforceNext]_workforceVars => /\ [AttendanceNext]_attendanceVars
                                       /\ [PayrollNext]_payrollVars
                                       /\ [ClaimsNext]_<<claimVars, extractionVars>>
                                       /\ [QrNext]_qrVars
                                       /\ [AssetsNext]_assetsVars
  BY WorkforceStepsAreOfParts
<1>3. QED
  BY <1>1, <1>2, PTL
     DEF WorkforceSpec, AttendanceSpec, PayrollSpec, ClaimsSpec, QrSpec, AssetsSpec

\* Every part keeps its types beside the others.
THEOREM WorkforceIsTyped == WorkforceSpec => []WorkforceTypeOK
<1>1. PayrollInvariant => PayrollTypeOK
  BY DEF PayrollInvariant
<1>2. ClaimsInvariant => /\ ExtractionTypeOK
                         /\ ClaimsTypeOK
  BY DEF ClaimsInvariant, ExtractionInvariant
<1>3. AssetsInvariant => AssetsTypeOK
  BY DEF AssetsInvariant
<1>4. /\ AttendanceTypeOK
      /\ PayrollTypeOK
      /\ ExtractionTypeOK
      /\ ClaimsTypeOK
      /\ QrTypeOK
      /\ AssetsTypeOK
      => WorkforceTypeOK
  BY DEF WorkforceTypeOK
<1>5. QED
  BY <1>1, <1>2, <1>3, <1>4, WorkforceImplementsItsParts, AttendanceTypeCorrect,
     PayrollInvariance, ClaimsInvariance, QrTypeCorrect, AssetsInvariance, PTL
=============================================================================
