---------------------------- MODULE MCWorkforce ----------------------------
(* Attendance, payroll, expense claims, QR tokens and assets side by side, *)
(* for TLC.  They share no row, so no interleaving of one with another can *)
(* matter: a behaviour exercises one part, the focus, and the others rest  *)
(* in one of their initial states.                                         *)
EXTENDS Attendance, Payroll, ExpenseClaims, QrTokens, Assets, TLC

CONSTANT Parts   \* the parts a run exercises
VARIABLE focus   \* the part a behaviour exercises

\* A rostered day whose planned break is its first hour, and a shorter one.
MCDay == [start |-> 0, end |-> 2, bstart |-> 0, bend |-> 1]
MCRosters == {MCDay, [start |-> 0, end |-> 1, bstart |-> 0, bend |-> 1]}

claimsVars == <<claimVars, extractionVars>>

WorkforceInit ==
    /\ focus \in Parts
    /\ AttendanceInit /\ PayrollInit /\ ClaimsInit /\ QrInit /\ AssetsInit
    /\ focus = "breaks" => published = {MCDay}
    /\ focus \notin {"breaks", "departures"} => published = {}
    /\ focus # "assets" => \A l \in Licences : licence[l].count = Null

\* Rows of a table are interchangeable: they are inserted in the order of ids.
InOrder(table) == \A i, j \in DOMAIN table :
    i < j /\ table[j].st # "none" => table[i].st # "none"

\* Bounds of a focus: breaks are followed in one shift on a roster that stays
\* as it is, departures in two shifts or in one with a break, under a policy
\* that does, claims with one document, extracted before the first
\* claim, tokens of two families, and seats while no equipment is out.
OneShift == \A s \in TimeLogs : log[s].st # "none" => s = 1
OneBreak == \A b \in Breaks : brk[b].st # "none" => b = 1 /\ OneShift

OneExtraction ==
    /\ \A j \in Jobs : job[j].doc \in {Null, CHOOSE d \in Documents : TRUE}
    /\ Cardinality({j \in Jobs : job[j].st # "none"}) <= 1
    /\ Cardinality({u \in Uploads : upload[u].op # "idle"}) <= 1
    /\ Submitted # {} => \A u \in Uploads : upload[u].op = "idle"

OneStock ==
    \/ \A l \in Licences : seated[l] = {} /\ stockLock[l] = Null
    \/ \A x \in Equipment : asset[x].st = "available" /\ stockLock[x] = Null

TwoFamilies == Cardinality({k \in Tokens : token[k].family = k}) <= 2

WorkforceNext ==
    \/ /\ focus = "breaks" /\ AttendanceNext /\ InOrder(brk') /\ OneShift'
       /\ UNCHANGED <<published, leave>>
       /\ UNCHANGED <<focus, payrollVars, claimsVars, qrVars, assetsVars>>
    \/ /\ focus = "departures" /\ AttendanceNext /\ InOrder(log') /\ OneBreak'
       /\ UNCHANGED <<policy, req>>
       /\ UNCHANGED <<focus, payrollVars, claimsVars, qrVars, assetsVars>>
    \/ /\ focus = "payroll" /\ PayrollNext
       /\ UNCHANGED <<focus, attendanceVars, claimsVars, qrVars, assetsVars>>
    \/ /\ focus = "extraction" /\ ExtractionNext /\ InOrder(job')
       /\ UNCHANGED <<focus, claimVars, attendanceVars, payrollVars, qrVars, assetsVars>>
    \/ /\ focus = "claims" /\ ClaimsNext /\ OneExtraction' /\ InOrder(job') /\ InOrder(claim')
       /\ UNCHANGED <<focus, attendanceVars, payrollVars, qrVars, assetsVars>>
    \/ /\ focus = "qr" /\ QrNext /\ InOrder(token') /\ TwoFamilies'
       /\ UNCHANGED <<focus, attendanceVars, payrollVars, claimsVars, assetsVars>>
    \/ /\ focus = "assets" /\ AssetsNext /\ OneStock'
       /\ UNCHANGED <<focus, attendanceVars, payrollVars, claimsVars, qrVars>>

workforceVars == <<focus, attendanceVars, payrollVars, claimsVars, qrVars, assetsVars>>

WorkforceSpec == WorkforceInit /\ [][WorkforceNext]_workforceVars

\* Every part keeps its types, its locks held by running transactions and
\* the uniqueness its indexes promise.
WorkforceTypeOK ==
    /\ AttendanceTypeOK /\ PayrollTypeOK /\ ExtractionTypeOK /\ ClaimsTypeOK
    /\ QrTypeOK /\ AssetsTypeOK

MCSettings == {[active |-> TRUE, max |-> 1, approval |-> FALSE],
               [active |-> TRUE, max |-> Null, approval |-> TRUE]}
MCLoanTerms == {[emp |-> e, principal |-> 2, repayment |-> 1] : e \in Subjects}
MCSymmetry == Permutations(Clockings)
=============================================================================
