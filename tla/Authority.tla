----------------------------- MODULE Authority -----------------------------
(***************************************************************************)
(* Who may act: roles, their assignments to employees, and the rule that   *)
(* an HR administrator remains.                                            *)
(*                                                                         *)
(*   src/src/server/organisation/organisation-routes.ts                    *)
(*   src/src/server/organisation/legacy-role-routes.ts                     *)
(*   src/src/server/organisation/final-hr-admin.ts                         *)
(*                                                                         *)
(* An assignment is effective from one instant until another unless it is  *)
(* revoked.  Scopes, the permissions of a role and the check that the      *)
(* caller holds what he grants are left out: any clerk may try anything.   *)
(***************************************************************************)
EXTENDS Tenant

CONSTANTS
    Assignments,   \* employee_role_assignments rows
    Roles,         \* tenant_roles of the tenant itself
    HrAdmin,       \* the role whose system_key is 'hr_admin'
    LegacyAdmins,  \* employees whose employees.role is 'hr_admin'
    Clerks,        \* requests of several statements
    MaxInstant        \* bound: the clock

ASSUME AuthorityAssumption ==
    /\ HrAdmin \notin Roles /\ LegacyAdmins \subseteq Staff
    /\ Null \notin Assignments \cup Roles \cup {HrAdmin} \cup Clerks
    /\ MaxInstant \in Nat

VARIABLES
    assigned,       \* employee_role_assignments
    archived,       \* tenant_roles rows with is_active = false
    clerk,          \* what each request is doing
    authorityLock,  \* pg_advisory_xact_lock 'stanza-final-hr-admin'
    roleLock,       \* FOR UPDATE on a tenant_roles row
    clock

authorityVars == <<assigned, archived, clerk, authorityLock, roleLock, clock>>

AnyRole == Roles \cup {HrAdmin}
Grant == [emp : Staff, role : AnyRole, from : 0..MaxInstant, until : (1..MaxInstant) \cup {Null}]
NoGrant == [emp |-> Null, role |-> Null, from |-> 0, until |-> Null]

AssignmentRow == [st : {"none", "live", "revoked"}, grant : Grant \cup {NoGrant}]
NoAssignment == [st |-> "none", grant |-> NoGrant]

\* What a request will write (grant) or revoke (rows), the role it archives,
\* and the instant its check was made for.
Clerk == [op : {"idle", "assign", "legacyAssign", "revoke", "archive"},
          grant : Grant \cup {NoGrant}, rows : SUBSET Assignments,
          role : AnyRole \cup {Null}, at : 0..MaxInstant]
NoWork == [op |-> "idle", grant |-> NoGrant, rows |-> {}, role |-> Null, at |-> 0]

AuthorityTypeOK ==
    /\ assigned \in [Assignments -> AssignmentRow]
    /\ archived \subseteq Roles
    /\ clerk \in [Clerks -> Clerk]
    /\ authorityLock \in Clerks \cup {Null}
    /\ roleLock \in [AnyRole -> Clerks \cup {Null}]
    /\ clock \in 0..MaxInstant
    /\ authorityLock # Null => clerk[authorityLock].op \notin {"idle", "archive"}
    /\ \A o \in AnyRole : roleLock[o] # Null =>
          \/ clerk[roleLock[o]].op = "assign" /\ clerk[roleLock[o]].grant.role = o
          \/ clerk[roleLock[o]].op = "archive" /\ clerk[roleLock[o]].role = o

\* The signup leaves one administrator.
AuthorityInit ==
    /\ \E e \in Staff, first \in Assignments : assigned = [a \in Assignments |->
            IF a = first
            THEN [st |-> "live", grant |-> [emp |-> e, role |-> HrAdmin, from |-> 0, until |-> Null]]
            ELSE NoAssignment]
    /\ archived = {}
    /\ clerk = [r \in Clerks |-> NoWork]
    /\ authorityLock = Null
    /\ roleLock = [o \in AnyRole |-> Null]
    /\ clock = 0

Unrevoked(e, o) == {a \in Assignments : assigned[a].st = "live"
                        /\ assigned[a].grant.emp = e /\ assigned[a].grant.role = o}
RunsAt(g, t) == g.from <= t /\ (g.until # Null => g.until > t)
EffectiveAt(e, t) == {a \in Unrevoked(e, HrAdmin) : RunsAt(assigned[a].grant, t)}
AdminsAt(t) == LegacyAdmins \cup {e \in Staff : EffectiveAt(e, t) # {}}

\* assertHrAdminAssignmentTimingIsSafe, for a grant made now.
TimingIsSafe(g) ==
    /\ g.from > clock => AdminsAt(clock) # {} /\ AdminsAt(g.from) # {}
    /\ g.until # Null => AdminsAt(g.until) # {}

\* assertHrAdminAssignmentsMayBeRevoked: the rows are of one employee.
MayBeRevoked(e, rows) ==
    e \in AdminsAt(clock) =>
        \/ e \in LegacyAdmins
        \/ EffectiveAt(e, clock) \ rows # {}
        \/ AdminsAt(clock) \ {e} # {}

TimePasses ==
    /\ clock < MaxInstant
    /\ clock' = clock + 1
    /\ UNCHANGED <<assigned, archived, clerk, authorityLock, roleLock>>

-----------------------------------------------------------------------------
(* Assigning and revoking: every path first takes the authority lock, so   *)
(* the steps up to its check are one.                                      *)

AssignChecks(r, g) ==
    /\ clerk[r].op = "idle" /\ authorityLock = Null /\ roleLock[g.role] = Null
    /\ g.until # Null => g.until > g.from
    /\ g.role \notin archived
    /\ g.role = HrAdmin => TimingIsSafe(g)
    /\ authorityLock' = r /\ roleLock' = [roleLock EXCEPT ![g.role] = r]
    /\ clerk' = [clerk EXCEPT ![r] = [NoWork EXCEPT !.op = "assign", !.grant = g, !.at = clock]]
    /\ UNCHANGED <<assigned, archived, clock>>

\* The older route reads the role without locking it and grants from now on.
LegacyAssignChecks(r, e, o) ==
    /\ clerk[r].op = "idle" /\ authorityLock = Null
    /\ o \notin archived
    /\ authorityLock' = r
    /\ clerk' = [clerk EXCEPT ![r] = [NoWork EXCEPT !.op = "legacyAssign", !.at = clock,
            !.grant = [emp |-> e, role |-> o, from |-> clock, until |-> Null]]]
    /\ UNCHANGED <<assigned, archived, roleLock, clock>>

\* What has run out is revoked first; a unique index refuses a second
\* unrevoked assignment, which the older route takes for its own.
AssignCommits(r, a) ==
    LET g == clerk[r].grant
        over == {b \in Unrevoked(g.emp, g.role) :
                    assigned[b].grant.until # Null /\ assigned[b].grant.until <= clock}
    IN
    /\ clerk[r].op \in {"assign", "legacyAssign"} /\ assigned[a].st = "none"
    /\ roleLock[g.role] \in {r, Null}
    /\ Unrevoked(g.emp, g.role) \subseteq over
    /\ assigned' = [b \in Assignments |->
            IF b = a THEN [st |-> "live", grant |-> g]
            ELSE IF b \in over THEN [assigned[b] EXCEPT !.st = "revoked"] ELSE assigned[b]]
    /\ authorityLock' = Null
    /\ roleLock' = [o \in AnyRole |-> IF roleLock[o] = r THEN Null ELSE roleLock[o]]
    /\ clerk' = [clerk EXCEPT ![r] = NoWork]
    /\ UNCHANGED <<archived, clock>>

\* Variant of RevokeChecks: the authority lock is not taken.
RevokeChecksUnlocked(r, e, o, rows) ==
    /\ clerk[r].op = "idle" /\ rows # {} /\ rows \subseteq Unrevoked(e, o)
    /\ o = HrAdmin => MayBeRevoked(e, rows)
    /\ clerk' = [clerk EXCEPT ![r] = [NoWork EXCEPT !.op = "revoke", !.rows = rows, !.at = clock]]
    /\ UNCHANGED <<assigned, archived, authorityLock, roleLock, clock>>

\* One assignment, or by the older route all an employee has of a role.
RevokeChecks(r, e, o, rows) ==
    /\ clerk[r].op = "idle" /\ authorityLock = Null
    /\ rows # {} /\ rows \subseteq Unrevoked(e, o)
    /\ o = HrAdmin => MayBeRevoked(e, rows)
    /\ authorityLock' = r
    /\ clerk' = [clerk EXCEPT ![r] = [NoWork EXCEPT !.op = "revoke", !.rows = rows, !.at = clock]]
    /\ UNCHANGED <<assigned, archived, roleLock, clock>>

RevokeCommits(r) ==
    /\ clerk[r].op = "revoke"
    /\ assigned' = [a \in Assignments |->
            IF a \in clerk[r].rows THEN [assigned[a] EXCEPT !.st = "revoked"] ELSE assigned[a]]
    /\ authorityLock' = IF authorityLock = r THEN Null ELSE authorityLock
    /\ clerk' = [clerk EXCEPT ![r] = NoWork]
    /\ UNCHANGED <<archived, roleLock, clock>>

-----------------------------------------------------------------------------
(* Archiving a role of the tenant; it is never brought back.               *)

\* Variant of ArchiveReads: the role is not read FOR UPDATE.
ArchiveReadsUnlocked(r, o) ==
    /\ clerk[r].op = "idle" /\ o \notin archived
    /\ \A a \in Assignments : (assigned[a].st = "live" /\ assigned[a].grant.role = o) =>
            assigned[a].grant.until # Null /\ assigned[a].grant.until <= clock
    /\ clerk' = [clerk EXCEPT ![r] = [NoWork EXCEPT !.op = "archive", !.role = o, !.at = clock]]
    /\ UNCHANGED <<assigned, archived, authorityLock, roleLock, clock>>

ArchiveReads(r, o) ==
    /\ clerk[r].op = "idle" /\ roleLock[o] = Null /\ o \notin archived
    /\ \A a \in Assignments : (assigned[a].st = "live" /\ assigned[a].grant.role = o) =>
            assigned[a].grant.until # Null /\ assigned[a].grant.until <= clock
    /\ roleLock' = [roleLock EXCEPT ![o] = r]
    /\ clerk' = [clerk EXCEPT ![r] = [NoWork EXCEPT !.op = "archive", !.role = o, !.at = clock]]
    /\ UNCHANGED <<assigned, archived, authorityLock, clock>>

ArchiveCommits(r) ==
    /\ clerk[r].op = "archive"
    /\ archived' = archived \cup {clerk[r].role}
    /\ roleLock' = [o \in AnyRole |-> IF roleLock[o] = r THEN Null ELSE roleLock[o]]
    /\ clerk' = [clerk EXCEPT ![r] = NoWork]
    /\ UNCHANGED <<assigned, authorityLock, clock>>

\* Refused by a later check or failed: everything is rolled back.
ClerkFails(r) ==
    /\ clerk[r].op # "idle"
    /\ authorityLock' = IF authorityLock = r THEN Null ELSE authorityLock
    /\ roleLock' = [o \in AnyRole |-> IF roleLock[o] = r THEN Null ELSE roleLock[o]]
    /\ clerk' = [clerk EXCEPT ![r] = NoWork]
    /\ UNCHANGED <<assigned, archived, clock>>

AuthorityNext ==
    \/ TimePasses
    \/ \E r \in Clerks, e \in Staff, o \in AnyRole, from \in clock..MaxInstant,
          until \in ((clock + 1)..MaxInstant) \cup {Null} :
            AssignChecks(r, [emp |-> e, role |-> o, from |-> from, until |-> until])
    \/ \E r \in Clerks, e \in Staff, o \in AnyRole : LegacyAssignChecks(r, e, o)
    \/ \E r \in Clerks, a \in Assignments : AssignCommits(r, a)
    \/ \E r \in Clerks, e \in Staff, o \in AnyRole, rows \in SUBSET Assignments :
            RevokeChecks(r, e, o, rows)
    \/ \E r \in Clerks : RevokeCommits(r)
    \/ \E r \in Clerks, o \in Roles : ArchiveReads(r, o)
    \/ \E r \in Clerks : ArchiveCommits(r)
    \/ \E r \in Clerks : ClerkFails(r)

AuthoritySpec == AuthorityInit /\ [][AuthorityNext]_authorityVars

-----------------------------------------------------------------------------
(* Properties.                                                             *)

\* Revoking never takes away the last HR administrator, two revocations at
\* once included: at the instant the check was made for, some remain.
RevocationKeepsAdmin == [][\A r \in Clerks, t \in 0..MaxInstant :
    (/\ clerk[r].op = "revoke" /\ clerk[r].at = t /\ clerk'[r].op = "idle"
     /\ assigned' # assigned /\ AdminsAt(t) # {}) => AdminsAt(t)' # {}]_authorityVars

\* A role is archived only when nobody holds it or is about to: not even an
\* assignment that commits while the role is being archived.
ArchiveFindsNone == [][\A o \in archived' \ archived, a \in Assignments :
    (assigned[a].st = "live" /\ assigned[a].grant.role = o) =>
        assigned[a].grant.until # Null /\ assigned[a].grant.until <= clock]_authorityVars
=============================================================================
