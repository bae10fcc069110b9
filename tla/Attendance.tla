----------------------------- MODULE Attendance -----------------------------
(***************************************************************************)
(* Clocking in and out, breaks, break requests, early departures and the   *)
(* attendance policy, for one employee and the people who manage them.     *)
(*                                                                         *)
(*   src/server/attendance/attendance-routes.ts                            *)
(*   src/server/attendance/flexible-attendance-routes.ts                   *)
(*   src/server/attendance/attendance-state.ts, attendance-policy.ts       *)
(*   src/server/breaks/break-request-routes.ts                             *)
(*                                                                         *)
(* Every handler is one READ COMMITTED transaction.  The transactions that *)
(* start a break, clock out or read the clock status are split into what   *)
(* they read and what they commit, so that everything else interleaves     *)
(* with them; the others hold a lock from their first read to their commit *)
(* or consist of one guarded UPDATE, and are single steps.                 *)
(***************************************************************************)
EXTENDS Tenant

CONSTANTS
    TimeLogs,        \* time_logs rows
    Breaks,          \* attendance_breaks rows
    BreakRequests,   \* break_requests rows
    Policies,        \* attendance_break_policies rows
    Clockings,       \* transactions of several steps
    Rosters,         \* shifts the employee may be rostered for
    MaxHour,         \* bound: the clock
    PolicySettings,  \* what an administrator may set a break policy to
    Modes,           \* location modes an administrator may choose
    MaxPolicyEdits,  \* bound: policy updates
    MaxRosterEdits   \* bound: rostered shifts published or withdrawn

Hours == 0..MaxHour

ASSUME AttendanceAssumption ==
    /\ MaxHour \in Nat
    /\ {MaxPolicyEdits, MaxRosterEdits} \subseteq Nat
    /\ Rosters \subseteq [start : Hours, end : Hours, bstart : Hours, bend : Hours]
    /\ \A r \in Rosters : /\ r.start <= r.bstart /\ r.bstart < r.bend
                          /\ r.bend <= r.end
    /\ Null \notin Nat /\ Null \notin Rosters
    /\ Null \notin TimeLogs \cup BreakRequests \cup Policies \cup Clockings
    /\ PolicySettings \subseteq
           [active : BOOLEAN, max : Nat \cup {Null}, approval : BOOLEAN]
    /\ Modes \subseteq {"required", "optional", "disabled"}

VARIABLES
    hour,       \* the database clock
    published,  \* rostered shifts whose status is scheduled
    rules,      \* location mode, custom and unfiled breaks allowed
    policy,     \* the break policies (inactive before they are created)
    log,        \* time_logs
    brk,        \* attendance_breaks
    req,        \* break_requests
    leave,      \* the latest early departure request of each shift
    clocking,   \* what the running transactions have read
    ruleLock,   \* holder of the attendance-policy advisory lock
    rowLock,    \* holder of the row lock of each shift
    spent       \* how much of each bound is spent

attendanceVars == <<hour, published, rules, policy, log, brk, req, leave,
                    clocking, ruleLock, rowLock, spent>>

timeLocks == <<ruleLock, rowLock>>

Log    == [st : {"none", "open", "closed"}, in : Hours, sched : Rosters \cup {Null},
           mode : {"required", "optional", "disabled"},
           place : {"verified", "outside", "unavailable", "disabled"},
           out : Hours \cup {Null}, eff : Hours \cup {Null}]
Break  == [st : {"none", "active", "ended"}, shift : TimeLogs \cup {Null},
           source : {"policy", "approved_request", "unfiled"},
           req : BreakRequests \cup {Null}, pol : Policies \cup {Null},
           exc : {"none", "unresolved", "resolved"}]
Request == [st : {"none", "pending", "approved", "rejected", "cancelled"},
            pol : Policies \cup {Null}, from : Hours \cup {Null}]
Leave  == [st : {"none", "pending", "approved", "rejected"},
           at : Hours \cup {Null}]

NoLog == [st |-> "none", in |-> 0, sched |-> Null, mode |-> "required",
          place |-> "unavailable", out |-> Null, eff |-> Null]
NoBreak == [st |-> "none", shift |-> Null, source |-> "policy", req |-> Null,
            pol |-> Null, exc |-> "none"]

\* The exclusion constraint roster_shifts_no_overlap.
NoOverlap(rs) ==
    \A q, r \in rs : q = r \/ q.end <= r.start \/ r.end <= q.start

\* A transaction: what it does, its shift, the rostered shift it binds, the
\* authorised end it read, whether the user confirmed, the break it inserts.
Clocking(op, s, sched, eff, sure, row) ==
    [op |-> op, shift |-> s, sched |-> sched, eff |-> eff, sure |-> sure,
     row |-> row]
NoClocking == Clocking("idle", Null, Null, Null, FALSE, NoBreak)

AttendanceTypeOK ==
    /\ hour \in Hours
    /\ published \subseteq Rosters /\ NoOverlap(published)
    /\ rules \in [mode : {"required", "optional", "disabled"},
                  custom : BOOLEAN, unfiled : BOOLEAN]
    /\ policy \in [Policies -> [active : BOOLEAN, max : Nat \cup {Null},
                                approval : BOOLEAN]]
    /\ log \in [TimeLogs -> Log]
    /\ \A s \in TimeLogs : log[s].st = "closed" <=> log[s].out # Null
    /\ brk \in [Breaks -> Break]
    /\ req \in [BreakRequests -> Request]
    /\ leave \in [TimeLogs -> Leave]
    /\ clocking \in [Clockings -> [op : {"idle", "starting", "leaving", "status"},
                       shift : TimeLogs \cup {Null}, sched : Rosters \cup {Null},
                       eff : Hours \cup {Null}, sure : BOOLEAN, row : Break]]
    /\ ruleLock \in Clockings \cup {Null}
    /\ rowLock \in [TimeLogs -> Clockings \cup {Null}]
    /\ spent \in [{"policy", "roster"} -> Nat]
    /\ ruleLock # Null => clocking[ruleLock].op = "starting"
    /\ \A s \in TimeLogs : rowLock[s] # Null =>
          clocking[rowLock[s]].op \in {"starting", "leaving"} /\ clocking[rowLock[s]].shift = s

AttendanceInit ==
    /\ hour = 0
    /\ published \in {rs \in SUBSET Rosters : NoOverlap(rs)}
    /\ rules = [mode |-> "required", custom |-> TRUE, unfiled |-> TRUE]
    /\ policy = [p \in Policies |->
                    [active |-> FALSE, max |-> Null, approval |-> FALSE]]
    /\ log = [s \in TimeLogs |-> NoLog]
    /\ brk = [b \in Breaks |-> NoBreak]
    /\ req = [r \in BreakRequests |-> [st |-> "none", pol |-> Null, from |-> Null]]
    /\ leave = [s \in TimeLogs |-> [st |-> "none", at |-> Null]]
    /\ clocking = [t \in Clockings |-> NoClocking]
    /\ ruleLock = Null
    /\ rowLock = [s \in TimeLogs |-> Null]
    /\ spent = [b \in {"policy", "roster"} |-> 0]

Spend(b, limit) ==
    /\ spent[b] < limit
    /\ spent' = [spent EXCEPT ![b] = @ + 1]

-----------------------------------------------------------------------------
(* attendance-state.ts                                                     *)

\* bindAttendanceSchedule: the published rostered shift containing the
\* original clock-in, unless the row is bound already.
Bound(s) ==
    IF log[s].sched # Null THEN {log[s].sched}
    ELSE LET on == {r \in published : r.start <= log[s].in /\ log[s].in < r.end}
         IN  IF on = {} THEN {Null} ELSE on

\* The authorised end: an approved departure, else the scheduled end.
EffectiveEnd(s, sched) ==
    IF leave[s].st = "approved" THEN leave[s].at
    ELSE IF sched = Null THEN Null ELSE sched.end

\* remainingSeconds > 0.
Remaining(end) == end # Null /\ hour < end

ActiveBreaks(s) == {b \in Breaks : brk[b].st = "active" /\ brk[b].shift = s}

\* Uses of a policy in a shift, and the breaks planned by the roster.
Uses(s, p) == Cardinality({b \in Breaks : brk[b].st # "none" /\
                                          brk[b].shift = s /\ brk[b].pol = p})
Planned(s) == {b \in Breaks : brk[b].st # "none" /\ brk[b].shift = s
                              /\ brk[b].source = "policy"}

-----------------------------------------------------------------------------
(* Clocking in                                                             *)

\* The shift starts, bound to the roster, with the policy in force.
Opens(s, place) ==
    /\ ruleLock = Null
    /\ log[s].st = "none"
    /\ \A o \in TimeLogs : log[o].st # "open"
    /\ \E sched \in LET on == {r \in published : r.start <= hour /\ hour < r.end}
                    IN  IF on = {} THEN {Null} ELSE on :
          log' = [log EXCEPT ![s] = [NoLog EXCEPT !.st = "open", !.in = hour,
                      !.sched = sched, !.mode = rules.mode, !.place = place]]
    /\ UNCHANGED <<hour, published, rules, policy, brk, req, leave, clocking, timeLocks,
                   spent>>

\* POST /api/clock-in: the point sent lies inside, outside or is missing.
ClockInAt(s, point) ==
    /\ rules.mode = "required" => point = "verified"
    /\ Opens(s, IF rules.mode = "disabled" THEN "disabled" ELSE point)

\* POST /api/attendance/clock-in-without-location, explicitly confirmed.
ClockInWithoutLocation(s) == Opens(s, "unavailable")

-----------------------------------------------------------------------------
(* GET /api/clock-status reads the open shift without a lock and then binds *)
(* it.  The early departure preview and an unconfirmed clock-out do the     *)
(* same under the row's lock.                                               *)

StatusReads(t, s) ==
    /\ clocking[t].op = "idle"
    /\ log[s].st = "open"
    /\ \E sched \in Bound(s) :
          /\ sched # Null /\ log[s].sched = Null
          /\ clocking' = [clocking EXCEPT ![t] = Clocking("status", s, sched, Null, FALSE, NoBreak)]
    /\ UNCHANGED <<hour, published, rules, policy, log, brk, req, leave, timeLocks,
                   spent>>

\* Variant of StatusBinds: the update of a row does not wait for its lock.
StatusBindsUnlocked(t) ==
    /\ clocking[t].op = "status"
    /\ LET s == clocking[t].shift
       IN  log' = [log EXCEPT ![s].sched = IF @ = Null THEN clocking[t].sched ELSE @]
    /\ clocking' = [clocking EXCEPT ![t] = NoClocking]
    /\ UNCHANGED <<hour, published, rules, policy, brk, req, leave, timeLocks, spent>>

StatusBinds(t) ==
    /\ clocking[t].op = "status"
    /\ LET s == clocking[t].shift
       IN  /\ rowLock[s] = Null
           /\ log' = [log EXCEPT ![s].sched =
                         IF @ = Null THEN clocking[t].sched ELSE @]
    /\ clocking' = [clocking EXCEPT ![t] = NoClocking]
    /\ UNCHANGED <<hour, published, rules, policy, brk, req, leave, timeLocks, spent>>

-----------------------------------------------------------------------------
(* POST /api/clock-out                                                     *)

\* Variant of ClockOutReads: the shift is not locked.
ClockOutReadsUnlocked(t, s, sure) ==
    /\ clocking[t].op = "idle"
    /\ log[s].st = "open"
    /\ \E sched \in Bound(s) :
          LET eff == EffectiveEnd(s, sched)
          IN  /\ Remaining(eff) => sure
              /\ clocking' = [clocking EXCEPT ![t] =
                            Clocking("leaving", s, sched, eff, sure, NoBreak)]
    /\ UNCHANGED <<hour, published, rules, policy, log, brk, req, leave, timeLocks,
                   spent>>

\* The open shift is locked and read; leaving before the authorised end needs
\* the user's confirmation.
ClockOutReads(t, s, sure) ==
    /\ clocking[t].op = "idle"
    /\ rowLock[s] = Null
    /\ log[s].st = "open"
    /\ \E sched \in Bound(s) :
          LET eff == EffectiveEnd(s, sched)
          IN  /\ Remaining(eff) => sure
              /\ clocking' = [clocking EXCEPT ![t] =
                            Clocking("leaving", s, sched, eff, sure, NoBreak)]
    /\ rowLock' = [rowLock EXCEPT ![s] = t]
    /\ UNCHANGED <<hour, published, rules, policy, log, brk, req, leave,
                   ruleLock, spent>>

\* Variant of ClockOutCommits: the clock-out time is forgotten.
ClockOutUntimed(t) ==
    /\ clocking[t].op = "leaving"
    /\ LET s == clocking[t].shift
       IN  /\ log' = [log EXCEPT ![s].st = "closed",
                          ![s].sched = clocking[t].sched, ![s].eff = clocking[t].eff]
           /\ brk' = [b \in Breaks |-> IF b \in ActiveBreaks(s)
                                       THEN [brk[b] EXCEPT !.st = "ended"]
                                       ELSE brk[b]]
           /\ rowLock' = [rowLock EXCEPT ![s] = Null]
    /\ clocking' = [clocking EXCEPT ![t] = NoClocking]
    /\ UNCHANGED <<hour, published, rules, policy, req, leave, ruleLock, spent>>

\* Active breaks end with the shift, which keeps what was read.
ClockOutCommits(t) ==
    /\ clocking[t].op = "leaving"
    /\ LET s == clocking[t].shift
       IN  /\ log' = [log EXCEPT ![s].st = "closed", ![s].out = hour,
                          ![s].sched = clocking[t].sched, ![s].eff = clocking[t].eff]
           /\ brk' = [b \in Breaks |-> IF b \in ActiveBreaks(s)
                                       THEN [brk[b] EXCEPT !.st = "ended"]
                                       ELSE brk[b]]
           /\ rowLock' = [rowLock EXCEPT ![s] = Null]
    /\ clocking' = [clocking EXCEPT ![t] = NoClocking]
    /\ UNCHANGED <<hour, published, rules, policy, req, leave, ruleLock, spent>>

-----------------------------------------------------------------------------
(* POST /api/attendance/breaks/start                                       *)

\* The policy lock, the shift's row lock, no active break, and the
\* authorised end not reached; the row is then prepared.
BeginsBreak(t, s, row) ==
    /\ clocking[t].op = "idle"
    /\ ruleLock = Null /\ rowLock[s] = Null
    /\ log[s].st = "open"
    /\ ActiveBreaks(s) = {}
    /\ \E sched \in Bound(s) :
          LET eff == EffectiveEnd(s, sched)
          IN  /\ eff # Null => hour < eff
              /\ clocking' = [clocking EXCEPT ![t] =
                            Clocking("starting", s, sched, eff, FALSE, row)]
    /\ ruleLock' = t
    /\ rowLock' = [rowLock EXCEPT ![s] = t]
    /\ UNCHANGED <<hour, published, rules, policy, log, brk, req, leave, spent>>

NewBreak(s, source, r, p, exc) ==
    [st |-> "active", shift |-> s, source |-> source, req |-> r, pol |-> p,
     exc |-> exc]

\* The planned break of the roster, while it is due and not taken.
StartPlanned(t, s) ==
    /\ \E sched \in Bound(s) :
          /\ sched # Null
          /\ sched.bstart <= hour /\ hour < sched.bend
    /\ Planned(s) = {}
    /\ BeginsBreak(t, s, NewBreak(s, "policy", Null, Null, "none"))

\* The policy a break is taken under is active and not spent up; without one,
\* custom breaks must be allowed.
PolicyAllows(s, p) ==
    IF p = Null THEN rules.custom
    ELSE /\ policy[p].active
         /\ policy[p].max # Null => Uses(s, p) < policy[p].max

\* The break of an approved request whose time has come; a request asks for
\* one time step.
StartRequested(t, s, r) ==
    /\ req[r].st = "approved"
    /\ req[r].from # Null => req[r].from <= hour /\ hour <= req[r].from + 1
    /\ PolicyAllows(s, req[r].pol)
    /\ BeginsBreak(t, s, NewBreak(s, "approved_request", r, req[r].pol, "none"))

\* A break nobody approved: an exception to be explained later.
StartUnfiled(t, s, p) ==
    /\ PolicyAllows(s, p)
    /\ p # Null => ~policy[p].approval
    /\ rules.unfiled
    /\ BeginsBreak(t, s, NewBreak(s, "unfiled", Null, p, "unresolved"))

\* The insert, which the unique indexes refuse for a second active break, a
\* request already consumed or a planned break already taken.
Consumed(r) == \E b \in Breaks : brk[b].st # "none" /\ brk[b].req = r

Released(t) ==
    /\ clocking' = [clocking EXCEPT ![t] = NoClocking]
    /\ ruleLock' = Null
    /\ rowLock' = [rowLock EXCEPT ![clocking[t].shift] = Null]
    /\ UNCHANGED <<hour, published, rules, policy, req, leave, spent>>

Duplicate(row) ==
    \/ ActiveBreaks(row.shift) # {}
    \/ row.req # Null /\ Consumed(row.req)
    \/ row.source = "policy" /\ Planned(row.shift) # {}

\* Variant of StartCommits: no unique indexes.
StartCommitsUnchecked(t, b) ==
    /\ clocking[t].op = "starting"
    /\ brk[b].st = "none"
    /\ brk' = [brk EXCEPT ![b] = clocking[t].row]
    /\ log' = [log EXCEPT ![clocking[t].shift].sched = clocking[t].sched]
    /\ Released(t)

StartCommits(t, b) ==
    /\ clocking[t].op = "starting"
    /\ brk[b].st = "none"
    /\ ~Duplicate(clocking[t].row)
    /\ brk' = [brk EXCEPT ![b] = clocking[t].row]
    /\ log' = [log EXCEPT ![clocking[t].shift].sched = clocking[t].sched]
    /\ Released(t)

\* The insert is refused, or the transaction fails; everything rolls back.
StartRollsBack(t) ==
    /\ clocking[t].op = "starting"
    /\ Released(t)
    /\ UNCHANGED <<log, brk>>

-----------------------------------------------------------------------------
(* Resuming work and explaining exceptions                                 *)

Resume(s, b) ==
    /\ rowLock[s] = Null
    /\ log[s].st = "open"
    /\ b \in ActiveBreaks(s)
    /\ brk' = [brk EXCEPT ![b].st = "ended"]
    /\ UNCHANGED <<hour, published, rules, policy, log, req, leave, clocking, timeLocks,
                   spent>>

Resolve(b) ==
    /\ brk[b].st = "ended" /\ brk[b].exc = "unresolved"
    /\ brk' = [brk EXCEPT ![b].exc = "resolved"]
    /\ UNCHANGED <<hour, published, rules, policy, log, req, leave, clocking, timeLocks,
                   spent>>

-----------------------------------------------------------------------------
(* Early departures                                                        *)

AskToLeave(s, at) ==
    /\ rowLock[s] = Null
    /\ log[s].st = "open"
    /\ leave[s].st \notin {"pending", "approved"}
    /\ \E sched \in Bound(s) :
          /\ sched # Null
          /\ hour <= at /\ log[s].in < at /\ at < EffectiveEnd(s, sched)
          /\ log' = [log EXCEPT ![s].sched = sched]
    /\ leave' = [leave EXCEPT ![s] = [st |-> "pending", at |-> at]]
    /\ UNCHANGED <<hour, published, rules, policy, brk, req, clocking, timeLocks, spent>>

\* Variant of ReviewLeave: the shift is neither locked nor read.
ReviewLeaveUnlocked(s, decision) ==
    /\ leave[s].st = "pending"
    /\ hour < log[s].sched.end
    /\ leave' = [leave EXCEPT ![s].st = decision]
    /\ UNCHANGED <<hour, published, rules, policy, log, brk, req, clocking, timeLocks,
                   spent>>

\* The reviewer decides while the shift is open and not over.
ReviewLeave(s, decision) ==
    /\ rowLock[s] = Null
    /\ log[s].st = "open"
    /\ leave[s].st = "pending"
    /\ hour < log[s].sched.end
    /\ leave' = [leave EXCEPT ![s].st = decision]
    /\ UNCHANGED <<hour, published, rules, policy, log, brk, req, clocking, timeLocks,
                   spent>>

-----------------------------------------------------------------------------
(* Break requests                                                          *)

\* A running transaction holds the request's row.
Held(r) == \E t \in Clockings : clocking[t].op = "starting" /\ clocking[t].row.req = r

\* Approved at once when its policy needs no approval.
RequestBreak(r, p, from) ==
    /\ ruleLock = Null
    /\ req[r].st = "none"
    /\ IF p = Null THEN rules.custom ELSE policy[p].active
    /\ req' = [req EXCEPT ![r] =
                  [st |-> IF p # Null /\ ~policy[p].approval
                          THEN "approved" ELSE "pending",
                   pol |-> p, from |-> from]]
    /\ UNCHANGED <<hour, published, rules, policy, log, brk, leave, clocking, timeLocks,
                   spent>>

\* Approved or rejected by a reviewer, or cancelled by the employee: one
\* UPDATE of a pending row.
DecideRequest(r, decision) ==
    /\ ~Held(r)
    /\ req[r].st = "pending"
    /\ req' = [req EXCEPT ![r].st = decision]
    /\ UNCHANGED <<hour, published, rules, policy, log, brk, leave, clocking, timeLocks,
                   spent>>

-----------------------------------------------------------------------------
(* The policy, the roster and time                                         *)

\* Variant of SavePolicy: the advisory lock is not taken.
SavePolicyUnlocked(mode, custom, unfiled, settings) ==
    /\ Spend("policy", MaxPolicyEdits)
    /\ rules' = [mode |-> mode, custom |-> custom, unfiled |-> unfiled]
    /\ policy' = settings
    /\ UNCHANGED <<hour, published, log, brk, req, leave, clocking, timeLocks>>

\* PUT /api/attendance/policy: entries that are not listed become inactive.
SavePolicy(mode, custom, unfiled, settings) ==
    /\ ruleLock = Null
    /\ Spend("policy", MaxPolicyEdits)
    /\ rules' = [mode |-> mode, custom |-> custom, unfiled |-> unfiled]
    /\ policy' = settings
    /\ UNCHANGED <<hour, published, log, brk, req, leave, clocking, timeLocks>>

\* The roster routes publish or withdraw a rostered shift; moving one is
\* withdrawing it and publishing another.
EditRoster(r) ==
    /\ Spend("roster", MaxRosterEdits)
    /\ published' = IF r \in published THEN published \ {r}
                                       ELSE published \cup {r}
    /\ NoOverlap(published')
    /\ UNCHANGED <<hour, rules, policy, log, brk, req, leave, clocking, timeLocks>>

HourPasses ==
    /\ hour < MaxHour
    /\ hour' = hour + 1
    /\ UNCHANGED <<published, rules, policy, log, brk, req, leave, clocking, timeLocks,
                   spent>>

-----------------------------------------------------------------------------
ShiftStep(s) ==
    \/ \E point \in {"verified", "outside", "unavailable"} : ClockInAt(s, point)
    \/ ClockInWithoutLocation(s)
    \/ \E b \in Breaks : Resume(s, b)
    \/ \E at \in Hours : AskToLeave(s, at)
    \/ \E decision \in {"approved", "rejected"} : ReviewLeave(s, decision)

StartStep(t, s) ==
    \/ StartPlanned(t, s)
    \/ \E r \in BreakRequests : StartRequested(t, s, r)
    \/ \E p \in Policies \cup {Null} : StartUnfiled(t, s, p)

TxStep(t) ==
    \/ \E s \in TimeLogs : \/ StatusReads(t, s) \/ StartStep(t, s)
                         \/ \E sure \in BOOLEAN : ClockOutReads(t, s, sure)
    \/ StatusBinds(t) \/ ClockOutCommits(t)
    \/ \E b \in Breaks : StartCommits(t, b)
    \/ StartRollsBack(t)

RequestStep(r) ==
    \/ \E p \in Policies \cup {Null}, from \in Hours \cup {Null} :
          RequestBreak(r, p, from)
    \/ \E decision \in {"approved", "rejected", "cancelled"} :
          DecideRequest(r, decision)

AttendanceNext ==
    \/ \E s \in TimeLogs : ShiftStep(s)
    \/ \E t \in Clockings : TxStep(t)
    \/ \E r \in BreakRequests : RequestStep(r)
    \/ \E b \in Breaks : Resolve(b)
    \/ \E mode \in Modes, custom, unfiled \in BOOLEAN,
          settings \in [Policies -> PolicySettings] :
          SavePolicy(mode, custom, unfiled, settings)
    \/ \E r \in Rosters : EditRoster(r)
    \/ HourPasses

AttendanceSpec == AttendanceInit /\ [][AttendanceNext]_attendanceVars

-----------------------------------------------------------------------------
(* Properties                                                              *)

\* An employee works one shift and takes one break at a time, and nobody is
\* on a break of a shift that is over: a break started while its shift is
\* being clocked out would accrue break time for ever.
BreaksInsideOpenShift ==
    /\ Cardinality({s \in TimeLogs : log[s].st = "open"}) <= 1
    /\ \A s \in TimeLogs : Cardinality(ActiveBreaks(s)) <= 1
    /\ \A b \in Breaks : brk[b].st = "active" => log[brk[b].shift].st = "open"

\* An approved request is consumed once, and never decided otherwise after
\* the break it allowed.
RequestConsumedOnce ==
    /\ \A b \in Breaks : brk[b].st # "none" /\ brk[b].req # Null =>
          /\ req[brk[b].req].st = "approved"
          /\ req[brk[b].req].pol = brk[b].pol
    /\ \A b, c \in Breaks : brk[b].st # "none" /\ brk[c].st # "none"
          /\ brk[b].req # Null /\ brk[b].req = brk[c].req => b = c

\* What clock-out recorded as the authorised end is what had been authorised:
\* the approved departure if there is one, and no decision comes later.
DepartureIsRecorded ==
    \A s \in TimeLogs : log[s].st = "closed" =>
        IF leave[s].st = "approved" THEN log[s].eff = leave[s].at
        ELSE log[s].eff # Null => log[s].eff = log[s].sched.end

\* Nobody is clocked out before their authorised end without confirming it.
EarlyNeedsConfirmation ==
    [][\A s \in TimeLogs :
          /\ log[s].st = "open" /\ log'[s].st = "closed"
          /\ Remaining(EffectiveEnd(s, log[s].sched))
          => \E t \in Clockings : /\ clocking[t].op = "leaving" /\ clocking[t].shift = s
                                  /\ clocking[t].sure]_attendanceVars

\* A break begins under rules that are in force at that moment, not under
\* those its transaction read.
PolicyHonoured ==
    [][\A b \in Breaks : brk[b].st = "none" /\ brk'[b].st = "active" =>
          LET row == brk'[b]
          IN  \/ row.source = "policy"
              \/ /\ PolicyAllows(row.shift, row.pol)
                 /\ row.source = "unfiled" =>
                       /\ rules.unfiled
                       /\ row.pol # Null => ~policy[row.pol].approval]_attendanceVars

\* A shift is bound to the roster once; later edits of the roster do not move
\* its scheduled end, and an approved departure is never withdrawn.
BoundOnce ==
    [][\A s \in TimeLogs :
          /\ log[s].sched # Null => log'[s].sched = log[s].sched
          /\ leave[s].st = "approved" => leave'[s] = leave[s]]_attendanceVars
=============================================================================
