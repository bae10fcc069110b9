-------------------------- MODULE AttendanceProofs --------------------------
(***************************************************************************)
(* Proofs about Attendance and QrTokens, for every set of shifts, breaks,  *)
(* requests, transactions, tokens and callers.  Nobody is on a break of a  *)
(* closed shift, a request is used once, a clock-out records what was      *)
(* authorised and needs confirmation before it, a break begins under the   *)
(* rules in force; an invite admits once, its rotations included, and a    *)
(* rotation does not undo a revocation.                                    *)
(***************************************************************************)
EXTENDS Attendance, QrTokens, FiniteSetTheorems, TLAPS

ClockingRow == [op : {"idle", "starting", "leaving", "status"},
                shift : TimeLogs \cup {Null}, sched : Rosters \cup {Null},
                eff : Hours \cup {Null}, sure : BOOLEAN, row : Break]

\* One open shift, one active break in it; a shift not begun is bound to none,
\* and one that ended bound to none had no end but an approved one.
ShiftsAgree ==
    /\ \A s, o \in TimeLogs : log[s].st = "open" /\ log[o].st = "open" => s = o
    /\ \A b, c \in Breaks : brk[b].st = "active" /\ brk[c].st = "active" => b = c
    /\ \A b \in Breaks : brk[b].st = "active" =>
          brk[b].shift \in TimeLogs /\ log[brk[b].shift].st = "open"
    /\ \A s \in TimeLogs : log[s].st = "none" => log[s].sched = Null
    /\ \A s \in TimeLogs : log[s].st = "closed" /\ log[s].sched = Null /\ leave[s].st # "approved" =>
          log[s].eff = Null

\* The rules that allow a break that the roster did not plan.
Permitted(row) ==
    \/ row.source = "policy"
    \/ /\ PolicyAllows(row.shift, row.pol)
       /\ row.source = "unfiled" =>
             rules.unfiled /\ (row.pol # Null => ~policy[row.pol].approval)

\* A transaction holds an open shift, and knows its binding if there is one.
Holding(t) ==
    LET k == clocking[t] IN
    /\ k.shift \in TimeLogs /\ rowLock[k.shift] = t /\ log[k.shift].st = "open"
    /\ log[k.shift].sched # Null => k.sched = log[k.shift].sched

\* The start of a break also holds the rules, and inserts what they allow.
Starting(t) ==
    LET k == clocking[t] IN
    /\ Holding(t) /\ ruleLock = t
    /\ k.row.st = "active" /\ k.row.shift = k.shift
    /\ k.row.req # Null => req[k.row.req].st = "approved" /\ req[k.row.req].pol = k.row.pol
    /\ Permitted(k.row)

\* A clock-out knows the authorised end, and is confirmed if that is to come.
Leaving(t) ==
    LET k == clocking[t] IN
    /\ Holding(t)
    /\ k.eff = EffectiveEnd(k.shift, k.sched)
    /\ Remaining(k.eff) => k.sure

TransactionHolds(t) ==
    /\ clocking[t].op = "starting" => Starting(t)
    /\ clocking[t].op = "leaving" => Leaving(t)
    /\ clocking[t].op = "status" =>
          clocking[t].shift \in TimeLogs /\ log[clocking[t].shift].st # "none"

TransactionsHold == \A t \in Clockings : TransactionHolds(t)

AttendanceInvariant ==
    /\ AttendanceTypeOK /\ ShiftsAgree /\ TransactionsHold
    /\ RequestConsumedOnce /\ DepartureIsRecorded

\* What the invariant says of types.
LEMMA Types ==
    ASSUME AttendanceInvariant
    PROVE  /\ hour \in Hours /\ hour \in Nat /\ log \in [TimeLogs -> Log] /\ brk \in [Breaks -> Break]
           /\ req \in [BreakRequests -> Request] /\ leave \in [TimeLogs -> Leave]
           /\ clocking \in [Clockings -> ClockingRow]
           /\ ruleLock \in Clockings \cup {Null}
           /\ rowLock \in [TimeLogs -> Clockings \cup {Null}]
           /\ \A s \in TimeLogs : log[s].st = "closed" <=> log[s].out # Null
           /\ Null \notin Clockings
           /\ ruleLock # Null => clocking[ruleLock].op = "starting"
           /\ \A s \in TimeLogs : rowLock[s] # Null =>
                 clocking[rowLock[s]].op \in {"starting", "leaving"} /\ clocking[rowLock[s]].shift = s
<1>1. Null \notin Clockings /\ Hours \subseteq Nat
  BY AttendanceAssumption DEF Hours
<1>2. QED
  BY <1>1 DEF AttendanceInvariant, AttendanceTypeOK, ClockingRow

\* A shift is bound to one of the rostered shifts, or to none.
LEMMA BoundKnown ==
    ASSUME AttendanceInvariant, NEW s \in TimeLogs
    PROVE  /\ \A sched \in Bound(s) : sched \in Rosters \cup {Null}
           /\ log[s].sched # Null => Bound(s) = {log[s].sched}
           /\ \A sched \in Bound(s) : EffectiveEnd(s, sched) \in Hours \cup {Null}
<1>1. /\ log[s].sched \in Rosters \cup {Null} /\ published \subseteq Rosters
      /\ leave[s].at \in Hours \cup {Null} /\ \A q \in Rosters : q.end \in Hours
  BY Types, AttendanceAssumption DEF Log, Leave, AttendanceInvariant, AttendanceTypeOK
<1>2. \A sched \in Bound(s) : sched \in Rosters \cup {Null}
  BY <1>1 DEF Bound
<1>3. QED
  BY <1>1, <1>2 DEF Bound, EffectiveEnd

\* The initial state satisfies the inductive invariant.
LEMMA AttendanceInitEstablishes == AttendanceInit => AttendanceInvariant
<1> SUFFICES ASSUME AttendanceInit PROVE AttendanceInvariant
  OBVIOUS
<1> USE AttendanceAssumption DEF AttendanceInit
<1>1. NoBreak \in Break /\ NoLog \in Log /\ 0 \in Hours
  BY DEF NoBreak, Break, NoLog, Log, Hours
<1>2. NoClocking \in ClockingRow
  BY <1>1 DEF NoClocking, Clocking, ClockingRow
<1>3. /\ [st |-> "none", pol |-> Null, from |-> Null] \in Request
      /\ [st |-> "none", at |-> Null] \in Leave
  BY DEF Request, Leave
<1>4. AttendanceTypeOK
  <2>1. hour \in Hours /\ published \subseteq Rosters /\ NoOverlap(published)
    BY <1>1
  <2>2. /\ rules \in [mode : {"required", "optional", "disabled"}, custom : BOOLEAN, unfiled : BOOLEAN]
        /\ policy \in [Policies -> [active : BOOLEAN, max : Nat \cup {Null}, approval : BOOLEAN]]
        /\ spent \in [{"policy", "roster"} -> Nat]
    OBVIOUS
  <2>3. /\ log \in [TimeLogs -> Log] /\ brk \in [Breaks -> Break]
        /\ req \in [BreakRequests -> Request] /\ leave \in [TimeLogs -> Leave]
        /\ clocking \in [Clockings -> ClockingRow]
    BY <1>1, <1>2, <1>3
  <2>4. QED
    BY <2>1, <2>2, <2>3 DEF AttendanceTypeOK, ClockingRow, NoLog
<1>5. ShiftsAgree
  BY DEF ShiftsAgree, NoLog, NoBreak
<1>6. TransactionsHold
  BY DEF TransactionsHold, TransactionHolds, NoClocking, Clocking
<1>7. RequestConsumedOnce /\ DepartureIsRecorded
  BY DEF RequestConsumedOnce, DepartureIsRecorded, NoLog, NoBreak
<1>8. QED
  BY <1>4, <1>5, <1>6, <1>7 DEF AttendanceInvariant

\* What a transaction holds stays, if a step leaves alone the rules and the
\* breaks it counted, and the shift it locked.
LEMMA HoldsStay ==
    ASSUME AttendanceInvariant, NEW t \in Clockings, clocking'[t] = clocking[t],
           hour' \in Nat, hour <= hour',
           ruleLock = t => /\ ruleLock' = t /\ rules' = rules /\ policy' = policy
                           /\ \A b \in Breaks :
                                 /\ brk[b].st = "none" <=> brk'[b].st = "none"
                                 /\ brk'[b].shift = brk[b].shift /\ brk'[b].pol = brk[b].pol,
           \A s \in TimeLogs : rowLock[s] = t =>
                 rowLock'[s] = t /\ log'[s] = log[s] /\ leave'[s] = leave[s],
           \A s \in TimeLogs : log[s].st # "none" => log'[s].st # "none",
           \A r \in BreakRequests : req[r].st = "approved" => req'[r] = req[r]
    PROVE  TransactionHolds(t)'
<1> DEFINE k == clocking[t]
<1>1. TransactionHolds(t) /\ k \in ClockingRow
  BY Types DEF AttendanceInvariant, TransactionsHold
<1>2. Holding(t) => /\ Holding(t)' /\ log'[k.shift] = log[k.shift] /\ leave'[k.shift] = leave[k.shift]
  BY DEF Holding
<1>3. ASSUME Starting(t) PROVE Starting(t)'
  <2>1. Holding(t)' /\ ruleLock = t /\ ruleLock' = t /\ k.shift \in TimeLogs
    BY <1>2, <1>3 DEF Starting, Holding
  <2>2. k.row.req # Null => k.row.req \in BreakRequests
    BY <1>1 DEF ClockingRow, Break
  <2>3. ASSUME NEW s, NEW p PROVE Uses(s, p)' = Uses(s, p)
    <3>1. {b \in Breaks : brk[b].st # "none" /\ brk[b].shift = s /\ brk[b].pol = p}
          = {b \in Breaks : brk'[b].st # "none" /\ brk'[b].shift = s /\ brk'[b].pol = p}
      BY <2>1
    <3>2. QED
      BY <3>1 DEF Uses
  <2>4. Permitted(k.row) => Permitted(k.row)'
    BY <1>3, <2>1, <2>3 DEF Permitted, PolicyAllows, Starting
  <2>5. QED
    BY <1>3, <2>1, <2>2, <2>4 DEF Starting
<1>4. ASSUME Leaving(t) PROVE Leaving(t)'
  <2>1. Holding(t)' /\ leave'[k.shift] = leave[k.shift]
    BY <1>2, <1>4 DEF Leaving
  <2>2. Remaining(k.eff)' => Remaining(k.eff)
    BY <1>1, Types DEF Remaining, ClockingRow, Hours
  <2>3. QED
    BY <1>4, <2>1, <2>2 DEF Leaving, EffectiveEnd
<1>5. QED
  BY <1>1, <1>3, <1>4 DEF TransactionHolds

\* The clock, the roster and the rules.
LEMMA WorldStep ==
    ASSUME AttendanceInvariant,
           \/ HourPasses \/ \E r \in Rosters : EditRoster(r)
           \/ \E mode \in Modes, custom, unfiled \in BOOLEAN, settings \in [Policies -> PolicySettings] :
                 SavePolicy(mode, custom, unfiled, settings)
    PROVE  AttendanceInvariant'
<1> USE AttendanceAssumption
<1>1. UNCHANGED <<log, brk, req, leave, clocking, timeLocks>> /\ hour' \in Hours /\ hour <= hour'
  BY Types DEF HourPasses, EditRoster, SavePolicy, Hours
<1>2. AttendanceTypeOK'
  <2>1. CASE HourPasses
    BY <1>1, <2>1 DEF HourPasses, AttendanceInvariant, AttendanceTypeOK, timeLocks
  <2>2. ASSUME NEW r \in Rosters, EditRoster(r) PROVE AttendanceTypeOK'
    <3>1. /\ published' \subseteq Rosters /\ NoOverlap(published')
          /\ spent' \in [{"policy", "roster"} -> Nat]
          /\ UNCHANGED <<hour, rules, policy>>
      BY <2>2 DEF EditRoster, Spend, AttendanceInvariant, AttendanceTypeOK
    <3>2. QED
      BY <1>1, <3>1 DEF AttendanceInvariant, AttendanceTypeOK, timeLocks, NoOverlap
  <2>3. ASSUME NEW mode \in Modes, NEW custom \in BOOLEAN, NEW unfiled \in BOOLEAN,
               NEW settings \in [Policies -> PolicySettings],
               SavePolicy(mode, custom, unfiled, settings)
        PROVE  AttendanceTypeOK'
    <3>1. /\ rules' \in [mode : {"required", "optional", "disabled"},
                         custom : BOOLEAN, unfiled : BOOLEAN]
          /\ policy' \in [Policies -> [active : BOOLEAN, max : Nat \cup {Null}, approval : BOOLEAN]]
          /\ spent' \in [{"policy", "roster"} -> Nat] /\ UNCHANGED <<hour, published>>
      BY <2>3 DEF SavePolicy, Spend, AttendanceInvariant, AttendanceTypeOK
    <3>2. QED
      BY <1>1, <3>1 DEF AttendanceInvariant, AttendanceTypeOK, timeLocks
  <2>4. QED
    BY <2>1, <2>2, <2>3
<1>3. ShiftsAgree' /\ RequestConsumedOnce' /\ DepartureIsRecorded'
  BY <1>1 DEF AttendanceInvariant, ShiftsAgree, RequestConsumedOnce, DepartureIsRecorded
<1>4. ASSUME NEW t \in Clockings PROVE TransactionHolds(t)'
  <2>1. ruleLock = t => UNCHANGED <<rules, policy>>
    BY Types DEF HourPasses, EditRoster, SavePolicy
  <2>2. hour' \in Nat
    BY <1>1 DEF Hours
  <2>3. QED
    BY <1>1, <2>1, <2>2, HoldsStay DEF timeLocks
<1>5. QED
  BY <1>2, <1>3, <1>4 DEF AttendanceInvariant, TransactionsHold

\* A step of the requests keeps what was approved.
LEMMA RequestsStep ==
    ASSUME AttendanceInvariant, NEW r \in BreakRequests, RequestStep(r)
    PROVE  AttendanceInvariant'
<1>1. UNCHANGED <<hour, published, rules, policy, log, brk, leave, clocking, timeLocks, spent>>
  BY DEF RequestStep, RequestBreak, DecideRequest
<1>2. /\ req' \in [BreakRequests -> Request]
      /\ \A q \in BreakRequests : req[q].st = "approved" => req'[q] = req[q]
  <2>1. ASSUME NEW p \in Policies \cup {Null}, NEW from \in Hours \cup {Null}, RequestBreak(r, p, from)
        PROVE  /\ req' \in [BreakRequests -> Request]
               /\ \A q \in BreakRequests : req[q].st = "approved" => req'[q] = req[q]
    <3>1. \A x \in {"approved", "pending"} : [st |-> x, pol |-> p, from |-> from] \in Request
      BY DEF Request
    <3>2. PICK x \in {"approved", "pending"} : req' = [req EXCEPT ![r] = [st |-> x, pol |-> p, from |-> from]]
      BY <2>1 DEF RequestBreak
    <3>3. req[r].st = "none"
      BY <2>1 DEF RequestBreak
    <3>4. QED
      BY <3>1, <3>2, <3>3, Types
  <2>2. ASSUME NEW d \in {"approved", "rejected", "cancelled"}, DecideRequest(r, d)
        PROVE  /\ req' \in [BreakRequests -> Request]
               /\ \A q \in BreakRequests : req[q].st = "approved" => req'[q] = req[q]
    BY <2>2, Types DEF DecideRequest, Request
  <2>3. QED
    BY <2>1, <2>2 DEF RequestStep
<1>3. AttendanceTypeOK'
  BY <1>1, <1>2 DEF AttendanceInvariant, AttendanceTypeOK, timeLocks
<1>4. RequestConsumedOnce'
  BY <1>1, <1>2, Types DEF AttendanceInvariant, RequestConsumedOnce, Break
<1>5. ShiftsAgree' /\ DepartureIsRecorded'
  BY <1>1 DEF AttendanceInvariant, ShiftsAgree, DepartureIsRecorded
<1>6. ASSUME NEW t \in Clockings PROVE TransactionHolds(t)'
  BY <1>1, <1>2, Types, HoldsStay DEF timeLocks
<1>7. QED
  BY <1>3, <1>4, <1>5, <1>6 DEF AttendanceInvariant, TransactionsHold

\* Breaks end and are explained.
LEMMA BreakStep ==
    ASSUME AttendanceInvariant,
           (\E s \in TimeLogs, b \in Breaks : Resume(s, b)) \/ \E b \in Breaks : Resolve(b)
    PROVE  AttendanceInvariant'
<1>1. UNCHANGED <<hour, published, rules, policy, log, req, leave, clocking, timeLocks, spent>>
  BY DEF Resume, Resolve
<1>2. /\ brk' \in [Breaks -> Break]
      /\ \A c \in Breaks : /\ brk'[c].shift = brk[c].shift /\ brk'[c].req = brk[c].req
                           /\ brk'[c].pol = brk[c].pol
                           /\ brk[c].st = "none" <=> brk'[c].st = "none"
                           /\ brk'[c].st = "active" => brk[c].st = "active"
  <2>1. ASSUME NEW b \in Breaks, NEW x \in {"active", "ended"}, brk[b].st = x,
               brk' = [brk EXCEPT ![b].st = "ended"] \/ brk' = [brk EXCEPT ![b].exc = "resolved"]
        PROVE  /\ brk' \in [Breaks -> Break]
               /\ \A c \in Breaks : /\ brk'[c].shift = brk[c].shift /\ brk'[c].req = brk[c].req
                                    /\ brk'[c].pol = brk[c].pol
                                    /\ brk[c].st = "none" <=> brk'[c].st = "none"
                                    /\ brk'[c].st = "active" => brk[c].st = "active"
    <3>1. PICK z \in Break : z = brk[b]
      BY Types
    <3>2. ASSUME NEW y, y = [z EXCEPT !.st = "ended"] \/ y = [z EXCEPT !.exc = "resolved"]
          PROVE  /\ y \in Break /\ y.st \in {"ended", z.st}
                 /\ y.shift = z.shift /\ y.req = z.req /\ y.pol = z.pol
      <4>1. CASE y = [z EXCEPT !.st = "ended"]
        BY <4>1 DEF Break
      <4>2. CASE y = [z EXCEPT !.exc = "resolved"]
        BY <4>2 DEF Break
      <4>3. QED
        BY <3>2, <4>1, <4>2
    <3>3. brk' = [brk EXCEPT ![b] = brk'[b]]
          /\ (brk'[b] = [z EXCEPT !.st = "ended"] \/ brk'[b] = [z EXCEPT !.exc = "resolved"])
      BY <2>1, <3>1, Types
    <3>4. /\ brk'[b] \in Break /\ brk'[b].st \in {"ended", z.st}
          /\ brk'[b].shift = z.shift /\ brk'[b].req = z.req /\ brk'[b].pol = z.pol
      BY <3>2, <3>3
    <3>5. QED
      BY <2>1, <3>1, <3>3, <3>4, Types
  <2>2. CASE \E s \in TimeLogs, b \in Breaks : Resume(s, b)
    BY <2>1, <2>2 DEF Resume, ActiveBreaks
  <2>3. CASE \E b \in Breaks : Resolve(b)
    BY <2>1, <2>3 DEF Resolve
  <2>4. QED
    BY <2>2, <2>3
<1>3. AttendanceTypeOK'
  BY <1>1, <1>2 DEF AttendanceInvariant, AttendanceTypeOK, timeLocks
<1>4. ShiftsAgree' /\ RequestConsumedOnce' /\ DepartureIsRecorded'
  BY <1>1, <1>2 DEF AttendanceInvariant, ShiftsAgree, RequestConsumedOnce, DepartureIsRecorded
<1>5. ASSUME NEW t \in Clockings PROVE TransactionHolds(t)'
  BY <1>1, <1>2, Types, HoldsStay DEF timeLocks
<1>6. QED
  BY <1>3, <1>4, <1>5 DEF AttendanceInvariant, TransactionsHold

\* A shift begins while none is open.
LEMMA OpenStep ==
    ASSUME AttendanceInvariant, NEW s \in TimeLogs,
           NEW place \in {"verified", "outside", "unavailable", "disabled"}, Opens(s, place)
    PROVE  AttendanceInvariant'
<1>1. /\ UNCHANGED <<hour, published, rules, policy, brk, req, leave, clocking, timeLocks, spent>>
      /\ log[s].st = "none" /\ \A o \in TimeLogs : log[o].st # "open"
  BY DEF Opens
<1>2. PICK sched \in Rosters \cup {Null} :
         log' = [log EXCEPT ![s] = [NoLog EXCEPT !.st = "open", !.in = hour, !.sched = sched,
                                                 !.mode = rules.mode, !.place = place]]
  BY DEF Opens, AttendanceInvariant, AttendanceTypeOK
<1>3. PICK row \in Log : /\ log' = [log EXCEPT ![s] = row]
                         /\ row.st = "open" /\ row.out = Null
  <2>1. PICK mode \in {"required", "optional", "disabled"} : mode = rules.mode
    BY DEF AttendanceInvariant, AttendanceTypeOK
  <2>2. [NoLog EXCEPT !.st = "open", !.in = hour, !.sched = sched, !.mode = mode, !.place = place] \in Log
    BY Types DEF NoLog, Log
  <2>3. /\ [NoLog EXCEPT !.st = "open", !.in = hour, !.sched = sched,
                          !.mode = mode, !.place = place].st = "open"
        /\ [NoLog EXCEPT !.st = "open", !.in = hour, !.sched = sched,
                          !.mode = mode, !.place = place].out = Null
    BY DEF NoLog
  <2>4. QED
    BY <1>2, <2>1, <2>2, <2>3
<1>4. log' \in [TimeLogs -> Log] /\ log'[s] = row /\ \A o \in TimeLogs \ {s} : log'[o] = log[o]
  BY <1>3, Types
<1>5. AttendanceTypeOK'
  BY <1>1, <1>3, <1>4 DEF AttendanceInvariant, AttendanceTypeOK, timeLocks
<1>6. ShiftsAgree' /\ RequestConsumedOnce' /\ DepartureIsRecorded'
  BY <1>1, <1>3, <1>4 DEF AttendanceInvariant, ShiftsAgree, RequestConsumedOnce, DepartureIsRecorded
<1>7. ASSUME NEW t \in Clockings PROVE TransactionHolds(t)'
  <2>1. rowLock[s] # t
    BY <1>1, Types DEF AttendanceInvariant, TransactionsHold, TransactionHolds, Starting, Leaving, Holding
  <2>2. QED
    BY <1>1, <1>3, <1>4, <2>1, Types, HoldsStay DEF timeLocks
<1>8. QED
  BY <1>5, <1>6, <1>7 DEF AttendanceInvariant, TransactionsHold

\* An early departure is asked for and decided while nobody holds the shift.
LEMMA LeaveStep ==
    ASSUME AttendanceInvariant, NEW s \in TimeLogs,
           \/ \E at \in Hours : AskToLeave(s, at)
           \/ \E d \in {"approved", "rejected"} : ReviewLeave(s, d)
    PROVE  AttendanceInvariant'
<1>1. /\ UNCHANGED <<hour, published, rules, policy, brk, req, clocking, timeLocks, spent>>
      /\ rowLock[s] = Null /\ log[s].st = "open"
  BY DEF AskToLeave, ReviewLeave
<1>2. /\ leave' \in [TimeLogs -> Leave] /\ \A o \in TimeLogs \ {s} : leave'[o] = leave[o]
  <2>1. ASSUME NEW at \in Hours, AskToLeave(s, at)
        PROVE  leave' \in [TimeLogs -> Leave] /\ \A o \in TimeLogs \ {s} : leave'[o] = leave[o]
    BY <2>1, Types DEF AskToLeave, Leave
  <2>2. ASSUME NEW d \in {"approved", "rejected"}, ReviewLeave(s, d)
        PROVE  leave' \in [TimeLogs -> Leave] /\ \A o \in TimeLogs \ {s} : leave'[o] = leave[o]
    BY <2>2, Types DEF ReviewLeave, Leave
  <2>3. QED
    BY <2>1, <2>2
<1>3. /\ log' \in [TimeLogs -> Log] /\ \A o \in TimeLogs \ {s} : log'[o] = log[o]
      /\ log'[s].st = log[s].st /\ log'[s].out = log[s].out
  <2>1. ASSUME NEW at \in Hours, AskToLeave(s, at)
        PROVE  \E sched \in Rosters \cup {Null} : log' = [log EXCEPT ![s].sched = sched]
    BY <2>1, BoundKnown DEF AskToLeave
  <2>2. CASE \E sched \in Rosters \cup {Null} : log' = [log EXCEPT ![s].sched = sched]
    BY <2>2, Types DEF Log
  <2>3. CASE log' = log
    BY <2>3, Types
  <2>4. QED
    BY <2>1, <2>2, <2>3 DEF ReviewLeave
<1>4. AttendanceTypeOK'
  BY <1>1, <1>2, <1>3 DEF AttendanceInvariant, AttendanceTypeOK, timeLocks
<1>5. ShiftsAgree' /\ RequestConsumedOnce' /\ DepartureIsRecorded'
  BY <1>1, <1>2, <1>3 DEF AttendanceInvariant, ShiftsAgree, RequestConsumedOnce, DepartureIsRecorded
<1>6. ASSUME NEW t \in Clockings PROVE TransactionHolds(t)'
  BY <1>1, <1>2, <1>3, Types, HoldsStay DEF timeLocks
<1>7. QED
  BY <1>4, <1>5, <1>6 DEF AttendanceInvariant, TransactionsHold

\* A transaction begins with what it read, and with the locks it needs.
LEMMA TransactionBegins ==
    ASSUME AttendanceInvariant, NEW t \in Clockings, NEW s \in TimeLogs, clocking[t].op = "idle",
           clocking' \in [Clockings -> ClockingRow], clocking'[t].shift = s,
           \A q \in Clockings \ {t} : clocking'[q] = clocking[q],
           UNCHANGED <<hour, published, rules, policy, log, brk, req, leave, spent>>,
           \/ UNCHANGED timeLocks
           \/ /\ rowLock[s] = Null /\ rowLock' = [rowLock EXCEPT ![s] = t]
              /\ \/ ruleLock' = ruleLock /\ clocking'[t].op = "leaving"
                 \/ ruleLock = Null /\ ruleLock' = t /\ clocking'[t].op = "starting",
           TransactionHolds(t)'
    PROVE  AttendanceInvariant'
<1>1. /\ \A o \in TimeLogs : rowLock[o] # t
      /\ ruleLock # t
  BY Types
<1>2. /\ rowLock' \in [TimeLogs -> Clockings \cup {Null}] /\ ruleLock' \in Clockings \cup {Null}
      /\ \A o \in TimeLogs : rowLock[o] # Null => rowLock'[o] = rowLock[o]
      /\ \A o \in TimeLogs : rowLock'[o] # rowLock[o] =>
            o = s /\ rowLock'[o] = t /\ clocking'[t].op \in {"starting", "leaving"}
      /\ ruleLock # Null => ruleLock' = ruleLock
      /\ ruleLock' # ruleLock => ruleLock' = t /\ clocking'[t].op = "starting"
  BY Types DEF timeLocks
<1>3. AttendanceTypeOK'
  <2>1. ruleLock' # Null => clocking'[ruleLock'].op = "starting"
    BY <1>1, <1>2, Types
  <2>2. ASSUME NEW o \in TimeLogs, rowLock'[o] # Null
        PROVE  clocking'[rowLock'[o]].op \in {"starting", "leaving"}
               /\ clocking'[rowLock'[o]].shift = o
    <3>1. CASE rowLock'[o] = rowLock[o]
      BY <1>1, <2>2, <3>1, Types
    <3>2. CASE rowLock'[o] # rowLock[o]
      BY <1>2, <3>2
    <3>3. QED
      BY <3>1, <3>2
  <2>3. QED
    BY <1>2, <2>1, <2>2 DEF AttendanceInvariant, AttendanceTypeOK, ClockingRow
<1>4. ShiftsAgree' /\ RequestConsumedOnce' /\ DepartureIsRecorded'
  BY DEF AttendanceInvariant, ShiftsAgree, RequestConsumedOnce, DepartureIsRecorded
<1>5. ASSUME NEW q \in Clockings \ {t} PROVE TransactionHolds(q)'
  <2>1. q # Null /\ clocking'[q] = clocking[q]
    BY Types
  <2>2. QED
    BY <1>2, <2>1, Types, HoldsStay
<1>6. QED
  BY <1>3, <1>4, <1>5 DEF AttendanceInvariant, TransactionsHold

\* The status and a clock-out read the shift.
LEMMA ReadStep ==
    ASSUME AttendanceInvariant, NEW t \in Clockings, NEW s \in TimeLogs,
           StatusReads(t, s) \/ \E sure \in BOOLEAN : ClockOutReads(t, s, sure)
    PROVE  AttendanceInvariant'
<1>1. NoBreak \in Break
  BY AttendanceAssumption DEF NoBreak, Break
<1>2. ASSUME NEW sched \in Rosters \cup {Null}, NEW eff \in Hours \cup {Null}, NEW sure \in BOOLEAN,
             NEW op \in {"status", "leaving"},
             clocking' = [clocking EXCEPT ![t] = Clocking(op, s, sched, eff, sure, NoBreak)]
      PROVE  /\ clocking' \in [Clockings -> ClockingRow] /\ clocking'[t].shift = s
             /\ clocking'[t].op = op /\ clocking'[t].sched = sched /\ clocking'[t].eff = eff
             /\ clocking'[t].sure = sure
             /\ \A q \in Clockings \ {t} : clocking'[q] = clocking[q]
  <2>1. Clocking(op, s, sched, eff, sure, NoBreak) \in ClockingRow
    BY <1>1 DEF Clocking, ClockingRow
  <2>2. clocking'[t] = Clocking(op, s, sched, eff, sure, NoBreak)
    BY <1>2, Types
  <2>3. clocking' \in [Clockings -> ClockingRow] /\ \A q \in Clockings \ {t} : clocking'[q] = clocking[q]
    BY <1>2, <2>1, Types
  <2>4. QED
    BY <2>2, <2>3 DEF Clocking
<1>3. CASE StatusReads(t, s)
  <2>1. PICK sched \in Rosters \cup {Null} :
           clocking' = [clocking EXCEPT ![t] = Clocking("status", s, sched, Null, FALSE, NoBreak)]
    BY <1>3, BoundKnown DEF StatusReads
  <2>2. /\ clocking' \in [Clockings -> ClockingRow] /\ clocking'[t].shift = s
        /\ clocking'[t].op = "status" /\ \A q \in Clockings \ {t} : clocking'[q] = clocking[q]
    BY <1>2, <2>1
  <2>3. /\ clocking[t].op = "idle" /\ log[s].st = "open"
        /\ UNCHANGED <<hour, published, rules, policy, log, brk, req, leave, timeLocks, spent>>
    BY <1>3 DEF StatusReads
  <2>4. TransactionHolds(t)'
    BY <2>2, <2>3 DEF TransactionHolds
  <2>5. QED
    BY <2>2, <2>3, <2>4, TransactionBegins
<1>4. ASSUME NEW sure \in BOOLEAN, ClockOutReads(t, s, sure) PROVE AttendanceInvariant'
  <2>1. PICK sched \in Bound(s) :
           /\ Remaining(EffectiveEnd(s, sched)) => sure
           /\ clocking' = [clocking EXCEPT ![t] =
                 Clocking("leaving", s, sched, EffectiveEnd(s, sched), sure, NoBreak)]
    BY <1>4 DEF ClockOutReads
  <2>2. /\ sched \in Rosters \cup {Null} /\ EffectiveEnd(s, sched) \in Hours \cup {Null}
        /\ log[s].sched # Null => sched = log[s].sched
    BY BoundKnown
  <2>3. /\ clocking' \in [Clockings -> ClockingRow] /\ clocking'[t].shift = s
        /\ clocking'[t].op = "leaving" /\ clocking'[t].sched = sched
        /\ clocking'[t].eff = EffectiveEnd(s, sched) /\ clocking'[t].sure = sure
        /\ \A q \in Clockings \ {t} : clocking'[q] = clocking[q]
    BY <1>2, <2>1, <2>2
  <2>4. /\ clocking[t].op = "idle" /\ log[s].st = "open" /\ rowLock[s] = Null
        /\ rowLock' = [rowLock EXCEPT ![s] = t] /\ rowLock'[s] = t
        /\ UNCHANGED <<hour, published, rules, policy, log, brk, req, leave, ruleLock, spent>>
    BY <1>4, Types DEF ClockOutReads
  <2>5. EffectiveEnd(s, sched)' = EffectiveEnd(s, sched)
        /\ Remaining(EffectiveEnd(s, sched))' = Remaining(EffectiveEnd(s, sched))
    BY <2>4 DEF EffectiveEnd, Remaining
  <2>6. Holding(t)'
    BY <2>2, <2>3, <2>4 DEF Holding
  <2>7. Leaving(t)'
    BY <2>1, <2>3, <2>4, <2>5, <2>6 DEF Leaving, EffectiveEnd, Remaining
  <2>8. TransactionHolds(t)'
    BY <2>3, <2>7 DEF TransactionHolds
  <2>9. QED
    BY <2>3, <2>4, <2>8, TransactionBegins
<1>5. QED
  BY <1>3, <1>4

\* The start of a break: what the rules allow of it holds when the locks are taken.
LEMMA StartBegins ==
    ASSUME AttendanceInvariant, NEW t \in Clockings, NEW s \in TimeLogs, NEW row \in Break,
           BeginsBreak(t, s, row), row.st = "active", row.shift = s, Permitted(row),
           row.req # Null => req[row.req].st = "approved" /\ req[row.req].pol = row.pol
    PROVE  AttendanceInvariant'
<1>1. PICK sched \in Bound(s) : clocking' = [clocking EXCEPT ![t] =
         Clocking("starting", s, sched, EffectiveEnd(s, sched), FALSE, row)]
  BY DEF BeginsBreak
<1>2. /\ sched \in Rosters \cup {Null} /\ EffectiveEnd(s, sched) \in Hours \cup {Null}
      /\ log[s].sched # Null => sched = log[s].sched
  BY BoundKnown
<1>3. /\ clocking' \in [Clockings -> ClockingRow] /\ clocking'[t].shift = s
      /\ clocking'[t].op = "starting" /\ clocking'[t].sched = sched /\ clocking'[t].row = row
      /\ \A q \in Clockings \ {t} : clocking'[q] = clocking[q]
  <2>1. Clocking("starting", s, sched, EffectiveEnd(s, sched), FALSE, row) \in ClockingRow
    BY <1>2 DEF Clocking, ClockingRow
  <2>2. clocking'[t] = Clocking("starting", s, sched, EffectiveEnd(s, sched), FALSE, row)
    BY <1>1, Types
  <2>3. clocking' \in [Clockings -> ClockingRow] /\ \A q \in Clockings \ {t} : clocking'[q] = clocking[q]
    BY <1>1, <2>1, Types
  <2>4. QED
    BY <2>2, <2>3 DEF Clocking
<1>4. /\ clocking[t].op = "idle" /\ log[s].st = "open" /\ rowLock[s] = Null /\ ruleLock = Null
      /\ rowLock' = [rowLock EXCEPT ![s] = t] /\ rowLock'[s] = t /\ ruleLock' = t
      /\ UNCHANGED <<hour, published, rules, policy, log, brk, req, leave, spent>>
  BY Types DEF BeginsBreak
<1>5. Holding(t)'
  BY <1>2, <1>3, <1>4 DEF Holding
<1>6. Permitted(clocking[t].row)'
  <2>1. Permitted(row)'
    BY <1>4 DEF Permitted, PolicyAllows, Uses
  <2>2. QED
    BY <1>3, <2>1 DEF Permitted, PolicyAllows, Uses
<1>7. Starting(t)'
  BY <1>3, <1>4, <1>5, <1>6 DEF Starting
<1>8. TransactionHolds(t)'
  BY <1>3, <1>7 DEF TransactionHolds
<1>9. QED
  BY <1>3, <1>4, <1>8, TransactionBegins

\* The three ways to start a break.
LEMMA StartsStep ==
    ASSUME AttendanceInvariant, NEW t \in Clockings, NEW s \in TimeLogs, StartStep(t, s)
    PROVE  AttendanceInvariant'
<1> USE AttendanceAssumption
<1>1. CASE StartPlanned(t, s)
  <2>1. NewBreak(s, "policy", Null, Null, "none") \in Break
    BY DEF NewBreak, Break
  <2>2. Permitted(NewBreak(s, "policy", Null, Null, "none"))
    BY DEF Permitted, NewBreak
  <2>3. QED
    BY <1>1, <2>1, <2>2, StartBegins DEF StartPlanned, NewBreak
<1>2. ASSUME NEW r \in BreakRequests, StartRequested(t, s, r) PROVE AttendanceInvariant'
  <2>1. req[r].pol \in Policies \cup {Null} /\ r # Null
    BY Types DEF Request
  <2>2. NewBreak(s, "approved_request", r, req[r].pol, "none") \in Break
    BY <2>1 DEF NewBreak, Break
  <2>3. Permitted(NewBreak(s, "approved_request", r, req[r].pol, "none"))
    BY <1>2 DEF StartRequested, Permitted, NewBreak
  <2>4. QED
    BY <1>2, <2>2, <2>3, StartBegins DEF StartRequested, NewBreak
<1>3. ASSUME NEW p \in Policies \cup {Null}, StartUnfiled(t, s, p) PROVE AttendanceInvariant'
  <2>1. NewBreak(s, "unfiled", Null, p, "unresolved") \in Break
    BY DEF NewBreak, Break
  <2>2. Permitted(NewBreak(s, "unfiled", Null, p, "unresolved"))
    BY <1>3 DEF StartUnfiled, Permitted, NewBreak
  <2>3. QED
    BY <1>3, <2>1, <2>2, StartBegins DEF StartUnfiled, NewBreak
<1>4. QED
  BY <1>1, <1>2, <1>3 DEF StartStep

\* A transaction ends, having changed its shift and breaks only.
LEMMA TransactionEnds ==
    ASSUME AttendanceInvariant, NEW t \in Clockings, NEW s \in TimeLogs, s = clocking[t].shift,
           clocking' = [clocking EXCEPT ![t] = NoClocking],
           UNCHANGED <<hour, published, rules, policy, req, leave, spent>>,
           log' \in [TimeLogs -> Log], brk' \in [Breaks -> Break],
           log'[s].st = "closed" <=> log'[s].out # Null,
           log[s].st # "none" => log'[s].st # "none",
           rowLock' \in [TimeLogs -> Clockings \cup {Null}],
           rowLock[s] \in {t, Null}, rowLock'[s] = Null,
           \A o \in TimeLogs \ {s} : log'[o] = log[o] /\ rowLock'[o] = rowLock[o],
           ruleLock' = IF ruleLock = t THEN Null ELSE ruleLock,
           ruleLock \notin {t, Null} => \A b \in Breaks :
                 /\ brk[b].st = "none" <=> brk'[b].st = "none"
                 /\ brk'[b].shift = brk[b].shift /\ brk'[b].pol = brk[b].pol,
           ShiftsAgree', RequestConsumedOnce', DepartureIsRecorded'
    PROVE  AttendanceInvariant'
<1>1. NoClocking \in ClockingRow
  BY AttendanceAssumption DEF NoClocking, Clocking, ClockingRow, NoBreak, Break
<1>2. /\ clocking' \in [Clockings -> ClockingRow] /\ clocking'[t].op = "idle"
      /\ \A q \in Clockings \ {t} : clocking'[q] = clocking[q]
  BY <1>1, Types DEF NoClocking, Clocking
<1>3. AttendanceTypeOK'
  <2>1. ruleLock' \in Clockings \cup {Null}
        /\ (ruleLock' # Null => clocking'[ruleLock'].op = "starting")
    BY <1>2, Types
  <2>2. ASSUME NEW o \in TimeLogs, rowLock'[o] # Null
        PROVE  clocking'[rowLock'[o]].op \in {"starting", "leaving"}
               /\ clocking'[rowLock'[o]].shift = o
    <3>1. o # s /\ rowLock'[o] = rowLock[o]
      BY <2>2
    <3>2. rowLock[o] # t
      BY <2>2, <3>1, Types
    <3>3. QED
      BY <1>2, <2>2, <3>1, <3>2, Types
  <2>3. \A o \in TimeLogs : log'[o].st = "closed" <=> log'[o].out # Null
    BY Types
  <2>4. QED
    BY <1>2, <2>1, <2>2, <2>3 DEF AttendanceInvariant, AttendanceTypeOK, ClockingRow
<1>4. ASSUME NEW q \in Clockings PROVE TransactionHolds(q)'
  <2>1. CASE q = t
    BY <1>2, <2>1 DEF TransactionHolds
  <2>2. CASE q # t
    <3>1. q # Null /\ clocking'[q] = clocking[q]
      BY <1>2, <2>2, Types
    <3>2. \A o \in TimeLogs : rowLock[o] = q => o # s
      BY <2>2, <3>1
    <3>3. \A o \in TimeLogs : log[o].st # "none" => log'[o].st # "none"
      OBVIOUS
    <3>4. QED
      BY <2>2, <3>1, <3>2, <3>3, Types, HoldsStay
  <2>3. QED
    BY <2>1, <2>2
<1>5. QED
  BY <1>3, <1>4 DEF AttendanceInvariant, TransactionsHold

\* The status binds the shift it read, unless it is bound already.
LEMMA StatusStep ==
    ASSUME AttendanceInvariant, NEW t \in Clockings, StatusBinds(t)
    PROVE  AttendanceInvariant'
<1>1. PICK s \in TimeLogs : s = clocking[t].shift /\ log[s].st # "none"
  BY DEF StatusBinds, AttendanceInvariant, TransactionsHold, TransactionHolds
<1>2. PICK sched \in Rosters \cup {Null} : log' = [log EXCEPT ![s].sched = sched]
  <2>1. PICK x : x = IF log[s].sched = Null THEN clocking[t].sched ELSE log[s].sched
    OBVIOUS
  <2>2. x \in Rosters \cup {Null}
    BY <2>1, Types DEF Log, ClockingRow
  <2>3. log' = [log EXCEPT ![s].sched = x]
    BY <1>1, <2>1, Types DEF StatusBinds
  <2>4. QED
    BY <2>2, <2>3
<1>3. /\ log' \in [TimeLogs -> Log] /\ \A o \in TimeLogs \ {s} : log'[o] = log[o]
      /\ log'[s].st = log[s].st /\ log'[s].out = log[s].out /\ log'[s].eff = log[s].eff
  BY <1>2, Types, SMTT(30) DEF Log
<1>4. log[s].sched # Null => log'[s].sched = log[s].sched
  BY <1>1, Types DEF StatusBinds, Log
<1>5. /\ clocking' = [clocking EXCEPT ![t] = NoClocking] /\ rowLock[s] = Null
      /\ clocking[t].op = "status"
      /\ UNCHANGED <<hour, published, rules, policy, brk, req, leave, timeLocks, spent>>
  BY <1>1 DEF StatusBinds
<1>6. ShiftsAgree' /\ RequestConsumedOnce'
  BY <1>1, <1>3, <1>4, <1>5 DEF AttendanceInvariant, ShiftsAgree, RequestConsumedOnce
<1>7. DepartureIsRecorded'
  <2>1. ASSUME NEW o \in TimeLogs, log'[o].st = "closed"
        PROVE  IF leave[o].st = "approved" THEN log'[o].eff = leave[o].at
               ELSE log'[o].eff # Null => log'[o].eff = log'[o].sched.end
    <3>1. log[o].st = "closed" /\ log'[o].eff = log[o].eff
      BY <1>3, <2>1
    <3>2. IF leave[o].st = "approved" THEN log[o].eff = leave[o].at
          ELSE log[o].eff # Null => log[o].eff = log[o].sched.end
      BY <3>1 DEF AttendanceInvariant, DepartureIsRecorded
    <3>3. log[o].sched = Null /\ leave[o].st # "approved" => log[o].eff = Null
      BY <3>1 DEF AttendanceInvariant, ShiftsAgree
    <3>4. log[o].sched # Null => log'[o].sched = log[o].sched
      BY <1>3, <1>4
    <3>5. QED
      BY <3>1, <3>2, <3>3, <3>4
  <2>2. QED
    BY <1>5, <2>1 DEF DepartureIsRecorded
<1>8. ruleLock # t
  BY <1>5, Types
<1>9. QED
  <2>1. /\ log'[s].st = "closed" <=> log'[s].out # Null
        /\ log[s].st # "none" => log'[s].st # "none"
    BY <1>3, Types
  <2>2. /\ rowLock' = rowLock /\ ruleLock' = ruleLock /\ rowLock[s] \in {t, Null}
        /\ ruleLock' = IF ruleLock = t THEN Null ELSE ruleLock
    BY <1>5, <1>8 DEF timeLocks
  <2>3. QED
    BY <1>1, <1>3, <1>5, <1>6, <1>7, <2>1, <2>2, Types, TransactionEnds

\* The clock-out records what it read, and ends the breaks of its shift.
LEMMA ClockOutStep ==
    ASSUME AttendanceInvariant, NEW t \in Clockings, ClockOutCommits(t)
    PROVE  AttendanceInvariant'
<1> DEFINE k == clocking[t]
<1>1. Leaving(t) /\ k \in ClockingRow /\ k.op = "leaving"
  BY Types DEF ClockOutCommits, AttendanceInvariant, TransactionsHold, TransactionHolds
<1>2. PICK s \in TimeLogs : s = k.shift /\ rowLock[s] = t /\ log[s].st = "open"
  BY <1>1 DEF Leaving, Holding
<1>3. PICK sched \in Rosters \cup {Null}, eff \in Hours \cup {Null} : sched = k.sched /\ eff = k.eff
  BY <1>1 DEF ClockingRow
<1>4. /\ log' = [log EXCEPT ![s] = [@ EXCEPT !.st = "closed", !.out = hour, !.sched = sched, !.eff = eff]]
      /\ rowLock' = [rowLock EXCEPT ![s] = Null] /\ clocking' = [clocking EXCEPT ![t] = NoClocking]
      /\ UNCHANGED <<hour, published, rules, policy, req, leave, ruleLock, spent>>
  BY <1>2, <1>3, Types DEF ClockOutCommits
<1>5. /\ log' \in [TimeLogs -> Log] /\ \A o \in TimeLogs \ {s} : log'[o] = log[o]
      /\ log'[s].st = "closed" /\ log'[s].out = hour /\ log'[s].sched = sched /\ log'[s].eff = eff
  <2>1. PICK z \in Log : z = log[s]
    BY Types
  <2>2. [z EXCEPT !.st = "closed", !.out = hour, !.sched = sched, !.eff = eff] \in Log
    BY Types DEF Log
  <2>3. log' = [log EXCEPT ![s] = [z EXCEPT !.st = "closed", !.out = hour, !.sched = sched, !.eff = eff]]
    BY <1>4, <2>1, Types
  <2>4. QED
    BY <2>2, <2>3, Types DEF Log
<1>6. /\ brk' \in [Breaks -> Break]
      /\ \A b \in Breaks : /\ brk'[b].shift = brk[b].shift /\ brk'[b].req = brk[b].req
                           /\ brk'[b].pol = brk[b].pol
                           /\ brk[b].st = "none" <=> brk'[b].st = "none"
                           /\ brk'[b].st = "active" => brk[b].st = "active" /\ brk[b].shift # s
  <2>1. \A z \in Break : [z EXCEPT !.st = "ended"] \in Break
    BY DEF Break
  <2>2. brk' = [b \in Breaks |-> IF brk[b].st = "active" /\ brk[b].shift = s
                                 THEN [brk[b] EXCEPT !.st = "ended"] ELSE brk[b]]
    BY <1>2 DEF ClockOutCommits, ActiveBreaks
  <2>3. brk' \in [Breaks -> Break]
    BY <2>1, <2>2, Types
  <2>4. \A b \in Breaks : brk[b] \in Break
    BY Types
  <2>5. ASSUME NEW b \in Breaks
        PROVE  /\ brk'[b].shift = brk[b].shift /\ brk'[b].req = brk[b].req
               /\ brk'[b].pol = brk[b].pol
               /\ brk[b].st = "none" <=> brk'[b].st = "none"
               /\ brk'[b].st = "active" => brk[b].st = "active" /\ brk[b].shift # s
    BY <2>2, <2>4 DEF Break
  <2>6. QED
    BY <2>3, <2>5
<1>7. ShiftsAgree'
  <2>1. eff = EffectiveEnd(s, sched)
    BY <1>1, <1>2, <1>3 DEF Leaving
  <2>2. sched = Null /\ leave[s].st # "approved" => eff = Null
    BY <2>1 DEF EffectiveEnd
  <2>3. QED
    BY <1>2, <1>4, <1>5, <1>6, <2>2 DEF AttendanceInvariant, ShiftsAgree
<1>8. RequestConsumedOnce'
  BY <1>4, <1>6 DEF AttendanceInvariant, RequestConsumedOnce
<1>9. DepartureIsRecorded'
  <2>1. eff = EffectiveEnd(s, sched)
    BY <1>1, <1>2, <1>3 DEF Leaving
  <2>2. QED
    BY <1>4, <1>5, <2>1 DEF AttendanceInvariant, DepartureIsRecorded, EffectiveEnd
<1>10. QED
  <2>1. /\ rowLock' \in [TimeLogs -> Clockings \cup {Null}] /\ rowLock'[s] = Null
        /\ \A o \in TimeLogs \ {s} : rowLock'[o] = rowLock[o]
        /\ ruleLock # t /\ ruleLock' = ruleLock
    BY <1>1, <1>4, Types
  <2>2. log'[s].st = "closed" <=> log'[s].out # Null
    BY <1>5, Types, AttendanceAssumption
  <2>3. ruleLock' = IF ruleLock = t THEN Null ELSE ruleLock
    BY <2>1
  <2>4. log[s].st # "none" => log'[s].st # "none"
    BY <1>5
  <2>5. /\ s = clocking[t].shift /\ rowLock[s] \in {t, Null}
        /\ \A o \in TimeLogs \ {s} : log'[o] = log[o] /\ rowLock'[o] = rowLock[o]
    BY <1>2, <1>5, <2>1
  <2>6. /\ brk' \in [Breaks -> Break] /\ log' \in [TimeLogs -> Log]
        /\ \A b \in Breaks : /\ brk[b].st = "none" <=> brk'[b].st = "none"
                             /\ brk'[b].shift = brk[b].shift /\ brk'[b].pol = brk[b].pol
    BY <1>5, <1>6
  <2>7. /\ clocking' = [clocking EXCEPT ![t] = NoClocking]
        /\ UNCHANGED <<hour, published, rules, policy, req, leave, spent>>
    BY <1>4
  <2>8. QED
    BY <1>7, <1>8, <1>9, <2>1, <2>2, <2>3, <2>4, <2>5, <2>6, <2>7, TransactionEnds

\* The break is inserted, or the start of it rolls back.
LEMMA StartEndsStep ==
    ASSUME AttendanceInvariant, NEW t \in Clockings,
           (\E b \in Breaks : StartCommits(t, b)) \/ StartRollsBack(t)
    PROVE  AttendanceInvariant'
<1> DEFINE k == clocking[t]
<1>1. Starting(t) /\ k \in ClockingRow /\ Released(t)
  BY Types DEF StartCommits, StartRollsBack, AttendanceInvariant, TransactionsHold, TransactionHolds
<1>2. PICK s \in TimeLogs : s = k.shift /\ rowLock[s] = t /\ log[s].st = "open"
  BY <1>1 DEF Starting, Holding
<1>3. /\ clocking' = [clocking EXCEPT ![t] = NoClocking] /\ ruleLock = t
      /\ rowLock' = [rowLock EXCEPT ![s] = Null] /\ ruleLock' = Null
      /\ UNCHANGED <<hour, published, rules, policy, req, leave, spent>>
  BY <1>1, <1>2 DEF Released, Starting
<1>4. /\ rowLock' \in [TimeLogs -> Clockings \cup {Null}] /\ rowLock'[s] = Null
      /\ \A o \in TimeLogs \ {s} : rowLock'[o] = rowLock[o]
      /\ ruleLock' = IF ruleLock = t THEN Null ELSE ruleLock
      /\ ruleLock \in {t, Null} /\ rowLock[s] \in {t, Null} /\ s = clocking[t].shift
  BY <1>2, <1>3, Types
<1>5. CASE StartRollsBack(t)
  <2>1. UNCHANGED <<log, brk>>
    BY <1>5 DEF StartRollsBack
  <2>2. ShiftsAgree' /\ RequestConsumedOnce' /\ DepartureIsRecorded'
    BY <1>3, <2>1 DEF AttendanceInvariant, ShiftsAgree, RequestConsumedOnce, DepartureIsRecorded
  <2>3. QED
    BY <1>3, <1>4, <2>1, <2>2, Types, TransactionEnds
<1>6. ASSUME NEW b \in Breaks, StartCommits(t, b) PROVE AttendanceInvariant'
  <2>1. PICK row \in Break, sched \in Rosters \cup {Null} : row = k.row /\ sched = k.sched
    BY <1>1 DEF ClockingRow
  <2>2. /\ row.st = "active" /\ row.shift = s
        /\ row.req # Null => req[row.req].st = "approved" /\ req[row.req].pol = row.pol
    BY <1>1, <1>2, <2>1 DEF Starting
  <2>3. /\ brk[b].st = "none" /\ ActiveBreaks(s) = {}
        /\ row.req # Null => ~Consumed(row.req)
    BY <1>6, <2>1, <2>2 DEF StartCommits, Duplicate
  <2>4. /\ brk' \in [Breaks -> Break] /\ brk'[b] = row
        /\ \A c \in Breaks \ {b} : brk'[c] = brk[c]
    BY <1>6, <2>1, Types DEF StartCommits
  <2>5. log' = [log EXCEPT ![s].sched = sched]
    BY <1>2, <1>6, <2>1 DEF StartCommits
  <2>6. /\ log' \in [TimeLogs -> Log] /\ \A o \in TimeLogs \ {s} : log'[o] = log[o]
        /\ log'[s].st = log[s].st /\ log'[s].out = log[s].out
    BY <2>5, Types DEF Log
  <2>7. \A c \in Breaks : brk[c].st # "active"
    BY <1>2, <2>3 DEF AttendanceInvariant, ShiftsAgree, ActiveBreaks
  <2>8. ShiftsAgree'
    BY <1>2, <1>3, <2>2, <2>4, <2>6, <2>7 DEF AttendanceInvariant, ShiftsAgree
  <2>9. RequestConsumedOnce'
    BY <1>3, <2>2, <2>3, <2>4 DEF AttendanceInvariant, RequestConsumedOnce, Consumed
  <2>10. DepartureIsRecorded'
    BY <1>2, <1>3, <2>6 DEF AttendanceInvariant, DepartureIsRecorded
  <2>11. /\ log'[s].st = "closed" <=> log'[s].out # Null
         /\ log[s].st # "none" => log'[s].st # "none"
         /\ \A o \in TimeLogs \ {s} : log'[o] = log[o] /\ rowLock'[o] = rowLock[o]
    BY <1>4, <2>6, Types
  <2>12. QED
    BY <1>3, <1>4, <2>4, <2>6, <2>8, <2>9, <2>10, <2>11, TransactionEnds
<1>7. QED
  BY <1>5, <1>6

\* Every step preserves the inductive invariant.
LEMMA AttendanceNextPreserves == AttendanceInvariant /\ [AttendanceNext]_attendanceVars => AttendanceInvariant'
<1> SUFFICES ASSUME AttendanceInvariant, [AttendanceNext]_attendanceVars PROVE AttendanceInvariant'
  OBVIOUS
<1>1. CASE UNCHANGED attendanceVars
  <2>1. AttendanceTypeOK'
    BY <1>1 DEF attendanceVars, AttendanceInvariant, AttendanceTypeOK, NoOverlap
  <2>2. ShiftsAgree' /\ RequestConsumedOnce' /\ DepartureIsRecorded'
    BY <1>1 DEF attendanceVars, AttendanceInvariant, ShiftsAgree, RequestConsumedOnce, DepartureIsRecorded
  <2>3. ASSUME NEW t \in Clockings PROVE TransactionHolds(t)'
    BY <1>1, Types, HoldsStay DEF attendanceVars
  <2>4. QED
    BY <2>1, <2>2, <2>3 DEF AttendanceInvariant, TransactionsHold
<1>2. ASSUME NEW s \in TimeLogs, ShiftStep(s) PROVE AttendanceInvariant'
  <2>1. ASSUME NEW point \in {"verified", "outside", "unavailable"}, ClockInAt(s, point)
        PROVE  AttendanceInvariant'
    <3>1. CASE rules.mode = "disabled"
      BY <2>1, <3>1, OpenStep DEF ClockInAt
    <3>2. CASE rules.mode # "disabled"
      BY <2>1, <3>2, OpenStep DEF ClockInAt
    <3>3. QED
      BY <3>1, <3>2
  <2>2. CASE ClockInWithoutLocation(s)
    BY <2>2, OpenStep DEF ClockInWithoutLocation
  <2>3. QED
    BY <1>2, <2>1, <2>2, BreakStep, LeaveStep DEF ShiftStep
<1>3. ASSUME NEW t \in Clockings, TxStep(t) PROVE AttendanceInvariant'
  BY <1>3, ReadStep, StartsStep, StatusStep, ClockOutStep, StartEndsStep DEF TxStep
<1>4. CASE AttendanceNext
  BY <1>2, <1>3, <1>4, RequestsStep, BreakStep, WorldStep DEF AttendanceNext
<1>5. QED
  BY <1>1, <1>4

-----------------------------------------------------------------------------
(* The theorems.                                                           *)

\* The inductive invariant holds in every reachable state.
THEOREM AttendanceInvariance == AttendanceSpec => []AttendanceInvariant
BY AttendanceInitEstablishes, AttendanceNextPreserves, PTL DEF AttendanceSpec

\* Rows and transactions keep their types; the policy lock and the row locks
\* belong to the transactions that took them.
THEOREM AttendanceTypeCorrect == AttendanceSpec => []AttendanceTypeOK
<1>1. AttendanceInvariant => AttendanceTypeOK
  BY DEF AttendanceInvariant
<1>2. QED
  BY AttendanceInvariance, <1>1, PTL

\* A set whose members are all equal has at most one.
LEMMA AtMostOne ==
    ASSUME NEW S, \A x, y \in S : x = y
    PROVE  Cardinality(S) <= 1
<1>1. CASE S = {}
  BY <1>1, FS_EmptySet
<1>2. CASE S # {}
  <2>1. PICK x \in S : TRUE
    BY <1>2
  <2>2. S = {x}
    BY <2>1
  <2>3. QED
    BY <2>2, FS_Singleton
<1>3. QED
  BY <1>1, <1>2

\* One open shift, one break at a time, and none in a shift that is over
\* (start and clock-out both hold the time_logs row FOR UPDATE).
THEOREM BreaksStayInside == AttendanceSpec => []BreaksInsideOpenShift
<1>1. AttendanceInvariant => BreaksInsideOpenShift
  <2> SUFFICES ASSUME AttendanceInvariant PROVE BreaksInsideOpenShift
    OBVIOUS
  <2>1. ShiftsAgree
    BY DEF AttendanceInvariant
  <2>2. Cardinality({s \in TimeLogs : log[s].st = "open"}) <= 1
    BY <2>1, AtMostOne DEF ShiftsAgree
  <2>3. \A s \in TimeLogs : Cardinality(ActiveBreaks(s)) <= 1
    BY <2>1, AtMostOne DEF ShiftsAgree, ActiveBreaks
  <2>4. QED
    BY <2>1, <2>2, <2>3 DEF ShiftsAgree, BreaksInsideOpenShift
<1>2. QED
  BY AttendanceInvariance, <1>1, PTL

\* An approved request is used by one break, which keeps it approved.
THEOREM RequestsAreConsumedOnce == AttendanceSpec => []RequestConsumedOnce
<1>1. AttendanceInvariant => RequestConsumedOnce
  BY DEF AttendanceInvariant
<1>2. QED
  BY AttendanceInvariance, <1>1, PTL

\* A clock-out records the end that had been authorised, and no decision comes
\* after it (a review holds the time_logs row and needs it open).
THEOREM DeparturesAreRecorded == AttendanceSpec => []DepartureIsRecorded
<1>1. AttendanceInvariant => DepartureIsRecorded
  BY DEF AttendanceInvariant
<1>2. QED
  BY AttendanceInvariance, <1>1, PTL

\* Leaving before the authorised end takes a confirmation, however the roster,
\* the departures and the clock move between the read and the commit.
THEOREM EarlyIsConfirmed == AttendanceSpec => EarlyNeedsConfirmation
<1>1. ASSUME AttendanceInvariant, [AttendanceNext]_attendanceVars
      PROVE  [\A s \in TimeLogs :
                /\ log[s].st = "open" /\ log'[s].st = "closed"
                /\ Remaining(EffectiveEnd(s, log[s].sched))
                => \E t \in Clockings : /\ clocking[t].op = "leaving" /\ clocking[t].shift = s
                                        /\ clocking[t].sure]_attendanceVars
  <2> SUFFICES ASSUME AttendanceNext, NEW s \in TimeLogs,
                      log[s].st = "open", log'[s].st = "closed",
                      Remaining(EffectiveEnd(s, log[s].sched))
               PROVE  \E t \in Clockings : /\ clocking[t].op = "leaving" /\ clocking[t].shift = s
                                           /\ clocking[t].sure
    BY <1>1
  <2>1. PICK t \in Clockings : ClockOutCommits(t)
    <3>1. CASE \E o \in TimeLogs, place \in {"verified", "outside", "unavailable", "disabled"} :
                  Opens(o, place)
      BY <1>1, <3>1, Types DEF Opens, NoLog
    <3>2. CASE \E o \in TimeLogs, at \in Hours : AskToLeave(o, at)
      BY <1>1, <3>2, Types DEF AskToLeave, Log
    <3>3. CASE \E q \in Clockings : StatusBinds(q)
      BY <1>1, <3>3, Types DEF StatusBinds, Log
    <3>4. CASE \E q \in Clockings, b \in Breaks : StartCommits(q, b)
      BY <1>1, <3>4, Types DEF StartCommits, Log
    <3>5. CASE log' = log
      BY <3>5
    <3>6. ASSUME NEW o \in TimeLogs, ShiftStep(o)
          PROVE  \/ \E place \in {"verified", "outside", "unavailable", "disabled"} : Opens(o, place)
                 \/ \E at \in Hours : AskToLeave(o, at)
                 \/ log' = log
      BY <3>6 DEF ShiftStep, ClockInAt, ClockInWithoutLocation, Resume, ReviewLeave
    <3>7. ASSUME NEW q \in Clockings, TxStep(q)
          PROVE  \/ StatusBinds(q) \/ ClockOutCommits(q)
                 \/ \E b \in Breaks : StartCommits(q, b)
                 \/ log' = log
      BY <3>7 DEF TxStep, StatusReads, StartStep, StartPlanned, StartRequested, StartUnfiled,
                  BeginsBreak, ClockOutReads, StartRollsBack
    <3>8. \/ \E o \in TimeLogs : ShiftStep(o)
          \/ \E q \in Clockings : TxStep(q)
          \/ log' = log
      BY DEF AttendanceNext, RequestStep, RequestBreak, DecideRequest, Resolve, SavePolicy,
             EditRoster, HourPasses
    <3>9. QED
      BY <3>1, <3>2, <3>3, <3>4, <3>5, <3>6, <3>7, <3>8
  <2>2. Leaving(t) /\ clocking[t].op = "leaving"
    BY <1>1, <2>1 DEF ClockOutCommits, AttendanceInvariant, TransactionsHold, TransactionHolds
  <2>3. clocking[t].shift = s
    BY <1>1, <2>1, <2>2, Types DEF ClockOutCommits, Leaving, Holding
  <2>4. clocking[t].sure
    <3>1. /\ clocking[t].eff = EffectiveEnd(s, clocking[t].sched)
          /\ log[s].sched # Null => clocking[t].sched = log[s].sched
          /\ Remaining(clocking[t].eff) => clocking[t].sure
      BY <2>2, <2>3 DEF Leaving, Holding
    <3>2. EffectiveEnd(s, log[s].sched) = clocking[t].eff
      BY <3>1 DEF EffectiveEnd, Remaining
    <3>3. QED
      BY <3>1, <3>2
  <2>5. QED
    BY <2>2, <2>3, <2>4
<1>2. QED
  BY AttendanceInvariance, <1>1, PTL DEF AttendanceSpec, EarlyNeedsConfirmation

\* A break begins under the rules in force when it is inserted (its start and
\* the policy update take the same advisory lock).
THEOREM PoliciesAreHonoured == AttendanceSpec => PolicyHonoured
<1>1. ASSUME AttendanceInvariant, [AttendanceNext]_attendanceVars
      PROVE  [\A b \in Breaks : brk[b].st = "none" /\ brk'[b].st = "active" =>
                LET row == brk'[b]
                IN  \/ row.source = "policy"
                    \/ /\ PolicyAllows(row.shift, row.pol)
                       /\ row.source = "unfiled" =>
                             /\ rules.unfiled
                             /\ row.pol # Null => ~policy[row.pol].approval]_attendanceVars
  <2> SUFFICES ASSUME AttendanceNext, NEW b \in Breaks, brk[b].st = "none", brk'[b].st = "active"
               PROVE  Permitted(brk'[b])
    BY <1>1 DEF Permitted
  <2>1. PICK t \in Clockings, c \in Breaks : StartCommits(t, c)
    <3>1. CASE \E s \in TimeLogs, c \in Breaks : Resume(s, c)
      BY <1>1, <3>1, Types DEF Resume, ActiveBreaks, Break
    <3>2. CASE \E c \in Breaks : Resolve(c)
      BY <1>1, <3>2, Types DEF Resolve, Break
    <3>3. CASE \E q \in Clockings : ClockOutCommits(q)
      BY <1>1, <3>3, Types DEF ClockOutCommits, ActiveBreaks, Break
    <3>4. CASE brk' = brk
      BY <3>4, SMTT(30)
    <3>5. ASSUME NEW o \in TimeLogs, ShiftStep(o)
          PROVE  (\E c \in Breaks : Resume(o, c)) \/ brk' = brk
      BY <3>5 DEF ShiftStep, ClockInAt, ClockInWithoutLocation, Opens, AskToLeave, ReviewLeave
    <3>6. ASSUME NEW q \in Clockings, TxStep(q)
          PROVE  ClockOutCommits(q) \/ (\E c \in Breaks : StartCommits(q, c)) \/ brk' = brk
      BY <3>6 DEF TxStep, StatusReads, StartStep, StartPlanned, StartRequested, StartUnfiled,
                  BeginsBreak, ClockOutReads, StartRollsBack, StatusBinds
    <3>7. \/ \E o \in TimeLogs : ShiftStep(o)
          \/ \E q \in Clockings : TxStep(q)
          \/ \E c \in Breaks : Resolve(c)
          \/ brk' = brk
      BY DEF AttendanceNext, RequestStep, RequestBreak, DecideRequest, SavePolicy, EditRoster,
             HourPasses
    <3>8. QED
      BY <3>1, <3>2, <3>3, <3>4, <3>5, <3>6, <3>7
  <2>2. Starting(t)
    BY <1>1, <2>1 DEF StartCommits, AttendanceInvariant, TransactionsHold, TransactionHolds
  <2>3. brk'[b] = clocking[t].row
    BY <1>1, <2>1, Types DEF StartCommits
  <2>4. QED
    BY <2>2, <2>3 DEF Starting
<1>2. QED
  BY AttendanceInvariance, <1>1, PTL DEF AttendanceSpec, PolicyHonoured

\* A shift keeps the rostered shift it was bound to, and an approved departure
\* stays approved.
THEOREM ShiftsAreBoundOnce == AttendanceSpec => BoundOnce
<1>1. ASSUME AttendanceInvariant, [AttendanceNext]_attendanceVars
      PROVE  [\A s \in TimeLogs :
                /\ log[s].sched # Null => log'[s].sched = log[s].sched
                /\ leave[s].st = "approved" => leave'[s] = leave[s]]_attendanceVars
  <2> SUFFICES ASSUME AttendanceNext, NEW s \in TimeLogs
               PROVE  /\ log[s].sched # Null => log'[s].sched = log[s].sched
                      /\ leave[s].st = "approved" => leave'[s] = leave[s]
    BY <1>1
  <2>1. ASSUME NEW o \in TimeLogs, ShiftStep(o)
        PROVE  /\ log[s].sched # Null => log'[s].sched = log[s].sched
               /\ leave[s].st = "approved" => leave'[s] = leave[s]
    <3>1. CASE \E place \in {"verified", "outside", "unavailable", "disabled"} : Opens(o, place)
      <4>1. log[o].sched = Null /\ leave' = leave /\ \A q \in TimeLogs \ {o} : log'[q] = log[q]
        BY <1>1, <3>1, Types DEF Opens, AttendanceInvariant, ShiftsAgree
      <4>2. QED
        BY <4>1
    <3>2. ASSUME NEW at \in Hours, AskToLeave(o, at)
          PROVE  /\ log[s].sched # Null => log'[s].sched = log[s].sched
                 /\ leave[s].st = "approved" => leave'[s] = leave[s]
      <4>1. PICK sched \in Bound(o) : log' = [log EXCEPT ![o].sched = sched]
        BY <3>2 DEF AskToLeave
      <4>2. log[o].sched # Null => sched = log[o].sched
        BY <1>1, BoundKnown
      <4>3. log[s].sched # Null => log'[s].sched = log[s].sched
        BY <1>1, <4>1, <4>2, Types DEF Log
      <4>4. leave[s].st = "approved" => leave'[s] = leave[s]
        BY <1>1, <3>2, Types DEF AskToLeave
      <4>5. QED
        BY <4>3, <4>4
    <3>3. ASSUME NEW d \in {"approved", "rejected"}, ReviewLeave(o, d)
          PROVE  log' = log /\ (leave[s].st = "approved" => leave'[s] = leave[s])
      BY <1>1, <3>3, Types DEF ReviewLeave
    <3>4. CASE UNCHANGED <<log, leave>>
      BY <3>4
    <3>5. QED
      BY <2>1, <3>1, <3>2, <3>3, <3>4 DEF ShiftStep, ClockInAt, ClockInWithoutLocation, Resume
  <2>2. ASSUME NEW t \in Clockings, TxStep(t)
        PROVE  /\ log[s].sched # Null => log'[s].sched = log[s].sched
               /\ leave[s].st = "approved" => leave'[s] = leave[s]
    <3>1. leave' = leave
      BY <2>2 DEF TxStep, StatusReads, StartStep, StartPlanned, StartRequested, StartUnfiled,
                  BeginsBreak, ClockOutReads, StartRollsBack, StatusBinds, ClockOutCommits,
                  StartCommits, Released
    <3>2. CASE StatusBinds(t)
      BY <1>1, <3>1, <3>2, Types DEF StatusBinds, Log
    <3>3. CASE ClockOutCommits(t) \/ \E b \in Breaks : StartCommits(t, b)
      <4>1. Holding(t)
        BY <1>1, <3>3 DEF ClockOutCommits, StartCommits, AttendanceInvariant, TransactionsHold,
                          TransactionHolds, Starting, Leaving
      <4>2. \A o \in TimeLogs \ {clocking[t].shift} : log'[o] = log[o]
        BY <1>1, <3>3, Types DEF ClockOutCommits, StartCommits
      <4>3. log'[clocking[t].shift].sched = clocking[t].sched
        BY <1>1, <3>3, <4>1, Types DEF ClockOutCommits, StartCommits, Holding, Log
      <4>4. QED
        BY <3>1, <4>1, <4>2, <4>3, SMTT(30) DEF Holding
    <3>4. CASE log' = log
      BY <3>1, <3>4
    <3>5. QED
      BY <2>2, <3>2, <3>3, <3>4
         DEF TxStep, StatusReads, StartStep, StartPlanned, StartRequested, StartUnfiled,
             BeginsBreak, ClockOutReads, StartRollsBack
  <2>3. CASE UNCHANGED <<log, leave>>
    BY <2>3
  <2>4. QED
    BY <2>1, <2>2, <2>3
       DEF AttendanceNext, RequestStep, RequestBreak, DecideRequest, Resolve, SavePolicy,
           EditRoster, HourPasses
<1>2. QED
  BY AttendanceInvariance, <1>1, PTL DEF AttendanceSpec, BoundOnce

-----------------------------------------------------------------------------
(* QR tokens.                                                              *)

\* A token that opens, or has opened, the door of an invite.
OpensDoor(k) == token[k].subject = Null /\ token[k].st \in {"active", "used"}

\* Rows that were never inserted are blank; a family is named by a token that
\* was inserted in it.
RowsAreBlank == \A k \in Tokens :
    /\ token[k].st = "none" => token[k] = NoToken
    /\ token[k].st # "none" =>
          token[k].family \in Tokens /\ token[token[k].family].st # "none"

\* Two tokens of one invite never both open its door.
OneOpens == \A k, n \in Tokens :
    OpensDoor(k) /\ OpensDoor(n) /\ token[k].family = token[n].family => k = n

\* A rotation holds the token it read, which is active for as long.
RotatesActive == \A r \in Callers : caller[r].op = "locked" =>
    LET k == caller[r].token IN
    tokenLock[k] = r /\ token[k].st = "active"

\* A request at work acts on a token.
RequestsName == \A r \in Callers : caller[r].op # "idle" => caller[r].token \in Tokens

QrInvariant ==
    QrTypeOK /\ RowsAreBlank /\ OneOpens /\ RotatesActive /\ RequestsName

\* The initial state satisfies the inductive invariant.
LEMMA QrInitEstablishes == QrInit => QrInvariant
<1> SUFFICES ASSUME QrInit PROVE QrInvariant
  OBVIOUS
<1> USE QrAssumption DEF QrInit
<1>1. QrTypeOK
  BY DEF QrTypeOK, TokenRow, Caller, NoToken, NoCall
<1>2. RowsAreBlank /\ OneOpens /\ RotatesActive /\ RequestsName
  BY DEF RowsAreBlank, OneOpens, OpensDoor, RotatesActive, RequestsName, NoToken, NoCall
<1>3. QED
  BY <1>1, <1>2 DEF QrInvariant

\* A step that ends an active token no rotation holds.
LEMMA OnlyEnds ==
    ASSUME QrInvariant, NEW k \in Tokens,
           NEW s \in {"revoked", "used", "expired"},
           tokenLock[k] = Null,
           token' = [token EXCEPT ![k].st = IF @ = "active" THEN s ELSE @]
    PROVE  /\ token' \in [Tokens -> TokenRow]
           /\ RowsAreBlank' /\ OneOpens'
           /\ \A r \in Callers : caller[r].op = "locked" =>
                 token'[caller[r].token] = token[caller[r].token]
<1> USE QrAssumption DEF QrInvariant
<1>1. /\ token' \in [Tokens -> TokenRow]
      /\ \A n \in Tokens \ {k} : token'[n] = token[n]
      /\ token'[k].subject = token[k].subject /\ token'[k].family = token[k].family
      /\ token[k].st = "active" => token'[k].st = s
      /\ token[k].st # "active" => token'[k] = token[k]
  BY DEF QrTypeOK, TokenRow
<1>2. RowsAreBlank'
  BY <1>1 DEF RowsAreBlank
<1>3. OneOpens'
  BY <1>1 DEF OneOpens, OpensDoor
<1>4. ASSUME NEW r \in Callers, caller[r].op = "locked"
      PROVE  token'[caller[r].token] = token[caller[r].token]
  BY <1>1, <1>4 DEF RotatesActive, RequestsName
<1>5. QED
  BY <1>1, <1>2, <1>3, <1>4

\* Inserting the first token of a family.
LEMMA OnlyIssues ==
    ASSUME QrInvariant, NEW k \in Tokens, NEW s \in Marked \cup {Null},
           token[k].st = "none",
           token' = [token EXCEPT ![k] = [st |-> "active", subject |-> s, family |-> k]]
    PROVE  /\ token' \in [Tokens -> TokenRow]
           /\ RowsAreBlank' /\ OneOpens'
           /\ \A r \in Callers : caller[r].op = "locked" =>
                 token'[caller[r].token] = token[caller[r].token]
<1> USE QrAssumption DEF QrInvariant
<1>1. /\ token' \in [Tokens -> TokenRow]
      /\ \A n \in Tokens \ {k} : token'[n] = token[n]
      /\ token'[k] = [st |-> "active", subject |-> s, family |-> k]
  BY DEF QrTypeOK, TokenRow
<1>2. \A n \in Tokens : token[n].st # "none" => token[n].family # k
  BY DEF RowsAreBlank
<1>3. RowsAreBlank'
  BY <1>1 DEF RowsAreBlank
<1>4. OneOpens'
  BY <1>1, <1>2 DEF OneOpens, OpensDoor
<1>5. \A r \in Callers : caller[r].op = "locked" => caller[r].token # k
  BY DEF RotatesActive
<1>6. QED
  BY <1>1, <1>3, <1>4, <1>5 DEF RequestsName

\* Only a rotation that has read its token holds a lock, on that token.
LEMMA LocksAreForRotation ==
    ASSUME QrTypeOK, NEW r \in Callers, NEW k \in Tokens, tokenLock[k] = r
    PROVE  caller[r].op = "locked" /\ caller[r].token = k
<1>1. caller[r] = [op |-> "locked", token |-> k]
  BY QrAssumption DEF QrTypeOK
<1>2. QED
  BY <1>1

\* A step that leaves the requests and their locks alone keeps what they hold.
LEMMA RequestsAreLeft ==
    ASSUME QrInvariant, UNCHANGED <<caller, tokenLock>>,
           token' \in [Tokens -> TokenRow], past' \subseteq Tokens,
           cleanup' \in [Tokens -> {"none", "unsent", "queued"}],
           RowsAreBlank', OneOpens',
           \A r \in Callers : caller[r].op = "locked" =>
                 token'[caller[r].token] = token[caller[r].token]
    PROVE  QrInvariant'
<1> USE DEF QrInvariant
<1>1. QrTypeOK'
  BY DEF QrTypeOK
<1>2. RotatesActive' /\ RequestsName'
  BY DEF RotatesActive, RequestsName
<1>3. QED
  BY <1>1, <1>2

\* A step that leaves the tokens alone keeps what is said of them.
LEMMA TokensAreLeft ==
    ASSUME QrInvariant, UNCHANGED token
    PROVE  token' \in [Tokens -> TokenRow] /\ RowsAreBlank' /\ OneOpens'
BY DEF QrInvariant, QrTypeOK, RowsAreBlank, OneOpens, OpensDoor

\* The steps of a request that rotates or revokes.
LEMMA TokenRequestStep ==
    ASSUME QrInvariant, NEW r \in Callers,
           \/ \E op \in {"rotate", "revoke"}, k \in Tokens : FindToken(r, op, k)
           \/ RotateReads(r)
           \/ CallFails(r)
    PROVE  QrInvariant'
<1> USE QrAssumption DEF QrInvariant
<1>1. UNCHANGED <<token, past, cleanup>>
  BY DEF FindToken, RotateReads, CallFails
<1>2. token' \in [Tokens -> TokenRow] /\ RowsAreBlank' /\ OneOpens'
  BY <1>1, TokensAreLeft
<1>3. ASSUME NEW op \in {"rotate", "revoke"}, NEW k \in Tokens, FindToken(r, op, k)
      PROVE  QrInvariant'
  <2>1. /\ caller' \in [Callers -> Caller] /\ caller'[r] = [op |-> op, token |-> k]
        /\ \A q \in Callers \ {r} : caller'[q] = caller[q]
        /\ tokenLock' = tokenLock /\ caller[r].op = "idle"
    BY <1>3 DEF FindToken, QrTypeOK, Caller
  <2>2. \A n \in Tokens : tokenLock[n] # r
    BY <2>1, LocksAreForRotation
  <2>3. QrTypeOK'
    BY <1>1, <1>2, <2>1, <2>2 DEF QrTypeOK
  <2>4. RotatesActive' /\ RequestsName'
    BY <1>1, <2>1 DEF RotatesActive, RequestsName
  <2>5. QED
    BY <1>2, <2>3, <2>4
<1>4. ASSUME RotateReads(r) PROVE QrInvariant'
  <2> DEFINE k == caller[r].token
  <2>1. k \in Tokens /\ token[k].st = "active" /\ tokenLock[k] = Null
    BY <1>4 DEF RotateReads, RequestsName
  <2>2. /\ caller' \in [Callers -> Caller] /\ caller'[r] = [op |-> "locked", token |-> k]
        /\ \A q \in Callers \ {r} : caller'[q] = caller[q]
        /\ tokenLock' \in [Tokens -> Callers \cup {Null}] /\ tokenLock'[k] = r
        /\ \A n \in Tokens \ {k} : tokenLock'[n] = tokenLock[n]
        /\ caller[r].op = "rotate"
    BY <1>4, <2>1 DEF RotateReads, QrTypeOK, Caller
  <2>3. \A n \in Tokens : tokenLock[n] # r
    BY <2>2, LocksAreForRotation
  <2>4. QrTypeOK'
    BY <1>1, <1>2, <2>1, <2>2, <2>3 DEF QrTypeOK
  <2>5. RotatesActive' /\ RequestsName'
    BY <1>1, <2>1, <2>2 DEF RotatesActive, RequestsName
  <2>6. QED
    BY <1>2, <2>4, <2>5
<1>5. ASSUME CallFails(r) PROVE QrInvariant'
  <2>1. /\ caller' \in [Callers -> Caller] /\ caller'[r] = NoCall
        /\ \A q \in Callers \ {r} : caller'[q] = caller[q]
        /\ tokenLock' = [k \in Tokens |-> IF tokenLock[k] = r THEN Null ELSE tokenLock[k]]
    BY <1>5 DEF CallFails, QrTypeOK, Caller, NoCall
  <2>2. QrTypeOK'
    BY <1>1, <1>2, <2>1 DEF QrTypeOK
  <2>3. RotatesActive' /\ RequestsName'
    BY <1>1, <2>1 DEF RotatesActive, RequestsName, NoCall
  <2>4. QED
    BY <1>2, <2>2, <2>3
<1>6. QED
  BY <1>3, <1>4, <1>5

\* A rotation puts its successor in the place of the token it holds.
LEMMA RotationStep ==
    ASSUME QrInvariant, NEW r \in Callers, NEW n \in Tokens, RotateWrites(r, n)
    PROVE  QrInvariant'
<1> USE QrAssumption DEF QrInvariant
<1> DEFINE k == caller[r].token
<1>1. /\ k \in Tokens /\ token[k].st = "active" /\ tokenLock[k] = r
      /\ token[n].st = "none" /\ n # k /\ past' = past
  BY DEF RotateWrites, RotatesActive, RequestsName
<1>2. /\ token' \in [Tokens -> TokenRow]
      /\ token'[k] = [token[k] EXCEPT !.st = "revoked"]
      /\ token'[n] = token[k]
      /\ \A m \in Tokens \ {k, n} : token'[m] = token[m]
  BY <1>1 DEF RotateWrites, QrTypeOK, TokenRow
<1>3. RowsAreBlank'
  BY <1>1, <1>2, SMTT(30) DEF RowsAreBlank, QrTypeOK, TokenRow
<1>4. OneOpens'
  BY <1>1, <1>2 DEF OneOpens, OpensDoor, QrTypeOK, TokenRow
<1>5. /\ caller' \in [Callers -> Caller] /\ caller'[r] = NoCall
      /\ \A q \in Callers \ {r} : caller'[q] = caller[q]
      /\ tokenLock' \in [Tokens -> Callers \cup {Null}] /\ tokenLock'[k] = Null
      /\ \A m \in Tokens \ {k} : tokenLock'[m] = tokenLock[m]
      /\ cleanup' \in [Tokens -> {"none", "unsent", "queued"}]
  BY <1>1 DEF RotateWrites, QrTypeOK, Caller, NoCall
<1>6. \A m \in Tokens \ {k} : tokenLock[m] # r
  BY <1>1, LocksAreForRotation
<1>7. QrTypeOK'
  BY <1>1, <1>2, <1>5, <1>6 DEF QrTypeOK
<1>8. \A q \in Callers \ {r} : caller[q].op = "locked" =>
          caller[q].token \notin {k, n} /\ caller[q].token \in Tokens
  BY <1>1 DEF RotatesActive, RequestsName
<1>9. RotatesActive' /\ RequestsName'
  BY <1>2, <1>5, <1>8 DEF RotatesActive, RequestsName, NoCall
<1>10. QED
  BY <1>3, <1>4, <1>7, <1>9

\* A revocation ends the token it names if it is still active.
LEMMA RevocationStep ==
    ASSUME QrInvariant, NEW r \in Callers, Revoke(r)
    PROVE  QrInvariant'
<1> USE QrAssumption DEF QrInvariant
<1> DEFINE k == caller[r].token
<1>1. k \in Tokens /\ tokenLock[k] = Null
  BY SMTT(30) DEF Revoke, RequestsName
<1>2. /\ token' \in [Tokens -> TokenRow] /\ RowsAreBlank' /\ OneOpens'
      /\ \A q \in Callers : caller[q].op = "locked" =>
            token'[caller[q].token] = token[caller[q].token]
  <2>1. token' = [token EXCEPT ![k].st = IF @ = "active" THEN "revoked" ELSE @]
    BY DEF Revoke
  <2>2. QED
    BY <1>1, <2>1, OnlyEnds
<1>3. /\ caller' \in [Callers -> Caller] /\ caller'[r] = NoCall
      /\ \A q \in Callers \ {r} : caller'[q] = caller[q]
      /\ UNCHANGED <<past, cleanup, tokenLock>> /\ caller[r].op = "revoke"
  BY DEF Revoke, QrTypeOK, Caller, NoCall
<1>4. \A n \in Tokens : tokenLock[n] # r
  BY <1>3, LocksAreForRotation
<1>5. QrTypeOK'
  BY <1>2, <1>3, <1>4 DEF QrTypeOK
<1>6. RotatesActive' /\ RequestsName'
  BY <1>2, <1>3 DEF RotatesActive, RequestsName, NoCall
<1>7. QED
  BY <1>2, <1>5, <1>6

\* Every step preserves the inductive invariant.
LEMMA QrNextPreserves == QrInvariant /\ [QrNext]_qrVars => QrInvariant'
<1> SUFFICES ASSUME QrInvariant, [QrNext]_qrVars PROVE QrInvariant'
  OBVIOUS
<1> USE QrAssumption
<1>1. ASSUME NEW k \in Tokens, NEW s \in Marked, IssueBadge(k, s)
      PROVE  QrInvariant'
  <2>1. /\ token[k].st = "none" /\ UNCHANGED <<caller, tokenLock, past, cleanup>>
        /\ token' = [token EXCEPT ![k] = [st |-> "active", subject |-> s, family |-> k]]
    BY <1>1 DEF IssueBadge
  <2>2. past' \subseteq Tokens /\ cleanup' \in [Tokens -> {"none", "unsent", "queued"}]
    BY <2>1 DEF QrInvariant, QrTypeOK
  <2>3. QED
    BY <2>1, <2>2, OnlyIssues, RequestsAreLeft
<1>2. ASSUME NEW k \in Tokens, IssueInvite(k) PROVE QrInvariant'
  <2>1. /\ token[k].st = "none" /\ UNCHANGED <<caller, tokenLock, past>>
        /\ token' = [token EXCEPT ![k] = [st |-> "active", subject |-> Null, family |-> k]]
    BY <1>2 DEF IssueInvite
  <2>2. past' \subseteq Tokens /\ cleanup' \in [Tokens -> {"none", "unsent", "queued"}]
    BY <1>2 DEF IssueInvite, QrInvariant, QrTypeOK
  <2>3. QED
    BY <2>1, <2>2, OnlyIssues, RequestsAreLeft
<1>3. ASSUME \/ \E k \in Tokens, arrives \in BOOLEAN : SendCleanup(k, arrives)
             \/ \E f \in Tokens : InvitesExpire(f)
      PROVE  QrInvariant'
  <2>1. UNCHANGED <<token, caller, tokenLock>>
    BY <1>3 DEF SendCleanup, InvitesExpire
  <2>2. past' \subseteq Tokens /\ cleanup' \in [Tokens -> {"none", "unsent", "queued"}]
    BY <1>3 DEF SendCleanup, InvitesExpire, QrInvariant, QrTypeOK
  <2>3. QED
    BY <2>1, <2>2, TokensAreLeft, RequestsAreLeft
<1>4. ASSUME NEW k \in Tokens, ExpireToken(k) PROVE QrInvariant'
  <2>1. /\ tokenLock[k] = Null /\ UNCHANGED <<caller, tokenLock, past>>
        /\ token' = [token EXCEPT ![k].st = IF @ = "active" THEN "expired" ELSE @]
    BY <1>4 DEF ExpireToken
  <2>2. past' \subseteq Tokens /\ cleanup' \in [Tokens -> {"none", "unsent", "queued"}]
    BY <1>4 DEF ExpireToken, QrInvariant, QrTypeOK
  <2>3. QED
    BY <2>1, <2>2, OnlyEnds, RequestsAreLeft
<1>5. ASSUME NEW k \in Tokens, ConsumeInvite(k) PROVE QrInvariant'
  <2>1. PICK s \in {"expired", "used"} : token' = [token EXCEPT ![k].st = s]
    BY <1>5 DEF ConsumeInvite
  <2>2. /\ tokenLock[k] = Null /\ UNCHANGED <<caller, tokenLock, past, cleanup>>
        /\ token' = [token EXCEPT ![k].st = IF @ = "active" THEN s ELSE @]
    BY <1>5, <2>1 DEF ConsumeInvite
  <2>3. past' \subseteq Tokens /\ cleanup' \in [Tokens -> {"none", "unsent", "queued"}]
    BY <2>2 DEF QrInvariant, QrTypeOK
  <2>4. QED
    BY <2>2, <2>3, OnlyEnds, RequestsAreLeft
<1>6. CASE UNCHANGED qrVars
  BY <1>6, TokensAreLeft, RequestsAreLeft DEF qrVars, QrInvariant, QrTypeOK
<1>7. QED
  BY <1>1, <1>2, <1>3, <1>4, <1>5, <1>6, TokenRequestStep, RotationStep, RevocationStep DEF QrNext

-----------------------------------------------------------------------------
(* The theorems.                                                           *)

\* The inductive invariant holds in every reachable state.
THEOREM QrInvariance == QrSpec => []QrInvariant
BY QrInitEstablishes, QrNextPreserves, PTL DEF QrSpec

\* Rows and requests keep their types, and a lock belongs to a request that
\* is rotating the token.
THEOREM QrTypeCorrect == QrSpec => []QrTypeOK
<1>1. QrInvariant => QrTypeOK
  BY DEF QrInvariant
<1>2. QED
  BY QrInvariance, <1>1, PTL

\* One token at most of an invite and its rotations is active or was used
\* (createQrToken, rotateQrToken, consumeOnboardingInvite).
THEOREM InvitesAdmitOnce == QrSpec => []InviteAdmitsOnce
<1>1. ASSUME QrInvariant PROVE InviteAdmitsOnce
  <2> DEFINE Admitting(f) == {k \in Tokens : token[k].family = f /\ token[k].subject = Null
                                             /\ token[k].st \in {"active", "used"}}
  <2> SUFFICES ASSUME NEW f \in Tokens PROVE Cardinality(Admitting(f)) <= 1
    BY DEF InviteAdmitsOnce
  <2> DEFINE S == Admitting(f)
  <2>1. \A k, n \in S : k = n
    BY <1>1 DEF QrInvariant, OneOpens, OpensDoor
  <2>2. CASE S = {}
    <3>1. Cardinality({}) = 0
      BY FS_EmptySet
    <3>2. QED
      BY <2>2, <3>1
  <2>3. CASE S # {}
    <3>1. PICK k \in S : TRUE
      BY <2>3
    <3>2. S = {k}
      BY <2>1, <3>1
    <3>3. Cardinality({k}) = 1
      BY FS_Singleton
    <3>4. Cardinality(S) = 1
      <4> HIDE DEF S
      <4> QED BY <3>2, <3>3
    <3>5. QED
      BY <3>4
  <2>4. QED
    BY <2>2, <2>3
<1>2. QED
  BY QrInvariance, <1>1, PTL

\* A subject without a token gets one only by issuing it, never by a rotation
\* that overlaps the revocation.
THEOREM RevocationIsKept == QrSpec => RevocationHolds
<1>1. ASSUME QrInvariant, [QrNext]_qrVars
      PROVE  [\A s \in Marked : (ActiveTokens(s) = {} /\ ActiveTokens(s)' # {}) =>
                  \E k \in ActiveTokens(s)' : token'[k].family = k]_qrVars
  <2> SUFFICES ASSUME QrNext, NEW s \in Marked, ActiveTokens(s) = {}, ActiveTokens(s)' # {}
               PROVE  \E k \in ActiveTokens(s)' : token'[k].family = k
    BY <1>1
  <2>1. PICK n \in Tokens : token'[n].st = "active" /\ token'[n].subject = s
    BY DEF ActiveTokens
  <2>2. ~(token[n].st = "active" /\ token[n].subject = s)
    BY DEF ActiveTokens
  <2>3. token \in [Tokens -> TokenRow] /\ s # Null
    BY <1>1, QrAssumption DEF QrInvariant, QrTypeOK
  <2>4. CASE \E k \in Tokens, m \in Marked : IssueBadge(k, m)
    BY <2>1, <2>2, <2>3, <2>4 DEF IssueBadge, ActiveTokens, TokenRow
  <2>5. CASE \E k \in Tokens : IssueInvite(k)
    BY <2>1, <2>2, <2>3, <2>5 DEF IssueInvite, TokenRow
  <2>6. CASE \E r \in Callers, k \in Tokens : RotateWrites(r, k)
    <3>1. PICK r \in Callers, k \in Tokens : RotateWrites(r, k)
      BY <2>6
    <3>2. /\ caller[r].token \in Tokens /\ token[caller[r].token].st = "active"
          /\ token[caller[r].token].subject # s
      BY <1>1, <3>1 DEF RotateWrites, QrInvariant, RotatesActive, RequestsName, ActiveTokens
    <3>3. QED
      BY <2>1, <2>2, <2>3, <3>1, <3>2 DEF RotateWrites, TokenRow
  <2>7. CASE \/ \E k \in Tokens : ExpireToken(k) \/ ConsumeInvite(k)
             \/ \E r \in Callers : Revoke(r)
    <3>1. CASE \E k \in Tokens : ExpireToken(k)
      BY <2>1, <2>2, <2>3, <3>1 DEF ExpireToken, TokenRow
    <3>2. CASE \E k \in Tokens : ConsumeInvite(k)
      BY <2>1, <2>2, <2>3, <3>2 DEF ConsumeInvite, TokenRow
    <3>3. CASE \E r \in Callers : Revoke(r)
      BY <2>1, <2>2, <2>3, <3>3 DEF Revoke, TokenRow
    <3>4. QED
      BY <2>7, <3>1, <3>2, <3>3
  <2>8. CASE UNCHANGED token
    BY <2>1, <2>2, <2>8
  <2>9. QED
    BY <2>4, <2>5, <2>6, <2>7, <2>8
       DEF QrNext, SendCleanup, InvitesExpire, FindToken, RotateReads, CallFails
<1>2. QED
  BY QrInvariance, <1>1, PTL DEF QrSpec, RevocationHolds
=============================================================================
