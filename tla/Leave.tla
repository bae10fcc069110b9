------------------------------- MODULE Leave -------------------------------
(***************************************************************************)
(* Leave requests against the roster: an employee asks for days off, an    *)
(* approver decides, managers edit the roster underneath, and the shifts   *)
(* an approved leave clashes with are recorded for a scheduler.            *)
(*                                                                         *)
(*   src/server/leave/leave-routes.ts, legacy-leave-routes.ts              *)
(*   src/server/roster/roster-shift-routes.ts (save, cancel)               *)
(*   db/schema.sql (obsolete_leave_roster_conflicts_for_shift)             *)
(*                                                                         *)
(* Transactions run at READ COMMITTED: a statement reads what is committed *)
(* when it starts, and FOR UPDATE waits for the row and reads it again.    *)
(* Each statement whose result another transaction can make stale is a     *)
(* step of its own; a transaction's writes show when it commits.  Shifts   *)
(* lie in the future, and who may decide is left to the organisation.      *)
(***************************************************************************)
EXTENDS Integers, FiniteSets

CONSTANTS
    Employees,   \* active employees of one tenant
    Requests,    \* leave_requests rows, by id
    Shifts,      \* roster_shifts rows, by id
    Txs,         \* transactions of several statements
    None,        \* SQL NULL
    Leaves,      \* spans of days an employee may ask for
    Slots,       \* the hours a manager may roster a shift for, in days
    Legacy,      \* are the legacy routes in use?
    MaxEdits     \* bound: shifts saved, cancelled or swapped

ASSUME LeaveAssumption ==
    /\ Requests \subseteq Nat /\ Shifts \subseteq Nat
    /\ Leaves \subseteq [first : Nat, last : Nat]
    /\ \A x \in Leaves : x.first <= x.last
    /\ Slots \subseteq [start : Nat, end : Nat]
    /\ \A y \in Slots : y.start < y.end
    /\ Legacy \in BOOLEAN
    /\ MaxEdits \in Nat
    /\ IsFiniteSet(Txs)   \* the connections of a pool
    /\ None \notin Employees \cup Txs \cup Requests \cup Shifts
    /\ None \notin Leaves /\ None \notin Slots

VARIABLES
    request,     \* leave_requests
    shift,       \* roster_shifts
    conflict,    \* leave_roster_conflicts: the status of each pair
    tx,          \* what each running transaction is doing
    requestLock, \* holder of the row lock of each request
    shiftLock,   \* holder of the row lock of each shift
    schedule,    \* holder of the advisory lock of each employee's schedule
    edits,       \* how much of the bound is used
    unseen       \* auxiliary: pairs that may clash without either side having seen it

tables == <<request, shift, conflict>>
locks  == <<requestLock, shiftLock, schedule>>
vars   == <<tables, tx, locks, edits, unseen>>

Pairs == Requests \X Shifts

Request == [st : {"none", "pending", "approved", "rejected", "cancelled"},
            emp : Employees \cup {None}, days : Leaves \cup {None}, ver : 0..2]
Shift   == [st : {"none", "scheduled", "cancelled"},
            emp : Employees \cup {None}, slot : Slots \cup {None}]
Tx == [op : {"idle", "create", "approve", "detect", "save", "written", "record"},
       req : Requests \cup {None}, sh : Shifts \cup {None},
       row : Request \cup Shift \cup {None},
       todo : SUBSET (Requests \cup Shifts),   \* rows selected, still to lock
       found : SUBSET (Requests \cup Shifts)]  \* rows locked that still qualify

NoRequest == [st |-> "none", emp |-> None, days |-> None, ver |-> 0]
NoShift   == [st |-> "none", emp |-> None, slot |-> None]
Idle == [op |-> "idle", req |-> None, sh |-> None, row |-> None,
         todo |-> {}, found |-> {}]

Holds(t) == {r \in Requests : requestLock[r] = t} \cup {s \in Shifts : shiftLock[s] = t}
                \cup {e \in Employees : schedule[e] = t}

TypeOK ==
    /\ request \in [Requests -> Request]
    /\ shift \in [Shifts -> Shift]
    /\ conflict \in [Pairs -> {"none", "open", "obsolete"}]
    /\ tx \in [Txs -> Tx]
    /\ requestLock \in [Requests -> Txs \cup {None}]
    /\ shiftLock \in [Shifts -> Txs \cup {None}]
    /\ schedule \in [Employees -> Txs \cup {None}]
    /\ edits \in 0..MaxEdits
    /\ unseen \subseteq Pairs
    /\ \A r \in Requests : request[r].st = "none" \/
           (request[r].emp \in Employees /\ request[r].days \in Leaves)
    /\ \A r \in Requests : request[r].st = "pending" => request[r].ver = 1
    /\ \A s \in Shifts : shift[s].st = "none" \/
           (shift[s].emp \in Employees /\ shift[s].slot \in Slots)
    /\ \A t \in Txs : tx[t].op = "idle" => Holds(t) = {}

Init ==
    /\ request = [r \in Requests |-> NoRequest]
    /\ shift = [s \in Shifts |-> NoShift]
    /\ conflict = [p \in Pairs |-> "none"]
    /\ tx = [t \in Txs |-> Idle]
    /\ requestLock = [r \in Requests |-> None]
    /\ shiftLock = [s \in Shifts |-> None]
    /\ schedule = [e \in Employees |-> None]
    /\ edits = 0
    /\ unseen = {}

-----------------------------------------------------------------------------
(* Dates and hours.                                                        *)

\* Two spans of days share a day.
SameDays(x, z) == x.first <= z.last /\ z.first <= x.last

\* A shift's hours touch the days of a leave, its last day included.
Covers(x, y) == y.start < x.last + 1 /\ y.end > x.first

\* A row of leave_requests and one of roster_shifts that clash when approved.
Meets(q, p) == q.emp = p.emp /\ Covers(q.days, p.slot)

Clash(r, s) ==
    request[r].st = "approved" /\ shift[s].st = "scheduled" /\ Meets(request[r], shift[s])

\* Requests of e that share a day with x and are in one of the states.
Sharing(e, x, states) ==
    {r \in Requests : request[r].st \in states /\ request[r].emp = e
                        /\ SameDays(request[r].days, x)}

SameHours(x, y) == x.start < y.end /\ y.start < x.end

\* The row of a shift as its running save wrote it.
Written(s) ==
    {tx[t].row : t \in {u \in Txs : tx[u].op \in {"written", "record"} /\ tx[u].sh = s}}

\* The exclusion constraint roster_shifts_no_overlap, which also meets rows that
\* are not committed yet.
Fits(s, row) ==
    \A p \in Shifts \ {s} : \A other \in {shift[p]} \cup Written(p) :
        (row.st = "scheduled" /\ other.st = "scheduled" /\ other.emp = row.emp)
            => ~SameHours(other.slot, row.slot)

\* The trigger of an updated shift: its open conflicts that no longer are one.
Obsolete(s, row) ==
    [p \in Pairs |->
        IF /\ p[2] = s /\ conflict[p] = "open"
           /\ \/ row.st # "scheduled"
              \/ request[p[1]].st # "approved"
              \/ ~Meets(request[p[1]], row)
        THEN "obsolete" ELSE conflict[p]]

\* The upsert of each conflict found.
Opened(table, pairs) == [p \in Pairs |-> IF p \in pairs THEN "open" ELSE table[p]]

\* The next row to lock: ORDER BY id.
Least(S) == {n \in S : \A m \in S : n <= m}

Unlocked(lock, t) == [x \in DOMAIN lock |-> IF lock[x] = t THEN None ELSE lock[x]]

\* Variant of Ends: the advisory lock is the session's, which goes on.
EndsKeepingSchedule(t) ==
    /\ tx' = [tx EXCEPT ![t] = Idle]
    /\ requestLock' = Unlocked(requestLock, t)
    /\ shiftLock' = Unlocked(shiftLock, t)
    /\ UNCHANGED schedule

\* A transaction ends, and its locks with it.
Ends(t) ==
    /\ tx' = [tx EXCEPT ![t] = Idle]
    /\ requestLock' = Unlocked(requestLock, t)
    /\ shiftLock' = Unlocked(shiftLock, t)
    /\ schedule' = Unlocked(schedule, t)

\* The running approvals and the running saves of a shift.
Approvals == {t \in Txs : tx[t].op \in {"approve", "detect"}}
Saves     == {t \in Txs : tx[t].op \in {"save", "written", "record"}}

\* What detections that run at the same time may not see of each other: the
\* requests being approved that meet a row, the shifts being saved that meet one.
Approving(row) == {tx[t].req : t \in {u \in Approvals : Meets(request[tx[u].req], row)}}
Saving(q)      == {tx[t].sh : t \in {u \in Saves : Meets(q, tx[u].row)}}

-----------------------------------------------------------------------------
(* The employee.                                                           *)

Reserved(r) == \E t \in Txs : tx[t].op = "create" /\ tx[t].req = r

\* POST /api/me/leave-requests: no pending or approved request shares a day ...
CreateReads(t, r, e, x) ==
    /\ tx[t].op = "idle"
    /\ request[r].st = "none" /\ ~Reserved(r)
    /\ Sharing(e, x, {"pending", "approved"}) = {}
    /\ tx' = [tx EXCEPT ![t] =
                 [Idle EXCEPT !.op = "create", !.req = r,
                              !.row = [st |-> "pending", emp |-> e, days |-> x,
                                       ver |-> 1]]]
    /\ UNCHANGED <<tables, locks, edits, unseen>>

\* ... when it looked: the new row meets no constraint.
CreateCommits(t) ==
    /\ tx[t].op = "create"
    /\ request' = [request EXCEPT ![tx[t].req] = tx[t].row]
    /\ Ends(t)
    /\ UNCHANGED <<shift, conflict, edits, unseen>>

\* POST /api/leave-requests looks at no other request.
LegacyCreate(r, e, x) ==
    /\ Legacy
    /\ request[r].st = "none" /\ ~Reserved(r)
    /\ request' = [request EXCEPT ![r] = [st |-> "pending", emp |-> e, days |-> x,
                                          ver |-> 1]]
    /\ UNCHANGED <<shift, conflict, tx, locks, edits, unseen>>

\* A decision in one guarded write, under the row lock.
Decides(r, seen, st) ==
    /\ requestLock[r] = None
    /\ request[r].st = "pending" /\ request[r].ver = seen
    /\ request' = [request EXCEPT ![r].st = st, ![r].ver = @ + 1]
    /\ UNCHANGED <<shift, conflict, tx, locks, edits, unseen>>

Cancel(r, seen) == Decides(r, seen, "cancelled")

-----------------------------------------------------------------------------
(* The approver.                                                           *)

Reject(r, seen) == Decides(r, seen, "rejected")

\* decide('approved') locks the request and looks for approved leave that
\* shares a day with it, locking none.
ApproveReads(t, r, seen) ==
    /\ tx[t].op = "idle"
    /\ requestLock[r] = None
    /\ request[r].st = "pending" /\ request[r].ver = seen
    /\ Sharing(request[r].emp, request[r].days, {"approved"}) = {}
    /\ requestLock' = [requestLock EXCEPT ![r] = t]
    /\ tx' = [tx EXCEPT ![t] = [Idle EXCEPT !.op = "approve", !.req = r]]
    /\ unseen' = unseen \cup ({r} \X Saving(request[r]))
    /\ UNCHANGED <<tables, shiftLock, schedule, edits>>

\* detectApprovedLeaveConflicts selects the shifts the leave clashes with ...
DetectSelects(t) ==
    /\ tx[t].op = "approve"
    /\ tx' = [tx EXCEPT ![t].op = "detect",
                 ![t].todo = {s \in Shifts : /\ shift[s].st = "scheduled"
                                             /\ Meets(request[tx[t].req], shift[s])}]
    /\ UNCHANGED <<tables, locks, edits, unseen>>

\* Variant of LockShift: the row is not read again after the wait.
LockShiftBlindly(t) ==
    /\ tx[t].op = "detect" /\ tx[t].todo # {}
    /\ \E s \in Least(tx[t].todo) :
           /\ shiftLock[s] = None
           /\ shiftLock' = [shiftLock EXCEPT ![s] = t]
           /\ tx' = [tx EXCEPT ![t].todo = @ \ {s}, ![t].found = @ \cup {s}]
    /\ UNCHANGED <<tables, requestLock, schedule, edits, unseen>>

\* ... locks them in the order of their ids, each read again once locked ...
LockShift(t) ==
    /\ tx[t].op = "detect" /\ tx[t].todo # {}
    /\ \E s \in Least(tx[t].todo) :
           /\ shiftLock[s] = None
           /\ shiftLock' = [shiftLock EXCEPT ![s] = t]
           /\ tx' = [tx EXCEPT ![t].todo = @ \ {s},
                        ![t].found = IF /\ shift[s].st = "scheduled"
                                        /\ Meets(request[tx[t].req], shift[s])
                                     THEN @ \cup {s} ELSE @]
    /\ UNCHANGED <<tables, requestLock, schedule, edits, unseen>>

\* ... and records each before the approval commits.
ApproveCommits(t) ==
    /\ tx[t].op = "detect" /\ tx[t].todo = {}
    /\ LET r == tx[t].req
       IN  /\ request' = [request EXCEPT ![r].st = "approved", ![r].ver = @ + 1]
           /\ conflict' = Opened(conflict, {r} \X tx[t].found)
           /\ unseen' = unseen \ ({r} \X tx[t].found)
    /\ Ends(t)
    /\ UNCHANGED <<shift, edits>>

\* Variant of LegacyStatus: a decision may be changed.
LegacyStatusAnytime(r, st) ==
    /\ Legacy
    /\ requestLock[r] = None
    /\ request[r].st # "none"
    /\ request' = [request EXCEPT ![r].st = st]
    /\ UNCHANGED <<shift, conflict, tx, locks, edits, unseen>>

\* PATCH /api/leave-requests/:id/status decides a pending request under its row
\* lock: other leave and the roster are not looked at, the version stays.
LegacyStatus(r, st) ==
    /\ Legacy
    /\ requestLock[r] = None
    /\ request[r].st = "pending"
    /\ request' = [request EXCEPT ![r].st = st]
    /\ unseen' = IF st = "approved"
                 THEN unseen \cup ({r} \X (Saving(request[r]) \cup
                         {s \in Shifts : shift[s].st = "scheduled"
                                           /\ Meets(request[r], shift[s])}))
                 ELSE unseen
    /\ UNCHANGED <<shift, conflict, tx, locks, edits>>

-----------------------------------------------------------------------------
(* The roster.                                                             *)

\* No scheduled shift of e but `except' shares hours with y.
Free(e, except, y) ==
    \A s \in Shifts \ {except} :
        (shift[s].st = "scheduled" /\ shift[s].emp = e) => ~SameHours(shift[s].slot, y)

\* saveRosterShift takes the employee's advisory lock and rechecks the overlap;
\* a new shift has an id nobody else writes.
SaveReads(t, s, e, y) ==
    /\ edits < MaxEdits
    /\ tx[t].op = "idle"
    /\ schedule[e] = None
    /\ shift[s].st = "none" => \A u \in Saves : tx[u].sh # s
    /\ Free(e, s, y)
    /\ schedule' = [schedule EXCEPT ![e] = t]
    /\ LET row == [st |-> "scheduled", emp |-> e, slot |-> y]
       IN  /\ tx' = [tx EXCEPT ![t] = [Idle EXCEPT !.op = "save", !.sh = s, !.row = row]]
           /\ unseen' = unseen \cup (Approving(row) \X {s})
    /\ edits' = edits + 1
    /\ UNCHANGED <<tables, requestLock, shiftLock>>

\* It inserts the row, or updates it once its lock is free; an existing shift
\* keeps its status, and the exclusion constraint has the last word.
SaveWrites(t) ==
    /\ tx[t].op = "save"
    /\ LET s == tx[t].sh
           row == IF shift[s].st = "none" THEN tx[t].row
                                          ELSE [tx[t].row EXCEPT !.st = shift[s].st]
       IN  /\ shiftLock[s] = None
           /\ Fits(s, row)
           /\ shiftLock' = [shiftLock EXCEPT ![s] = t]
           /\ tx' = [tx EXCEPT ![t].op = "written", ![t].row = row]
    /\ UNCHANGED <<tables, requestLock, schedule, edits, unseen>>

\* Variant of SaveSelects: pending requests are selected too.
SaveSelectsPending(t) ==
    /\ tx[t].op = "written"
    /\ tx' = [tx EXCEPT ![t].op = "record",
                 ![t].todo = {r \in Requests :
                                 /\ request[r].st \in {"pending", "approved"}
                                 /\ Meets(request[r], tx[t].row)}]
    /\ UNCHANGED <<tables, locks, edits, unseen>>

\* recordApprovedLeaveConflictsForShift selects the approved leave it meets ...
SaveSelects(t) ==
    /\ tx[t].op = "written"
    /\ tx' = [tx EXCEPT ![t].op = "record",
                 ![t].todo = IF tx[t].row.st = "scheduled"
                             THEN {r \in Requests : /\ request[r].st = "approved"
                                                    /\ Meets(request[r], tx[t].row)}
                             ELSE {}]
    /\ UNCHANGED <<tables, locks, edits, unseen>>

\* ... locks it in the order of ids; approved leave stays approved ...
LockRequest(t) ==
    /\ tx[t].op = "record" /\ tx[t].todo # {}
    /\ \E r \in Least(tx[t].todo) :
           /\ requestLock[r] = None
           /\ requestLock' = [requestLock EXCEPT ![r] = t]
           /\ tx' = [tx EXCEPT ![t].todo = @ \ {r},
                        ![t].found = IF request[r].st = "approved" THEN @ \cup {r} ELSE @]
    /\ UNCHANGED <<tables, shiftLock, schedule, edits, unseen>>

\* Variant of SaveCommits: ON CONFLICT DO NOTHING.
SaveCommitsOnce(t) ==
    /\ tx[t].op = "record" /\ tx[t].todo = {}
    /\ LET s == tx[t].sh
           found == {p \in tx[t].found \X {s} : conflict[p] = "none"}
       IN  /\ shift' = [shift EXCEPT ![s] = tx[t].row]
           /\ conflict' = Opened(Obsolete(s, tx[t].row), found)
           /\ unseen' = unseen \ (tx[t].found \X {s})
    /\ Ends(t)
    /\ UNCHANGED <<request, edits>>

\* ... and the shift, its trigger and its conflicts commit together.
SaveCommits(t) ==
    /\ tx[t].op = "record" /\ tx[t].todo = {}
    /\ LET s == tx[t].sh
       IN  /\ shift' = [shift EXCEPT ![s] = tx[t].row]
           /\ conflict' = Opened(Obsolete(s, tx[t].row), tx[t].found \X {s})
           /\ unseen' = unseen \ (tx[t].found \X {s})
    /\ Ends(t)
    /\ UNCHANGED <<request, edits>>

\* PATCH /api/roster/shifts/:id/cancel, of a shift in any state.
CancelShift(s) ==
    /\ edits < MaxEdits
    /\ shift[s].st # "none" /\ shiftLock[s] = None
    /\ shift' = [shift EXCEPT ![s].st = "cancelled"]
    /\ conflict' = Obsolete(s, shift'[s])
    /\ edits' = edits + 1
    /\ UNCHANGED <<request, tx, locks, unseen>>

\* An approved swap (module ShiftSwap) exchanges the owners of two shifts: the
\* trigger runs, nothing looks for the leave of the new owners.
SwapOwners(s, z) ==
    /\ edits < MaxEdits
    /\ shift[s].st = "scheduled" /\ shift[z].st = "scheduled"
    /\ shift[s].emp # shift[z].emp
    /\ shiftLock[s] = None /\ shiftLock[z] = None
    /\ shift' = [shift EXCEPT ![s].emp = shift[z].emp, ![z].emp = shift[s].emp]
    /\ Fits(s, shift'[s]) /\ Fits(z, shift'[z])
    /\ conflict' = [p \in Pairs |-> IF p[2] = s THEN Obsolete(s, shift'[s])[p]
                                                ELSE Obsolete(z, shift'[z])[p]]
    /\ edits' = edits + 1
    /\ unseen' = unseen \cup
          {p \in Requests \X {s, z} :
              \/ p[1] \in Approving(shift'[p[2]])
              \/ request[p[1]].st = "approved" /\ Meets(request[p[1]], shift'[p[2]])}
    /\ UNCHANGED <<request, tx, locks>>

\* A check refuses, a client goes away, the server stops: nothing is kept.
Rollback(t) ==
    /\ tx[t].op # "idle"
    /\ Ends(t)
    /\ UNCHANGED <<tables, edits, unseen>>

TxStep(t) ==
    \/ \E r \in Requests, e \in Employees, x \in Leaves : CreateReads(t, r, e, x)
    \/ CreateCommits(t)
    \/ \E r \in Requests, seen \in 1..2 : ApproveReads(t, r, seen)
    \/ DetectSelects(t)
    \/ LockShift(t)
    \/ ApproveCommits(t)
    \/ \E s \in Shifts, e \in Employees, y \in Slots : SaveReads(t, s, e, y)
    \/ SaveWrites(t)
    \/ SaveSelects(t)
    \/ LockRequest(t)
    \/ SaveCommits(t)
    \/ Rollback(t)

RequestStep(r) ==
    \/ \E e \in Employees, x \in Leaves : LegacyCreate(r, e, x)
    \/ \E seen \in 1..2 : Cancel(r, seen) \/ Reject(r, seen)
    \/ \E st \in {"approved", "rejected", "cancelled"} : LegacyStatus(r, st)

ShiftStep(s) == CancelShift(s) \/ \E z \in Shifts \ {s} : SwapOwners(s, z)

Next ==
    \/ \E t \in Txs : TxStep(t)
    \/ \E r \in Requests : RequestStep(r)
    \/ \E s \in Shifts : ShiftStep(s)

Spec == Init /\ [][Next]_vars

-----------------------------------------------------------------------------
(* Properties                                                              *)

\* An open conflict is a clash that exists: leave still approved, shift still
\* scheduled, for that employee, on those days. The approval, the roster editor
\* and the trigger write the same rows from transactions that overlap; only the
\* row lock and the second read keep them from recording a shift as it was.
OpenConflictIsReal == \A p \in Pairs : conflict[p] = "open" => Clash(p[1], p[2])

\* A clash is recorded as open, unless the leave and the shift were written by
\* transactions that ran at the same time, or the leave was approved by the
\* legacy route, or the shift came by a swap, and no save has found it since:
\* whichever is written second finds the first, and a clash that went away and
\* comes back is opened again.
ClashIsRecorded ==
    \A p \in Pairs : Clash(p[1], p[2]) => conflict[p] = "open" \/ p \in unseen

\* Whom a transaction that already holds locks is waiting for.
Blockers(t) ==
    CASE tx[t].op = "detect" -> {shiftLock[s] : s \in Least(tx[t].todo)}
      [] tx[t].op = "record" -> {requestLock[r] : r \in Least(tx[t].todo)}
      [] tx[t].op = "save" -> {shiftLock[tx[t].sh]}
      [] OTHER -> {}

\* Approvals lock a request and then shifts, roster edits a shift and then
\* requests, yet no transactions wait for each other in a circle: an edit only
\* waits for approved leave, which no approval holds.
NobodyWaitsInACircle ==
    \A W \in SUBSET Txs : W # {} => \E t \in W : Blockers(t) \cap W = {}

\* What a running transaction relies on until it commits: rows it locked are as
\* it read them, approved leave stays what it was, and nobody takes its new id.
Holding(t) ==
    LET d == tx[t]
    IN  /\ d.op = "create" =>
              /\ d.req \in Requests /\ request[d.req].st = "none"
              /\ d.row \in Request /\ d.row.st = "pending" /\ d.row.ver = 1
              /\ d.row.emp \in Employees /\ d.row.days \in Leaves
              /\ \A u \in Txs \ {t} : tx[u].op = "create" => tx[u].req # d.req
        /\ d.op \in {"approve", "detect"} =>
              /\ d.req \in Requests /\ requestLock[d.req] = t
              /\ request[d.req].st = "pending"
        /\ d.op = "approve" => d.found = {}
        /\ d.op = "detect" =>
              /\ d.todo \subseteq Shifts /\ d.found \subseteq Shifts
              /\ \A s \in d.found : /\ shiftLock[s] = t /\ shift[s].st = "scheduled"
                                     /\ Meets(request[d.req], shift[s])
        /\ d.op \in {"save", "written", "record"} =>
              /\ d.sh \in Shifts /\ d.row \in Shift
              /\ d.row.st # "none" /\ d.row.emp \in Employees /\ d.row.slot \in Slots
        /\ d.op \in {"save", "written"} => d.found = {}
        /\ d.op \in {"written", "record"} => shiftLock[d.sh] = t
        /\ d.op = "record" =>
              /\ d.todo \subseteq Requests /\ d.found \subseteq Requests
              /\ \A r \in d.todo \cup d.found : /\ request[r].st = "approved"
                                                /\ Meets(request[r], d.row)
                                                /\ d.row.st = "scheduled"

\* An approval and a roster edit that run at the same time are noted ...
RacesAreNoted ==
    \A t \in Approvals, u \in Saves :
        Meets(request[tx[t].req], tx[u].row) => <<tx[t].req, tx[u].sh>> \in unseen

\* ... and of the rest a detection that has selected its rows misses none.
FindsAll(t) ==
    /\ tx[t].op = "detect" =>
          \A s \in Shifts :
              shift[s].st = "scheduled" /\ Meets(request[tx[t].req], shift[s])
                  => s \in tx[t].todo \cup tx[t].found \/ <<tx[t].req, s>> \in unseen
    /\ tx[t].op = "record" /\ tx[t].row.st = "scheduled" =>
          \A r \in Requests :
              request[r].st = "approved" /\ Meets(request[r], tx[t].row)
                  => r \in tx[t].todo \cup tx[t].found \/ <<r, tx[t].sh>> \in unseen

NothingMissed == RacesAreNoted /\ \A t \in Txs : FindsAll(t)

\* Together with both halves of the conflict table this is inductive.
InductiveInvariant ==
    /\ TypeOK
    /\ \A t \in Txs : Holding(t)
    /\ OpenConflictIsReal
    /\ NothingMissed
    /\ ClashIsRecorded

\* A decision is final: whatever reads the request before, no route moves an
\* approved, rejected or cancelled request, and its dates never change.
DecisionsAreFinal ==
    [][\A r \in Requests : request[r].st \notin {"none", "pending"}
                              => request'[r] = request[r]]_vars

\* leave-routes.ts:588 "This employee already has approved leave in the
\* requested date range.": approval is refused then, so no two approved
\* requests of an employee share a day.
ApprovedLeaveNeverOverlaps ==
    \A r, q \in Requests :
        (/\ r # q /\ request[r].st = "approved" /\ request[q].st = "approved"
         /\ request[r].emp = request[q].emp)
            => ~SameDays(request[r].days, request[q].days)
=============================================================================
