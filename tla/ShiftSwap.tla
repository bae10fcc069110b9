------------------------------ MODULE ShiftSwap ------------------------------
(***************************************************************************)
(* Exchanging rostered shifts: a requester asks, the target answers, an    *)
(* approver decides, while managers edit the roster underneath.            *)
(*                                                                         *)
(*   src/server/roster/shift-swap-routes.ts                                *)
(*   src/server/roster/roster-shift-routes.ts (save, cancel)               *)
(*   db/schema.sql (roster_shifts_no_overlap), the shift swap migrations   *)
(*                                                                         *)
(* A handler that validates the shifts is two steps: it locks the swap and *)
(* both shifts and reads the other shifts of the participants, which stay  *)
(* unlocked; later it writes and commits.  Handlers of one guarded write   *)
(* are one step.                                                           *)
(***************************************************************************)
EXTENDS Integers, FiniteSets

CONSTANTS
    Employees,   \* active employees of one tenant
    Shifts,      \* roster_shifts rows
    Swaps,       \* shift_swap_requests rows
    Txs,         \* transactions that validate shifts
    None,        \* SQL NULL
    Slots,       \* the hours a manager may roster a shift for
    MaxTime,     \* bound: the clock
    MaxEdits,    \* bound: shifts edited or cancelled
    MaxClock     \* bound: clock-ins

Times == 0..MaxTime

ASSUME ShiftSwapAssumption ==
    /\ {MaxTime, MaxEdits, MaxClock} \subseteq Nat
    /\ Slots \subseteq [start : Nat, end : Nat]
    /\ \A x \in Slots : x.start < x.end
    /\ None \notin Employees \cup Shifts \cup Swaps \cup Txs \cup Slots

VARIABLES
    now,        \* the clock
    shift,      \* roster_shifts
    swap,       \* shift_swap_requests
    history,    \* roster_shift_assignment_history
    clocked,    \* employees with an open time log
    tx,         \* what each running transaction is about to commit
    swapLock,   \* holder of the row lock of each swap
    shiftLock,  \* holder of the row lock of each shift
    used        \* how much of each bound is used

vars == <<now, shift, swap, history, clocked, tx, swapLock, shiftLock, used>>
locks == <<tx, swapLock, shiftLock>>

Active  == {"pending_target", "pending_approval"}
Decided == {"target_declined", "applied", "rejected", "cancelled"}

Shift == [st : {"none", "scheduled", "cancelled"}, owner : Employees \cup {None},
          slot : Slots \cup {None}]
\* Who asks whom to exchange what.
Terms == [req : Employees, tgt : Employees, rs : Shifts, ts : Shifts]
Swap  == [st : {"none"} \cup Active \cup Decided, terms : Terms \cup {None},
          ver : 0..3]
Row   == [swap : Swaps, shift : Shifts, from : Employees, to : Employees]
Tx    == [op : {"idle", "create", "accept", "decline", "approve", "reject"},
          swap : Swaps \cup {None}, terms : Terms \cup {None}]

NoShift == [st |-> "none", owner |-> None, slot |-> None]
NoSwap  == [st |-> "none", terms |-> None, ver |-> 0]
Idle    == [op |-> "idle", swap |-> None, terms |-> None]

TypeOK ==
    /\ now \in Times
    /\ shift \in [Shifts -> Shift]
    /\ \A s \in Shifts : shift[s].st = "none" \/
           (shift[s].owner \in Employees /\ shift[s].slot \in Slots)
    /\ swap \in [Swaps -> Swap]
    /\ \A w \in Swaps : swap[w].st = "none" \/
           (swap[w].terms \in Terms /\ swap[w].ver \in 1..3)
    /\ history \subseteq Row
    /\ clocked \subseteq Employees
    /\ tx \in [Txs -> Tx]
    /\ swapLock \in [Swaps -> Txs \cup {None}]
    /\ shiftLock \in [Shifts -> Txs \cup {None}]
    /\ used \in [{"edit", "clock"} -> Nat]
    /\ \A t \in Txs : tx[t].op = "idle" =>
           (\A s \in Shifts : shiftLock[s] # t) /\ (\A w \in Swaps : swapLock[w] # t)

Init ==
    /\ now = 0
    /\ shift = [s \in Shifts |-> NoShift]
    /\ swap = [w \in Swaps |-> NoSwap]
    /\ history = {}
    /\ clocked = {}
    /\ tx = [t \in Txs |-> Idle]
    /\ swapLock = [w \in Swaps |-> None]
    /\ shiftLock = [s \in Shifts |-> None]
    /\ used = [k \in {"edit", "clock"} |-> 0]

Overlap(x, y) == x.start < y.end /\ y.start < x.end

\* The exclusion constraint roster_shifts_no_overlap on a whole table.
Disjoint(rows) ==
    \A r, s \in Shifts :
        (/\ r # s /\ rows[r].st = "scheduled" /\ rows[s].st = "scheduled"
         /\ rows[r].owner = rows[s].owner)
            => ~Overlap(rows[r].slot, rows[s].slot)

\* No scheduled shift of e but `except' overlaps the hours x.
Free(e, except, x) ==
    \A s \in Shifts \ {except} :
        (shift[s].st = "scheduled" /\ shift[s].owner = e)
            => ~Overlap(shift[s].slot, x)

-----------------------------------------------------------------------------
(* The roster.                                                             *)

\* saveRosterShift without an id.
AddShift(s, e, x) ==
    /\ shift[s].st = "none"
    /\ Free(e, s, x)
    /\ shift' = [shift EXCEPT ![s] = [st |-> "scheduled", owner |-> e, slot |-> x]]
    /\ UNCHANGED <<now, swap, history, clocked, locks, used>>

\* saveRosterShift with an id: the status stays what it was, and no swap that
\* names the shift is looked at.  The UPDATE waits for the row lock.
EditShift(s, e, x) ==
    /\ used["edit"] < MaxEdits
    /\ shift[s].st # "none" /\ shiftLock[s] = None
    /\ Free(e, s, x)
    /\ shift' = [shift EXCEPT ![s] = [st |-> @.st, owner |-> e, slot |-> x]]
    /\ used' = [used EXCEPT !["edit"] = @ + 1]
    /\ UNCHANGED <<now, swap, history, clocked, locks>>

CancelShift(s) ==
    /\ used["edit"] < MaxEdits
    /\ shift[s].st # "none" /\ shiftLock[s] = None
    /\ shift' = [shift EXCEPT ![s].st = "cancelled"]
    /\ used' = [used EXCEPT !["edit"] = @ + 1]
    /\ UNCHANGED <<now, swap, history, clocked, locks>>

\* Attendance opens and closes time logs without touching a roster row lock.
ClockIn(e) ==
    /\ used["clock"] < MaxClock /\ e \notin clocked
    /\ clocked' = clocked \cup {e}
    /\ used' = [used EXCEPT !["clock"] = @ + 1]
    /\ UNCHANGED <<now, shift, swap, history, locks>>

ClockOut(e) ==
    /\ e \in clocked
    /\ clocked' = clocked \ {e}
    /\ UNCHANGED <<now, shift, swap, history, locks, used>>

Tick ==
    /\ now < MaxTime
    /\ now' = now + 1
    /\ UNCHANGED <<shift, swap, history, clocked, locks, used>>

-----------------------------------------------------------------------------
(* Validation: validateShifts and what precedes it.                        *)

\* Ownership, status, future start, and no other shift in the way.  The
\* shift each participant gives away is left out, the one it receives is not
\* compared with it.
Valid(p) ==
    /\ p.rs # p.ts /\ p.req # p.tgt
    /\ \A s \in {p.rs, p.ts} : shift[s].st = "scheduled" /\ shift[s].slot.start > now
    /\ shift[p.rs].owner = p.req /\ shift[p.ts].owner = p.tgt
    /\ Free(p.tgt, p.ts, shift[p.rs].slot)
    /\ Free(p.req, p.rs, shift[p.ts].slot)

\* Variant of Validate: the shifts are read without FOR UPDATE.
ValidateUnlocked(t, op, w, p) ==
    /\ Valid(p)
    /\ tx' = [tx EXCEPT ![t] = [op |-> op, swap |-> w, terms |-> p]]
    /\ UNCHANGED shiftLock

\* SELECT ... ORDER BY id FOR UPDATE, then the checks.
Validate(t, op, w, p) ==
    /\ shiftLock[p.rs] = None /\ shiftLock[p.ts] = None
    /\ Valid(p)
    /\ tx' = [tx EXCEPT ![t] = [op |-> op, swap |-> w, terms |-> p]]
    /\ shiftLock' = [s \in Shifts |-> IF s \in {p.rs, p.ts} THEN t ELSE shiftLock[s]]

Ask(t, p) ==
    /\ tx[t].op = "idle"
    /\ Validate(t, "create", None, p)
    /\ UNCHANGED <<now, shift, swap, history, clocked, swapLock, used>>

\* The target answers; both answers validate the shifts again.
Respond(t, w, op) ==
    /\ op \in {"accept", "decline"}
    /\ tx[t].op = "idle"
    /\ swapLock[w] = None
    /\ swap[w].st = "pending_target"
    /\ Validate(t, op, w, swap[w].terms)
    /\ swapLock' = [swapLock EXCEPT ![w] = t]
    /\ UNCHANGED <<now, shift, swap, history, clocked, used>>

\* An approver who saw version v decides; approving also wants both
\* participants clocked out.
Decide(t, w, op, v) ==
    /\ op \in {"approve", "reject"}
    /\ tx[t].op = "idle"
    /\ swapLock[w] = None
    /\ swap[w].st = "pending_approval" /\ swap[w].ver = v
    /\ Validate(t, op, w, swap[w].terms)
    /\ op = "approve" => {swap[w].terms.req, swap[w].terms.tgt} \cap clocked = {}
    /\ swapLock' = [swapLock EXCEPT ![w] = t]
    /\ UNCHANGED <<now, shift, swap, history, clocked, used>>

-----------------------------------------------------------------------------
(* Commits.                                                                *)

\* Variant of Ends: the shifts stay locked.
EndsHoldingShifts(t) ==
    /\ tx' = [tx EXCEPT ![t] = Idle]
    /\ swapLock' = [w \in Swaps |-> IF swapLock[w] = t THEN None ELSE swapLock[w]]
    /\ UNCHANGED shiftLock

\* COMMIT or ROLLBACK ends the transaction and releases its row locks.
Ends(t) ==
    /\ tx' = [tx EXCEPT ![t] = Idle]
    /\ swapLock' = [w \in Swaps |-> IF swapLock[w] = t THEN None ELSE swapLock[w]]
    /\ shiftLock' = [s \in Shifts |-> IF shiftLock[s] = t THEN None ELSE shiftLock[s]]

\* An answer or a decision moves the swap to its next status and version.
Moves(w, st) ==
    swap' = [swap EXCEPT ![w] = [st |-> st, terms |-> @.terms, ver |-> @.ver + 1]]

\* The two partial unique indexes: one active swap per requester shift, one
\* per target shift.
Pledged(p) ==
    \E w \in Swaps : /\ swap[w].st \in Active
                     /\ swap[w].terms.rs = p.rs \/ swap[w].terms.ts = p.ts

AskCommits(t, w) ==
    /\ tx[t].op = "create"
    /\ swap[w].st = "none"
    /\ ~Pledged(tx[t].terms)
    /\ swap' = [swap EXCEPT ![w] =
                   [st |-> "pending_target", terms |-> tx[t].terms, ver |-> 1]]
    /\ Ends(t)
    /\ UNCHANGED <<now, shift, history, clocked, used>>

RespondCommits(t) ==
    /\ tx[t].op \in {"accept", "decline"}
    /\ Moves(tx[t].swap,
             IF tx[t].op = "accept" THEN "pending_approval" ELSE "target_declined")
    /\ Ends(t)
    /\ UNCHANGED <<now, shift, history, clocked, used>>

\* UPDATE roster_shifts changes one row after the other and the exclusion
\* constraint, which is not deferrable, looks at each row as it changes.
Given(s, e) == [shift EXCEPT ![s].owner = e]
Exchanged(p) == [Given(p.rs, p.tgt) EXCEPT ![p.ts].owner = p.req]

\* Variant of Admits: the overlap query is trusted alone.
AdmitsValidated(p) == p.rs # p.ts

Admits(p) ==
    /\ Disjoint(Given(p.rs, p.tgt)) /\ Disjoint(Given(p.ts, p.req))
    /\ Disjoint(Exchanged(p))

Rows(w, p) == {[swap |-> w, shift |-> p.rs, from |-> p.req, to |-> p.tgt],
               [swap |-> w, shift |-> p.ts, from |-> p.tgt, to |-> p.req]}

ApproveCommits(t) ==
    /\ tx[t].op = "approve"
    /\ Admits(tx[t].terms)
    /\ shift' = Exchanged(tx[t].terms)
    /\ history' = history \cup Rows(tx[t].swap, tx[t].terms)
    /\ Moves(tx[t].swap, "applied")
    /\ Ends(t)
    /\ UNCHANGED <<now, clocked, used>>

\* Variant of RejectCommits: the exchange is recorded outside the approving
\* branch.
RejectCommitsRecorded(t) ==
    /\ tx[t].op = "reject"
    /\ history' = history \cup Rows(tx[t].swap, tx[t].terms)
    /\ Moves(tx[t].swap, "rejected")
    /\ Ends(t)
    /\ UNCHANGED <<now, shift, clocked, used>>

RejectCommits(t) ==
    /\ tx[t].op = "reject"
    /\ Moves(tx[t].swap, "rejected")
    /\ Ends(t)
    /\ UNCHANGED <<now, shift, history, clocked, used>>

\* A unique index, the exclusion constraint or a lost connection undoes the
\* transaction, the approval_conflict audit row included.
RollsBack(t) ==
    /\ tx[t].op # "idle"
    /\ Ends(t)
    /\ UNCHANGED <<now, shift, swap, history, clocked, used>>

\* Variant of Cancel: a declined swap can still be withdrawn.
CancelDeclined(w) ==
    /\ swapLock[w] = None
    /\ swap[w].st \in Active \cup {"target_declined"}
    /\ Moves(w, "cancelled")
    /\ UNCHANGED <<now, shift, history, clocked, locks, used>>

\* The requester withdraws; the shifts are not looked at.
Cancel(w) ==
    /\ swapLock[w] = None
    /\ swap[w].st \in Active
    /\ Moves(w, "cancelled")
    /\ UNCHANGED <<now, shift, history, clocked, locks, used>>

Next ==
    \/ \E s \in Shifts, e \in Employees, x \in Slots : AddShift(s, e, x)
    \/ \E s \in Shifts, e \in Employees, x \in Slots : EditShift(s, e, x)
    \/ \E s \in Shifts : CancelShift(s)
    \/ \E e \in Employees : ClockIn(e)
    \/ \E e \in Employees : ClockOut(e)
    \/ Tick
    \/ \E t \in Txs, p \in Terms : Ask(t, p)
    \/ \E t \in Txs, w \in Swaps, op \in {"accept", "decline"} : Respond(t, w, op)
    \/ \E t \in Txs, w \in Swaps, op \in {"approve", "reject"}, v \in 1..3 :
           Decide(t, w, op, v)
    \/ \E t \in Txs, w \in Swaps : AskCommits(t, w)
    \/ \E t \in Txs : RespondCommits(t)
    \/ \E t \in Txs : ApproveCommits(t)
    \/ \E t \in Txs : RejectCommits(t)
    \/ \E t \in Txs : RollsBack(t)
    \/ \E w \in Swaps : Cancel(w)

Spec == Init /\ [][Next]_vars

-----------------------------------------------------------------------------
(* Properties.                                                             *)

\* Nobody holds two scheduled shifts that overlap, although the overlap query
\* of validateShifts and of saveRosterShift reads rows it does not lock.
NobodyDoubleBooked == Disjoint(shift)

\* The assignment history holds the two reassignments of every applied swap
\* and nothing else: no exchange is lost, repeated or half recorded, and a
\* swap that was not applied left no trace.
AppliedSwapsAreRecorded ==
    \A r \in Row :
        r \in history <=> /\ swap[r.swap].st = "applied"
                         /\ r \in Rows(r.swap, swap[r.swap].terms)

\* The owners and the schedule a decision relies on hold when it commits, not
\* only when it was validated: while the target accepts or declines, or an
\* approver applies or rejects, each participant still owns its scheduled
\* shift.  An applied swap gives each of the two shifts to the other
\* participant and touches no other shift.
DecisionsAreCurrent ==
    [][\A w \in Swaps :
          (swap'[w].st # swap[w].st /\ swap'[w].st # "cancelled") =>
             LET p == swap'[w].terms IN
             /\ shift[p.rs].st = "scheduled" /\ shift[p.ts].st = "scheduled"
             /\ shift[p.rs].owner = p.req /\ shift[p.ts].owner = p.tgt
             /\ swap'[w].st = "applied" =>
                   /\ swap[w].st = "pending_approval"
                   /\ shift' = Exchanged(p)]_vars

\* A declined, applied, rejected or cancelled swap never changes again,
\* however cancel, respond and decide race.
DecidedSwapsAreFinal ==
    [][\A w \in Swaps : swap[w].st \in Decided => swap'[w] = swap[w]]_vars

\* A running transaction holds what it read: the locks of both shifts, which
\* are still scheduled and owned as it saw them, and of its swap, whose status
\* and terms are still those it read.
HoldsWhatItRead(t) ==
    LET p == tx[t].terms  w == tx[t].swap IN
    /\ p \in Terms /\ p.rs # p.ts
    /\ shiftLock[p.rs] = t /\ shiftLock[p.ts] = t
    /\ shift[p.rs].st = "scheduled" /\ shift[p.rs].owner = p.req
    /\ shift[p.ts].st = "scheduled" /\ shift[p.ts].owner = p.tgt
    /\ tx[t].op # "create" =>
          /\ w \in Swaps /\ swapLock[w] = t /\ swap[w].terms = p
          /\ swap[w].st = IF tx[t].op \in {"accept", "decline"}
                          THEN "pending_target" ELSE "pending_approval"

TransactionsHoldWhatTheyRead ==
    \A t \in Txs : tx[t].op # "idle" => HoldsWhatItRead(t)

\* The version an approver must name identifies the status it saw.
VersionsCount ==
    \A w \in Swaps : /\ swap[w].st = "pending_target" => swap[w].ver = 1
                     /\ swap[w].st = "pending_approval" => swap[w].ver = 2

\* Inductive, and enough for every invariant and action property above.
InductiveInvariant ==
    /\ TypeOK
    /\ TransactionsHoldWhatTheyRead
    /\ VersionsCount
    /\ NobodyDoubleBooked
    /\ AppliedSwapsAreRecorded

\* What the comment on validateShifts says of it: it validates the proposed
\* ownership change.  When an approval has passed it, and the exchange would
\* leave nobody double booked, the database accepts the exchange.
ValidatedSwapApplies ==
    \A t \in Txs :
        (tx[t].op = "approve" /\ Disjoint(Exchanged(tx[t].terms)))
            => Admits(tx[t].terms)
=============================================================================
