--------------------------- MODULE ShiftSwapProofs ---------------------------
(***************************************************************************)
(* Proofs about ShiftSwap: for every set of employees, shifts, swaps and   *)
(* transactions nobody is double booked, decisions hold on the state they  *)
(* commit in, exchanges are recorded exactly once and decided swaps are    *)
(* final.                                                                  *)
(***************************************************************************)
EXTENDS ShiftSwap, TLAPS

\* What ending a transaction leaves of the others: their entries and locks.
LEMMA EndsFrees ==
    ASSUME TypeOK, NEW t \in Txs, Ends(t)
    PROVE  /\ tx' \in [Txs -> Tx]
           /\ swapLock' \in [Swaps -> Txs \cup {None}]
           /\ shiftLock' \in [Shifts -> Txs \cup {None}]
           /\ tx'[t].op = "idle"
           /\ \A w \in Swaps : swapLock'[w] # t
           /\ \A s \in Shifts : shiftLock'[s] # t
           /\ \A u \in Txs \ {t} :
                 /\ tx'[u] = tx[u]
                 /\ \A w \in Swaps : swapLock'[w] = u <=> swapLock[w] = u
                 /\ \A s \in Shifts : shiftLock'[s] = u <=> shiftLock[s] = u
<1>1. Idle \in Tx /\ Idle.op = "idle" /\ None \notin Txs
  BY ShiftSwapAssumption DEF Idle, Tx
<1>2. QED
  BY <1>1 DEF TypeOK, Ends

\* The initial state satisfies the inductive invariant.
LEMMA InitEstablishes == Init => InductiveInvariant
<1> SUFFICES ASSUME Init PROVE InductiveInvariant
  OBVIOUS
<1> USE ShiftSwapAssumption DEF Init
<1>1. TypeOK
  BY DEF TypeOK, Times, Shift, Swap, Tx, NoShift, NoSwap, Idle
<1>2. TransactionsHoldWhatTheyRead /\ VersionsCount
  BY DEF TransactionsHoldWhatTheyRead, VersionsCount, Idle, NoSwap
<1>3. NobodyDoubleBooked
  BY DEF NobodyDoubleBooked, Disjoint, NoShift
<1>4. AppliedSwapsAreRecorded
  BY DEF AppliedSwapsAreRecorded, Row, NoSwap
<1>5. QED
  BY <1>1, <1>2, <1>3, <1>4 DEF InductiveInvariant

\* Clock-ins, clock-outs and the passage of time touch nothing that matters.
LEMMA QuietStep ==
    ASSUME InductiveInvariant,
           Tick \/ (\E e \in Employees : ClockIn(e) \/ ClockOut(e))
    PROVE  InductiveInvariant'
<1> USE DEF InductiveInvariant
<1>1. UNCHANGED <<shift, swap, history, tx, swapLock, shiftLock>>
  BY DEF Tick, ClockIn, ClockOut, locks
<1>2. now' \in Times /\ clocked' \subseteq Employees
        /\ used' \in [{"edit", "clock"} -> Nat]
  BY ShiftSwapAssumption DEF TypeOK, Times, Tick, ClockIn, ClockOut
<1>3. TypeOK'
  BY <1>1, <1>2 DEF TypeOK
<1>4. TransactionsHoldWhatTheyRead' /\ VersionsCount'
  BY <1>1 DEF TransactionsHoldWhatTheyRead, HoldsWhatItRead, VersionsCount
<1>5. NobodyDoubleBooked' /\ AppliedSwapsAreRecorded'
  BY <1>1 DEF NobodyDoubleBooked, Disjoint, AppliedSwapsAreRecorded
<1>6. QED
  BY <1>3, <1>4, <1>5

\* A manager's edit cannot reach a shift some transaction has locked, and
\* respects the exclusion constraint.
LEMMA RosterStep ==
    ASSUME InductiveInvariant,
           NEW s \in Shifts,
           \/ \E e \in Employees, x \in Slots : AddShift(s, e, x) \/ EditShift(s, e, x)
           \/ CancelShift(s)
    PROVE  InductiveInvariant'
<1> USE DEF InductiveInvariant
<1>1. UNCHANGED <<now, swap, history, clocked, tx, swapLock, shiftLock>>
  BY DEF AddShift, EditShift, CancelShift, locks
<1>2. /\ shift' \in [Shifts -> Shift]
      /\ used' \in [{"edit", "clock"} -> Nat]
      /\ \A r \in Shifts \ {s} : shift'[r] = shift[r]
      /\ shift'[s].owner \in Employees /\ shift'[s].slot \in Slots
  <2>1. ASSUME NEW e \in Employees, NEW x \in Slots, AddShift(s, e, x)
        PROVE  <1>2!:
    BY <2>1 DEF TypeOK, AddShift, Shift
  <2>2. ASSUME NEW e \in Employees, NEW x \in Slots, EditShift(s, e, x)
        PROVE  <1>2!:
    BY <2>2 DEF TypeOK, EditShift, Shift
  <2>3. CASE CancelShift(s)
    BY <2>3 DEF TypeOK, CancelShift, Shift
  <2>4. QED
    BY <2>1, <2>2, <2>3
<1>4. TypeOK'
  BY <1>1, <1>2 DEF TypeOK
<1>5. TransactionsHoldWhatTheyRead'
  <2> SUFFICES ASSUME NEW t \in Txs, tx[t].op # "idle"
               PROVE  HoldsWhatItRead(t)'
    BY <1>1 DEF TransactionsHoldWhatTheyRead
  <2>1. HoldsWhatItRead(t) /\ None \notin Txs
    BY ShiftSwapAssumption DEF TransactionsHoldWhatTheyRead
  <2>2. s # tx[t].terms.rs /\ s # tx[t].terms.ts
    BY <2>1 DEF HoldsWhatItRead, AddShift, EditShift, CancelShift, Terms
  <2>3. QED
    BY <1>1, <1>2, <2>1, <2>2 DEF HoldsWhatItRead, Terms
<1>6. NobodyDoubleBooked'
  <2>1. CASE CancelShift(s)
    BY <1>2, <2>1 DEF NobodyDoubleBooked, Disjoint, CancelShift, TypeOK, Shift
  <2>2. ASSUME NEW e \in Employees, NEW x \in Slots,
               AddShift(s, e, x) \/ EditShift(s, e, x)
        PROVE  Disjoint(shift)'
    <3>1. shift'[s].owner = e /\ shift'[s].slot = x /\ Free(e, s, x)
      BY <2>2 DEF AddShift, EditShift, TypeOK, Shift
    <3>2. \A q \in Shifts \ {s} :
             (shift'[q].st = "scheduled" /\ shift'[q].owner = e)
                 => ~Overlap(shift'[q].slot, x) /\ ~Overlap(x, shift'[q].slot)
      BY <1>2, <3>1 DEF Free, Overlap
    <3>3. \A q, r \in Shifts \ {s} :
             (/\ q # r /\ shift'[q].st = "scheduled" /\ shift'[r].st = "scheduled"
              /\ shift'[q].owner = shift'[r].owner)
                 => ~Overlap(shift'[q].slot, shift'[r].slot)
      BY <1>2 DEF NobodyDoubleBooked, Disjoint
    <3>4. QED
      BY <3>1, <3>2, <3>3 DEF Disjoint
  <2>3. QED
    BY <2>1, <2>2 DEF NobodyDoubleBooked
<1>7. VersionsCount' /\ AppliedSwapsAreRecorded'
  BY <1>1 DEF VersionsCount, AppliedSwapsAreRecorded
<1>8. QED
  BY <1>4, <1>5, <1>6, <1>7

\* A validated transaction starts by holding what it read, and cannot take a
\* lock another transaction holds.
LEMMA ValidateStep ==
    ASSUME InductiveInvariant, NEW t \in Txs,
           \/ \E p \in Terms : Ask(t, p)
           \/ \E w \in Swaps, op \in {"accept", "decline"} : Respond(t, w, op)
           \/ \E w \in Swaps, op \in {"approve", "reject"}, v \in 1..3 :
                 Decide(t, w, op, v)
    PROVE  InductiveInvariant'
<1> USE DEF InductiveInvariant
<1>1. UNCHANGED <<now, shift, swap, history, clocked, used>>
  BY DEF Ask, Respond, Decide
<1>2. PICK op \in {"create", "accept", "decline", "approve", "reject"},
           w \in Swaps \cup {None}, p \in Terms :
        /\ Validate(t, op, w, p)
        /\ tx[t].op = "idle"
        /\ op = "create" => swapLock' = swapLock
        /\ op # "create" =>
              /\ w \in Swaps /\ swapLock[w] = None
              /\ swapLock' = [swapLock EXCEPT ![w] = t]
              /\ swap[w].terms = p
              /\ swap[w].st = IF op \in {"accept", "decline"}
                              THEN "pending_target" ELSE "pending_approval"
  <2>1. CASE \E p \in Terms : Ask(t, p)
    BY <2>1 DEF Ask
  <2>2. CASE \E w \in Swaps, op \in {"accept", "decline"} : Respond(t, w, op)
    <3>1. PICK w \in Swaps, op \in {"accept", "decline"} : Respond(t, w, op)
      BY <2>2
    <3>2. swap[w].terms \in Terms
      BY <3>1 DEF Respond, TypeOK
    <3>3. QED
      BY <3>1, <3>2 DEF Respond
  <2>3. CASE \E w \in Swaps, op \in {"approve", "reject"}, v \in 1..3 :
                Decide(t, w, op, v)
    <3>1. PICK w \in Swaps, op \in {"approve", "reject"}, v \in 1..3 :
              Decide(t, w, op, v)
      BY <2>3
    <3>2. swap[w].terms \in Terms
      BY <3>1 DEF Decide, TypeOK
    <3>3. /\ Validate(t, op, w, swap[w].terms)
          /\ tx[t].op = "idle" /\ swapLock[w] = None
          /\ swap[w].st = "pending_approval"
          /\ swapLock' = [swapLock EXCEPT ![w] = t]
      BY <3>1 DEF Decide
    <3>4. QED
      BY <3>2, <3>3
  <2>4. QED
    BY <2>1, <2>2, <2>3
<1>3. /\ tx'[t] = [op |-> op, swap |-> w, terms |-> p]
      /\ \A u \in Txs \ {t} : tx'[u] = tx[u]
      /\ tx' \in [Txs -> Tx]
  BY <1>2 DEF Validate, TypeOK, Tx
<1>4. /\ shiftLock' \in [Shifts -> Txs \cup {None}]
      /\ shiftLock'[p.rs] = t /\ shiftLock'[p.ts] = t
      /\ \A u \in Txs \ {t}, s \in Shifts : shiftLock'[s] = u <=> shiftLock[s] = u
  BY <1>2, ShiftSwapAssumption DEF Validate, TypeOK, Terms
<1>5. /\ swapLock' \in [Swaps -> Txs \cup {None}]
      /\ op # "create" => swapLock'[w] = t
      /\ \A u \in Txs \ {t}, x \in Swaps : swapLock'[x] = u <=> swapLock[x] = u
  BY <1>2, ShiftSwapAssumption DEF TypeOK
<1>6. TypeOK'
  BY <1>1, <1>3, <1>4, <1>5, <1>2 DEF TypeOK
<1>7. TransactionsHoldWhatTheyRead'
  <2> SUFFICES ASSUME NEW u \in Txs, tx'[u].op # "idle"
               PROVE  HoldsWhatItRead(u)'
    BY DEF TransactionsHoldWhatTheyRead
  <2>1. CASE u = t
    BY <2>1, <1>1, <1>2, <1>3, <1>4, <1>5
       DEF HoldsWhatItRead, Validate, Valid, Terms
  <2>2. CASE u # t
    <3>1. HoldsWhatItRead(u)
      BY <2>2, <1>3 DEF TransactionsHoldWhatTheyRead
    <3>2. QED
      BY <3>1, <2>2, <1>1, <1>3, <1>4, <1>5 DEF HoldsWhatItRead, Terms
  <2>3. QED
    BY <2>1, <2>2
<1>8. VersionsCount' /\ NobodyDoubleBooked' /\ AppliedSwapsAreRecorded'
  BY <1>1 DEF VersionsCount, NobodyDoubleBooked, Disjoint, AppliedSwapsAreRecorded
<1>9. QED
  BY <1>6, <1>7, <1>8

\* A transaction that ends having changed only rows it had locked, or a row
\* nobody has seen yet, disturbs no other transaction.
LEMMA OthersUndisturbed ==
    ASSUME InductiveInvariant, NEW t \in Txs, Ends(t),
           \A w \in Swaps : swap'[w] # swap[w] =>
                               swapLock[w] = t \/ swap[w].st = "none",
           \A s \in Shifts : shift'[s] # shift[s] => shiftLock[s] = t
    PROVE  TransactionsHoldWhatTheyRead'
<1> USE DEF InductiveInvariant
<1> SUFFICES ASSUME NEW u \in Txs, tx'[u].op # "idle"
             PROVE  HoldsWhatItRead(u)'
  BY DEF TransactionsHoldWhatTheyRead
<1>1. u # t /\ tx'[u] = tx[u]
  BY EndsFrees
<1>2. HoldsWhatItRead(u)
  BY <1>1 DEF TransactionsHoldWhatTheyRead
<1>3. /\ shift'[tx[u].terms.rs] = shift[tx[u].terms.rs]
      /\ shift'[tx[u].terms.ts] = shift[tx[u].terms.ts]
      /\ shiftLock'[tx[u].terms.rs] = u /\ shiftLock'[tx[u].terms.ts] = u
  BY <1>1, <1>2, EndsFrees DEF HoldsWhatItRead, Terms
<1>4. tx[u].op # "create" => /\ swap'[tx[u].swap] = swap[tx[u].swap]
                             /\ swapLock'[tx[u].swap] = u
  BY <1>1, <1>2, EndsFrees DEF HoldsWhatItRead
<1>5. QED
  BY <1>1, <1>2, <1>3, <1>4 DEF HoldsWhatItRead

\* A swap that is not applied and does not become it leaves the history right.
LEMMA HistoryUntouched ==
    ASSUME InductiveInvariant, NEW w \in Swaps,
           \A x \in Swaps \ {w} : swap'[x] = swap[x],
           swap[w].st # "applied", swap'[w].st # "applied", history' = history
    PROVE  AppliedSwapsAreRecorded'
BY DEF InductiveInvariant, AppliedSwapsAreRecorded, Row, Rows

\* A new request is the first version of a row nobody refers to.
LEMMA AskStep ==
    ASSUME InductiveInvariant, NEW t \in Txs, NEW w \in Swaps, AskCommits(t, w)
    PROVE  InductiveInvariant'
<1> USE DEF InductiveInvariant, AskCommits
<1>1. tx[t].terms \in Terms
  BY DEF TransactionsHoldWhatTheyRead, HoldsWhatItRead
<1>2. /\ swap' \in [Swaps -> Swap]
      /\ swap'[w] = [st |-> "pending_target", terms |-> tx[t].terms, ver |-> 1]
      /\ \A x \in Swaps \ {w} : swap'[x] = swap[x]
  BY <1>1 DEF TypeOK, Swap, Active
<1>3. TypeOK'
  BY <1>1, <1>2, EndsFrees DEF TypeOK
<1>4. TransactionsHoldWhatTheyRead'
  BY <1>2, OthersUndisturbed
<1>5. AppliedSwapsAreRecorded'
  BY <1>2, HistoryUntouched
<1>6. VersionsCount' /\ NobodyDoubleBooked'
  BY <1>2 DEF VersionsCount, NobodyDoubleBooked, Disjoint
<1>7. QED
  BY <1>3, <1>4, <1>5, <1>6

\* An answered, rejected or cancelled swap keeps its terms and moves on to its
\* next version.
LEMMA MovesFacts ==
    ASSUME InductiveInvariant, NEW w \in Swaps, NEW st \in Active \cup Decided,
           swap[w].st \in Active, Moves(w, st)
    PROVE  /\ swap' \in [Swaps -> Swap]
           /\ swap'[w].st = st
           /\ swap'[w].terms = swap[w].terms /\ swap[w].terms \in Terms
           /\ swap'[w].ver = swap[w].ver + 1 /\ swap'[w].ver \in 1..3
           /\ \A x \in Swaps \ {w} : swap'[x] = swap[x]
<1>1. swap[w] \in Swap /\ swap[w].terms \in Terms /\ swap[w].ver \in 1..2
  BY DEF InductiveInvariant, TypeOK, VersionsCount, Active
<1>2. swap' = [swap EXCEPT ![w] = [st |-> st, terms |-> swap[w].terms,
                                   ver |-> swap[w].ver + 1]]
  BY DEF Moves
<1>3. QED
  BY <1>1, <1>2 DEF InductiveInvariant, TypeOK, Swap

\* The target's answer.
LEMMA RespondStep ==
    ASSUME InductiveInvariant, NEW t \in Txs, RespondCommits(t)
    PROVE  InductiveInvariant'
<1> USE DEF InductiveInvariant
<1> DEFINE w == tx[t].swap
           st == IF tx[t].op = "accept" THEN "pending_approval" ELSE "target_declined"
<1>1. /\ w \in Swaps /\ swapLock[w] = t /\ swap[w].st = "pending_target"
      /\ swap[w].ver = 1
  BY DEF RespondCommits, TransactionsHoldWhatTheyRead, HoldsWhatItRead, VersionsCount
<1>2. /\ Moves(w, st) /\ st \in Active \cup Decided /\ Ends(t)
      /\ UNCHANGED <<now, shift, history, clocked, used>>
  BY DEF RespondCommits, Active, Decided
<1> HIDE DEF w
<1>3. /\ swap' \in [Swaps -> Swap] /\ swap'[w].st = st
      /\ swap'[w].terms \in Terms /\ swap'[w].ver = 2
      /\ \A x \in Swaps \ {w} : swap'[x] = swap[x]
  BY <1>1, <1>2, MovesFacts DEF Active
<1>4. TypeOK'
  BY <1>2, <1>3, EndsFrees DEF TypeOK
<1>5. TransactionsHoldWhatTheyRead'
  BY <1>1, <1>2, <1>3, OthersUndisturbed
<1>6. AppliedSwapsAreRecorded'
  BY <1>1, <1>2, <1>3, HistoryUntouched
<1>7. VersionsCount' /\ NobodyDoubleBooked'
  BY <1>2, <1>3 DEF VersionsCount, NobodyDoubleBooked, Disjoint
<1>8. QED
  BY <1>4, <1>5, <1>6, <1>7

\* What the approver's transaction knows when it commits.
LEMMA DecisionFacts ==
    ASSUME InductiveInvariant, NEW t \in Txs, tx[t].op \in {"approve", "reject"}
    PROVE  /\ tx[t].swap \in Swaps /\ swapLock[tx[t].swap] = t
           /\ swap[tx[t].swap].st = "pending_approval"
           /\ swap[tx[t].swap].ver = 2
           /\ swap[tx[t].swap].terms = tx[t].terms /\ tx[t].terms \in Terms
BY DEF InductiveInvariant, TransactionsHoldWhatTheyRead, HoldsWhatItRead,
       VersionsCount

\* A rejected swap keeps the shifts and closes the request.
LEMMA RejectStep ==
    ASSUME InductiveInvariant, NEW t \in Txs, RejectCommits(t)
    PROVE  InductiveInvariant'
<1> USE DEF InductiveInvariant
<1> DEFINE w == tx[t].swap
<1>1. /\ w \in Swaps /\ swapLock[w] = t /\ swap[w].st = "pending_approval"
      /\ swap[w].ver = 2
  BY DecisionFacts DEF RejectCommits
<1>2. /\ Moves(w, "rejected") /\ Ends(t)
      /\ UNCHANGED <<now, shift, history, clocked, used>>
  BY DEF RejectCommits
<1> HIDE DEF w
<1>3. /\ swap' \in [Swaps -> Swap] /\ swap'[w].st = "rejected"
      /\ swap'[w].terms \in Terms /\ swap'[w].ver = 3
      /\ \A x \in Swaps \ {w} : swap'[x] = swap[x]
  BY <1>1, <1>2, MovesFacts DEF Active, Decided
<1>4. TypeOK'
  BY <1>2, <1>3, EndsFrees DEF TypeOK
<1>5. TransactionsHoldWhatTheyRead'
  BY <1>1, <1>2, <1>3, OthersUndisturbed
<1>6. AppliedSwapsAreRecorded'
  BY <1>1, <1>2, <1>3, HistoryUntouched
<1>7. VersionsCount' /\ NobodyDoubleBooked'
  BY <1>2, <1>3 DEF VersionsCount, NobodyDoubleBooked, Disjoint
<1>8. QED
  BY <1>4, <1>5, <1>6, <1>7

\* A rollback releases the locks and writes nothing.
LEMMA RollBackStep ==
    ASSUME InductiveInvariant, NEW t \in Txs, RollsBack(t)
    PROVE  InductiveInvariant'
<1> USE DEF InductiveInvariant, RollsBack
<1>1. TypeOK'
  BY EndsFrees DEF TypeOK
<1>2. TransactionsHoldWhatTheyRead'
  BY OthersUndisturbed
<1>3. VersionsCount' /\ NobodyDoubleBooked' /\ AppliedSwapsAreRecorded'
  BY DEF VersionsCount, NobodyDoubleBooked, Disjoint, AppliedSwapsAreRecorded
<1>4. QED
  BY <1>1, <1>2, <1>3

\* Withdrawing waits for the row lock, so no transaction relies on the swap.
LEMMA CancelStep ==
    ASSUME InductiveInvariant, NEW w \in Swaps, Cancel(w)
    PROVE  InductiveInvariant'
<1> USE DEF InductiveInvariant
<1>1. /\ swap' \in [Swaps -> Swap] /\ swap'[w].st = "cancelled"
      /\ swap'[w].terms \in Terms /\ swap'[w].ver \in 1..3
      /\ \A x \in Swaps \ {w} : swap'[x] = swap[x]
  BY MovesFacts DEF Cancel, Decided
<1>2. UNCHANGED <<now, shift, history, clocked, tx, swapLock, shiftLock, used>>
  BY DEF Cancel, locks
<1>3. TypeOK'
  BY <1>1, <1>2 DEF TypeOK
<1>4. TransactionsHoldWhatTheyRead'
  <2> SUFFICES ASSUME NEW u \in Txs, tx[u].op # "idle"
               PROVE  HoldsWhatItRead(u)'
    BY <1>2 DEF TransactionsHoldWhatTheyRead
  <2>1. HoldsWhatItRead(u) /\ None \notin Txs
    BY ShiftSwapAssumption DEF TransactionsHoldWhatTheyRead
  <2>2. tx[u].op # "create" => tx[u].swap # w
    BY <2>1 DEF HoldsWhatItRead, Cancel
  <2>3. QED
    BY <1>1, <1>2, <2>1, <2>2 DEF HoldsWhatItRead
<1>5. AppliedSwapsAreRecorded'
  BY <1>1, <1>2, HistoryUntouched DEF Cancel, Active
<1>6. VersionsCount' /\ NobodyDoubleBooked'
  BY <1>1, <1>2 DEF VersionsCount, NobodyDoubleBooked, Disjoint
<1>7. QED
  BY <1>3, <1>4, <1>5, <1>6

\* Applying a swap exchanges the owners of two locked shifts and records both
\* reassignments; the exclusion constraint admitted the result.
LEMMA ApproveStep ==
    ASSUME InductiveInvariant, NEW t \in Txs, ApproveCommits(t)
    PROVE  InductiveInvariant'
<1> USE DEF InductiveInvariant
<1> DEFINE w == tx[t].swap
           p == tx[t].terms
<1>1. /\ w \in Swaps /\ swapLock[w] = t /\ swap[w].st = "pending_approval"
      /\ swap[w].ver = 2 /\ swap[w].terms = p /\ p \in Terms
  BY DecisionFacts DEF ApproveCommits
<1>2. /\ p.rs # p.ts /\ shiftLock[p.rs] = t /\ shiftLock[p.ts] = t
      /\ p.rs \in Shifts /\ p.ts \in Shifts
      /\ p.req \in Employees /\ p.tgt \in Employees
  BY <1>1 DEF ApproveCommits, TransactionsHoldWhatTheyRead, HoldsWhatItRead, Terms
<1>3. /\ Moves(w, "applied") /\ Ends(t) /\ Admits(p)
      /\ shift' = Exchanged(p) /\ history' = history \cup Rows(w, p)
      /\ UNCHANGED <<now, clocked, used>>
  BY DEF ApproveCommits
<1> HIDE DEF w, p
<1>4. /\ swap' \in [Swaps -> Swap] /\ swap'[w].st = "applied"
      /\ swap'[w].terms = p /\ swap'[w].ver = 3
      /\ \A x \in Swaps \ {w} : swap'[x] = swap[x]
  BY <1>1, <1>3, MovesFacts DEF Active, Decided
<1>5. /\ shift' \in [Shifts -> Shift]
      /\ \A s \in Shifts : shift'[s].st = "none" \/
            (shift'[s].owner \in Employees /\ shift'[s].slot \in Slots)
      /\ \A s \in Shifts \ {p.rs, p.ts} : shift'[s] = shift[s]
  <2>1. \A s \in {p.rs, p.ts} :
           shift[s].st = "scheduled" /\ shift[s].slot \in Slots
    BY <1>1, <1>2 DEF TypeOK, ApproveCommits, TransactionsHoldWhatTheyRead,
                      HoldsWhatItRead, p
  <2>2. Exchanged(p) = [s \in Shifts |->
           IF s = p.rs THEN [shift[s] EXCEPT !.owner = p.tgt]
           ELSE IF s = p.ts THEN [shift[s] EXCEPT !.owner = p.req] ELSE shift[s]]
    BY <1>2 DEF Exchanged, Given, TypeOK
  <2>3. \A s \in {p.rs, p.ts}, e \in Employees :
           /\ [shift[s] EXCEPT !.owner = e] \in Shift
           /\ [shift[s] EXCEPT !.owner = e].owner = e
           /\ [shift[s] EXCEPT !.owner = e].slot \in Slots
    BY <1>2, <2>1 DEF TypeOK, Shift
  <2>4. QED
    BY <1>2, <1>3, <2>2, <2>3 DEF TypeOK
<1>6. history' \subseteq Row
  BY <1>1, <1>2, <1>3 DEF TypeOK, Rows, Row
<1>7. TypeOK'
  BY <1>1, <1>3, <1>4, <1>5, <1>6, EndsFrees DEF TypeOK
<1>8. TransactionsHoldWhatTheyRead'
  BY <1>1, <1>2, <1>3, <1>4, <1>5, OthersUndisturbed
<1>9. NobodyDoubleBooked'
  BY <1>3 DEF NobodyDoubleBooked, Admits, Disjoint
<1>10. AppliedSwapsAreRecorded'
  <2> SUFFICES ASSUME NEW r \in Row
               PROVE  r \in history' <=> /\ swap'[r.swap].st = "applied"
                                         /\ r \in Rows(r.swap, swap'[r.swap].terms)
    BY DEF AppliedSwapsAreRecorded, Rows
  <2>1. r \in Rows(w, p) => r.swap = w
    BY DEF Rows
  <2>2. r.swap \in Swaps
    BY DEF Row
  <2>3. CASE r.swap = w
    <3>1. r \notin history
      BY <2>3, <1>1 DEF AppliedSwapsAreRecorded
    <3>2. QED
      BY <3>1, <2>3, <1>3, <1>4
  <2>4. CASE r.swap # w
    BY <2>1, <2>2, <2>4, <1>3, <1>4 DEF AppliedSwapsAreRecorded
  <2>5. QED
    BY <2>3, <2>4
<1>11. VersionsCount'
  BY <1>4 DEF VersionsCount
<1>12. QED
  BY <1>7, <1>8, <1>9, <1>10, <1>11

\* Every step of the system keeps the inductive invariant.
LEMMA NextPreserves == InductiveInvariant /\ [Next]_vars => InductiveInvariant'
<1> SUFFICES ASSUME InductiveInvariant, [Next]_vars PROVE InductiveInvariant'
  OBVIOUS
<1>1. CASE UNCHANGED vars
  BY <1>1 DEF vars, InductiveInvariant, TypeOK, TransactionsHoldWhatTheyRead,
              HoldsWhatItRead, VersionsCount, NobodyDoubleBooked, Disjoint,
              AppliedSwapsAreRecorded
<1>2. CASE \/ \E s \in Shifts, e \in Employees, x \in Slots :
                 AddShift(s, e, x) \/ EditShift(s, e, x)
           \/ \E s \in Shifts : CancelShift(s)
  BY <1>2, RosterStep
<1>3. CASE Tick \/ (\E e \in Employees : ClockIn(e) \/ ClockOut(e))
  BY <1>3, QuietStep
<1>4. CASE \/ \E t \in Txs, p \in Terms : Ask(t, p)
           \/ \E t \in Txs, w \in Swaps, op \in {"accept", "decline"} :
                 Respond(t, w, op)
           \/ \E t \in Txs, w \in Swaps, op \in {"approve", "reject"}, v \in 1..3 :
                 Decide(t, w, op, v)
  BY <1>4, ValidateStep
<1>5. CASE \E t \in Txs, w \in Swaps : AskCommits(t, w)
  BY <1>5, AskStep
<1>6. CASE \E t \in Txs : RespondCommits(t)
  BY <1>6, RespondStep
<1>7. CASE \E t \in Txs : ApproveCommits(t)
  BY <1>7, ApproveStep
<1>8. CASE \E t \in Txs : RejectCommits(t) \/ RollsBack(t)
  BY <1>8, RejectStep, RollBackStep
<1>9. CASE \E w \in Swaps : Cancel(w)
  BY <1>9, CancelStep
<1>10. QED
  BY <1>1, <1>2, <1>3, <1>4, <1>5, <1>6, <1>7, <1>8, <1>9 DEF Next

\* The inductive invariant holds for every set of employees, shifts, swaps and
\* transactions.
THEOREM Invariance == Spec => []InductiveInvariant
<1>1. Init => InductiveInvariant
  BY InitEstablishes
<1>2. InductiveInvariant /\ [Next]_vars => InductiveInvariant'
  BY NextPreserves
<1>3. QED
  BY <1>1, <1>2, PTL DEF Spec

\* The rows and locks keep their types (roster_shifts, shift_swap_requests and
\* the row locks of validateShifts).
THEOREM TypeCorrect == Spec => []TypeOK
<1>1. InductiveInvariant => TypeOK
  BY DEF InductiveInvariant
<1>2. QED
  BY <1>1, Invariance, PTL

\* No employee is ever scheduled twice at one time.
THEOREM NoDoubleBooking == Spec => []NobodyDoubleBooked
<1>1. InductiveInvariant => NobodyDoubleBooked
  BY DEF InductiveInvariant
<1>2. QED
  BY <1>1, Invariance, PTL

\* The assignment history and the applied swaps agree exactly.
THEOREM ExchangeRecordedOnce == Spec => []AppliedSwapsAreRecorded
<1>1. InductiveInvariant => AppliedSwapsAreRecorded
  BY DEF InductiveInvariant
<1>2. QED
  BY <1>1, Invariance, PTL

\* An answer or a decision commits only while both participants own their
\* scheduled shifts, and applying exchanges exactly those two shifts.
THEOREM DecidedOnCurrentState == Spec => DecisionsAreCurrent
<1> DEFINE Current(w) ==
      (swap'[w].st # swap[w].st /\ swap'[w].st # "cancelled") =>
         LET p == swap'[w].terms IN
         /\ shift[p.rs].st = "scheduled" /\ shift[p.ts].st = "scheduled"
         /\ shift[p.rs].owner = p.req /\ shift[p.ts].owner = p.tgt
         /\ swap'[w].st = "applied" =>
               /\ swap[w].st = "pending_approval"
               /\ shift' = Exchanged(p)
<1>1. ASSUME InductiveInvariant, [Next]_vars PROVE \A w \in Swaps : Current(w)
  <2> SUFFICES ASSUME NEW w \in Swaps, swap'[w].st # swap[w].st,
                      swap'[w].st # "cancelled"
               PROVE  Current(w)
    OBVIOUS
  <2> USE <1>1 DEF InductiveInvariant
  <2>1. swap' # swap
    OBVIOUS
  <2>2. \/ \E t \in Txs, x \in Swaps : AskCommits(t, x)
        \/ \E t \in Txs : RespondCommits(t) \/ ApproveCommits(t) \/ RejectCommits(t)
        \/ \E x \in Swaps : Cancel(x)
    BY <2>1 DEF Next, vars, locks, AddShift, EditShift, CancelShift, ClockIn,
                ClockOut, Tick, Ask, Respond, Decide, RollsBack
  <2>3. CASE \E t \in Txs, x \in Swaps : AskCommits(t, x)
    <3>1. PICK t \in Txs, x \in Swaps : AskCommits(t, x)
      BY <2>3
    <3>2. x = w /\ swap'[w].terms = tx[t].terms /\ swap'[w].st = "pending_target"
      BY <3>1 DEF AskCommits, TypeOK
    <3>3. HoldsWhatItRead(t)
      BY <3>1 DEF AskCommits, TransactionsHoldWhatTheyRead
    <3>4. QED
      BY <3>2, <3>3 DEF HoldsWhatItRead
  <2>4. CASE \E t \in Txs : RespondCommits(t) \/ ApproveCommits(t) \/ RejectCommits(t)
    <3>1. PICK t \in Txs : RespondCommits(t) \/ ApproveCommits(t) \/ RejectCommits(t)
      BY <2>4
    <3>2. HoldsWhatItRead(t) /\ tx[t].op \notin {"idle", "create"}
      BY <3>1 DEF RespondCommits, ApproveCommits, RejectCommits,
                  TransactionsHoldWhatTheyRead
    <3>3. tx[t].swap = w /\ swap'[w].terms = tx[t].terms
      BY <3>1, <3>2 DEF RespondCommits, ApproveCommits, RejectCommits, Moves,
                        HoldsWhatItRead, TypeOK
    <3>4. swap'[w].st = "applied" => ApproveCommits(t)
      BY <3>1, <3>3 DEF RespondCommits, RejectCommits, Moves, TypeOK
    <3>5. ApproveCommits(t) => /\ swap[w].st = "pending_approval"
                               /\ shift' = Exchanged(tx[t].terms)
      BY <3>2, <3>3 DEF ApproveCommits, HoldsWhatItRead
    <3>6. QED
      BY <3>2, <3>3, <3>4, <3>5 DEF HoldsWhatItRead
  <2>5. CASE \E x \in Swaps : Cancel(x)
    BY <2>5 DEF Cancel, Moves, TypeOK
  <2>6. QED
    BY <2>2, <2>3, <2>4, <2>5
<1>2. QED
  BY <1>1, Invariance, PTL DEF Spec, DecisionsAreCurrent

\* A decided swap never changes, for any number of racing transactions.
THEOREM DecisionIsFinal == Spec => DecidedSwapsAreFinal
<1>1. ASSUME InductiveInvariant, [Next]_vars
      PROVE  \A w \in Swaps : swap[w].st \in Decided => swap'[w] = swap[w]
  <2> SUFFICES ASSUME NEW w \in Swaps, swap[w].st \in Decided, swap'[w] # swap[w]
               PROVE  FALSE
    OBVIOUS
  <2> USE <1>1 DEF InductiveInvariant, Decided, Active
  <2>1. \/ \E t \in Txs, x \in Swaps : AskCommits(t, x)
        \/ \E t \in Txs : RespondCommits(t) \/ ApproveCommits(t) \/ RejectCommits(t)
        \/ \E x \in Swaps : Cancel(x)
    BY DEF Next, vars, locks, AddShift, EditShift, CancelShift, ClockIn,
           ClockOut, Tick, Ask, Respond, Decide, RollsBack
  <2>2. CASE \E t \in Txs, x \in Swaps : AskCommits(t, x)
    BY <2>2 DEF AskCommits, TypeOK
  <2>3. CASE \E t \in Txs : RespondCommits(t) \/ ApproveCommits(t) \/ RejectCommits(t)
    <3>1. PICK t \in Txs : RespondCommits(t) \/ ApproveCommits(t) \/ RejectCommits(t)
      BY <2>3
    <3>2. HoldsWhatItRead(t) /\ tx[t].op \notin {"idle", "create"}
      BY <3>1 DEF RespondCommits, ApproveCommits, RejectCommits,
                  TransactionsHoldWhatTheyRead
    <3>3. tx[t].swap = w
      BY <3>1, <3>2 DEF RespondCommits, ApproveCommits, RejectCommits, Moves,
                        HoldsWhatItRead, TypeOK
    <3>4. QED
      BY <3>2, <3>3 DEF HoldsWhatItRead
  <2>4. CASE \E x \in Swaps : Cancel(x)
    BY <2>4 DEF Cancel, Moves, TypeOK
  <2>5. QED
    BY <2>1, <2>2, <2>3, <2>4
<1>2. QED
  BY <1>1, Invariance, PTL DEF Spec, DecidedSwapsAreFinal
=============================================================================
