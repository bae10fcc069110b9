----------------------------- MODULE MCShiftSwap -----------------------------
(* Small instances of ShiftSwap for TLC.                                   *)
EXTENDS ShiftSwap, TLC

\* Two disjoint slots; the third overlaps both.
MCSlots == {[start |-> 1, end |-> 3], [start |-> 3, end |-> 5],
            [start |-> 2, end |-> 4]}
MCTwoSlots == {[start |-> 1, end |-> 3], [start |-> 3, end |-> 5]}
MCSymmetry == Permutations(Txs) \cup Permutations(Swaps)
                  \cup Permutations(Shifts) \cup Permutations(Employees)
=============================================================================
