------------------------------ MODULE MCLeave ------------------------------
(* Small instances of Leave for TLC.                                       *)
EXTENDS Leave, TLC

\* Leave of the first day, or of both; a shift on either day.
MCLeaves == {[first |-> 0, last |-> 0], [first |-> 0, last |-> 1]}
MCSlots == {[start |-> 0, end |-> 1], [start |-> 1, end |-> 2]}

\* Leave of the first day.
MCFirstDay == {[first |-> 0, last |-> 0]}

MCSymmetry == Permutations(Txs) \cup Permutations(Employees)
=============================================================================
