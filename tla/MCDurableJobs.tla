--------------------------- MODULE MCDurableJobs ---------------------------
(* Small instances of DurableJobs for TLC.                                 *)
EXTENDS DurableJobs, TLC

\* A clock-in asks for both kinds of work.
MCClockIn == [e \in Events |-> {"audit", "rollup"}]

\* A break change asks for a rollup, a leave request for an audit row.
MCMixed ==
    LET break == CHOOSE e \in Events : TRUE
    IN  [e \in Events |-> IF e = break THEN {"rollup"} ELSE {"audit"}]

\* Leave requests ask for an audit row only.
MCLeave == [e \in Events |-> {"audit"}]

MCSymmetry == Permutations(Workers)
=============================================================================
