------------------------------ MODULE MCRunsv ------------------------------
(* Values of Runsv's constants for TLC.                                    *)
EXTENDS Runsv, TLC

CONSTANTS p1, p2, p3, p4

PidPermutations == Permutations(Pids)

Both == BOOLEAN
Never == {FALSE}

=============================================================================
