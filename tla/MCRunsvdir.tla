----------------------------- MODULE MCRunsvdir -----------------------------
(* Values of Runsvdir's constants for TLC.                                 *)
EXTENDS Runsvdir, TLC

CONSTANTS n1, n2, d1, d2, d3, p1, p2, p3, p4

=============================================================================
