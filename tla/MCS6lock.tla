------------------------------ MODULE MCS6lock ------------------------------
(***************************************************************************)
(* Instances of S6lock for TLC.                                            *)
(***************************************************************************)
EXTENDS S6lock

CONSTANT f
=============================================================================
