----------------------------- MODULE MCS6Svscan -----------------------------
(* Values of S6Svscan's constants for TLC.                                  *)
EXTENDS S6Svscan

CONSTANTS d1, d2


=============================================================================
