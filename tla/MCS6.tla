-------------------------------- MODULE MCS6 --------------------------------
(* Values of S6Supervise's and S6Svwait's constants for TLC.               *)
EXTENDS S6Svwait

CONSTANTS p1, p2

Both == BOOLEAN
Yes == {TRUE}

=============================================================================
