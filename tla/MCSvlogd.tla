------------------------------ MODULE MCSvlogd ------------------------------
(* Values of Svlogd's constants for TLC.                                    *)
EXTENDS Svlogd

\* A short line, one that is longer than LineMax, a short one, and one without
\* its newline.
Newlines == {2, 5, 7}

=============================================================================
