------------------------------ MODULE MCS6Log -------------------------------
(* Values of S6Log's constants for TLC.                                      *)
EXTENDS S6Log

\* Lines of one and two bytes, and one without its newline.
Newlines == {1, 3, 5}

=============================================================================
