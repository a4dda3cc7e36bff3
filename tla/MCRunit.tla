------------------------------ MODULE MCRunit ------------------------------
(* Values of Runit's constants for TLC.                                    *)
EXTENDS Runit, TLC

CONSTANTS i1, i2

Both == BOOLEAN
=============================================================================
