------------------------------ MODULE MCFtrig -------------------------------
(***************************************************************************)
(* Instances of Ftrig for TLC.                                             *)
(***************************************************************************)
EXTENDS Ftrig

CONSTANTS w1, w2

\* Every "u", and one "u" after a "d".
Expressions == {[re |-> {<<"u">>}, repeat |-> TRUE], [re |-> {<<"d", "u">>}, repeat |-> FALSE]}

WriterPermutations == Permutations(Writers)
=============================================================================
