------------------------------- MODULE MCOAuth -------------------------------
(***************************************************************************)
(* Instances of OAuth for TLC.                                             *)
(***************************************************************************)
EXTENDS OAuth, TLC

CONSTANTS w1, w2

\* A lifetime and a refresh token, as the example server answers, or neither.
SomeAnswers == {[timed |-> TRUE, refresh |-> TRUE], [timed |-> FALSE, refresh |-> FALSE]}
Symmetry == Permutations(Workers)
=============================================================================
