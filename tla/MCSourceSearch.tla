--------------------------- MODULE MCSourceSearch ---------------------------
(***************************************************************************)
(* SourceSearch for TLC: two searches, each of the run or without one.     *)
(***************************************************************************)
EXTENDS SourceSearch, TLC

CONSTANTS s1, s2, x, y

SearchSymmetry == Permutations({s1, s2}) \cup Permutations({x, y})
=============================================================================
