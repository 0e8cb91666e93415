---------------------------- MODULE MCWebSearch ----------------------------
(***************************************************************************)
(* Instances of WebSearch for TLC.                                         *)
(***************************************************************************)
EXTENDS WebSearch, TLC

Symmetry == Permutations(Calls)
=============================================================================
