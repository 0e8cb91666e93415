---------------------------- MODULE MCRtkReducer ----------------------------
(***************************************************************************)
(* Instances of RtkReducer for TLC.                                        *)
(***************************************************************************)
EXTENDS RtkReducer
=============================================================================
