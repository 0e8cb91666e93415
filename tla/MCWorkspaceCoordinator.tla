----------------------- MODULE MCWorkspaceCoordinator -----------------------
(***************************************************************************)
(* Instances of WorkspaceCoordinator for TLC.                              *)
(***************************************************************************)
EXTENDS WorkspaceCoordinator, TLC

Symmetry == Permutations(Calls)
=============================================================================
