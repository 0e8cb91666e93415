---------------------------- MODULE AgentContext ----------------------------
(***************************************************************************)
(* What the stages of one agent turn share: the stage that is running and  *)
(* the turn's context, which may end between any two steps.  The runtime   *)
(* that calls the stages one after the other is not part of this           *)
(* repository.                                                             *)
(***************************************************************************)
EXTENDS Integers, Sequences

VARIABLES
    stage,     \* the extension point the runtime is in
    ended      \* ctx.Err() # nil
=============================================================================
