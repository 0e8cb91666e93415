--------------------------- MODULE CallbackPool ---------------------------
(***************************************************************************)
(* What every callback coordinator of this repository (askuser,            *)
(* delegatetask, websearch, workspaceinstructions) promises its host:      *)
(* callbacks are admitted without queueing while fewer than MaxInFlight    *)
(* are live; Close stops admission for good; Close reports success only    *)
(* after the last live callback has exited, and that state is final.       *)
(* The four detailed coordinators are shown to implement this module.      *)
(***************************************************************************)
EXTENDS Naturals, FiniteSets

CONSTANTS Calls,        \* tool calls
          Closers,      \* callers of Close
          MaxInFlight   \* Limits.MaxInFlight

VARIABLES open,       \* admission is possible
          inFlight,   \* calls holding a slot
          told        \* closers that were told "quiescent" (Close = nil)

poolVars == <<open, inFlight, told>>

PoolInit ==
    /\ open = TRUE
    /\ inFlight = {}
    /\ told = {}

\* A call takes one of the MaxInFlight slots.
Admit(c) ==
    /\ open
    /\ c \notin inFlight
    /\ Cardinality(inFlight) < MaxInFlight
    /\ inFlight' = inFlight \cup {c}
    /\ UNCHANGED <<open, told>>

\* The callback of a call has exited; its slot is free.
Finish(c) ==
    /\ c \in inFlight
    /\ inFlight' = inFlight \ {c}
    /\ UNCHANGED <<open, told>>

\* The first Close stops admission.
Shut ==
    /\ open
    /\ open' = FALSE
    /\ UNCHANGED <<inFlight, told>>

\* A Close reports that nothing is live and nothing will be.
Tell(k) ==
    /\ ~open
    /\ inFlight = {}
    /\ told' = told \cup {k}
    /\ UNCHANGED <<open, inFlight>>

PoolNext ==
    \/ \E c \in Calls : Admit(c) \/ Finish(c)
    \/ Shut
    \/ \E k \in Closers : Tell(k)

PoolSpec == PoolInit /\ [][PoolNext]_poolVars
=============================================================================
