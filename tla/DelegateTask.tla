---------------------------- MODULE DelegateTask ----------------------------
(***************************************************************************)
(* delegatetask/coordinator.go: one delegate_task call.  The coordinator   *)
(* is the callback protocol of ask_user with a Runner in the place of the  *)
(* Responder, so its operations are those of AskUser; what differs is the  *)
(* identity check, which also compares the call with the turn it belongs   *)
(* to, and mapResponse.                                                    *)
(***************************************************************************)
EXTENDS AskUser, DelegateTaskResponse

newCoordinator == Init

\* run: the checks that fail without admission end as the identity check of
\* Enter does.
run(c) == ask(c)

\* runRunner: Run returns or panics, then publish, release and cancel.
runRunner(c) == Respond(c) \/ Unwind(c)

DelegateNext ==
    \/ \E c \in Calls : run(c) \/ runRunner(c) \/ ParentEnds(c) \/ Expire(c)
    \/ \E k \in Closers : Close(k)

DelegateSpec == newCoordinator /\ [][DelegateNext]_vars

\* Nothing obliges the host's runner to return.
DelegateFairSpec == DelegateSpec /\ Fairness
=============================================================================
