---------------------------- MODULE MCCallbacks ----------------------------
(***************************************************************************)
(* Instances of the callback protocol of ask_user and delegate_task.       *)
(***************************************************************************)
EXTENDS DelegateTask, AskUserResponse

\* A question with two options, as the tool requires at least.
TwoOptions == <<"yes", "no">>

\* One report: the protocol does not look at it before mapResponse does.
OneReport == {r \in DelegateResponses : ~r.err /\ r.status = "failed" /\ r.output = "text"}
=============================================================================
