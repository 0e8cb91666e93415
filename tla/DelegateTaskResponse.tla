------------------------ MODULE DelegateTaskResponse ------------------------
(***************************************************************************)
(* mapResponse of delegatetask/coordinator.go, the mapping of the host's   *)
(* Response.  Output is kept as what the checks on it tell apart.          *)
(***************************************************************************)
Statuses == {"completed", "failed", "rejected", "unavailable", "unknown"}
Outputs == {"", "text", "oversized", "invalidUTF8", "zeroByte"}

\* Response, with err for an error or a panic of the runner.
DelegateResponses == [err : BOOLEAN, status : Statuses, output : Outputs]

validOutput(output) == output \notin {"oversized", "invalidUTF8", "zeroByte"}

delegateMapResponse(r) ==
    IF r.err \/ ~validOutput(r.output) \/ r.status = "unknown"
      THEN [status |-> "errRunnerOperation", answer |-> ""]
      ELSE [status |-> r.status, answer |-> r.output]
=============================================================================
