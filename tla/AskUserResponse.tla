-------------------------- MODULE AskUserResponse --------------------------
(***************************************************************************)
(* mapResponse of askuser/coordinator.go: the host's Response is validated *)
(* against the question and mapped to the tool's Result.  Text is kept as  *)
(* what validRequiredText tells apart: absent, acceptable, unacceptable.   *)
(***************************************************************************)
EXTENDS Integers, Sequences

CONSTANT Options        \* the labels offered by the question, in order

Kinds == {"selected", "custom", "dismissed", "unavailable", "unknown"}
Texts == {"", "answer", "oversized"}

\* Response, with err for an error or a panic of the responder.
AskResponses ==
    [err : BOOLEAN, kind : Kinds, selected : 0 .. Len(Options) + 1, custom : Texts]

\* validRequiredText: nonempty, bounded, valid UTF-8.
validRequiredText(text) == text = "answer"

askFailure == [status |-> "failed", answer |-> ""]

askMapResponse(r) ==
    IF r.err THEN askFailure
    ELSE CASE r.kind = "selected" ->
                IF r.selected < 1 \/ r.selected > Len(Options) \/ r.custom # ""
                  THEN askFailure
                  ELSE [status |-> "selected", answer |-> Options[r.selected]]
           [] r.kind = "custom" ->
                IF r.selected # 0 \/ ~validRequiredText(r.custom)
                  THEN askFailure
                  ELSE [status |-> "custom", answer |-> r.custom]
           [] r.kind \in {"dismissed", "unavailable"} ->
                IF r.selected # 0 \/ r.custom # ""
                  THEN askFailure
                  ELSE [status |-> r.kind, answer |-> ""]
           [] OTHER -> askFailure
=============================================================================
