------------------------------- MODULE AgentTurn -------------------------------
(***************************************************************************)
(* One turn of an agent that has the extensions mounted, in the order the  *)
(* runtime calls them: the workspace instructions of the prompt, the guard *)
(* of a tool call, the tool (a background job's output or a web search),   *)
(* the reducer and the redactor of its result.  The turn's context may end *)
(* between any two steps.  A stage starts when the one before is done and  *)
(* its state is gone by then, so the states of the stages add up.          *)
(***************************************************************************)
EXTENDS InstructionDiscovery, CommandMeaning, OutputTail, ResultBounds, RtkTransform, Redaction

turn == <<stage, ended, prompt, guard, tail, answer, reduction, redaction>>

TurnInit ==
    /\ stage = "prompt"
    /\ ended = FALSE
    /\ prompt = [PromptIdle EXCEPT !.pc = "resolve"]
    /\ guard = GuardIdle
    /\ tail = TailIdle
    /\ answer = AnswerIdle
    /\ reduction = ReductionIdle
    /\ redaction = RedactionIdle

ContextEnds ==
    /\ stage # "settled" /\ ~ended
    /\ ended' = TRUE
    /\ UNCHANGED <<stage, prompt, guard, tail, answer, reduction, redaction>>

Prompting == PromptNext /\ UNCHANGED <<stage, ended, guard, tail, answer, reduction, redaction>>
Guarding == GuardNext /\ UNCHANGED <<stage, ended, prompt, tail, answer, reduction, redaction>>
Running == TailNext /\ UNCHANGED <<stage, ended, prompt, guard, answer, reduction, redaction>>
Searching == BoundsNext /\ UNCHANGED <<stage, ended, prompt, guard, tail, reduction, redaction>>
Reducing == ReductionNext /\ UNCHANGED <<stage, ended, prompt, guard, tail, answer, redaction>>
Redacting == RedactionNext /\ UNCHANGED <<stage, ended, prompt, guard, tail, answer, reduction>>

\* The model asks for a tool.
CallTool ==
    /\ stage = "prompt" /\ prompt.pc = "done"
    /\ stage' = "guard"
    /\ \E call \in GuardCalls : \E others \in 0 .. MaxInFlight : GuardArrives(call, others)
    /\ prompt' = PromptIdle
    /\ UNCHANGED <<ended, tail, answer, reduction, redaction>>

\* A call that is denied, refused or canceled runs no tool.
DeniedCall ==
    /\ stage = "guard" /\ guard.pc = "done" /\ guard.decision # "abstain"
    /\ stage' = "settled"
    /\ guard' = GuardIdle
    /\ UNCHANGED <<ended, prompt, tail, answer, reduction, redaction>>

StartJob ==
    /\ stage = "guard" /\ guard.pc = "done" /\ guard.decision = "abstain"
    /\ guard.call.tool \in Bindings
    /\ stage' = "tool"
    /\ guard' = GuardIdle
    /\ tail' = newTailWriter
    /\ UNCHANGED <<ended, prompt, answer, reduction, redaction>>

StartSearch ==
    /\ stage = "guard" /\ guard.pc = "done" /\ guard.decision = "abstain"
    /\ guard.call.tool \notin Bindings
    /\ stage' = "tool"
    /\ guard' = GuardIdle
    /\ answer' = [AnswerIdle EXCEPT !.pc = "mount"]
    /\ UNCHANGED <<ended, prompt, tail, reduction, redaction>>

\* The runtime hands the tool's result to the first transform.
ToolReturns ==
    /\ stage = "tool" /\ "done" \in {tail.pc, answer.pc}
    /\ stage' = "reduce"
    /\ tail' = TailIdle /\ answer' = AnswerIdle
    /\ \E request \in ReduceRequests : ReductionArrives(request)
    /\ UNCHANGED <<ended, prompt, guard, redaction>>

HandOver ==
    /\ stage = "reduce" /\ reduction.pc = "done"
    /\ stage' = "redact"
    /\ reduction' = ReductionIdle
    /\ \E result \in RedactInputs : RedactionArrives(result)
    /\ UNCHANGED <<ended, prompt, guard, tail, answer>>

Settle ==
    /\ stage = "redact" /\ redaction.pc = "done"
    /\ stage' = "settled"
    /\ redaction' = RedactionIdle
    /\ UNCHANGED <<ended, prompt, guard, tail, answer, reduction>>

TurnNext ==
    \/ ContextEnds
    \/ Prompting \/ Guarding \/ Running \/ Searching \/ Reducing \/ Redacting
    \/ CallTool \/ DeniedCall \/ StartJob \/ StartSearch
    \/ ToolReturns \/ HandOver \/ Settle

TurnSpec == TurnInit /\ [][TurnNext]_turn
=============================================================================
