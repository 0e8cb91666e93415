----------------------------- MODULE CommandGuard -----------------------------
(***************************************************************************)
(* commandguard: GuardTool, called before a tool runs.  A permit bounds    *)
(* the calls analysed at once; a panic of the parser and the end of the    *)
(* context replace whatever was concluded.                                 *)
(***************************************************************************)
EXTENDS AgentContext, CommandAnalysis

CONSTANTS
    GuardCalls,     \* requests: [tool, raw, doc]
    Bindings,       \* tool names bound to CommandField
    MaxInFlight     \* Limits.MaxInFlight

ASSUME GuardAssumption ==
    /\ MaxInFlight \in Nat
    /\ GuardCalls \subseteq [tool : STRING, raw : {"fits", "analysisLimit", "invalidCommand"},
                             doc : Seq([role : STRING, depth : Nat, owner : Nat, name : STRING,
                                        value : Scripts])]

VARIABLE guard      \* [pc, call, analysis, permits, others, decision]

NoCall == [tool |-> "none", raw |-> "fits", doc |-> <<>>]
GuardIdle == [pc |-> "idle", call |-> NoCall, analysis |-> Fresh,
              permits |-> 0, others |-> 0, decision |-> "none"]

\* The guard is shared by the host's sessions, so others may hold permits.
GuardArrives(call, others) ==
    guard' = [GuardIdle EXCEPT !.pc = "enter", !.call = call,
                               !.permits = others, !.others = others]

GuardDecides(decision) == guard' = [guard EXCEPT !.pc = "done", !.decision = decision]

\* Context, binding and permit, in this order.
GuardEnter ==
    /\ guard.pc = "enter"
    /\ CASE ended -> GuardDecides("canceled")
         [] ~ended /\ guard.call.tool \notin Bindings -> GuardDecides("abstain")
         [] ~ended /\ guard.call.tool \in Bindings /\ guard.permits >= MaxInFlight
               -> GuardDecides("capacity")
         [] OTHER -> guard' = [guard EXCEPT !.pc = "analyse", !.permits = @ + 1]

GuardAnalyse ==
    /\ guard.pc = "analyse"
    /\ guard' = [guard EXCEPT !.pc = "answer",
                              !.analysis = analyse(guard.call.raw, guard.call.doc)]

\* Mutation: a panic leaves without the deferred receive from permits.
GuardPanicKeepsPermit ==
    /\ guard.pc = "analyse"
    /\ guard' = [guard EXCEPT !.pc = "done",
                              !.decision = IF ended THEN "canceled" ELSE "internal"]

\* The parser failed in a way it does not document: recover turns it into a
\* fixed error, after the permit was given back.
GuardPanic ==
    /\ guard.pc = "analyse"
    /\ guard' = [guard EXCEPT !.pc = "done", !.permits = @ - 1,
                              !.decision = IF ended THEN "canceled" ELSE "internal"]

\* denial(o), unless the context ended meanwhile.
GuardReturn ==
    /\ guard.pc = "answer"
    /\ guard' = [guard EXCEPT !.pc = "done", !.permits = @ - 1,
                              !.decision = IF ended THEN "canceled"
                                           ELSE guard.analysis.outcome]

OtherAcquire ==
    /\ guard.pc \in {"enter", "analyse", "answer"}
    /\ guard.permits < MaxInFlight
    /\ guard' = [guard EXCEPT !.permits = @ + 1, !.others = @ + 1]

OtherRelease ==
    /\ guard.pc \in {"enter", "analyse", "answer"}
    /\ guard.others > 0
    /\ guard' = [guard EXCEPT !.permits = @ - 1, !.others = @ - 1]

GuardNext ==
    \/ GuardEnter \/ GuardAnalyse \/ GuardPanic \/ GuardReturn
    \/ OtherAcquire \/ OtherRelease
\* The stage alone: a turn hands it a call, and takes its decision.
GuardSpec ==
    /\ guard = GuardIdle
    /\ [][\/ GuardNext \/ guard' = GuardIdle
          \/ \E call \in GuardCalls, others \in 0 .. MaxInFlight : GuardArrives(call, others)]_guard
-----------------------------------------------------------------------------
Admitted == guard.pc = "answer" /\ guard.analysis.outcome = "abstain"

\* CommandIsUnambiguous: a call that is let through names its command exactly
\* once at the top level of its input, as a string, so that the tool cannot read
\* another command than the one that was analysed (input.go:58-91).
CommandIsUnambiguous ==
    Admitted =>
        LET doc == guard.call.doc
        IN  \E i \in DOMAIN doc :
                /\ doc[i].role = "string"
                /\ {j \in DOMAIN doc : IsField(doc, j, CommandField)} = {i}

\* BudgetsAreGlobal: inline scripts share the counters of the command that runs
\* them, so the work of one call is bounded by the limits as a whole, and the
\* permits taken are those of the calls being analysed, whatever way they end
\* (parser.go:40-56, guard.go:46-49, syntax_policy.go:34-42).
BudgetsAreGlobal ==
    LET a == guard.analysis
    IN  /\ Total(a.parsed) <= Bound.analysisBytes
        /\ a.nodes <= Bound.astNodes /\ a.words <= Bound.words
        /\ a.deepest <= Bound.wrapperDepth
        /\ guard.permits = guard.others + IF guard.pc \in {"analyse", "answer"} THEN 1 ELSE 0
        /\ guard.permits <= MaxInFlight
=============================================================================
