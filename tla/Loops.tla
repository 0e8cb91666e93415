-------------------------------- MODULE Loops --------------------------------
(***************************************************************************)
(* What a loop over a sequence computes: Step is its body, applied to the  *)
(* state so far and the next element.  The folds of the community modules, *)
(* over sequences, as recursive functions on the number of rounds.         *)
(***************************************************************************)
EXTENDS Integers, Sequences

\* The states after 0, 1, ... rounds
LoopStates(Step(_, _), first, s) ==
    LET after[n \in 0 .. Len(s)] == IF n = 0 THEN first ELSE Step(after[n - 1], s[n]) IN after

Loop(Step(_, _), first, s) == LoopStates(Step, first, s)[Len(s)]

\* The sums of the first 0, 1, ... numbers, and of all of them
Totals(s) == LoopStates(LAMBDA sum, x : sum + x, 0, s)
Total(s) == Totals(s)[Len(s)]

\* The elements a loop does not skip
Kept(Keep(_), s) == Loop(LAMBDA kept, x : IF Keep(x) THEN Append(kept, x) ELSE kept, <<>>, s)
=============================================================================
