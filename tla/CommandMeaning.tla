---------------------------- MODULE CommandMeaning ----------------------------
(***************************************************************************)
(* commandguard: what a shell could run for a command, stated without the  *)
(* analysis, and that nothing a rule forbids is among it.                  *)
(***************************************************************************)
EXTENDS CommandGuard

\* A word the analysis cannot know may turn into no word, one or two.
CONSTANT Expansions
Resolved(word) ==
    IF word.parts = {} THEN {<<word.text>>}
    ELSE {<<>>} \cup {<<e>> : e \in Expansions}
         \cup {<<d, e>> : d \in Expansions, e \in Expansions}

Vectors(words) ==
    FoldLeft(LAMBDA acc, word : {v \o w : v \in acc, w \in Resolved(word)}, {<<>>}, words)

\* Every call node of a script is left once.
CallsIn(s) == {s.visits[i] : i \in {j \in DOMAIN s.visits :
                                       s.visits[j].kind = "call" /\ ~s.visits[j].enter}}

WantsOperand == [env |-> {"-u", "-C"}, sudo |-> {"-u", "-g", "-D"},
                 timeout |-> {"-s", "-k"}, command |-> {}, exec |-> {}]

\* The position of the command in a wrapper's arguments: the first word that is
\* no option, no operand of one and, for env and sudo, no assignment; timeout's
\* is the word after its duration.
CommandAt(name, args) ==
    LET operand[i \in 0 .. Len(args)] ==
            i > 1 /\ args[i - 1] \in WantsOperand[name] /\ ~operand[i - 1]
        After(i) == \E j \in 1 .. i - 1 : args[j] = "--" /\ ~operand[j]
        Plain(i) == /\ (~operand[i] /\ args[i] # "--") \/ After(i)
                    /\ After(i) \/ ~Dashed(args[i])
                    /\ name \in {"env", "sudo"} => Lex[args[i]].key = NoKey
    IN  FirstAt(args, Plain) + IF name = "timeout" THEN 1 ELSE 0

MatchesRule(v) ==
    \E i \in DOMAIN Rules :
        /\ Lex[v[1]].base = Rules[i].exe
        /\ IsPrefix(Rules[i].prefix, Tail(v))

RECURSIVE Forbidden(_), ForbiddenScript(_)
Forbidden(v) ==
    /\ v # <<>>
    /\ LET name == Lex[v[1]].base
           at == CommandAt(name, Tail(v))
       IN  \/ MatchesRule(v)
           \/ name \in Wrappers \ Shells /\ Forbidden(SubSeq(v, at + 1, Len(v)))
           \/ /\ name \in Shells
              /\ \E i \in 2 .. Len(v) - 1 :
                    /\ v[i] \in {"-c", "-lc"}
                    /\ \A j \in 2 .. i : Dashed(v[j])
                    /\ v[i + 1] \in DOMAIN Inline
                    /\ ForbiddenScript(Inline[v[i + 1]])

ForbiddenScript(s) ==
    \E call \in CallsIn(s) : \E v \in Vectors(call.words) : Forbidden(v)

CommandsOf(doc) == {doc[i].value : i \in {j \in DOMAIN doc : IsField(doc, j, CommandField)}}

\* AbstainMeansNoMatch: when the guard abstains on a bound tool's command, no
\* command the shell may run for it matches a rule, however the unknown words
\* expand, at any depth of substitutions, wrappers and inline scripts
\* (match.go:5-44, wrappers.go:6-116, syntax_policy.go:7-86).
AbstainMeansNoMatch ==
    Admitted => \A s \in CommandsOf(guard.call.doc) : ~ForbiddenScript(s)
=============================================================================
