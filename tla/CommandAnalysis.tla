-------------------------- MODULE CommandAnalysis --------------------------
(***************************************************************************)
(* commandguard: what the analysis of one command concludes.  The nodes of *)
(* a script are visited with budgets charged on entry, words are decoded   *)
(* and calls judged on exit, and inline scripts of sh -c and bash -c are   *)
(* analysed with the same counters.                                        *)
(*                                                                         *)
(* Words are texts.  What the string functions tell apart about a text is  *)
(* given by Lex, what the shell parser makes of one by Inline.  A script   *)
(* is [size, text, visits]: its bytes, what script() finds before walking  *)
(* ("ok", "invalidText", "noMask" or "parseError"), and the calls that     *)
(* syntax.Walk makes for its tree: every node is entered and, after its    *)
(* children, left.  A visit has the depth of its node and the words it     *)
(* consists of, itself or the arguments of a call.                         *)
(* The polls of ctx.Err are left out: GuardTool replaces whatever they     *)
(* lead to by the context's own error.                                     *)
(***************************************************************************)
EXTENDS JsonDocument, Loops, SequencesExt

CONSTANTS
    Rules,        \* policy.rules: a sequence of [exe, prefix]
    Lex,          \* text -> [base, lead, key, value, kinds, size]
    Inline,       \* text -> the script it is when sh -c gets it
    Bound,        \* Limits: MaxJSONDepth .. MaxWrapperDepth, as a record
    CommandField  \* Binding.CommandField

Visits == [enter : BOOLEAN, kind : {"word", "call", "opaque", "plain"}, depth : Nat,
           words : Seq([text : DOMAIN Lex, parts : SUBSET STRING])]
Scripts == [size : Nat, text : {"ok", "invalidText", "noMask", "parseError"}, visits : Seq(Visits)]

ASSUME AnalysisAssumption ==
    /\ {Bound.analysisBytes, Bound.astNodes, Bound.words, Bound.wrapperDepth} \subseteq Nat
    /\ Rules \in Seq([exe : STRING, prefix : Seq(STRING)])
    /\ \A text \in DOMAIN Lex : Inline[text] \in Scripts

NoKey == "no ="    \* the key of a text that holds no =
Dashed(text) == Lex[text].lead = "-"

Word(text, known) == [text |-> text, known |-> known]
Words == [text : DOMAIN Lex, known : BOOLEAN]

\* analysis: the counters and the outcome so far.  parsed is the history of the
\* script sizes that were handed to the parser, deepest the most wrappers seen.
Fresh == [outcome |-> "abstain", bytes |-> 0, nodes |-> 0, words |-> 0,
          parsed |-> <<>>, deepest |-> 0]

Outcomes == {"abstain", "ruleMatch", "unanalysable", "invalidCommand", "analysisLimit"}
Analyses == [outcome : Outcomes, bytes : Nat, nodes : Nat, words : Nat,
             parsed : Seq(Nat), deepest : Nat]

Stop(a, outcome) == [a EXCEPT !.outcome = outcome]

\* The first element that is not abstain, for loops that return early.
FirstDenial(outcomes) ==
    LET at == FirstAt(outcomes, LAMBDA i : outcomes[i] # "abstain")
    IN  IF at > Len(outcomes) THEN "abstain" ELSE outcomes[at]
-----------------------------------------------------------------------------
(* input: the JSON object that holds the command                            *)

\* The limits are checked before a token is taken, except a closing one; the size
\* of the command when it is known to be a string.
NodeOutcome(doc, i) ==
    LET node == doc[i]
        isCommand == IsField(doc, i, CommandField)
        limited == /\ node.role # "unclosed"
                   /\ i > Bound.jsonNodes \/ (node.role # "key" /\ node.depth > Bound.jsonDepth)
        invalid == \/ node.role \in {"broken", "unclosed"}
                   \/ i = 1 /\ node.role # "object"
                   \/ node.role = "key" /\ Repeated(doc, i)
                   \/ isCommand /\ node.role # "string"
        oversized == isCommand /\ node.value.size > Bound.commandBytes
    IN  CASE limited \/ (~invalid /\ oversized) -> "analysisLimit"
          [] ~limited /\ invalid -> "invalidCommand"
          [] OTHER -> "abstain"

\* Mutation: keys may repeat; the first command counts.
inputRepeats(raw, doc) ==
    LET denied == FirstAt(doc, LAMBDA i : NodeOutcome(doc, i) # "abstain"
                                          /\ ~(doc[i].role = "key" /\ Repeated(doc, i)))
        field == FirstAt(doc, LAMBDA i : IsField(doc, i, CommandField))
    IN  [outcome |-> CASE raw # "fits" -> raw
                       [] raw = "fits" /\ denied <= Len(doc) -> NodeOutcome(doc, denied)
                       [] OTHER -> IF field > Len(doc) THEN "invalidCommand" ELSE "abstain",
         command |-> doc[Min({field, Len(doc)})].value]

\* The raw bytes are judged first ("fits", or the outcome their length or their
\* encoding has); then the first node that denies decides; an object without the
\* field is invalid.
input(raw, doc) ==
    LET denied == FirstAt(doc, LAMBDA i : NodeOutcome(doc, i) # "abstain")
        field == FirstAt(doc, LAMBDA i : IsField(doc, i, CommandField))
    IN  [outcome |-> CASE raw # "fits" -> raw
                       [] raw = "fits" /\ denied <= Len(doc) -> NodeOutcome(doc, denied)
                       [] OTHER -> IF field > Len(doc) THEN "invalidCommand" ELSE "abstain",
         command |-> doc[Min({field, Len(doc)})].value]
-----------------------------------------------------------------------------
(* words and rules                                                          *)

\* decode: quoting is removed; globs, tilde, brackets, braces, dollar quotes
\* and expansions make the word unknown, an oversized word stops the analysis.
Opaque == {"glob", "tilde", "bracket", "brace", "dollarQuote", "expansion"}
decode(word) == Word(word.text, word.parts \cap Opaque = {})

\* Mutation: an argument that is not known does not match.
ruleUnknownDiffers(r, name, args) ==
    IF /\ r.exe = name
       /\ Len(r.prefix) <= Len(args)
       /\ \A i \in DOMAIN r.prefix : args[i].known /\ args[i].text = r.prefix[i]
      THEN "ruleMatch" ELSE "abstain"

\* The loop over rule r's prefix: it ends at the first argument that is missing,
\* unknown or different, and an unknown one might be anything.
rule(r, name, args) ==
    LET Ends(i) == i > Len(args) \/ ~args[i].known \/ args[i].text # r.prefix[i]
        at == FirstAt(r.prefix, Ends)
    IN  CASE r.exe # name -> "abstain"
          [] r.exe = name /\ at > Len(r.prefix) -> "ruleMatch"
          [] r.exe = name /\ at <= Len(r.prefix) ->
                IF at <= Len(args) /\ ~args[at].known THEN "unanalysable" ELSE "abstain"

Structural == {"eval", ".", "source", "alias", "unalias", "builtin", "enable", "trap",
               "fc", "history", "bind", "complete", "compgen", "read", "unset",
               "getopts", "mapfile", "readarray", "declare", "typeset", "local",
               "export", "readonly", "let"}

builtin(name, args) ==
    LET opaque ==
        \/ name \in Structural
        \/ /\ name = "printf" /\ args # <<>>
           /\ ~args[1].known \/ (Dashed(args[1].text) /\ args[1].text # "--")
        \/ /\ name \in {"test", "["}
           /\ \/ \E i \in DOMAIN args : ~args[i].known \/ args[i].text \in {"-v", "-R"}
              \/ name = "[" /\ (args = <<>> \/ Last(args).text # "]")
    IN  IF opaque THEN "unanalysable" ELSE "abstain"
-----------------------------------------------------------------------------
(* wrappers                                                                 *)

Shells == {"sh", "bash"}
Wrappers == Shells \cup {"env", "command", "exec", "sudo", "timeout"}

\* wrapperOptions: spelling -> the operand it wants; a spelling that ends in =
\* wants it attached.
wrapperOptions ==
    [env |-> [kinds |-> ("-i" :> "flag" @@ "--ignore-environment" :> "flag"
                         @@ "-u" :> "variable" @@ "-C" :> "nonempty"),
              attached |-> ("--unset" :> "variable" @@ "--chdir" :> "nonempty")],
     sudo |-> [kinds |-> ("-n" :> "flag" @@ "-E" :> "flag" @@ "-H" :> "flag"
                          @@ "-u" :> "nonempty" @@ "-g" :> "nonempty" @@ "-D" :> "nonempty"),
               attached |-> ("--user" :> "nonempty" @@ "--group" :> "nonempty"
                             @@ "--chdir" :> "nonempty")],
     timeout |-> [kinds |-> ("--foreground" :> "flag" @@ "--preserve-status" :> "flag"
                             @@ "-v" :> "flag" @@ "--verbose" :> "flag"
                             @@ "-s" :> "signal" @@ "-k" :> "duration"),
                  attached |-> ("--signal" :> "signal" @@ "--kill-after" :> "duration")]]

validOperand(text, kind) == text # "" /\ kind \in Lex[text].kinds

\* consumeOption: how many words the option takes; 0 means not supported.
consumeOption(args, specs) ==
    LET text == args[1].text IN
    CASE text \in DOMAIN specs.kinds /\ specs.kinds[text] = "flag" -> 1
      [] text \in DOMAIN specs.kinds /\ specs.kinds[text] # "flag" ->
            IF Len(args) > 1 /\ args[2].known /\ validOperand(args[2].text, specs.kinds[text])
              THEN 2 ELSE 0
      [] OTHER ->
            IF /\ Lex[text].key \in DOMAIN specs.attached
               /\ validOperand(Lex[text].value, specs.attached[Lex[text].key])
              THEN 1 ELSE 0

Refused == [args |-> <<>>, outcome |-> "unanalysable"]
Rest(args) == [args |-> args, outcome |-> "abstain"]

\* One round of scanOptions: over is set where the loop is left.
scanOption(scan, specs) ==
    LET args == scan.args
        Over(found) == [args |-> found.args, outcome |-> found.outcome, over |-> TRUE]
        consumed == consumeOption(args, specs)
    IN  IF scan.over \/ args = <<>> THEN scan
        ELSE IF ~args[1].known THEN Over(Refused)
        ELSE IF args[1].text = "--" THEN Over(Rest(Tail(args)))
        ELSE IF ~Dashed(args[1].text) THEN Over(Rest(args))
        ELSE IF consumed = 0 THEN Over(Refused)
        ELSE [scan EXCEPT !.args = SubSeq(args, consumed + 1, Len(args))]

\* Every round takes a word, so there are not more rounds than words.
scanOptions(args, specs) ==
    LET Round(scan, word) == scanOption(scan, specs)
    IN  Loop(Round, [args |-> args, outcome |-> "abstain", over |-> FALSE], args)

\* opaqueVariableTarget: state the shell itself evaluates; BASH_ENV stands for
\* the BASH_ family.
opaqueVariableTarget ==
    {"OPTIND", "RANDOM", "SRANDOM", "SECONDS", "HISTCMD", "MAILCHECK", "PS0", "PS1",
     "PS2", "PS3", "PS4", "PROMPT_COMMAND", "ENV", "BASH_ENV"}

\* assignmentOperands: NAME=value words before the command.
assignmentOperands(args) ==
    LET Key(i) == Lex[args[i].text].key
        Assigns(i) == /\ args[i].known /\ Key(i) # NoKey
                      /\ validOperand(Key(i), "variable") /\ Key(i) \notin opaqueVariableTarget
        at == FirstAt(args, LAMBDA i : ~Assigns(i))
    IN  IF at <= Len(args) /\ (~args[at].known \/ Key(at) # NoKey)
          THEN Refused ELSE Rest(SubSeq(args, at, Len(args)))

builtinCommandPrefix(name, args) ==
    LET rest == IF name = "command" /\ args # <<>> /\ args[1] = Word("-p", TRUE)
                  THEN Tail(args) ELSE args
    IN  CASE rest = <<>> -> Rest(rest)
          [] rest # <<>> /\ rest[1] = Word("--", TRUE) -> Rest(Tail(rest))
          [] OTHER -> IF ~rest[1].known \/ Dashed(rest[1].text)
                        THEN Refused ELSE Rest(rest)

wrapperArguments(name, args) ==
    IF name \in {"command", "exec"} THEN builtinCommandPrefix(name, args)
    ELSE LET scanned == scanOptions(args, wrapperOptions[name])
             operands == assignmentOperands(scanned.args)
         IN  CASE scanned.outcome # "abstain" -> scanned
               [] scanned.outcome = "abstain" /\ name = "timeout" ->
                     IF \/ scanned.args = <<>>
                        \/ ~scanned.args[1].known
                        \/ ~validOperand(scanned.args[1].text, "duration")
                       THEN Refused ELSE Rest(Tail(scanned.args))
               [] OTHER ->
                     \* sudo can reinterpret option-shaped selectors after assignments
                     IF name = "sudo" /\ operands.args # <<>> /\ Dashed(operands.args[1].text)
                       THEN Refused ELSE operands

\* The inline script of sh and bash, or the reason there is none.
shellScript(args) ==
    LET flag == FirstAt(args, LAMBDA i : ~(args[i].known /\ args[i].text \in {"-e", "-u", "-x"}))
        Known(i) == i <= Len(args) /\ args[i].known
    IN  IF \/ ~Known(flag) \/ args[flag].text \notin {"-c", "-lc"}
           \/ ~Known(flag + 1) \/ Lex[args[flag + 1].text].lead \in {"-", "+"}
           \/ flag + 2 <= Len(args) /\ ~Known(flag + 2)
          THEN Refused ELSE Rest(<<args[flag + 1]>>)
-----------------------------------------------------------------------------
(* command, wrapper, shell, script and the walk call each other: what a      *)
(* command means is defined by the number of wrappers it may still go through *)

\* What a judge is asked: the counters, the words of a call and their depth
Calls == Analyses \X Seq(Words) \X Nat

\* inspectNode: what a node costs and whether its kind is admitted.
inspectNode(a, visit, depth) ==
    IF a.nodes >= Bound.astNodes \/ depth >= Bound.astDepth
      THEN Stop(a, "analysisLimit")
      ELSE LET b == [a EXCEPT !.nodes = @ + 1]
           IN  CASE visit.kind = "opaque" -> Stop(b, "unanalysable")
                 [] visit.kind = "word" -> IF b.words >= Bound.words
                                             THEN Stop(b, "analysisLimit")
                                             ELSE [b EXCEPT !.words = @ + 1]
                 [] OTHER -> b

\* finishNode: every executable descendant has been seen by then.
finishNode(judge, a, visit, depth) ==
    CASE visit.kind = "word" /\ Lex[visit.words[1].text].size > Bound.wordBytes
            -> Stop(a, "analysisLimit")
      [] visit.kind = "call" /\ visit.words # <<>> ->
            judge[<<a, [i \in DOMAIN visit.words |-> decode(visit.words[i])], depth>>]
      [] OTHER -> a

Visited(judge, a, visit, depth) ==
    IF a.outcome # "abstain" THEN a
    ELSE IF visit.enter THEN inspectNode(a, visit, depth + visit.depth)
    ELSE finishNode(judge, a, visit, depth + visit.depth + 1)

\* Mutation: substitutions inside words are not walked into.
walkWordsWhole(judge, a, visits, depth) ==
    LET Inside(i) == \E j \in 1 .. i - 1 :
            /\ visits[j].enter /\ visits[j].kind = "word"
            /\ \A k \in j + 1 .. i : visits[k].depth > visits[j].depth
        Step(b, i) == IF Inside(i) THEN b ELSE Visited(judge, b, visits[i], depth)
    IN  Loop(Step, a, [i \in DOMAIN visits |-> i])

\* walkScript: the first denial survives the remaining visits.
walk(judge, a, visits, depth) ==
    LET Step(b, visit) == Visited(judge, b, visit, depth) IN Loop(Step, a, visits)

\* script: size and depth first, then the text itself, then the parser.
script(judge, a, s, depth) ==
    LET b == [a EXCEPT !.bytes = @ + s.size, !.parsed = Append(@, s.size)]
    IN  IF \/ s.size > Bound.commandBytes \/ s.size > Bound.analysisBytes - a.bytes
           \/ depth >= Bound.astDepth THEN Stop(a, "analysisLimit")
        ELSE CASE s.text = "invalidText" -> Stop(a, "invalidCommand")
               [] s.text = "noMask" -> Stop(a, "unanalysable")
               [] s.text = "parseError" -> Stop(b, "invalidCommand")
               [] s.text = "ok" -> walk(judge, b, s.visits, depth)

\* Mutation: the counters of an inline script start from nothing.
shellForgets(judge, a, args, depth) ==
    LET found == shellScript(args)
    IN  IF found.outcome # "abstain" THEN Stop(a, found.outcome)
        ELSE script(judge, [Fresh EXCEPT !.parsed = a.parsed], Inline[found.args[1].text], depth)

shell(judge, a, args, depth) ==
    LET found == shellScript(args)
    IN  IF found.outcome # "abstain" THEN Stop(a, found.outcome)
        ELSE script(judge, a, Inline[found.args[1].text], depth)

\* judge is for what the wrapper delegates to, left the wrappers that may follow.
wrapper(judge, left, a, name, args, depth) ==
    LET found == wrapperArguments(name, args)
        wrappers == Bound.wrapperDepth - left + 1
        b == [a EXCEPT !.deepest = IF wrappers > @ THEN wrappers ELSE @]
    IN  IF name \notin Wrappers THEN a
        ELSE IF left = 0 \/ depth >= Bound.astDepth THEN Stop(a, "analysisLimit")
        ELSE IF name \in Shells THEN shell(judge, b, args, depth + 1)
        ELSE IF found.outcome # "abstain" THEN Stop(b, found.outcome)
        ELSE IF found.args # <<>> THEN judge[<<b, found.args, depth + 1>>]
        ELSE IF name = "env" THEN b ELSE Stop(b, "unanalysable")

\* command: rules first, then the builtins, then what a wrapper delegates to.
command(judge, left, a, words, depth) ==
    IF words = <<>> \/ ~Head(words).known \/ Lex[Head(words).text].base = ""
      THEN Stop(a, "unanalysable")
      ELSE LET name == Lex[Head(words).text].base
               args == Tail(words)
               verdict == FirstDenial([i \in DOMAIN Rules |-> rule(Rules[i], name, args)]
                                      \o <<builtin(name, args)>>)
           IN  IF verdict # "abstain" THEN Stop(a, verdict)
               ELSE wrapper(judge, left, a, name, args, depth)

\* The judges of calls that 0, 1, ... more wrappers may follow
Judges ==
    LET judge[left \in 0 .. Bound.wrapperDepth] ==
            [call \in Calls |-> command(IF left = 0 THEN <<>> ELSE judge[left - 1], left,
                                        call[1], call[2], call[3])]
    IN  judge

\* GuardTool between the permit and the answer.
analyse(raw, doc) ==
    LET found == input(raw, doc)
    IN  IF found.outcome # "abstain" THEN Stop(Fresh, found.outcome)
        ELSE script(Judges[Bound.wrapperDepth], Fresh, found.command, 0)
=============================================================================
