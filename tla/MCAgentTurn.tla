------------------------------ MODULE MCAgentTurn ------------------------------
(***************************************************************************)
(* An instance of AgentTurn for TLC: small vocabularies and limits chosen  *)
(* so that each limit is reached by some input and missed by another.      *)
(***************************************************************************)
EXTENDS AgentTurn

(* workspace instructions: two names, chains of one or two directories *)
Rune(width, kind) == [width |-> width, kind |-> kind]
Text(n) == [i \in 1 .. n |-> Rune(1, "text")]
MCContents ==
    [short |-> Text(1), split |-> Text(1) \o <<Rune(3, "text")>> \o Text(1),
     blank |-> <<Rune(1, "space")>>, binary |-> <<Rune(1, "nul"), Rune(1, "bad")>>,
     brokenTail |-> Text(2) \o <<Rune(1, "bad")>> \o Text(2), outside |-> Text(2)]
MCLinkTargets == {"outside"}
MCFileNames == <<1, 2>>
MCLayout == [open |-> 2, close |-> 2, omitted |-> 3, frame |-> 2, truncated |-> 2,
             parent |-> 2, here |-> 1]
MCSectionLimits == {[chain |-> 2, file |-> 3, section |-> n] : n \in {15, 18, 21, 27}}

(* command guard: rules git push and rm *)
MCRules == <<[exe |-> "git", prefix |-> <<"push">>], [exe |-> "rm", prefix |-> <<>>]>>

Term(base) == [base |-> base, lead |-> "", key |-> NoKey, value |-> "",
               kinds |-> {"nonempty"}, size |-> 1]
Option(base) == [Term(base) EXCEPT !.lead = "-"]
Plain(texts) == [t \in texts |-> Term(t)]
MCLex ==
    Plain({"git", "push", "echo", "env", "sudo", "timeout", "sh", "command", "rm", "inlinePush",
           "inlineNested", "inlineEcho", "inlineBad", "inlineEmpty", "unknown", "substituted", "eval", "A"})
    @@ [t \in {"-i", "-u", "-c", "--", "-p"} |-> Option(t)]
    @@ ("" :> [Term("") EXCEPT !.kinds = {}])
    @@ ("/bin/git" :> Term("git"))
    @@ ("bin/" :> Term(""))
    @@ ("A=1" :> [Term("A=1") EXCEPT !.key = "A", !.value = "1"])
    @@ ("PS1=1" :> [Term("PS1=1") EXCEPT !.key = "PS1", !.value = "1"])
    @@ ("PS1" :> [Term("PS1") EXCEPT !.kinds = {"nonempty", "variable"}])
    @@ ("A" :> [Term("A") EXCEPT !.kinds = {"nonempty", "variable"}])
    @@ ("--unset=A" :> [Option("--unset=A") EXCEPT !.key = "--unset", !.value = "A"])
    @@ ("5" :> [Term("5") EXCEPT !.kinds = {"nonempty", "duration", "signal"}])
    @@ ("wide" :> [Term("wide") EXCEPT !.size = 4])
MCExpansions == {"push", "git", "-c"}

\* A tree, and the visits that a walk makes for its nodes
Tree(kind, kids, words) == [kind |-> kind, kids |-> kids, words |-> words]
VisitOf(tree, enter, depth) ==
    [enter |-> enter, kind |-> tree.kind, depth |-> depth, words |-> tree.words]
RECURSIVE VisitsOf(_, _)
VisitsOf(tree, depth) ==
    <<VisitOf(tree, TRUE, depth)>>
    \o FlattenSeq([i \in DOMAIN tree.kids |-> VisitsOf(tree.kids[i], depth + 1)])
    \o <<VisitOf(tree, FALSE, depth)>>
Leaf(kind) == Tree(kind, <<>>, <<>>)
WordNode(text, parts, kids) == Tree("word", kids, <<[text |-> text, parts |-> parts]>>)
CallNode(nodes) == Tree("call", nodes, [i \in DOMAIN nodes |-> nodes[i].words[1]])
Push == CallNode(<<WordNode("git", {}, <<>>), WordNode("push", {}, <<>>)>>)
WordOf(text) ==
    CASE text = "unknown" -> WordNode(text, {"expansion"}, <<Leaf("plain")>>)
      [] text = "substituted" -> WordNode(text, {"expansion"}, <<Tree("plain", <<Push>>, <<>>)>>)
      [] OTHER -> WordNode(text, {}, <<>>)
CallOf(texts) == CallNode([i \in DOMAIN texts |-> WordOf(texts[i])])
ScriptOf(size, kids) ==
    [size |-> size, text |-> "ok", visits |-> VisitsOf(Tree("plain", kids, <<>>), 0)]
MCInline ==
    [inlinePush |-> ScriptOf(2, <<Push>>),
     inlineNested |-> ScriptOf(3, <<CallOf(<<"sh", "-c", "inlinePush">>)>>),
     inlineEcho |-> ScriptOf(2, <<CallOf(<<"echo">>), CallOf(<<"sh", "-c", "inlineEmpty">>)>>),
     inlineEmpty |-> ScriptOf(2, <<>>),
     inlineBad |-> [ScriptOf(1, <<>>) EXCEPT !.text = "parseError"]]
    @@ [t \in DOMAIN MCLex |-> ScriptOf(1, <<CallOf(<<t>>)>>)]
MCBound == [jsonDepth |-> 3, jsonNodes |-> 7, commandBytes |-> 4, analysisBytes |-> 6,
            astNodes |-> 12, astDepth |-> 7, words |-> 8, wordBytes |-> 3, wrapperDepth |-> 2]

Heads == {"git", "echo", "env", "sudo", "timeout", "sh", "command", "rm", "/bin/git", "unknown",
          "eval", "bin/"}
Operands == {"git", "push", "unknown", "substituted", "-i", "-u", "A", "A=1", "--", "-c",
          "inlinePush", "inlineNested", "inlineEcho", "5", "sh"}
Rare == {"PS1=1", "--unset=A", "wide", "-p", "inlineBad", "rm", "env"}
ThreeWords == {<<h>> \o s : h \in Heads, s \in UNION {[1 .. n -> Operands] : n \in 0 .. 2}}
FourWords == {<<h, a, b, c>> : h \in {"env", "sudo", "timeout", "sh", "command"},
                               a \in {"-i", "-u", "5", "-c", "--", "A=1"},
                               b \in {"A", "A=1", "--", "inlineEcho", "git", "sh", "unknown"},
                               c \in {"git", "rm", "-c", "unknown", "push"}}
RareCommands == {<<h, r, w>> : h \in {"env", "command", "echo", "sh"}, r \in Rare, w \in {"git", "rm"}}
Commands == {ScriptOf(Len(s), <<CallOf(s)>>) : s \in ThreeWords \cup FourWords \cup RareCommands}
            \cup {[ScriptOf(1, <<>>) EXCEPT !.text = t] : t \in {"invalidText", "noMask", "parseError"}}
            \cup {ScriptOf(1, <<Leaf("opaque")>>), ScriptOf(5, <<>>)}
Few == {ScriptOf(1, <<CallOf(<<"echo">>)>>), ScriptOf(2, <<Push>>)}

MCCommandField == "command"
NoScript == ScriptOf(1, <<>>)
Key(owner, name) == Node("key", 1, owner, name, NoScript)
Value(role, depth, owner) == Node(role, depth, owner, "", NoScript)
Root == <<Value("object", 1, 0)>>
Field(s) == <<Key(1, MCCommandField), Node("string", 2, 1, "", s)>>
Inner(s) == <<Key(1, "other"), Value("object", 2, 1)>> \o
            <<Key(5, MCCommandField), Node("string", 3, 5, "", s)>>
Documents ==
    {Root \o Field(s) : s \in Commands}
    \cup {Root \o Field(s) \o Field(t) : s \in Few, t \in Few}
    \cup {Root \o Field(s) \o Inner(t) : s \in Few, t \in Few}
    \cup {Root \o Field(s) \o <<Value(role, 1, 1)>>
             : s \in Few, role \in {"broken", "unclosed"}}
    \cup {Root \o Field(s) \o Inner(s) \o <<Key(1, "last"), Value("unclosed", 1, 1)>> : s \in Few}
    \cup {Root \o <<Key(1, "other"), Value("number", 2, 1)>> \o Field(s) : s \in Few}
    \cup {Root \o <<Key(1, MCCommandField), Value("number", 2, 1)>>, Root, <<Value("array", 1, 0)>>,
          Root \o <<Key(1, "other"), Value("object", 2, 1), Key(3, "x"), Value("object", 3, 3),
                    Key(5, "x"), Value("string", 4, 5)>>}
Request(tool, raw, doc) == [tool |-> tool, raw |-> raw, doc |-> doc]
MCGuardCalls == {Request("shell", "fits", doc) : doc \in Documents}
                \cup {Request("shell", raw, Root) : raw \in {"analysisLimit", "invalidCommand"}}
                \cup {Request("web_search", "fits", Root)}
MCBindings == {"shell"}

(* web search *)
R(width, cost) == [width |-> width, cost |-> cost]
MCCeiling == [query |-> 2, results |-> 2, title |-> 3, url |-> 3, snippet |-> 3, raw |-> 20,
              inFlight |-> 1, wait |-> 1]
MCLimitChoices == [query : {1}, results : 0 .. 3, title : {1, 3}, url : {1, 2}, snippet : {0, 2},
                   raw : {7, 8}, inFlight : {1}, wait : {1}]
MCTexts == {<<R(1, 6), R(1, 6)>>, <<R(2, 2), R(2, 2)>>, <<R(0, 0), R(1, 1), R(1, 6)>>,
          <<R(3, 6), R(1, 1)>>}
MCSources == [title : MCTexts, url : {[ok |-> TRUE, text |-> <<R(1, 6), R(1, 6)>>],
                                  [ok |-> FALSE, text |-> <<>>]},
            snippet : {<<R(1, 6), R(1, 6)>>, <<>>}]
MCAnswers == UNION {[1 .. n -> MCSources] : n \in 0 .. 2}
             \cup {[i \in 1 .. 3 |-> s] : s \in MCSources}

(* reducer *)
Str(id, size, encoded) == [id |-> id, size |-> size, encoded |-> encoded, clean |-> TRUE]
Name(owner, name) == Node("key", 1, owner, name, Str("", 0, 1))
Other(role, depth, owner) == Node(role, depth, owner, "", Str("", 0, 1))
Top == <<Other("object", 1, 0)>>
JsonOf(a, b) == Top \o <<Name(1, "first"), Node("string", 2, 1, "", a), Name(1, "second"),
                         Node("string", 2, 1, "", b)>>
MCStrings == {Str("short", 3, 5), Str("middle", 5, 7), Str("long", 8, 10), Str("quoted", 8, 16), Str("empty", 0, 2),
            [Str("nul", 4, 10) EXCEPT !.clean = FALSE], Str("huge", 12, 14)}
Answer(id, size, encoded, same) == [ok |-> TRUE, id |-> id, size |-> size, encoded |-> encoded,
                                    clean |-> TRUE, utf8 |-> TRUE, same |-> same]
MCReduceOutputs == {Answer("tiny", 1, 3, FALSE), Answer("half", 5, 7, FALSE),
                    Answer("escaped", 2, 14, FALSE), Answer("same", 6, 8, TRUE),
                    [Answer("dirty", 1, 3, FALSE) EXCEPT !.clean = FALSE, !.utf8 = FALSE],
                    [Answer("nul", 1, 8, FALSE) EXCEPT !.clean = FALSE],
                    [Answer("failed", 0, 2, FALSE) EXCEPT !.ok = FALSE]}
MCReduceLimit == [jsonDepth |-> 2, jsonNodes |-> 6, input |-> 30, field |-> 10, result |-> 60]
AnyInput == [field |-> "", equals |-> {}]
Reduce(mode, fields, output, structured) ==
    [mode |-> mode, fields |-> fields, match |-> AnyInput, input |-> <<>>, output |-> output,
     structured |-> structured, mirrors |-> TRUE, status |-> ""]
Mirror(fields, doc) == Reduce("json", fields, doc, doc)
Documented == {JsonOf(a, b) : a \in MCStrings, b \in MCStrings}
Odd == {JsonOf(Str("long", 8, 10), Str("long", 8, 10)) \o <<Name(1, "first")>>,
        Top \o <<Name(1, "first"), Other("number", 2, 1)>>,
        Top \o <<Name(1, "first"), Other("object", 2, 1), Name(3, "deep"), Other("string", 3, 3)>>,
        <<Other("array", 1, 0)>>}
Input(text) == Top \o <<Name(1, "cmd"), Node("string", 2, 1, "", text)>>
MCReduceRequests ==
    {Mirror(f, doc) : f \in {<<"first", "second">>, <<"second", "first">>, <<"first">>},
                      doc \in Documented \cup Odd}
    \cup {Reduce("text", <<"output">>, s, <<>>) : s \in MCStrings}
    \cup {[Mirror(<<"first">>, JsonOf(Str("long", 8, 10), Str("short", 3, 5)))
             EXCEPT !.match = [field |-> "cmd", equals |-> {"short"}], !.input = Input(s)]
             : s \in {Str("short", 3, 5), Str("long", 8, 10), Str("huge", 12, 40)}}
    \cup {[Mirror(<<"first">>, JsonOf(Str("long", 8, 10), Str("short", 3, 5)))
             EXCEPT !.mirrors = m, !.status = s, !.mode = o]
             : m \in BOOLEAN, s \in {"", "denied"}, o \in {"json", "none"}}

(* redactor: rule 1 is a plain expression, rule 2 one with boundaries *)
Match(start, end) == [start |-> start, end |-> end, touches |-> FALSE]
Spans == {Match(a, b) : a \in 0 .. 3, b \in 1 .. 4}
Finds == {<<>>} \cup {<<m>> : m \in {n \in Spans : n.start < n.end}}
         \cup {<<Match(0, 1), Match(2, 3)>>, <<Match(0, 1), Match(1, 3)>>,
               <<[Match(0, 2) EXCEPT !.touches = TRUE], Match(3, 4)>>}
ScalarOf(one, two) == [length |-> 4, utf8 |-> TRUE, placeholder |-> FALSE, matches |-> <<one, two>>]
CleanText == ScalarOf(<<>>, <<>>)
Secret == ScalarOf(<<Match(1, 3)>>, <<>>)
Strange == {[CleanText EXCEPT !.utf8 = FALSE], [CleanText EXCEPT !.length = 6],
            [Secret EXCEPT !.placeholder = TRUE]}
Some == {CleanText, Secret} \cup Strange
Untouched == [excluded |-> FALSE, output |-> CleanText, structured |-> <<>>, metadata |-> <<>>,
              attachments |-> <<>>]
Scalar(role, depth, owner, text) == Node(role, depth, owner, "", text)
Base == <<Scalar("object", 1, 0, CleanText)>>
Structured(key, text) == Base \o <<Scalar("key", 1, 1, key), Scalar("string", 2, 1, text)>>
Attached(field, entries) == [fields |-> <<CleanText, CleanText, field, CleanText>>, metadata |-> entries]
MCRedactInputs ==
    {[Untouched EXCEPT !.output = ScalarOf(one, two)] : one \in Finds, two \in Finds}
    \cup {[Untouched EXCEPT !.output = s, !.excluded = e] : s \in Strange, e \in BOOLEAN}
    \cup {[Untouched EXCEPT !.structured = Structured(k, v), !.metadata = << <<v, k>> >>]
             : k \in Some, v \in Some}
    \cup {[Untouched EXCEPT !.output = Secret, !.structured = doc]
             : doc \in {<<Scalar("string", 1, 0, Secret)>>, <<Scalar("broken", 1, 0, CleanText)>>,
                        Base \o <<Scalar("key", 1, 1, CleanText), Scalar("object", 2, 1, CleanText),
                                  Scalar("key", 2, 3, CleanText), Scalar("string", 3, 3, Secret)>>}}
    \cup {[Untouched EXCEPT !.attachments = a, !.metadata = << <<CleanText, Secret>> >>]
             : a \in {<<Attached(s, << <<t, Secret>> >>)>> : s \in Some, t \in {CleanText, Secret}}
                     \cup {<<Attached(Secret, <<>>), Attached(CleanText, <<>>),
                             Attached(CleanText, <<>>)>>}}
    \cup {[Untouched EXCEPT !.metadata = << <<CleanText, Secret>>, <<Secret, CleanText>>,
                                            <<CleanText, CleanText>> >>]}
MCRedactLimit == [field |-> 5, matches |-> 2, depth |-> 2, nodes |-> 4, entries |-> 2,
                  attachments |-> 2]
=============================================================================
