------------------------------- MODULE Redaction -------------------------------
(***************************************************************************)
(* toolresultredactor: the transform that runs on every tool result.  A    *)
(* text is [length, utf8, placeholder, matches]: for each rule the matches *)
(* of its expression in order, [start, end, touches], where touches says   *)
(* that a byte next to the match belongs to a longer word.  What a text is *)
(* turned into is the sequence of the positions kept, with Placeholder     *)
(* where bytes were replaced.  No match is empty: the configuration        *)
(* refuses an expression that can match nothing.                           *)
(***************************************************************************)
EXTENDS AgentContext, JsonDocument, Loops, FiniteSetsExt, SequencesExt

CONSTANTS
    BoundaryRules,     \* the rules that look at the bytes next to a match
    RedactInputs,      \* results: [excluded, output, structured, metadata, attachments]
    RedactLimit        \* Limits: field, matches, depth, nodes, entries, attachments

\* The expressions find their matches from left to right, none inside another.
Matches == [start : Nat, end : Nat, touches : BOOLEAN]
Texts ==
    {t \in [length : Nat, utf8 : BOOLEAN, placeholder : BOOLEAN, matches : Seq(Seq(Matches))] :
        \A rule \in DOMAIN t.matches : \A i \in DOMAIN t.matches[rule] :
            LET m == t.matches[rule][i]
            IN  /\ m.start < m.end /\ m.end <= t.length
                /\ i > 1 => t.matches[rule][i - 1].end <= m.start}

ASSUME RedactAssumption ==
    /\ RedactLimit.matches \in Nat
    /\ \A input \in RedactInputs :
          /\ input.output \in Texts
          /\ input.structured \in Seq([role : STRING, depth : Nat, owner : Nat, name : STRING,
                                        value : Texts])
          /\ input.metadata \in Seq(Texts \X Texts)
          /\ input.attachments \in Seq([fields : Seq(Texts), metadata : Seq(Texts \X Texts)])

VARIABLE redaction     \* [pc, input, output: by part]

Placeholder == -1
Nothing == <<>>        \* a part that is nil
Whole(value) == [i \in 1 .. value.length |-> i - 1]
Hidden == <<Placeholder>>

\* The parts that stand for a document, a map and a list that are not shown
structuredPlaceholder == <<Hidden>>
metadataPlaceholder == << <<Nothing, Hidden>> >>
attachmentPlaceholder ==
    <<[fields |-> <<Nothing, Nothing, Hidden, Nothing>>, metadata |-> Nothing]>>

\* boundaryMatcher.find drops a match that touches before it counts it
find(rule, value, limit) ==
    LET all == IF rule \in BoundaryRules THEN Kept(LAMBDA m : ~m.touches, value.matches[rule])
               ELSE value.matches[rule]
    IN  SubSeq(all, 1, Min({limit, Len(all)}))

\* sort.Slice by start, then by end
Before(a, b) == a.start < b.start \/ (a.start = b.start /\ a.end < b.end)
sortRanges(ranges) ==
    LET order == CHOOSE p \in [DOMAIN ranges -> DOMAIN ranges] :
            /\ \A k \in DOMAIN ranges : \E i \in DOMAIN ranges : p[i] = k
            /\ \A i, j \in DOMAIN ranges : i < j => ~Before(ranges[p[j]], ranges[p[i]])
    IN  [i \in DOMAIN ranges |-> ranges[order[i]]]

\* Mutation: a range that ends inside the last one shortens it.
mergeTakesLast(merged, m) ==
    IF merged # <<>> /\ m.start <= Last(merged).end
      THEN [merged EXCEPT ![Len(merged)].end = m.end]
      ELSE Append(merged, m)

mergeRange(merged, m) ==
    IF merged # <<>> /\ m.start <= Last(merged).end
      THEN [merged EXCEPT ![Len(merged)].end = Max({@, m.end})]
      ELSE Append(merged, m)

mergeRanges(ranges) == Loop(mergeRange, <<>>, sortRanges(ranges))

\* The matches of all rules, or a state when they exceed the field's budget
collectRule(value, acc, rule) ==
    LET remaining == RedactLimit.matches - Len(acc.ranges)
        found == find(rule, value, IF remaining < value.length THEN remaining + 1 ELSE value.length)
    IN  IF acc.state = "unsafe" \/ Len(found) > remaining
          THEN [acc EXCEPT !.state = "unsafe"]
          ELSE [acc EXCEPT !.ranges = @ \o found]

collect(value) ==
    Loop(LAMBDA acc, rule : collectRule(value, acc, rule), [state |-> "unchanged", ranges |-> <<>>],
         [i \in DOMAIN value.matches |-> i])

\* The text up to a range, and the placeholder for it
Positions(from, to) == [i \in 1 .. to - from |-> from + i - 1]
cutRange(acc, m) == [text |-> acc.text \o Positions(acc.position, m.start) \o Hidden,
                     position |-> m.end]

\* scanScalar; the polls of the context are the phases' own
scanScalar(value) ==
    LET found == collect(value)
        cut == Loop(cutRange, [text |-> <<>>, position |-> 0], mergeRanges(found.ranges))
    IN  CASE value.placeholder -> [text |-> Whole(value), state |-> "unchanged"]
          [] ~value.placeholder /\ (value.length > RedactLimit.field \/ ~value.utf8)
                -> [text |-> Hidden, state |-> "unsafe"]
          [] OTHER ->
                CASE found.state = "unsafe" -> [text |-> Hidden, state |-> "unsafe"]
                  [] found.state # "unsafe" /\ found.ranges = <<>>
                        -> [text |-> Whole(value), state |-> "unchanged"]
                  [] OTHER -> [text |-> cut.text \o Positions(cut.position, value.length),
                               state |-> "changed"]

\* scanStructured: a node the walker does not accept hides the whole document,
\* and so does a key that holds a match; strings are replaced in place.  A text
\* over MaxStructuredBytes, or one json.Valid rejects, is a single broken node.
NodeUnsafe(doc, i) ==
    LET node == doc[i] IN
    \/ node.role # "key" /\ node.depth > RedactLimit.depth
    \/ i > RedactLimit.nodes
    \/ node.role = "broken"
    \/ node.role = "key" /\ scanScalar(node.value).state # "unchanged"

scanStructured(doc) ==
    IF \E i \in DOMAIN doc : NodeUnsafe(doc, i) THEN structuredPlaceholder
    ELSE [i \in DOMAIN doc |->
             IF doc[i].role \in {"key", "string"} THEN scanScalar(doc[i].value).text ELSE Nothing]

\* scanMetadata: entries <<key, value>>
scanMetadata(entries) ==
    IF \/ Len(entries) > RedactLimit.entries
       \/ \E i \in DOMAIN entries : scanScalar(entries[i][1]).state # "unchanged"
      THEN metadataPlaceholder
      ELSE [i \in DOMAIN entries |-> <<Whole(entries[i][1]), scanScalar(entries[i][2]).text>>]

\* scanAttachments: ID, MIMEType, Name and URL, then the attachment's metadata
scanAttachments(list) ==
    IF Len(list) > RedactLimit.attachments THEN attachmentPlaceholder
    ELSE [i \in DOMAIN list |->
             [fields |-> [f \in DOMAIN list[i].fields |-> scanScalar(list[i].fields[f]).text],
              metadata |-> scanMetadata(list[i].metadata)]]

fullyPlaceholderized(input) ==
    LET Unless(part, hidden) == IF part = Nothing THEN Nothing ELSE hidden
    IN  [output |-> Hidden,
         structured |-> Unless(input.structured, structuredPlaceholder),
         metadata |-> Unless(input.metadata, metadataPlaceholder),
         attachments |-> Unless(input.attachments, attachmentPlaceholder)]
-----------------------------------------------------------------------------
NoOutput == [output |-> Nothing, structured |-> Nothing,
             metadata |-> Nothing, attachments |-> Nothing]
RedactionIdle == [pc |-> "idle", input |-> <<>>, output |-> NoOutput, gaveUp |-> FALSE]

RedactionArrives(input) ==
    redaction' = [RedactionIdle EXCEPT !.pc = "enter", !.input = input]

GiveUp == redaction' = [redaction EXCEPT !.pc = "result", !.gaveUp = TRUE,
                            !.output = fullyPlaceholderized(redaction.input)]

\* registerPolicy: an excluded tool's result is passed on as it is.
RedactExcluded ==
    /\ redaction.pc = "enter" /\ redaction.input.excluded
    /\ redaction' = [redaction EXCEPT !.pc = "done"]

\* One phase of redactChecked: it gives up when the context has ended.
Phase(pc, next, part, value) ==
    /\ redaction.pc = pc /\ ~redaction.input.excluded
    /\ IF ended THEN GiveUp
       ELSE redaction' = [redaction EXCEPT !.pc = next, !.output[part] = value]

RedactOutput ==
    Phase("enter", "structured", "output", scanScalar(redaction.input.output).text)
RedactStructured ==
    Phase("structured", "metadata", "structured", scanStructured(redaction.input.structured))
RedactMetadata ==
    Phase("metadata", "attachments", "metadata", scanMetadata(redaction.input.metadata))
RedactAttachments ==
    Phase("attachments", "last", "attachments",
          scanAttachments(redaction.input.attachments))

\* Mutation: what was scanned before the context ended is returned.
RedactReturnKeeps ==
    /\ redaction.pc = "last"
    /\ redaction' = [redaction EXCEPT !.pc = "result", !.gaveUp = ended]

\* The last look at the context
RedactReturn ==
    /\ redaction.pc = "last"
    /\ IF ended THEN GiveUp ELSE redaction' = [redaction EXCEPT !.pc = "result"]

\* A panic anywhere in redactChecked
RedactPanic ==
    /\ redaction.pc \in {"enter", "structured", "metadata", "attachments", "last"}
    /\ ~redaction.input.excluded
    /\ GiveUp

RedactionDone == redaction.pc = "result" /\ redaction' = [RedactionIdle EXCEPT !.pc = "done"]

RedactionNext ==
    \/ RedactExcluded \/ RedactOutput \/ RedactStructured \/ RedactMetadata
    \/ RedactAttachments \/ RedactReturn \/ RedactPanic \/ RedactionDone

\* The stage alone: a turn hands it a result, and may end at any time.
RedactionSpec ==
    /\ redaction = RedactionIdle
    /\ [][\/ RedactionNext \/ redaction' = RedactionIdle
          \/ \E in \in RedactInputs : RedactionArrives(in)]_redaction
-----------------------------------------------------------------------------
(* What a text must become, byte by byte                                    *)

\* A match counts unless its rule looks at the bytes next to it and finds a longer word.
Counts(rule, m) == rule \in BoundaryRules => ~m.touches

MatchCount(value) ==
    Total([rule \in DOMAIN value.matches |->
              Cardinality({i \in DOMAIN value.matches[rule] : Counts(rule, value.matches[rule][i])})])

Covered(value, p) ==
    \E rule \in DOMAIN value.matches : \E i \in DOMAIN value.matches[rule] :
        LET m == value.matches[rule][i] IN Counts(rule, m) /\ m.start <= p /\ p < m.end

\* Kept bytes in order, one placeholder for every run of covered ones
WithByte(value, text, p) ==
    IF ~Covered(value, p) THEN Append(text, p)
    ELSE IF text # <<>> /\ Last(text) = Placeholder THEN text
    ELSE Append(text, Placeholder)
Exact(value) == Loop(LAMBDA text, p : WithByte(value, text, p), <<>>, Whole(value))

Expected(value) ==
    CASE value.placeholder -> Whole(value)
      [] ~value.placeholder /\ \/ value.length > RedactLimit.field \/ ~value.utf8
                               \/ MatchCount(value) > RedactLimit.matches
            -> Hidden
      [] OTHER -> Exact(value)

Clean(value) == Expected(value) = Whole(value)

ExpectedEntries(entries, got) ==
    IF Len(entries) > RedactLimit.entries \/ \E i \in DOMAIN entries : ~Clean(entries[i][1])
      THEN got = metadataPlaceholder
      ELSE got = [i \in DOMAIN entries |-> <<Whole(entries[i][1]), Expected(entries[i][2])>>]

\* RedactionIsExact: a result leaves the redactor with every byte of every match
\* gone and every other byte kept in its order, a text, document or list that
\* cannot be scanned within its limits hidden whole, and, when the context ends
\* or a scan panics at any phase, nothing of the input left
\* (redact.go:53-219, json.go:26-105, patterns.go:107-131).
RedactionIsExact ==
    LET in == redaction.input
        out == redaction.output
    IN  redaction.pc = "result" =>
        IF redaction.gaveUp THEN out = fullyPlaceholderized(in)
        ELSE /\ out.output = Expected(in.output)
             /\ IF \E i \in DOMAIN in.structured :
                      \/ in.structured[i].role = "broken" \/ i > RedactLimit.nodes
                      \/ in.structured[i].role = "key" /\ ~Clean(in.structured[i].value)
                      \/ /\ in.structured[i].role # "key"
                         /\ in.structured[i].depth > RedactLimit.depth
                  THEN out.structured = structuredPlaceholder
                  ELSE /\ Len(out.structured) = Len(in.structured)
                       /\ \A i \in DOMAIN in.structured :
                             in.structured[i].role \in {"key", "string"} =>
                                 out.structured[i] = Expected(in.structured[i].value)
             /\ ExpectedEntries(in.metadata, out.metadata)
             /\ IF Len(in.attachments) > RedactLimit.attachments
                  THEN out.attachments = attachmentPlaceholder
                  ELSE \A i \in DOMAIN in.attachments :
                          /\ \A f \in DOMAIN in.attachments[i].fields :
                                out.attachments[i].fields[f]
                                    = Expected(in.attachments[i].fields[f])
                          /\ ExpectedEntries(in.attachments[i].metadata,
                                             out.attachments[i].metadata)
=============================================================================
