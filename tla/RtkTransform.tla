----------------------------- MODULE RtkTransform -----------------------------
(***************************************************************************)
(* rtkreducer: the transform of one tool result.  The fields a binding     *)
(* names are handed to the process lane one by one; what comes back is     *)
(* patched into the result's JSON, or the original result is kept.         *)
(*                                                                         *)
(* The strings of a document are records [id, size, encoded, clean]: the   *)
(* bytes of the text and of its JSON token, and whether it is UTF-8        *)
(* without NUL.  Of a reduction only UTF-8 is asked (field utf8), a NUL in *)
(* it goes through.  A document's length is the sum of its tokens'.        *)
(***************************************************************************)
EXTENDS AgentContext, JsonDocument, Loops, SequencesExt

CONSTANTS
    ReduceRequests,   \* [mode, fields, match, input, output, structured, mirrors, status]
    ReduceOutputs,    \* what the lane answers: texts with ok, and same: its input
    ReduceLimit,      \* Limits: jsonDepth, jsonNodes, input, field, result
    MarkerBytes       \* len(reductionMarker)

Strings == [id : STRING, size : Nat, encoded : Nat, clean : BOOLEAN]
Tokens == [role : {"key", "object", "array", "string", "number", "broken"}, depth : Nat,
           owner : Nat, name : STRING, value : Strings]

\* A binding names no field twice (config.go:247-258), one in text mode.
ASSUME ReduceAssumption ==
    /\ MarkerBytes \in Nat
    /\ ReduceOutputs \subseteq [ok : BOOLEAN, id : STRING, size : Nat, encoded : Nat,
                                clean : BOOLEAN, utf8 : BOOLEAN, same : BOOLEAN]
    /\ \A r \in ReduceRequests :
          /\ r.mode \in {"none", "text", "json"} /\ r.structured \in Seq(Tokens)
          /\ r.mode = "text" => r.output \in Strings
          /\ r.fields \in Seq(STRING)
          /\ \A i, j \in DOMAIN r.fields : i # j => r.fields[i] # r.fields[j]

VARIABLE reduction    \* [pc, request, at, replacements, structured, output, changed]

TokenSize(node) == IF node.role = "string" THEN node.value.encoded ELSE 1
Length(doc) == Total([i \in DOMAIN doc |-> TokenSize(doc[i])])

\* scanObjectStrings: the first-level strings asked for, or nothing at all
NodeAdmitted(doc, i, requested) ==
    LET node == doc[i] IN
    /\ node.role # "key" => node.depth <= ReduceLimit.jsonDepth
    /\ i <= ReduceLimit.jsonNodes
    /\ node.role # "broken"
    /\ i = 1 => node.role = "object"
    /\ node.role = "key" => ~Repeated(doc, i)
    /\ (\E name \in requested : IsField(doc, i, name)) => node.role = "string"

Scanned(doc, requested) == doc # <<>> /\ \A i \in DOMAIN doc : NodeAdmitted(doc, i, requested)
Span(doc, name) == FirstAt(doc, LAMBDA i : IsField(doc, i, name))

\* match: the input field and the values that select the call, or none
matchesInput(input, match) ==
    /\ Length(input) <= ReduceLimit.input /\ Scanned(input, {match.field})
    /\ Span(input, match.field) <= Len(input)
    /\ input[Span(input, match.field)].value.id \in match.equals

boundedCombinedSize(left, right) == left + right <= ReduceLimit.result

Selectable(text) == text.size <= ReduceLimit.field /\ text.clean

\* The text with its marker must be shorter than what it replaces.
Shorter(text, reduced) == MarkerBytes + reduced.size < text.size

Marked(text, reduced) ==
    [id |-> <<text.id, reduced.id>>, size |-> MarkerBytes + reduced.size,
     encoded |-> MarkerBytes + 1 + reduced.encoded, clean |-> reduced.clean]

Useless(reduced) == ~reduced.ok \/ reduced.size = 0 \/ ~reduced.utf8
-----------------------------------------------------------------------------
ReductionIdle == [pc |-> "idle", request |-> <<>>, at |-> 0, replacements |-> <<>>,
                  structured |-> <<>>, output |-> <<>>, changed |-> FALSE]

ReductionArrives(request) ==
    reduction' = [ReductionIdle EXCEPT !.pc = "enter", !.request = request,
                      !.structured = request.structured, !.output = request.output]

Original == reduction' = [reduction EXCEPT !.pc = "result"]

\* The checks before the lane is asked for a slot.  mode none: no binding.
TransformEnter ==
    LET r == reduction.request IN
    /\ reduction.pc = "enter"
    /\ IF \/ r.mode = "none" \/ ended \/ r.status # ""
          \/ r.match.field # "" /\ ~matchesInput(r.input, r.match)
         THEN Original
         ELSE reduction' = [reduction EXCEPT !.pc = "acquire"]

Transformable(r) ==
    IF r.mode = "text"
      THEN r.structured = <<>> /\ Len(r.fields) = 1 /\ Selectable(r.output) /\ r.output.size > 0
      ELSE /\ r.structured # <<>> /\ r.mirrors
           /\ Scanned(r.structured, Range(r.fields))
           /\ \A i \in DOMAIN r.fields :
                 /\ Span(r.structured, r.fields[i]) <= Len(r.structured)
                 /\ Selectable(r.structured[Span(r.structured, r.fields[i])].value)

\* Bytes of Output and Structured; a mirrored result counts twice.
ResultBytes(r) == IF r.mode = "text" THEN r.output.size ELSE 2 * Length(r.structured)

TransformAcquire ==
    LET r == reduction.request IN
    /\ reduction.pc = "acquire"
    /\ IF ended \/ ResultBytes(r) > ReduceLimit.result \/ ~Transformable(r)
         THEN Original
         ELSE reduction' = [reduction EXCEPT !.pc = r.mode, !.at = 1]

\* The lane is saturated or closed, or anything in it panics.
TransformGivesUp == reduction.pc \in {"acquire", "text", "json"} /\ Original

\* Mutation: the text is replaced by its reduction without the marker.
transformTextBare(reduced) ==
    /\ reduction.pc = "text"
    /\ IF Useless(reduced) \/ ~Shorter(reduction.request.output, reduced)
         THEN Original
         ELSE reduction' = [reduction EXCEPT !.pc = "result", !.changed = TRUE, !.output =
                  [id |-> reduced.id, size |-> reduced.size, encoded |-> reduced.encoded,
                   clean |-> reduced.clean]]

transformText(reduced) ==
    LET text == reduction.request.output IN
    /\ reduction.pc = "text"
    /\ IF \/ Useless(reduced) \/ reduced.same \/ ~Shorter(text, reduced)
          \/ ~boundedCombinedSize(Marked(text, reduced).size, 0)
         THEN Original
         ELSE reduction' = [reduction EXCEPT !.pc = "result", !.changed = TRUE,
                                             !.output = Marked(text, reduced)]

\* One field of transformJSON's second loop
transformField(reduced) ==
    LET r == reduction.request
        span == Span(r.structured, r.fields[reduction.at])
        text == r.structured[span].value
    IN  /\ reduction.pc = "json" /\ reduction.at <= Len(r.fields)
        /\ CASE text.size = 0 -> reduction' = [reduction EXCEPT !.at = @ + 1]
             [] text.size > 0 /\ Useless(reduced) -> Original
             [] OTHER ->
                reduction' = [reduction EXCEPT !.at = @ + 1, !.replacements =
                    IF \/ reduced.same \/ ~Shorter(text, reduced)
                       \/ Marked(text, reduced).encoded >= text.encoded
                      THEN @
                      ELSE Append(@, [at |-> span, value |-> Marked(text, reduced)])]

Replaced(doc, replacement) == [doc EXCEPT ![replacement.at].value = replacement.value]

CopyTo(raw, copied, r) ==
    [tokens |-> copied.tokens \o SubSeq(raw, copied.position, r.at - 1)
                \o <<Replaced(raw, r)[r.at]>>,
     position |-> r.at + 1]

\* The tokens of raw with the replacements in the order they are given
Spliced(raw, replacements) ==
    LET Step(copied, r) == CopyTo(raw, copied, r)
        last == Loop(Step, [tokens |-> <<>>, position |-> 1], replacements)
    IN  last.tokens \o SubSeq(raw, last.position, Len(raw))

\* sort.Slice by the start of the span; no two are of one span
Sorted(replacements) ==
    CHOOSE s \in [DOMAIN replacements -> Range(replacements)] :
        /\ Range(s) = Range(replacements)
        /\ \A i, j \in DOMAIN s : i < j => s[i].at < s[j].at

\* A replacement that starts before the end of the one before it
Overlaps(replacements) ==
    \E i \in 2 .. Len(replacements) : replacements[i].at < replacements[i - 1].at + 1

\* Mutation: replacements are copied in the order the binding names its fields.
patchUnordered(raw, replacements) == Spliced(raw, replacements)

\* The tokens between the replacements are copied, from the first to the last.
patch(raw, replacements) == Spliced(raw, Sorted(replacements))

transformJSON ==
    LET r == reduction.request
        patched == patch(r.structured, reduction.replacements)
    IN  /\ reduction.pc = "json" /\ reduction.at > Len(r.fields)
        /\ IF \/ reduction.replacements = <<>> \/ Overlaps(Sorted(reduction.replacements))
              \/ ~boundedCombinedSize(Length(patched), Length(patched))
             THEN Original
             ELSE reduction' = [reduction EXCEPT !.pc = "result", !.changed = TRUE,
                                    !.structured = patched, !.output = patched]

ReductionDone == reduction.pc = "result" /\ reduction' = [ReductionIdle EXCEPT !.pc = "done"]

ReductionNext ==
    \/ TransformEnter \/ TransformAcquire \/ TransformGivesUp \/ transformJSON
    \/ \E reduced \in ReduceOutputs : transformText(reduced) \/ transformField(reduced)
    \/ ReductionDone

\* The stage alone: a turn hands it a result, and takes its own.
ReductionSpec ==
    /\ reduction = ReductionIdle
    /\ [][\/ ReductionNext \/ reduction' = ReductionIdle
          \/ \E request \in ReduceRequests : ReductionArrives(request)]_reduction
-----------------------------------------------------------------------------
\* A token that took the place of another: the reduction of that very text
Reduces(new, old) ==
    /\ new.role = old.role /\ new.name = old.name /\ new.depth = old.depth /\ new.owner = old.owner
    /\ new.role = "string" /\ new.value.encoded < old.value.encoded
    /\ \E reduced \in ReduceOutputs : new.value = Marked(old.value, reduced)

\* ReductionIsFaithful: the transform returns the result as it was, or a shorter
\* one: a text that is the marked reduction of the text it replaces, or a document
\* in which only the fields of the binding changed, each to the marked reduction of
\* its own text, with every other token in its place and Output still mirroring
\* Structured.  What is returned in its place is within the limit (transform.go:84-189).
ReductionIsFaithful ==
    LET r == reduction.request IN
    reduction.pc = "result" =>
        IF ~reduction.changed
          THEN reduction.structured = r.structured /\ reduction.output = r.output
          ELSE CASE r.mode = "text" ->
                      /\ reduction.structured = <<>>
                      /\ \E reduced \in ReduceOutputs : reduction.output = Marked(r.output, reduced)
                      /\ reduction.output.size < r.output.size
                      /\ reduction.output.size <= ReduceLimit.result
                 [] r.mode = "json" ->
                      /\ reduction.output = reduction.structured
                      /\ Len(reduction.structured) = Len(r.structured)
                      /\ \A i \in DOMAIN r.structured :
                            \/ reduction.structured[i] = r.structured[i]
                            \/ /\ \E name \in Range(r.fields) : IsField(r.structured, i, name)
                               /\ Reduces(reduction.structured[i], r.structured[i])
                      /\ Length(reduction.structured) < Length(r.structured)
                      /\ 2 * Length(reduction.structured) <= ReduceLimit.result
=============================================================================
