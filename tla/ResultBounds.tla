----------------------------- MODULE ResultBounds -----------------------------
(***************************************************************************)
(* websearch: the limits a mount accepts, the retention it derives from    *)
(* them, and the sources of an answer cut down to those limits.            *)
(*                                                                         *)
(* A text is the sequence of its runes, each with its width in bytes and   *)
(* the bytes json.Marshal spends on it; a rune of no width stands for one  *)
(* byte that is not UTF-8.  int64 is an integer through MaxInt.            *)
(***************************************************************************)
EXTENDS AgentContext, Loops, FiniteSetsExt

CONSTANTS
    MaxInt,            \* math.MaxInt64
    Ceiling,           \* maxQueryBytes ... maxSnippetBytes, maxInFlight, as a record
    MinimumURL,        \* minimumURLBytes
    QueryEnvelope,     \* len(`{"query":""}`)
    EmptyResult,       \* bytes of a result without sources
    EmptySource,       \* bytes an empty source adds
    LimitChoices,      \* Limits a host configures
    Answers            \* what searchers return: sequences of [title, url, snippet]

\* json.Marshal spends at most six bytes on a byte of a text: \u00XX
Characters == {c \in [width : Nat, cost : Nat] : c.cost <= 6 * Max({1, c.width})}
Sources == [title : Seq(Characters), url : [ok : BOOLEAN, text : Seq(Characters)],
            snippet : Seq(Characters)]
LimitFields == {"query", "results", "title", "url", "snippet", "raw", "inFlight", "wait"}

ASSUME BoundsAssumption ==
    /\ MaxInt \in Nat /\ EmptyResult \in Nat \ {0} /\ EmptySource \in Nat
    /\ MinimumURL \in Nat /\ QueryEnvelope \in Nat
    /\ Ceiling \in [LimitFields -> Int]
    /\ LimitChoices \subseteq [LimitFields -> Int]
    /\ Answers \subseteq Seq(Sources)

VARIABLE answer        \* [pc, limits, retention, result]

AnswerIdle == [pc |-> "idle", limits |-> <<>>, retention |-> 0, result |-> <<>>]

Refuse == -1           \* the ok result is false

checkedAdd(left, right) ==
    IF left < 0 \/ right < 0 \/ left > MaxInt - right THEN Refuse ELSE left + right

\* Mutation: the product wraps around.
checkedMulWraps(left, right) ==
    IF left < 0 \/ right < 0 THEN Refuse ELSE (left * right) % (MaxInt + 1)

checkedMul(left, right) ==
    IF left < 0 \/ right < 0 \/ (left # 0 /\ right > MaxInt \div left)
      THEN Refuse ELSE left * right

\* Every refusal is negative, so the remaining operations refuse too.
worstCaseResultBytes(l) ==
    LET fieldBytes == checkedAdd(checkedAdd(l.title, l.url), l.snippet)
        perRecord == checkedAdd(EmptySource, checkedMul(fieldBytes, 6))
        recordsBytes == checkedMul(perRecord, l.results)
    IN  checkedAdd(checkedAdd(EmptyResult, recordsBytes), l.results - 1)

\* The limit that is refused first decides only which error is reported.
validateLimits(l) ==
    /\ \A f \in {"query", "results", "title", "snippet", "inFlight", "wait"} :
           l[f] \in 1 .. Ceiling[f]
    /\ l.url \in MinimumURL .. Ceiling.url
    /\ LET minimumRaw == checkedAdd(checkedMul(l.query, 6), QueryEnvelope)
       IN  minimumRaw # Refuse /\ l.raw \in minimumRaw .. Ceiling.raw

resultRetention(l) == checkedMul(worstCaseResultBytes(l), 2)

Sizes(text) == [i \in DOMAIN text |-> Max({1, text[i].width})]
Bytes(text) == Total(Sizes(text))
Bad(r) == r.width = 0

\* utf8Prefix: the first bytes, without the rune the cut splits and without
\* bytes that are not UTF-8.
utf8Prefix(text, maximum) ==
    LET fits == {n \in 0 .. Len(text) : Bytes(SubSeq(text, 1, n)) <= maximum}
    IN  Kept(LAMBDA r : ~Bad(r), SubSeq(text, 1, Max(fits)))

\* url.ok: an http or https URL with a host and no user information
validSourceURL(url, maximum) ==
    url.ok /\ Bytes(url.text) <= maximum /\ \A i \in DOMAIN url.text : ~Bad(url.text[i])

boundSources(records, l) ==
    LET Step(bounded, r) ==
            IF ~validSourceURL(r.url, l.url) THEN bounded
            ELSE Append(bounded, [title |-> utf8Prefix(r.title, l.title), url |-> r.url,
                                  snippet |-> utf8Prefix(r.snippet, l.snippet)])
    IN  Loop(Step, <<>>, SubSeq(records, 1, Min({Len(records), l.results})))

\* Mount with some limits: canonicalOptions
BoundsMount ==
    /\ answer.pc = "mount"
    /\ \E l \in LimitChoices :
          IF validateLimits(l) /\ resultRetention(l) # Refuse
            THEN answer' = [answer EXCEPT !.pc = "search", !.limits = l,
                                          !.retention = resultRetention(l)]
            ELSE answer' = [answer EXCEPT !.pc = "done"]

BoundsAnswer ==
    /\ answer.pc = "search"
    /\ \E records \in Answers :
          answer' = [answer EXCEPT !.pc = "bounded",
                                   !.result = boundSources(records, answer.limits)]

BoundsDone == answer.pc = "bounded" /\ answer' = [AnswerIdle EXCEPT !.pc = "done"]

BoundsNext ==
    BoundsMount \/ BoundsAnswer \/ BoundsDone

\* The stage alone: a turn starts a search, and drops its answer.
BoundsSpec ==
    /\ answer = AnswerIdle
    /\ [][BoundsNext \/ answer' \in {AnswerIdle, [AnswerIdle EXCEPT !.pc = "mount"]}]_answer
-----------------------------------------------------------------------------
Encoded(text) == Total([i \in DOMAIN text |-> text[i].cost])
EncodedSource(r) == EmptySource + Encoded(r.title) + Encoded(r.url.text) + Encoded(r.snippet)

\* json.Marshal of a result
EncodedResult(result) ==
    EmptyResult + Total([i \in DOMAIN result |-> EncodedSource(result[i])])
    + Max({0, Len(result) - 1})

\* ResultFitsRetention: limits that are accepted promise a retention that both
\* copies of every bounded answer fit, escaping, separators and the cut of a
\* split rune included, and the promise is no number that wrapped around
\* (bounds.go:60-109, config.go:203-218).
ResultFitsRetention ==
    answer.pc = "bounded" =>
        /\ 2 * EncodedResult(answer.result) <= answer.retention
        /\ answer.retention <= MaxInt
        /\ \A i \in DOMAIN answer.result :
               /\ Bytes(answer.result[i].title) <= answer.limits.title
               /\ Bytes(answer.result[i].snippet) <= answer.limits.snippet
=============================================================================
