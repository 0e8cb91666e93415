------------------------------ MODULE OutputTail ------------------------------
(***************************************************************************)
(* backgroundjobs: tailWriter, the ring buffer that keeps the last bytes   *)
(* of a job's output.  The bytes a job writes are numbered 1, 2, ..., so   *)
(* what the buffer holds tells which ones were kept; 0 is a byte of the    *)
(* freshly made buffer.  Every operation runs under the writer's mutex.    *)
(***************************************************************************)
EXTENDS AgentContext, FiniteSetsExt

CONSTANTS
    TailLimit,     \* len(buffer)
    MaxOutput      \* bound: bytes a job writes

ASSUME TailAssumption == TailLimit \in Nat \ {0} /\ MaxOutput \in Nat

VARIABLE tail      \* [pc, buffer, start, length, truncated; written and marked: history]

newTailWriter ==
    [pc |-> "open", buffer |-> [i \in 0 .. TailLimit - 1 |-> 0], start |-> 0,
     length |-> 0, truncated |-> FALSE, written |-> 0, marked |-> FALSE]

TailIdle == [newTailWriter EXCEPT !.pc = "idle"]

\* copy(buffer[at:], data)
copy(buffer, at, data) ==
    [i \in DOMAIN buffer |-> IF i - at + 1 \in DOMAIN data THEN data[i - at + 1] ELSE buffer[i]]

\* Mutation: a chunk of exactly the buffer's size counts as not truncating.
WriteFull(data) ==
    tail' = [tail EXCEPT
                !.truncated = @ \/ Len(data) > TailLimit,
                !.buffer = copy(@, 0, SubSeq(data, Len(data) - TailLimit + 1, Len(data))),
                !.start = 0, !.length = TailLimit, !.written = @ + Len(data)]

\* Write, a chunk that fills the buffer
WriteLarge(data) ==
    tail' = [tail EXCEPT
                !.truncated = @ \/ Len(data) > TailLimit \/ tail.length > 0,
                !.buffer = copy(@, 0, SubSeq(data, Len(data) - TailLimit + 1, Len(data))),
                !.start = 0, !.length = TailLimit, !.written = @ + Len(data)]

\* Write, a smaller chunk: the oldest bytes make room for it
WriteSmall(data) ==
    LET discard == Max({0, tail.length + Len(data) - TailLimit})
        start == (tail.start + discard) % TailLimit
        end == (start + tail.length - discard) % TailLimit
        first == Min({Len(data), TailLimit - end})
    IN  tail' = [tail EXCEPT
                    !.truncated = @ \/ discard > 0, !.start = start,
                    !.buffer = copy(copy(@, end, SubSeq(data, 1, first)),
                                    0, SubSeq(data, first + 1, Len(data))),
                    !.length = @ - discard + Len(data), !.written = @ + Len(data)]

Write(n) ==
    LET data == [i \in 1 .. n |-> tail.written + i]
    IN  /\ tail.pc = "open"
        /\ tail.written + n <= MaxOutput
        /\ IF n >= TailLimit THEN WriteLarge(data) ELSE WriteSmall(data)

\* The supervisor stopped draining: output may be missing.
markTruncated ==
    /\ tail.pc = "open" /\ ~tail.marked
    /\ tail' = [tail EXCEPT !.truncated = TRUE, !.marked = TRUE]

\* snapshot, before invalid UTF-8 is replaced
snapshot ==
    LET first == Min({tail.length, TailLimit - tail.start})
    IN  [i \in 1 .. tail.length |->
            IF i <= first THEN tail.buffer[tail.start + i - 1] ELSE tail.buffer[i - first - 1]]

TailCloses == tail.pc = "open" /\ tail' = [TailIdle EXCEPT !.pc = "done"]

TailNext == (\E n \in 0 .. MaxOutput : Write(n)) \/ markTruncated \/ TailCloses

\* The stage alone: any number of jobs, one after the other.
TailSpec == tail = TailIdle /\ [][TailNext \/ tail' \in {newTailWriter, TailIdle}]_tail
-----------------------------------------------------------------------------
\* TailIsSuffix: whatever chunks the output arrives in, a snapshot is its last
\* bytes, as many as fit and in order, and it is flagged as truncated exactly
\* when a byte was dropped or may have been lost (tail.go:21-69).
TailIsSuffix ==
    LET kept == Min({TailLimit, tail.written})
    IN  /\ tail.length = kept
        /\ snapshot = [i \in 1 .. kept |-> tail.written - kept + i]
        /\ tail.truncated <=> tail.marked \/ tail.written > TailLimit
=============================================================================
