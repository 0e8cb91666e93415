------------------------- MODULE InstructionDiscovery -------------------------
(***************************************************************************)
(* workspaceinstructions: the walk over the candidate files of a workspace *)
(* and the section it renders, while the directories may change under it.  *)
(*                                                                         *)
(* A directory entry is absent, a file, a link to any file, one that has   *)
(* no name of its own in the workspace included, or something else (a      *)
(* directory, a device).  Files are told apart as os.SameFile does.        *)
(* Contents are sequences of runes [width, kind]; a rune of kind bad is a  *)
(* byte that is not UTF-8.  What an entry holds before the walk looks at   *)
(* it is the environment's choice.                                         *)
(***************************************************************************)
EXTENDS AgentContext, Loops, FiniteSetsExt, SequencesExt

CONSTANTS
    Contents,         \* file -> its content
    LinkTargets,      \* the files only links lead to
    FileNames,        \* escaped lengths of the configured names, in their order
    Layout,           \* lengths: open, close, omitted, frame, truncated, parent, here
    SectionLimits,    \* Limits a host configures: [chain, file, section]
    SectionCeiling    \* maxSectionBytes

\* What validateFileNames and validateLimits require, and that "./" is no longer
\* than "../" (displayPath).
ASSUME SectionAssumption ==
    /\ FileNames \in Seq(Nat) /\ FileNames # <<>> /\ SectionCeiling \in Nat
    /\ SectionLimits \subseteq [chain : Nat \ {0}, file : Nat \ {0}, section : Nat \ {0}]
    /\ Layout \in [{"open", "close", "omitted", "frame", "truncated", "parent", "here"} -> Nat]
    /\ Layout.here <= Layout.parent

Runes == [width : Nat, kind : STRING]

\* Files have contents, and none of them is called NoFile.
ASSUME ContentsAssumption ==
    /\ \A f \in DOMAIN Contents : Contents[f] \in Seq(Runes)
    /\ LinkTargets \subseteq DOMAIN Contents
    /\ "none" \notin DOMAIN Contents

VARIABLE prompt       \* [pc, limits, chain, at, entry, info, read, sink, offered, result]

Entry(kind, file) == [kind |-> kind, file |-> file]
NoFile == "none"
Entries == {Entry("absent", NoFile), Entry("other", NoFile)}
           \cup {Entry("file", f) : f \in DOMAIN Contents \ LinkTargets}
           \cup {Entry("link", f) : f \in DOMAIN Contents}
-----------------------------------------------------------------------------
(* admitContent                                                             *)

\* The bytes of the first 0, 1, ... runes
Widths(runes) == Totals([i \in DOMAIN runes |-> runes[i].width])
Width(runes) == Widths(runes)[Len(runes)]
Holds(runes, kind) == \E i \in DOMAIN runes : runes[i].kind = kind

\* TrimRightFunc(unicode.IsSpace)
trimRight(runes) ==
    SubSeq(runes, 1, Max({0} \cup {i \in DOMAIN runes : runes[i].kind # "space"}))

\* [bytes, truncated], or no bytes when the file is not admitted.  A cut may go
\* back at most three bytes to the end of a rune.
admitContent(runes, maxBytes) ==
    LET truncated == Width(runes) > maxBytes
        length == Min({Width(runes), maxBytes})
        ends == {n \in 0 .. Len(runes) :
                    /\ Widths(runes)[n] \in Max({0, length - 3}) .. length
                    /\ ~Holds(SubSeq(runes, 1, n), "bad")}
        valid == {n \in ends : truncated \/ Widths(runes)[n] = length}
        data == SubSeq(runes, 1, Max(valid \cup {0}))
    IN  [bytes |-> IF valid = {} \/ Holds(data, "nul") THEN 0 ELSE Width(trimRight(data)),
         truncated |-> truncated]
-----------------------------------------------------------------------------
(* displayPath, renderedFileSize, minimumSectionBytes and validateLimits    *)

displayPath(chainLength, index, name) ==
    FileNames[name] + IF index = chainLength THEN Layout.here
                      ELSE Layout.parent * (chainLength - index)

renderedFileSize(display, contentBytes, truncated) ==
    Layout.frame + display + contentBytes + IF truncated THEN Layout.truncated ELSE 0

\* Mutation: no room is left for the marker of omitted files.
minimumWithoutMarker(limits) ==
    LET maximumDisplay == Max({displayPath(limits.chain, 1, n) : n \in DOMAIN FileNames})
    IN  Layout.open + renderedFileSize(maximumDisplay, limits.file, TRUE) + Layout.close

minimumSectionBytes(limits) ==
    LET maximumDisplay == Max({displayPath(limits.chain, 1, n) : n \in DOMAIN FileNames})
    IN  Layout.open + renderedFileSize(maximumDisplay, limits.file, TRUE)
        + Layout.omitted + Layout.close

validSectionLimits(limits) ==
    limits.section \in minimumSectionBytes(limits) .. SectionCeiling
-----------------------------------------------------------------------------
(* sectionSink                                                              *)

newSectionSink == [length |-> 0, checkpoints |-> <<>>, shown |-> <<>>,
                   started |-> FALSE, omitted |-> FALSE]

\* add: a file that does not fit ends the section, and rolls back whole files
\* until the marker fits.
add(sink, limit, file) ==
    LET length == IF sink.started THEN sink.length ELSE Layout.open
        size == renderedFileSize(file.display, file.bytes, file.truncated)
        markerBudget == limit - Layout.omitted - Layout.close
        ends == Append(sink.checkpoints, length)
        kept == Max({0} \cup {k \in 0 .. Len(sink.checkpoints) : ends[k + 1] <= markerBudget})
    IN  IF length + size + Layout.close <= limit
          THEN [sink EXCEPT !.started = TRUE, !.length = length + size,
                            !.checkpoints = ends, !.shown = Append(@, file)]
          ELSE [sink EXCEPT !.started = TRUE, !.omitted = TRUE, !.length = ends[kept + 1],
                            !.checkpoints = SubSeq(@, 1, kept),
                            !.shown = SubSeq(@, 1, kept)]

\* finish: the length of the section, 0 when there is none
finish(sink) ==
    IF ~sink.started THEN 0
    ELSE sink.length + Layout.close + IF sink.omitted THEN Layout.omitted ELSE 0
-----------------------------------------------------------------------------
PromptIdle == [pc |-> "idle", limits |-> <<>>, chain |-> 0, at |-> 0,
               entry |-> Entry("absent", NoFile), info |-> NoFile, read |-> NoFile,
               sink |-> newSectionSink, offered |-> <<>>, result |-> "none"]

PromptFails(error) ==
    prompt' = [PromptIdle EXCEPT !.pc = "failed", !.result = error]

\* Mount, then callResolver and resolveWorkspace: an error, nothing to show, or
\* the chain of directories from the boundary to the root.
PromptResolve(limits, chain) ==
    /\ prompt.pc = "resolve"
    /\ IF ~validSectionLimits(limits) \/ chain > limits.chain
         THEN PromptFails("refused")
         ELSE prompt' = [prompt EXCEPT !.pc = "boundary", !.limits = limits, !.chain = chain]

PromptUntrusted == prompt.pc = "resolve" /\ PromptFails("empty")

\* openBoundary: the directory may be gone or another one by now.
OpenBoundary ==
    /\ prompt.pc = "boundary"
    /\ prompt' = [prompt EXCEPT !.pc = "lstat", !.at = 1]

OpenBoundaryFails == prompt.pc = "boundary" /\ PromptFails("boundary")

Exhausted == prompt.at > prompt.chain * Len(FileNames)
Skip == [prompt EXCEPT !.pc = "lstat", !.at = @ + 1, !.info = NoFile, !.read = NoFile,
                       !.entry = Entry("absent", NoFile)]

\* The first Lstat of the next candidate
Lstat(entry) ==
    /\ prompt.pc = "lstat" /\ ~Exhausted
    /\ CASE ended -> PromptFails("canceled")
         [] ~ended /\ entry.kind # "file" -> prompt' = Skip
         [] OTHER -> prompt' = [prompt EXCEPT !.pc = "open", !.entry = entry,
                                              !.info = entry.file]

\* The entry is replaced while the candidate is examined.
Swap(entry) ==
    /\ prompt.pc \in {"open", "confirm"}
    /\ entry # prompt.entry
    /\ prompt' = [prompt EXCEPT !.entry = entry]

\* defaultReadCandidate: Open follows links; what is not regular yields an empty
\* read without an error, so the candidate still reaches the confirmation.
ReadCandidate ==
    /\ prompt.pc = "open"
    /\ CASE ended -> PromptFails("canceled")
         [] ~ended /\ prompt.entry.kind = "absent" -> prompt' = Skip
         [] OTHER -> prompt' = [prompt EXCEPT !.pc = "confirm", !.read = prompt.entry.file]

ReadFails ==
    /\ prompt.pc = "open"
    /\ IF ended THEN PromptFails("canceled") ELSE prompt' = Skip

Visit(file) ==
    LET sink == add(prompt.sink, prompt.limits.section, file)
    IN  prompt' = [Skip EXCEPT !.sink = sink, !.offered = Append(@, file),
                               !.pc = IF sink.omitted THEN "finish" ELSE "lstat"]

\* Mutation: the two Lstat results are compared, not what was read.
SameEntry == prompt.info = prompt.entry.file

\* os.SameFile: the entry, what it was first and what was read are one file.
SameFile == prompt.info = prompt.read /\ prompt.read = prompt.entry.file

\* The second Lstat
Confirm ==
    /\ prompt.pc = "confirm"
    /\ LET admitted == admitContent(Contents[prompt.read], prompt.limits.file)
           index == ((prompt.at - 1) \div Len(FileNames)) + 1
           name == ((prompt.at - 1) % Len(FileNames)) + 1
       IN  IF \/ prompt.entry.kind # "file" \/ prompt.read = NoFile \/ ~SameFile
              \/ admitted.bytes = 0
             THEN prompt' = Skip
             ELSE Visit([file |-> prompt.read, bytes |-> admitted.bytes,
                         truncated |-> admitted.truncated,
                         display |-> displayPath(prompt.chain, index, name)])

RenderSection ==
    /\ prompt.pc = "finish" \/ (prompt.pc = "lstat" /\ Exhausted)
    /\ prompt' = [prompt EXCEPT !.pc = "section",
                                !.result = IF prompt.sink.started THEN "section" ELSE "empty"]

PromptDone == prompt.pc \in {"section", "failed"} /\ prompt' = [PromptIdle EXCEPT !.pc = "done"]

PromptNext ==
    \/ \E limits \in SectionLimits : \E chain \in 1 .. limits.chain + 1 :
           PromptResolve(limits, chain)
    \/ PromptUntrusted \/ OpenBoundary \/ OpenBoundaryFails
    \/ \E entry \in Entries : Lstat(entry) \/ Swap(entry)
    \/ ReadCandidate \/ ReadFails \/ Confirm \/ RenderSection \/ PromptDone

\* The stage alone: what a turn does with it, whatever else happens in between.
PromptSpec ==
    /\ prompt = [PromptIdle EXCEPT !.pc = "resolve"]
    /\ [][PromptNext \/ prompt' = PromptIdle]_prompt
-----------------------------------------------------------------------------
\* SectionIsWhole: a rendered section fits its limit with all of its tags, shows
\* whole files, the first ones that were admitted and at least one of them, and
\* says that files were omitted exactly when an admitted file is not shown
\* (render.go:35-69, config.go:206).
SectionIsWhole ==
    prompt.pc = "section" =>
        /\ finish(prompt.sink) <= prompt.limits.section
        /\ IsPrefix(prompt.sink.shown, prompt.offered)
        /\ prompt.sink.omitted <=> prompt.sink.shown # prompt.offered
        /\ prompt.offered # <<>> => prompt.sink.shown # <<>>
        /\ prompt.result = "section" <=> prompt.offered # <<>>

\* OnlyStandingFilesAreShown: however directory entries are replaced between the
\* two Lstat calls, by files or by links, no file is shown that only links lead to:
\* a file read through a link is shown only when it is the very file that stood
\* under the name before and after (discover.go:34-52, reader.go:33-35).
OnlyStandingFilesAreShown ==
    \A i \in DOMAIN prompt.sink.shown : prompt.sink.shown[i].file \notin LinkTargets
=============================================================================
