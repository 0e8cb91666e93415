# A TLA+ verification of eino-agent-extensions

`eino-agent-extensions` is a Go library of tools that a host mounts into an
agent: user questions, delegated tasks, web search, workspace instructions,
background commands, a Python REPL, an output reducer, a command guard and a
redactor. Its hard part is not what the tools compute but how they stop:
callbacks of the host that ignore cancellation, processes that do not die,
deadlines that race with answers, and a `Close` that has to tell the truth about
what is left. This project models that part and the algorithms a call goes
through on its way (what instructions are shown, which commands are let through,
what is kept, reduced and hidden of a result), checks both with TLC, and proves
with TLAPS all but one of the safety properties that are checked: of the
coordinators, of the owners of processes and of the stages of a turn.

All line numbers refer to the source under `src/`. `PROJECT.json` maps every
definition to the lines it stands for and lists every property, its mutant and
the hazard it is there for.

## Inventory

| Component | State | Operations | What is hard |
|---|---|---|---|
| callback coordinators (`askuser`, `delegatetask`, `websearch`, `workspaceinstructions`: `coordinator.go`) | `live`, `closing`, the map of cancel functions, `quiescent` channel; per call a child context, a timer and an envelope or channel for the answer | `ask`/`run`/`search`, the callback goroutine, `acquire`, `release`, `Close` | the callback outlives its caller and keeps its slot; deadline, parent context, `Close` and the answer race; `Close` may be retried |
| background jobs (`backgroundjobs`) | registry of jobs and hidden jobs, `starting`, `running`, `closing`; per job state, cause, signal phase, current attempt, `reaped`, `done` | `start`, `kill`, status, list, timeout callback, status reader, reaper, termination coordinator, `Close` | five goroutines per job and an operating-system process; failing signals; eviction; a start that races with `Close` |
| Python REPL (`pythonrepl`) | owners, and per owner a FIFO gate, lifecycle context, environment, runner, generation, pending reset notice, quarantine | `execute`, `clear`, `Close`, termination goroutine | each step of making an environment, starting a supervisor, sending a request and terminating may fail or time out; lost state must be reported |
| output reducer (`rtkreducer`) | slot channel, `active`, root directory, left-over paths, `closing`, `closed`, `quarantined`; per callback a lease with `pending` and `released` | `transform`, `lease.reduce`, `processOwner.run`, `release`, `Close` | the reducer process outlives the callback; slot and lease are given back by whoever is last; directories that cannot be removed |
| command guard (`commandguard`) | a channel of permits; per call the counters of an analysis | `GuardTool`: `input`, `script`, the syntax walk, rules, wrappers, inline scripts | words whose value is not known, commands inside words, wrappers and scripts, budgets shared by all of them, permits on every way out |
| redactor (`toolresultredactor`) | the parts of one result | `redact`: output, structured, metadata, attachments | merging of matches, the match budget, cancellation and panics between parts |
| instruction discovery (`workspaceinstructions`) | the walk and the section sink of one prompt | resolution, `walkInstructionFiles`, `add`, `finish` | entries replaced under the walk, rollback of a section that is too long |
| reducer transform (`rtkreducer/transform.go`, `json.go`) | the replacements of one result | `transform`, `transformText`, `transformJSON` | patching tokens in place, all or nothing |
| result bounding (`websearch/bounds.go`), output tail (`backgroundjobs/tail.go`) | none; a ring buffer | `boundSources`, `worstCaseResultBytes`; `Write`, `snapshot` | worst-case sizes and overflow; wrap-around |
| mounting, options, input decoding, examples | none | validation | sequential |

The components do not call each other: a host mounts each one separately. The
runtime calls the tools from many goroutines and `Close` once; in one turn it
calls the prompt provider, then for each tool call the guard, the tool and the
transforms of its result, so what one extension leaves is what the next one
gets. They meet the outside through callbacks (`Responder`, `Runner`, `Searcher`), processes and
the file system. What has to hold of each:

- callback coordinators: at most `MaxInFlight` callbacks live, a slot is free
  only when its callback has exited, `Close` cancels every callback and says nil
  only when none is left, an answer is what a callback published in time, every
  call returns;
- background jobs: limits on running and tracked jobs, one verdict per job and
  only after its supervisor is reaped, one coordinator per group, `Close` leaves
  no process;
- Python REPL: one operation per owner, no process or directory out of sight,
  no second runner beside a live one, no silent loss of globals, `Close` leaves
  nothing;
- reducer: slots equal live leases, every directory is owned or remembered,
  every callback returns, `Close` is not left waiting and leaves nothing; a
  result is the original or differs only in the fields that were asked for;
- instructions: what is shown was a file of the workspace when it was read, and
  the section is whole and within its limit;
- guard: a call it lets through cannot run a command a rule forbids, and its work
  and its permits are bounded whatever way a call ends;
- redactor: no byte of a match is left and no other byte is lost, and a result
  that could not be scanned to the end is hidden;
- retained output is the end of what was written, and a bounded search result
  always fits the retention the tool asked for.

## Modules

| Module | Models | Built on |
|---|---|---|
| `CallbackPool` | abstract specification: what a callback coordinator promises | |
| `CoordinatorAdmission` | `acquire`, `release`, `Close` of the four coordinators | |
| `AskUser`, `AskUserResponse` | `askuser/coordinator.go` and its mapping of answers | `CoordinatorAdmission`, implements `CallbackPool` |
| `DelegateTask`, `DelegateTaskResponse` | `delegatetask/coordinator.go` and its mapping of answers | `AskUser` |
| `WebSearch` | `websearch/coordinator.go` | the same |
| `WorkspaceCoordinator` | `workspaceinstructions/coordinator.go` | the same |
| `BackgroundJobs` | `backgroundjobs/manager.go`, `job.go`, `supervisor.go`, `process.go` | |
| `PythonRepl` | `pythonrepl/manager.go`, `session.go`, `runner_unix.go`, `venv.go`, `venv_unix.go` | |
| `RtkReducer` | `rtkreducer/process.go` and the callback of `transform.go` | |
| `JsonDocument` | a JSON text as the three token walkers see it | |
| `Loops` | what a loop over a sequence computes: its states round by round, sums, the elements kept | |
| `InstructionDiscovery` | `workspaceinstructions/discover.go`, `render.go`, `reader.go`, `workspace.go` | `AgentContext`, `Loops` |
| `CommandAnalysis` | `commandguard/input.go`, `parser.go`, `syntax_policy.go`, `words.go`, `match.go`, `wrappers.go`, `wrapper_options.go`, `variables.go` | `JsonDocument`, `Loops` |
| `CommandGuard` | `commandguard/guard.go` | `CommandAnalysis`, `AgentContext` |
| `CommandMeaning` | what a shell could run for a command, stated without the analysis | `CommandGuard` |
| `OutputTail` | `backgroundjobs/tail.go` | `AgentContext` |
| `ResultBounds` | `websearch/bounds.go` and the limits of `config.go` | `AgentContext`, `Loops` |
| `RtkTransform` | `rtkreducer/transform.go`, `json.go` | `JsonDocument`, `Loops`, `AgentContext` |
| `Redaction` | `toolresultredactor/redact.go`, `json.go`, `patterns.go` | `JsonDocument`, `Loops`, `AgentContext` |
| `AgentTurn` | one turn through these extension points | the stages above |
| `CoordinatorAdmissionProofs` | proofs about the shared protocol | `CoordinatorAdmission`, TLAPS |
| `CallbackProofs`, `WebSearchProofs`, `WorkspaceCoordinatorProofs` | proofs about the coordinators | the component, `CoordinatorAdmissionProofs` |
| `BackgroundJobsProofs`, `PythonReplProofs`, `RtkReducerProofs` | proofs about the process owners | the component, TLAPS |
| `StageProofs` | proofs about the stages of a turn | `OutputTail`, `InstructionDiscovery`, `CommandGuard`, `ResultBounds`, `RtkTransform`, `Redaction`, TLAPS |
| `MC...` | instances for TLC | |

### How code becomes actions

An action is one critical section, one channel operation or `select`, or one
system call; what Go does between two of them cannot be observed by another
goroutine and is part of the step before it. Go contexts are sets of calls whose
context is done (`cancelled`, `ended`); a `select` with several ready cases is a
disjunction, so the model takes either. Clocks are not numbers: a deadline is a
step that may happen at any time (`Expire`), before or after any other timer, and
"completed before the deadline" is a fact recorded when the callback returns.

*Coordinators.* `acquire` and `release` are critical sections of `mu`. `Close`
takes two: `CloseEnter` sets `closing` and copies the cancel functions,
`CloseCancel` calls them one after the other, then it waits for `quiescent` or
its context. The callback goroutine is `Respond` (returns, stamps
`completedAt`), `Publish`, `Release`, `Exit`. The timer of an `ask` has one tick, and
who takes it (`ticked`) finds none on the next round of the loop. In `WebSearch` the
answer goes through a channel (the history variable `offered` holds the calls for which
an early answer lay there when the timer won), the result is encoded by the callback goroutine, and after a
timeout the caller waits for the child's own deadline (`AwaitChild`). In
`WorkspaceCoordinator` the first cause of the child context (deadline, parent,
`Close`, the caller's own cancel) is state, because `resultBefore` decides by
it. `delegatetask` runs the protocol of `askuser` statement by statement with
another `mapResponse`, a constant operator of `AskUser`; its further identity
checks end a call in the same way as the first.

*Background jobs.* `start` is a reservation, the spawn, the readiness handshake,
the gate check, the release of the command, publication and the timer; a failed
start ends with its own termination. The supervisor is the shell script of
`process.go`. `beginTermination` sets the cause once and starts or joins the one
coordinator, which sends TERM, waits, sends KILL and waits for the reaper.
`finishTerminal` is split where other goroutines can look: state set, slot given
back (`jobCompleted`), `done` closed.

*Python REPL.* The fields of an `ownerSession` belong to the holder of its gate,
so a holder's action is one blocking call. `Continue`, `CallThen` and `Fail` are
the returns of the Go functions: `removeVenv` and `finish` are called from five
places and go back to where `local[a].after` says. Ceilings such as
`VenvCreateTimeout` may pass at any time. The supervisor, Python and the
termination goroutine are processes of their own; a supervisor may die, signals,
spawns and removals may fail. `told` is a history variable: the generation and
the runner last reported to the agent.

*Reducer.* A callback and the owner goroutine of its current field share a
lease. Directories on disk (`dirs`, `rootDir`) are kept apart from what the
coordinator remembers (`paths`, `root`).

*The stages of a turn.* Each stage is one record variable with a program counter
`pc`; its actions are the places where the code looks at the context, at the disk
or at a shared channel, and the algorithms between them are operators.
`AgentTurn` runs the stages one after the other under one context that may end
between any two steps. A stage is reset when the next one begins: the stages
share no memory, so the number of states is the sum of the stages' and not their
product. For the same reason each stage gets every result of its input set and
not only those the stage before produced; properties are stated at the state in
which a stage has its answer.

- *Instructions.* An entry is looked at three times (`Lstat`, the open that
  follows links, `Lstat`); `Swap` replaces it in between. Replacing an entry the
  walk is not looking at is the choice of what `Lstat` finds there. A link
  may lead to a file of the workspace or to any other. The content of
  a file is fixed while it is read. Texts are runes with a width, so that a cut
  may fall inside one; tags and names are lengths.
- *Guard.* The shell parser belongs to a library: a script is the sequence of
  visits `syntax.Walk` makes of its tree, entering a node and leaving it, with
  what parsing says of it. Of the request's JSON, a closing bracket that is missing or
  wrong is kept apart (`unclosed`), because the guard does not count it as a node. `Lex` holds what the string functions conclude
  from a word. The polls of the context inside the analysis are left out, because
  `GuardTool` replaces what they return by the context's error. Other sessions take
  and give back permits at any time.
- *Tool output.* `OutputTail` keeps the ring buffer byte by byte; the repair of a
  rune the buffer's start cuts in half is left out. `ResultBounds` keeps integers
  within a width, so that `checkedAdd` and `checkedMul` can overflow.
- *Reducer.* A text is its size, the size of its JSON token and whether it is
  clean (UTF-8 without NUL). Of a reduction the code asks only that it is UTF-8, so one
  with a NUL goes through. The lane answers anything, also nothing, and may panic.
- *Redactor.* A text is its length and, per rule, the matches the expression
  finds. A `nil` and an empty container are not told apart. The context polls
  inside a part lead to what the poll at the part's end leads to.

## Runs

| Run | Instance | Shows |
|---|---|---|
| `callbacks` | 2 calls, 1 slot, 1 `Close`, `delegatetask`'s answers, callbacks that may hang | slots are exactly the admitted calls and running callbacks, so a caller that leaves does not free the slot of a callback that stays; `Close` cancels every callback it waits for and says nil only at rest; results are earned; `CallbackPool` is implemented; every admitted call returns; `Close` completes once no cancelled callback hangs |
| `askuser_early` | 1 call, every response of `askuser` | violation, see Findings |
| `websearch_safety` | 2 calls, 1 slot, 1 `Close` | the slot covers encoding; an answer completed in time wins over the timer, also when it lies in the channel as the timer wins the `select`; a timed-out call leaves the cancellation to the child's deadline; `CallbackPool` is implemented |
| `websearch_returns` | 1 call, 1 `Close` | every search returns, also through the `select` that has no timer |
| `workspace_safety` | 2 calls, 1 slot, 1 `Close` | what a caller is told agrees with the first cause, and the child's context error never leaks; `CallbackPool` is implemented |
| `jobs_races` | 1 job, a kill, a timeout, a retried `Close`, failing signals, a dying supervisor | one verdict that never changes, only after the reap; one coordinator per job; nothing left after `Close` |
| `jobs_capacity` | 2 starts, 1 running slot, 1 registry entry | limits hold through refusal, eviction and reuse; only finished jobs are forgotten; a supervisor that does not die on its own holds its group's number until the final signal |
| `jobs_progress` | 1 job, 1 kill, a retried `Close`, failing signals | a begun termination finishes the job, or its attempt ends before the final signal and may be retried; after the final signal the job completes without another attempt; kill and `Close` return |
| `jobs_leak` | 1 start, 1 `Close` | violation, see Findings |
| `rtk_reducer` | 2 callbacks with up to 2 fields, 1 slot, 1 `Close` that is retried, failing disk | slots and leases match; every directory is owned or remembered; every callback returns; `Close` gets its answer and leaves nothing |
| `python_repl` | 2 owners for a budget of 1, 3 calls by 2 goroutines, 1 `Close` that is retried, a queue of 1, everything may fail | one holder per gate and no lost grant; no process or directory out of sight; one runner at a time; generation and notice agree; `Close` leaves nothing |
| `agent_turn` | one turn: 2 file names in up to 2 directories with swaps; some 4000 commands of up to 4 words over 2 rules; writes around a tail of 3 bytes; 64 limit settings; documents of 2 fields in either order; all pairs of matches of 2 rules | the section is whole and shows only standing files; an abstention means that no expansion of the command matches a rule; the command is unambiguous; budgets are global and permits balanced; the tail is the suffix of what was written; a result fits its retention; a reduction is faithful; a redaction is exact |

### Bounds and why they are enough

Calls interact only through the slot count, the map of cancel functions and
`Close`; two calls for one slot give refusal, contention and reuse, and every
further call does what one of the two does. Liveness of a web search needs no second
call, because a search never waits for another. A job's goroutines meet through
that job's mutex and the manager's counters: the races run on one job, the
counters on two. The Python run needs three calls, since losing state unnoticed
takes a success, a failure and a success, and three actors to fill a queue of
one. The turn's inputs are chosen per limit: for each there is an input that
meets it and one that misses it by one; three words give a wrapper with one
option, four a wrapper with an option's operand or with `sh -c`, and inline
scripts nest twice, past the wrapper depth. The largest integer of the
result bounds is scaled down with the limits, so that sums overflow at settings the run
can list; at 64 bits the code's own ceilings keep every sum it computes in range.
`MaxAttempts`, `MaxFields` and `MaxCalls` bound what the code leaves open: attempts at
a termination (two, the second being the retry after a failed signal), fields of a
binding, calls. Deadlock is not checked:
every component may come to rest when all calls have returned. Symmetry is used
in safety runs only.

### Fairness

Liveness assumes weak fairness of the library's goroutines and of timers: the Go
scheduler runs a runnable goroutine, and a timer that was set fires. A call that
was not made need not be made (`pc[c] # "idle"` in the fair actions), and a
failed `Close` need not be repeated. Nothing is assumed of callbacks: responders,
searchers and reducers may hang. `CloseCompletes` and `CloseReturns` say this as
an implication: if no cancelled callback hangs, then `Close` returns. For
background jobs the operating system is assumed to end a process that got KILL
and to let its parent reap it; `kill(2)` itself may fail. `TerminationCompletes` is
checked for supervisors that do not die on their own.

## Findings

1. `askuser_early`. `README.md:285-287` says that "otherwise a response completed
   strictly before the package deadline wins". `completedAt` is stamped before
   the response is published, and when the timer fires the caller takes a single
   snapshot: a response that completed in time and is published a moment later is
   answered with `timed_out`.
2. `jobs_leak`. `finishTerminal` gives the running slot back and closes `done` in
   two steps; `start` decides by `done` whether to count the job it publishes. If
   it publishes between the two, `running` is counted for a job that has already
   given its slot back and never comes down.
   `manager_race_unix_test.go:187-188` requires `running` to be 0 after `Close`.

## Proofs

Every theorem holds for all values of the constants that satisfy the assumptions
of the modules, and those are what the code's own validation enforces: limits are
naturals and those that must be positive are, there is a file name to look for,
`MaxRunning <= MaxTracked`, `./` is no longer than `../`, a binding of the reducer
names no field twice, operations and closers are different actors. The inputs of the stages
have the shapes the code's types give them; of the libraries it is assumed that an
expression finds its matches from left to right, none empty, none inside another and all
within the text, and that the raw text of a request is judged before it is parsed. The sets of calls, jobs, owners and
closers are arbitrary and may be infinite; that only finitely many are admitted at
a time is part of what is proved. The one assumption about behaviour is
`MapResponseAssumption` of `AskUser`: a response is never mapped to a status that
only `ask` itself may give. It is not taken on trust for the two mappings there
are: `AskMappingIsNotOwn` and `DelegateMappingIsNotOwn` prove it of them.

| Module | Theorem | States |
|---|---|---|
| `CallbackProofs` | `TypeCorrect`, `CapacityHolds`, `CloseIsQuiescent`, `CloseCancelsAll`, `EveryResultIsEarned` | `TypeOK`, `SlotsMatchResponders`, `ClosedMeansQuiescent`, `CloseCancelsEveryResponder`, `ResultsAreEarned` |
| | `RefinesPool` | `ImplementsPool`: the coordinator implements `CallbackPool` |
| | `DelegateRunsTheProtocol` | every step of delegate-task is one of the protocol of `AskUser` |
| | `DelegateCloseIsQuiescent`, `DelegateCloseCancelsAll`, `DelegateResultsAreEarned`, `DelegateRefinesPool` | the same of delegate-task |
| `WebSearchProofs` | `EncodingHoldsItsSlot`, `InTimeWins`, `RefinesPool` | `SlotsCoverEncoding`, `ReceivedInTimeWins`, `ImplementsPool` |
| `WorkspaceCoordinatorProofs` | `WorkersHoldTheirSlots`, `EveryAnswerIsTrue`, `RefinesPool` | `SlotsMatchWorkers`, `AnswersAreTrue`, `ImplementsPool` |
| `RtkReducerProofs` | `OwnersHoldTheirSlots`, `CloseLeavesNothing` | `SlotsCoverOwners`, `ClosedMeansClean` |
| `BackgroundJobsProofs` | `CapacityIsKept`, `SupervisorIsTheAnchor`, `TerminalIsReaped`, `CloseLeavesNothing`, `VerdictIsOne` | `CapacityHolds`, `SupervisorAnchorsGroup`, `TerminalMeansReaped`, `ClosedMeansNothingLeft`, `OneVerdict` |
| | `VerdictStays` | the action property `VerdictIsStable` |
| `PythonReplProofs` | `GateHasOneHolder`, `NothingIsLostSightOf`, `CloseLeavesNothing` | `GateIsExclusive`, `ResourcesAreOwned`, `ClosedMeansNothingLeft` |
| | `OneRunner`, `LostStateIsReported` | the action properties `OneRunnerAtATime`, `StateLossIsReported` |
| `StageProofs` | `TailKeepsTheEnd`, `StandingFilesOnly`, `WholeSection` | `TailIsSuffix`, `OnlyStandingFilesAreShown`, `SectionIsWhole` |
| | `ResultRetained`, `FaithfulReduction`, `ExactRedaction` | `ResultFitsRetention`, `ReductionIsFaithful`, `RedactionIsExact` |
| | `UnambiguousCommand`, `GlobalBudgets` | `CommandIsUnambiguous`, `BudgetsAreGlobal` |

### The arguments

None of these invariants is inductive. Each component gets an inductive invariant
(`IInv`; one per stage in `StageProofs`): it is proved that the initial state
satisfies it, that every action preserves each part it can disturb, and that it
implies the property. TLC also checked the parts of those of the coordinators, the
process owners, the ring buffer and the instruction section on the runs' instances;
the others say of each phase what the property says of the answer.

*Coordinators.* That `live - 1` is a natural number after a release needs that the
releasing call is registered, and that the last release is the one `Close` may
report needs that the counter is the number of registered calls. `AdmissionInv`
says that the counter is the cardinality of the map of cancel functions, that
`quiescent` is closed only while closing and with nobody live, that a closer that
was told nil saw that, and (`SnapshotCovers`) that a registered call is cancelled
or still before every `Close` that is calling the cancel functions it copied. `CoordinatorAdmissionProofs`
proves the steps of the shared protocol once: `AcquireStep`, `ReleaseStep`,
`CloseStepInv` and `QuietStep` (steps that only cancel), each for the invariant
and for the abstract step. A component adds `SlotHolders`, which says which of its
calls are registered (in `WebSearch` also those whose result is being encoded and
sent), and the refinement of `CallbackPool` follows from the same lemmas. What
callers answer needs an invariant that follows the envelope: from the stamp
through publication or the channel to the snapshot the caller decides by
(`Earned` in `CallbackProofs`, `Timely` in `WebSearchProofs`, whose part `OfferStands`
follows an early answer from the channel through the poll). `Truthful` in
`WorkspaceCoordinatorProofs` needs the most: it relates the first cause of the
child context to parent, clock and `Close`, and what the caller has ruled out by
its position in `run`, to conclude that the error of a child context is never
an answer.

*Reducer.* A lease is given back by the callback or by the owner of the process.
`LeaseOK` makes the two exclusive (the callback gives it back only with no owner
pending, the owner only after the callback has returned), `CountInv` says that
`slots` and `active` count the holders, and `CleanInv` who answers for a directory
and that nobody works once a `Close` is past its wait.

*Background jobs.* `LifeOK`, `TermOK`, `VerdictOK` and `KnownOK` say, per job, what
each step of start, reader, waiter, coordinator and finish can rely on; `CountInv`
that both counters count what they should and that neither limit is exceeded;
`KillInv` what a caller of kill was told; `CloseInv` that a snapshot taken
with no start in progress covers every job that is not terminal. `Fragile` jobs,
whose supervisor dies on its own, are exempt from `SupervisorAnchorsGroup` only.

*Python REPL.* `GateOK` ties an owner's gate and its queue to the labels of the
actors: one holder exactly when the gate is active, each waiter queued once.
`HolderOK` then says, label by label, how far the holder may be from the state
`Quiet` in which every process, directory and creator of the owner is recorded in
its session: a runner that is being started is not recorded yet, an environment
that is being made or removed is in transit. Because there is one holder, a step
concerns its own owner alone, and releasing the gate restores `Quiet`. `CloserOK`
says that a `Close` that has not failed has closed each session, is closing it or
has it before it. `CountInv` bounds generations and serials by the calls issued,
less the `Raisers` and `Starters` still under way. `OneRunner` and
`LostStateIsReported` are action properties proved from the invariant.

*Stages of a turn.* `TailSpec`, `PromptSpec`, `BoundsSpec`, `ReductionSpec`,
`RedactionSpec` and `GuardSpec` are the stages alone, with everything else of the
turn left open: the context may end at any time, and a turn may be abandoned at any
time. Every step of `TurnSpec` is a step of each or leaves its variable alone. That is
visible in `AgentTurn`, where an action takes a step of one stage, hands it an input or
resets it (TLC also confirms it of `TailSpec`, `PromptSpec`, `BoundsSpec` and
`RedactionSpec` as properties of `agent_turn`; for the other two the step relation is
too costly to evaluate on every step), but it cannot be a theorem because `AgentTurn`
reaches the recursive operators of `CommandMeaning`.

*Ring buffer.* `TailOK` says that the slot `i` places behind `start`, around the
ring, holds the `i`-th of the kept bytes; the two copies of `Write` are shown to
place a chunk behind the last of them and to touch no slot that is kept.

*Instructions.* For the walk, `WalkOK` carries what `Swap` may do to an entry: that
the file shown is the one of the confirming `Lstat` makes it a regular file,
whatever was opened in between. `SinkOK` says that an open section always closes
within its limit and that the marker fits behind its first file. The second half is
the arithmetic of `minimumSectionBytes`: no displayed path is longer than the longest
name under the longest chain (`DisplayBound`), and `admitContent` never keeps more
than its limit of a file (`AdmittedFits`), by induction over the runes of the file.

*Loops.* The other stages are loops over sequences: characters, fields, tokens,
visits, words, matches. `Loops` writes them as recursive functions on the number of
rounds. `RoundsExist` proves that a loop whose body stays in a set has a table of its
states, and `EveryRound` is induction on the rounds, done with a set of naturals since
a theorem with an operator parameter is of no use to the provers. Each loop gets a
table and an invariant of its rounds.

*Bounds of a result.* A byte takes at most six bytes in JSON and cutting a text never
makes it longer, so the size of what is kept stays under the worst case that
`worstCaseResultBytes` computed; its sums only grow, so a sum that did not overflow
bounds all its parts.

*Reduction.* The replacements can be put in the order of their spans, and the spans of
different fields are different (`RtkTransform` finds a span by the field's name, and
the code refuses an object that holds a key twice). `CopyOK` says of the splice that
token `i` is in its place: the original, or the one replacement for it. A result that
was changed is strictly smaller, because each replacement is smaller than the token it
replaces.

*Redaction.* A rule has no more matches than the text has bytes (`FewMatches`), so
the limit a rule is queried with never hides a match: `collect` gathers every match
that counts, or reports that they exceed the budget (`CollectsAll`). Ranges can be
sorted (`OrderExists`, by insertion); merging leaves them apart and covering the same
bytes (`MergesRanges`). The text cut range by range is then compared with the text
rewritten byte by byte, gap by gap and range by range (`CutIsExact`), and a text is
"unchanged" exactly when rewriting it changes nothing (`ScanIsRight`), which is what
the scans of keys and names rely on. `ScanOK` says, phase by phase, which parts of the
result are final.

*Guard.* The analysis calls itself through wrappers and inline scripts, down to the
wrapper depth, which `CommandAnalysis` writes as a recursive function on the depth
that is left. What has to hold of every analysis is a set of results that is `Closed`
under what the analysis does to its counters (stop, enter a node, count a word, charge
a text, go deeper); one induction, over the visits of a script and over the
wrappers left, shows that every analysis stays in a closed set. It is used twice: for
the type of analyses, which gives the recursion its solution, and for `Budgeted`,
where the bytes charged are the sum of the texts parsed and within the limit.
`PermitsOK` counts the permits of the calls that are being analysed. That a command
is unambiguous is about the decoder: two command fields would be two equal keys of one
object, and the second is refused (`FieldIsUnique`).

### Only model-checked

- `AbstainMeansNoMatch`. What a shell could run for a command is recursive over
  commands and scripts (`CommandMeaning`), and recursive operators are out of the
  prover's reach. TLC checks it on some 4000 commands.
- All liveness (`EveryCallReturns`, `CloseCompletes`, `EverySearchReturns`,
  `TerminationCompletes`, `EveryCallbackReturns`, `CloseReturns`): TLAPS does not
  reach fairness and `ENABLED`.
- The two findings, which are violations and have counterexamples.

## Not modelled

- Decoding of tool inputs, canonicalization and hashing of options (but for the
  limits of `websearch` and `workspaceinstructions`, whose arithmetic is
  modelled), mounts and examples: sequential code without state.
- Read-only job calls (status, list): they copy fields under a mutex.
- The shell parser, regular expressions, JSON syntax and UTF-8 decoding: libraries
  whose conclusions are inputs of the models.
- The text of answers, frames and scripts of the Python runner, kept as valid or
  not.
- Reuse of process-group numbers by the system. For background jobs
  `SupervisorAnchorsGroup` says that it cannot matter while the supervisor does
  not die on its own; a Python runner's group (`runner_unix.go:332`) has no such
  property yet.
- Liveness of the Python REPL: the safety run is at the limit of what is checked
  in minutes, and an instance small enough for liveness is part of the plan.

## Plan

Done: the admission protocol with its abstract specification, the four
coordinators on top of it, background jobs, the Python REPL, the reducer and the
stages of a turn, each with proofs of all its safety properties but
`AbstainMeansNoMatch`.

Next: liveness of the Python REPL in an instance of its own, and the group of a Python
runner whose supervisor has died.
