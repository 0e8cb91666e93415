--------------------------- MODULE BackgroundJobs ---------------------------
(***************************************************************************)
(* backgroundjobs/manager.go, job.go, supervisor.go: the job registry with *)
(* its capacity accounting, the start path, kill, timeout and Close, and   *)
(* for each job its goroutines (the reader of the supervisor's status, the *)
(* one in cmd.Wait, the termination coordinator, the timeout callback) and *)
(* its supervisor process.                                                 *)
(*                                                                         *)
(* Every action is one critical section of manager.mu or job.mu, one       *)
(* select, or one system call.  A job is identified with the start call    *)
(* that creates it.  Timers (KillWait, TerminateGrace, job timeout) may    *)
(* fire at any moment after they were set.  The WaitGroup manager.starts   *)
(* counts the reservations manager.starting counts, and the channels       *)
(* statusReady, waitDone and done are the states status # "unread",        *)
(* reaped and fin = "done".                                                *)
(***************************************************************************)
EXTENDS Integers, FiniteSets, Sequences

CONSTANTS Jobs,           \* calls of background_job_start
          Killers,        \* calls of background_job_kill
          Closers,        \* calls of Close
          Patient,        \* killers and closers whose context is never done
          Timed,          \* jobs with an effective timeout
          Fragile,        \* jobs whose supervisor may die on its own
          SignalMayFail,  \* whether kill(2) may fail other than with ESRCH
          MaxRunning, MaxTracked, \* Limits
          MaxAttempts     \* bound: how many attempts Close may be retried up to

ASSUME MaxRunningAssumption == MaxRunning \in Nat \ {0}
ASSUME MaxTrackedAssumption == MaxTracked \in Nat /\ MaxRunning <= MaxTracked
ASSUME MaxAttemptsAssumption == MaxAttempts \in Nat
ASSUME SignalMayFailAssumption == SignalMayFail \in BOOLEAN

VARIABLES
    jobs, hidden, counted,     \* the registries; jobs with job.counted
    starting, running,         \* the two counters of the capacity check
    closing, closed,
    startPC, published,        \* where each start stands; job.published
    proc, gate, code,          \* the supervisor, its launch gate, the command's code
    reader, waiter,            \* the goroutines of startCoordination
    status, reaped, forced,    \* statusValid/statusCode, reaped, outputForced
    state, cause, phase, ready, completedAt,
    coord, coordinatorRunning, \* the coordinate goroutine; job.coordinatorRunning
    attempts, attemptOpen,     \* attemptDone channels made; is the last one open
    fin,                       \* how far finishTerminal has come
    timer,                     \* job.timer and timeoutDone
    killPC, killJob, killAttempt, killNewly,
    closePC, closeBegin, closeWait

mgrVars == <<jobs, hidden, counted, starting, running, closing, closed>>
startVars == <<startPC, published>>
procVars == <<proc, gate, code>>
ioVars == <<reader, waiter, status, reaped, forced>>
termVars == <<cause, coord, coordinatorRunning, attempts, attemptOpen>>
doneVars == <<state, fin, completedAt>>
killVars == <<killPC, killJob, killAttempt, killNewly>>
closeVars == <<closePC, closeBegin, closeWait>>
vars == <<mgrVars, startVars, procVars, ioVars, termVars, doneVars, phase, ready,
          timer, killVars, closeVars>>

Terminal == {"succeeded", "failed", "killed", "timed_out"}
Starting == {"reserved", "spawned", "checkGate", "release", "withhold",
             "publish", "hide"}
StartPCs == Starting \cup {"idle", "refused", "failed", "arm", "cleanup",
                           "cleanupWait", "returned", "error"}

TypeOK ==
    /\ jobs \subseteq Jobs /\ hidden \subseteq Jobs /\ counted \subseteq Jobs
    /\ starting \in 0 .. MaxRunning /\ running \in 0 .. MaxRunning
    /\ closing \in BOOLEAN /\ closed \in BOOLEAN
    /\ startPC \in [Jobs -> StartPCs]
    /\ published \in [Jobs -> BOOLEAN]
    /\ proc \in [Jobs -> {"none", "booting", "gated", "running", "parked", "dying", "stillborn", "dead"}]
    /\ gate \in [Jobs -> {"shut", "released", "withheld"}]
    /\ code \in [Jobs -> {"none", "zero", "nonzero"}]
    /\ reader \in [Jobs -> {"none", "reading", "exited"}]
    /\ waiter \in [Jobs -> {"none", "waiting", "finish", "exited"}]
    /\ status \in [Jobs -> {"unread", "invalid", "zero", "nonzero"}]
    /\ reaped \in [Jobs -> BOOLEAN] /\ forced \in [Jobs -> BOOLEAN]
    /\ state \in [Jobs -> {"none", "running"} \cup Terminal]
    /\ cause \in [Jobs -> {"none", "natural", "kill", "timeout", "close"}]
    /\ phase \in [Jobs -> {"initial", "term", "final"}]
    /\ ready \in [Jobs -> BOOLEAN]
    /\ completedAt \in [Jobs -> Nat]
    /\ coord \in [Jobs -> {"none", "begin", "term", "grace", "kill", "await",
                           "finish", "incomplete"}]
    /\ coordinatorRunning \in [Jobs -> BOOLEAN]
    /\ attempts \in [Jobs -> Nat] /\ attemptOpen \in [Jobs -> BOOLEAN]
    /\ fin \in [Jobs -> {"none", "marked", "released", "done"}]
    /\ timer \in [Jobs -> {"none", "armed", "fired", "closed"}]
    /\ killPC \in [Killers -> {"idle", "found", "waiting", "done", "notFound", "incomplete"}]
    /\ killJob \in [Killers -> Jobs \cup {"none"}]
    /\ killAttempt \in [Killers -> Nat] /\ killNewly \in [Killers -> BOOLEAN]
    /\ closePC \in [Closers -> {"idle", "starts", "begin", "wait", "nil", "incomplete"}]
    /\ closeBegin \in [Closers -> SUBSET Jobs]
    /\ closeWait \in [Closers -> Seq([job : Jobs, attempt : Nat])]

Init ==
    /\ jobs = {} /\ hidden = {} /\ counted = {}
    /\ starting = 0 /\ running = 0
    /\ closing = FALSE /\ closed = FALSE
    /\ startPC = [j \in Jobs |-> "idle"]
    /\ published = [j \in Jobs |-> FALSE]
    /\ proc = [j \in Jobs |-> "none"]
    /\ gate = [j \in Jobs |-> "shut"]
    /\ code = [j \in Jobs |-> "none"]
    /\ reader = [j \in Jobs |-> "none"]
    /\ waiter = [j \in Jobs |-> "none"]
    /\ status = [j \in Jobs |-> "unread"]
    /\ reaped = [j \in Jobs |-> FALSE] /\ forced = [j \in Jobs |-> FALSE]
    /\ state = [j \in Jobs |-> "none"]
    /\ cause = [j \in Jobs |-> "none"]
    /\ phase = [j \in Jobs |-> "initial"]
    /\ ready = [j \in Jobs |-> FALSE]
    /\ completedAt = [j \in Jobs |-> 0]
    /\ coord = [j \in Jobs |-> "none"]
    /\ coordinatorRunning = [j \in Jobs |-> FALSE]
    /\ attempts = [j \in Jobs |-> 0] /\ attemptOpen = [j \in Jobs |-> FALSE]
    /\ fin = [j \in Jobs |-> "none"]
    /\ timer = [j \in Jobs |-> "none"]
    /\ killPC = [k \in Killers |-> "idle"]
    /\ killJob = [k \in Killers |-> "none"]
    /\ killAttempt = [k \in Killers |-> 0]
    /\ killNewly = [k \in Killers |-> FALSE]
    /\ closePC = [k \in Closers |-> "idle"]
    /\ closeBegin = [k \in Closers |-> {}]
    /\ closeWait = [k \in Closers |-> <<>>]

Set(f, x, v) == [f EXCEPT ![x] = v]

Done(j) == fin[j] = "done"     \* close(job.done) has happened

\* The supervisor has exited, before or after its readiness byte.
Gone(j) == proc[j] \in {"stillborn", "dead"}
-----------------------------------------------------------------------------
(* manager.start                                                           *)

Tracked == Cardinality(jobs) + Cardinality(hidden) + starting

\* Mutation of pruneLocked: jobs that still run are candidates too.
EvictableRunning == jobs

\* pruneLocked: while the registry is full, the terminal job that completed
\* first is dropped (equal times are resolved by id, which the order of
\* finishTerminal's critical sections stands for).
Evictable == {j \in jobs : Done(j)}
pruneLocked ==
    {j \in Evictable :
        Cardinality({i \in Evictable : completedAt[i] < completedAt[j]})
            <= Tracked - MaxTracked}

\* Mutation of reserveStart: starts in progress are not counted.
reserveIgnoresStarting(j) ==
    /\ startPC[j] = "idle"
    /\ ~closing /\ ~closed
    /\ jobs' = jobs \ pruneLocked
    /\ IF running >= MaxRunning \/ Cardinality(jobs') + Cardinality(hidden) >= MaxTracked
         THEN startPC' = Set(startPC, j, "refused") /\ UNCHANGED starting
         ELSE startPC' = Set(startPC, j, "reserved") /\ starting' = starting + 1
    /\ UNCHANGED <<hidden, counted, running, closing, closed, published, procVars, ioVars,
                   termVars, doneVars, phase, ready, timer, killVars, closeVars>>

\* reserveStart: prune, then the capacity check.
reserveStart(j) ==
    /\ startPC[j] = "idle"
    /\ ~closing /\ ~closed
    /\ jobs' = jobs \ pruneLocked
    /\ IF \/ starting + running >= MaxRunning
          \/ Cardinality(jobs') + Cardinality(hidden) + starting >= MaxTracked
         THEN startPC' = Set(startPC, j, "refused") /\ UNCHANGED starting
         ELSE startPC' = Set(startPC, j, "reserved") /\ starting' = starting + 1
    /\ UNCHANGED <<hidden, counted, running, closing, closed, published,
                   procVars, ioVars, termVars, doneVars, phase, ready, timer, killVars,
                   closeVars>>

\* reserveStart of a manager that is closing.
RefuseClosing(j) ==
    /\ startPC[j] = "idle"
    /\ closing \/ closed
    /\ startPC' = Set(startPC, j, "refused")
    /\ UNCHANGED <<mgrVars, published, procVars, ioVars, termVars, doneVars,
                   phase, ready, timer, killVars, closeVars>>

\* Mutation: a failed start keeps its reservation.
releaseForgotten(j) ==
    /\ startPC[j] = "reserved"
    /\ startPC' = Set(startPC, j, "failed")
    /\ UNCHANGED <<mgrVars, published, procVars, ioVars, termVars, doneVars, phase, ready, timer,
                   killVars, closeVars>>

\* A failed directory check, a cancelled caller, a failed prepareProcess or
\* cmd.Start: the deferred releaseReservation gives the reservation back.
releaseReservation(j) ==
    /\ startPC[j] = "reserved"
    /\ starting' = starting - 1
    /\ startPC' = Set(startPC, j, "failed")
    /\ UNCHANGED <<jobs, hidden, counted, running, closing, closed, published, procVars, ioVars, termVars, doneVars, phase, ready, timer,
                   killVars, closeVars>>

\* cmd.Start succeeds and startCoordination launches its two goroutines.
Spawn(j) ==
    /\ startPC[j] = "reserved"
    /\ startPC' = Set(startPC, j, "spawned")
    /\ proc' = Set(proc, j, "booting")
    /\ state' = Set(state, j, "running")
    /\ reader' = Set(reader, j, "reading")
    /\ waiter' = Set(waiter, j, "waiting")
    /\ UNCHANGED <<mgrVars, published, gate, code, status, reaped, forced,
                   termVars, fin, completedAt, phase, ready, timer, killVars, closeVars>>

\* waitSupervisorReady: the readiness byte arrives, or KillWait passes or the
\* supervisor dies first; then job.ready is set.
waitSupervisorReady(j) ==
    /\ startPC[j] = "spawned"
    /\ \/ /\ proc[j] \notin {"booting", "stillborn"}
          /\ ready' = Set(ready, j, TRUE)
          /\ startPC' = Set(startPC, j, "checkGate")
       \/ startPC' = Set(startPC, j, "withhold") /\ UNCHANGED ready
    /\ UNCHANGED <<mgrVars, published, procVars, ioVars, termVars, doneVars,
                   phase, timer, killVars, closeVars>>

\* gateReleased: a cancelled caller or a closing manager withholds the command.
CheckGate(j) ==
    /\ startPC[j] = "checkGate"
    /\ \/ ~closing /\ startPC' = Set(startPC, j, "release")
       \/ startPC' = Set(startPC, j, "withhold")
    /\ UNCHANGED <<mgrVars, published, procVars, ioVars, termVars, doneVars,
                   phase, ready, timer, killVars, closeVars>>

\* releaseCommand: writes the gate, which fails when the supervisor is gone,
\* and closes it in every case.
releaseCommand(j) ==
    /\ \/ /\ startPC[j] = "release"
          /\ ~Gone(j)
          /\ gate' = Set(gate, j, "released")
          /\ startPC' = Set(startPC, j, "publish")
       \/ /\ startPC[j] = "withhold" \/ (startPC[j] = "release" /\ Gone(j))
          /\ gate' = Set(gate, j, "withheld")
          /\ startPC' = Set(startPC, j, "hide")
    /\ UNCHANGED <<mgrVars, published, proc, code, ioVars, termVars,
                   doneVars, phase, ready, timer, killVars, closeVars>>

\* The second critical section of start: the job is published, or hidden when
\* the caller was cancelled or the manager is closing, and counted as running
\* unless job.done is already closed; the reservation ends.
Publish(j) ==
    /\ \/ /\ startPC[j] = "publish" /\ ~closing
          /\ published' = Set(published, j, TRUE)
          /\ jobs' = jobs \cup {j}
          /\ startPC' = Set(startPC, j, "arm")
          /\ UNCHANGED hidden
       \/ /\ startPC[j] \in {"publish", "hide"}
          /\ hidden' = IF Done(j) THEN hidden ELSE hidden \cup {j}
          /\ startPC' = Set(startPC, j, "cleanup")
          /\ UNCHANGED <<published, jobs>>
    /\ IF Done(j)
         THEN UNCHANGED <<counted, running>>
         ELSE counted' = counted \cup {j} /\ running' = running + 1
    /\ starting' = starting - 1
    /\ UNCHANGED <<closing, closed, procVars, ioVars, termVars, doneVars,
                   phase, ready, timer, killVars, closeVars>>

\* start: the timeout is armed only while the job still runs.
ArmTimer(j) ==
    /\ startPC[j] = "arm"
    /\ timer' = IF j \in Timed /\ state[j] = "running" THEN Set(timer, j, "armed") ELSE timer
    /\ startPC' = Set(startPC, j, "returned")
    /\ UNCHANGED <<mgrVars, published, procVars, ioVars, termVars, doneVars,
                   phase, ready, killVars, closeVars>>
-----------------------------------------------------------------------------
(* job.beginTermination                                                    *)

startCoordinatorLocked(j) ==
    /\ coordinatorRunning' = Set(coordinatorRunning, j, TRUE)
    /\ attempts' = Set(attempts, j, attempts[j] + 1)
    /\ attemptOpen' = Set(attemptOpen, j, TRUE)
    /\ coord' = Set(coord, j, "begin")

\* Mutation: the last cause wins.
beginLastCause(j, why) ==
    IF state[j] # "running" THEN UNCHANGED termVars
    ELSE /\ cause' = Set(cause, j, why)
         /\ IF coordinatorRunning[j]
              THEN UNCHANGED <<coord, coordinatorRunning, attempts, attemptOpen>>
              ELSE startCoordinatorLocked(j)

\* Mutation: every termination starts a coordinator.
beginAlwaysCoordinates(j, why) ==
    IF state[j] # "running" THEN UNCHANGED termVars
    ELSE /\ cause' = IF cause[j] = "none" THEN Set(cause, j, why) ELSE cause
         /\ startCoordinatorLocked(j)

\* The first cause stays; a coordinator is started unless one is running.
beginTermination(j, why) ==
    IF state[j] # "running" THEN UNCHANGED termVars
    ELSE /\ cause' = IF cause[j] = "none" THEN Set(cause, j, why) ELSE cause
         /\ IF coordinatorRunning[j]
              THEN UNCHANGED <<coord, coordinatorRunning, attempts, attemptOpen>>
              ELSE startCoordinatorLocked(j)

\* The channel it returns: the attempt, or job.done (0) for a terminal job.
Attempt(j) ==
    IF state[j] # "running" THEN 0
    ELSE IF coordinatorRunning[j] THEN attempts[j] ELSE attempts[j] + 1

NewlyAccepted(j) == state[j] = "running" /\ cause[j] = "none"

\* A receive on that channel would not block.
AttemptClosed(j, a) ==
    IF a = 0 THEN Done(j) ELSE a < attempts[j] \/ (a = attempts[j] /\ ~attemptOpen[j])

\* start of an unpublished job: beginTermination(causeClose) ...
CleanupBegin(j) ==
    /\ startPC[j] = "cleanup"
    /\ beginTermination(j, "close")
    /\ startPC' = Set(startPC, j, "cleanupWait")
    /\ UNCHANGED <<mgrVars, published, procVars, ioVars, doneVars, phase,
                   ready, timer, killVars, closeVars>>

\* ... then waitInternalTermination: the job is done, the attempt has ended, or
\* the internal deadline passes; start returns an error in each case.
CleanupWait(j) ==
    /\ startPC[j] = "cleanupWait"
    /\ startPC' = Set(startPC, j, "error")
    /\ UNCHANGED <<mgrVars, published, procVars, ioVars, termVars, doneVars,
                   phase, ready, timer, killVars, closeVars>>
-----------------------------------------------------------------------------
(* The supervisor process (external: fixedSupervisorScript under a shell)   *)

Alive == {"booting", "gated", "running", "parked"}

ProcUnchanged == UNCHANGED <<mgrVars, startVars, gate, ioVars, termVars, doneVars, phase,
                             ready, timer, killVars, closeVars>>

\* trap '' TERM; printf R >&4
SupervisorReady(j) ==
    /\ proc[j] = "booting"
    /\ proc' = Set(proc, j, "gated")
    /\ UNCHANGED code /\ ProcUnchanged

\* read gate <&5: run the command, or park until killed.
SupervisorGate(j) ==
    /\ proc[j] = "gated"
    /\ \/ gate[j] = "released" /\ proc' = Set(proc, j, "running")
       \/ gate[j] = "withheld" /\ proc' = Set(proc, j, "parked")
    /\ UNCHANGED code /\ ProcUnchanged

\* The command ends by itself or by TERM; the status line is written to fd 3
\* and the supervisor parks.
CommandEnds(j) ==
    /\ proc[j] = "running"
    /\ \E c \in {"zero", "nonzero"} : code' = Set(code, j, c)
    /\ proc' = Set(proc, j, "parked")
    /\ ProcUnchanged

\* A supervisor that was signalled with KILL, or a fragile one, is gone.
SupervisorDies(j) ==
    /\ proc[j] = "dying" \/ (j \in Fragile /\ proc[j] \in Alive)
    /\ proc' = Set(proc, j, IF proc[j] = "booting" THEN "stillborn" ELSE "dead")
    /\ UNCHANGED code /\ ProcUnchanged

\* readStatus: EOF on fd 3, because the status was written or every holder died.
readStatus(j) ==
    /\ reader[j] = "reading"
    /\ code[j] # "none" \/ Gone(j)
    /\ status' = Set(status, j, IF code[j] = "none" THEN "invalid" ELSE code[j])
    /\ reader' = Set(reader, j, "exited")
    /\ IF cause[j] = "none"
         THEN cause' = Set(cause, j, "natural") /\ startCoordinatorLocked(j)
         ELSE UNCHANGED termVars
    /\ UNCHANGED <<mgrVars, startVars, procVars, waiter, reaped, forced, doneVars, phase,
                   ready, timer, killVars, closeVars>>

\* Mutation: the goroutine in cmd.Wait leaves the end to the coordinator.
ReapOnly(j) ==
    /\ waiter[j] = "waiting"
    /\ Gone(j)
    /\ reaped' = Set(reaped, j, TRUE)
    /\ \E f \in BOOLEAN : forced' = Set(forced, j, f)
    /\ waiter' = Set(waiter, j, "exited")
    /\ UNCHANGED <<mgrVars, startVars, procVars, reader, status, termVars, doneVars, phase,
                   ready, timer, killVars, closeVars>>

\* startCoordination, the goroutine in cmd.Wait: the process is reaped; output
\* is forced when descendants kept the pipes open past WaitDelay.
Reap(j) ==
    /\ waiter[j] = "waiting"
    /\ Gone(j)
    /\ reaped' = Set(reaped, j, TRUE)
    /\ \E f \in BOOLEAN : forced' = Set(forced, j, f)
    /\ waiter' = Set(waiter, j, IF phase[j] = "final" /\ cause[j] # "none"
                                  THEN "finish" ELSE "exited")
    /\ UNCHANGED <<mgrVars, startVars, procVars, reader, status, termVars, doneVars, phase,
                   ready, timer, killVars, closeVars>>
-----------------------------------------------------------------------------
(* job.coordinate                                                          *)

CoordUnchanged ==
    UNCHANGED <<mgrVars, startVars, gate, code, ioVars, cause, attempts, doneVars, ready,
                timer, killVars, closeVars>>

CoordGoto(j, label) == coord' = Set(coord, j, label)

\* Mutation: TERM does not wait for the supervisor's readiness.
CoordBeginUnready(j) ==
    /\ coord[j] = "begin"
    /\ CoordGoto(j, CASE cause[j] # "natural" /\ phase[j] = "initial" -> "term"
                      [] cause[j] # "natural" /\ phase[j] = "term" -> "grace"
                      [] phase[j] = "final" -> "await"
                      [] OTHER -> "kill")
    /\ UNCHANGED <<proc, phase, coordinatorRunning, attemptOpen>> /\ CoordUnchanged

\* The first critical section of coordinate and the branches it decides.
CoordBegin(j) ==
    /\ coord[j] = "begin"
    /\ CoordGoto(j, CASE cause[j] # "natural" /\ phase[j] = "initial" /\ ready[j] -> "term"
                      [] cause[j] # "natural" /\ phase[j] = "term" -> "grace"
                      [] phase[j] = "final" -> "await"
                      [] OTHER -> "kill")
    /\ UNCHANGED <<proc, phase, coordinatorRunning, attemptOpen>> /\ CoordUnchanged

\* advanceSignal(TERM), which kills a supervisor that has not set its trap yet.
\* kill(2) reports ESRCH only when the leader is gone and no descendant is left
\* in the group; that counts as finally signalled.
advanceTerm(j) ==
    /\ coord[j] = "term"
    /\ \/ /\ proc' = IF proc[j] = "booting" THEN Set(proc, j, "dying") ELSE proc
          /\ phase' = Set(phase, j, "term")
          /\ CoordGoto(j, "grace")
       \/ /\ Gone(j)
          /\ phase' = Set(phase, j, "final")
          /\ CoordGoto(j, "await")
          /\ UNCHANGED proc
       \/ /\ SignalMayFail
          /\ CoordGoto(j, "incomplete")
          /\ UNCHANGED <<proc, phase>>
    /\ UNCHANGED <<coordinatorRunning, attemptOpen>> /\ CoordUnchanged

\* The grace period ends with the status or with TerminateGrace.
CoordGrace(j) ==
    /\ coord[j] = "grace"
    /\ CoordGoto(j, "kill")
    /\ UNCHANGED <<proc, phase, coordinatorRunning, attemptOpen>> /\ CoordUnchanged

\* advanceSignal(KILL).
advanceKill(j) ==
    /\ coord[j] = "kill"
    /\ \/ /\ proc' = IF proc[j] \in Alive THEN Set(proc, j, "dying") ELSE proc
          /\ phase' = Set(phase, j, "final")
          /\ CoordGoto(j, "await")
       \/ /\ SignalMayFail
          /\ CoordGoto(j, "incomplete")
          /\ UNCHANGED <<proc, phase>>
    /\ UNCHANGED <<coordinatorRunning, attemptOpen>> /\ CoordUnchanged

\* Mutation: the job is finished when KillWait passes, reaped or not.
CoordAwaitNot(j) ==
    /\ coord[j] = "await"
    /\ CoordGoto(j, "finish")
    /\ UNCHANGED <<proc, phase, coordinatorRunning, attemptOpen>> /\ CoordUnchanged

\* The last select of coordinate: waitDone or KillWait.
CoordAwait(j) ==
    /\ coord[j] = "await"
    /\ \/ reaped[j] /\ CoordGoto(j, "finish")
       \/ CoordGoto(j, "incomplete")
    /\ UNCHANGED <<proc, phase, coordinatorRunning, attemptOpen>> /\ CoordUnchanged

\* Mutation: the attempt ends, but the job is still said to have a coordinator.
completeAttemptRunning(j) ==
    /\ coord[j] = "incomplete"
    /\ attemptOpen' = Set(attemptOpen, j, FALSE)
    /\ CoordGoto(j, "none")
    /\ UNCHANGED <<proc, phase, coordinatorRunning>> /\ CoordUnchanged

\* completeAttempt: the attempt ends without a terminal job; a later
\* beginTermination may start another.
completeAttempt(j) ==
    /\ coord[j] = "incomplete"
    /\ coordinatorRunning' = Set(coordinatorRunning, j, FALSE)
    /\ attemptOpen' = Set(attemptOpen, j, FALSE)
    /\ CoordGoto(j, "none")
    /\ UNCHANGED <<proc, phase>> /\ CoordUnchanged
-----------------------------------------------------------------------------
(* job.finishTerminal, under terminalOnce: whoever comes second waits        *)

\* The state a cause ends in.
TerminalState(j) ==
    CASE cause[j] \in {"kill", "close"} -> "killed"
      [] cause[j] = "timeout" -> "timed_out"
      [] cause[j] = "natural" /\ status[j] = "zero" /\ ~forced[j] -> "succeeded"
      [] OTHER -> "failed"

\* Its first critical section: stop the timer, fix the state and the time.
FinishMark(j) ==
    /\ coord[j] = "finish" \/ waiter[j] = "finish"
    /\ fin[j] = "none"
    /\ timer' = IF timer[j] = "armed" THEN Set(timer, j, "closed") ELSE timer
    /\ state' = Set(state, j, TerminalState(j))
    /\ completedAt' = Set(completedAt, j, Cardinality({i \in Jobs : completedAt[i] > 0}) + 1)
    /\ coordinatorRunning' = Set(coordinatorRunning, j, FALSE)
    /\ fin' = Set(fin, j, "marked")
    /\ UNCHANGED <<mgrVars, startVars, procVars, ioVars, cause, coord, attempts,
                   attemptOpen, phase, ready, killVars, closeVars>>

\* Mutation: running is decremented for a job that was never counted.
completedUncounted(j) ==
    /\ fin[j] = "marked"
    /\ hidden' = hidden \ {j}
    /\ counted' = counted \ {j} /\ running' = running - 1
    /\ fin' = Set(fin, j, "released")
    /\ UNCHANGED <<jobs, starting, closing, closed, startVars, procVars, ioVars, termVars,
                   state, completedAt, phase, ready, timer, killVars, closeVars>>

\* manager.jobCompleted.
jobCompleted(j) ==
    /\ fin[j] = "marked"
    /\ hidden' = hidden \ {j}
    /\ IF j \in counted
         THEN counted' = counted \ {j} /\ running' = running - 1
         ELSE UNCHANGED <<counted, running>>
    /\ fin' = Set(fin, j, "released")
    /\ UNCHANGED <<jobs, starting, closing, closed, startVars, procVars, ioVars, termVars,
                   state, completedAt, phase, ready, timer, killVars, closeVars>>

\* close(job.done).
FinishDone(j) ==
    /\ fin[j] = "released"
    /\ fin' = Set(fin, j, "done")
    /\ UNCHANGED <<mgrVars, startVars, procVars, ioVars, termVars, state, completedAt,
                   phase, ready, timer, killVars, closeVars>>

\* The goroutines that called finishTerminal return from it.
FinishReturn(j) ==
    /\ Done(j)
    /\ \/ coord[j] = "finish" /\ CoordGoto(j, "none") /\ UNCHANGED waiter
       \/ waiter[j] = "finish" /\ waiter' = Set(waiter, j, "exited") /\ UNCHANGED coord
    /\ UNCHANGED <<mgrVars, startVars, procVars, reader, status, reaped, forced, cause,
                   coordinatorRunning, attempts, attemptOpen, doneVars, phase, ready,
                   timer, killVars, closeVars>>

\* The timeout: time.AfterFunc fires ...
TimerFires(j) ==
    /\ timer[j] = "armed"
    /\ timer' = Set(timer, j, "fired")
    /\ UNCHANGED <<mgrVars, startVars, procVars, ioVars, termVars, doneVars, phase, ready,
                   killVars, closeVars>>

\* ... and its callback begins the termination, then closes timeoutDone.
TimeoutCallback(j) ==
    /\ timer[j] = "fired"
    /\ beginTermination(j, "timeout")
    /\ timer' = Set(timer, j, "closed")
    /\ UNCHANGED <<mgrVars, startVars, procVars, ioVars, doneVars, phase, ready, killVars,
                   closeVars>>
-----------------------------------------------------------------------------
(* manager.kill                                                            *)

\* The id may be unknown, evicted, or that of another owner's job.
KillLookup(k) ==
    /\ killPC[k] = "idle"
    /\ \/ \E j \in jobs :
             killPC' = Set(killPC, k, "found") /\ killJob' = Set(killJob, k, j)
       \/ killPC' = Set(killPC, k, "notFound") /\ UNCHANGED killJob
    /\ UNCHANGED <<mgrVars, startVars, procVars, ioVars, termVars, doneVars, phase, ready,
                   timer, killAttempt, killNewly, closeVars>>

KillBegin(k) ==
    /\ killPC[k] = "found"
    /\ LET j == killJob[k] IN
         /\ killAttempt' = Set(killAttempt, k, Attempt(j))
         /\ killNewly' = Set(killNewly, k, NewlyAccepted(j))
         /\ beginTermination(j, "kill")
    /\ killPC' = Set(killPC, k, "waiting")
    /\ UNCHANGED <<mgrVars, startVars, procVars, ioVars, doneVars, phase, ready, timer,
                   killJob, closeVars>>

\* waitForTermination: the job is done, the attempt ended without it, or the
\* caller's context is done.
KillWait(k) ==
    /\ killPC[k] = "waiting"
    /\ LET j == killJob[k] IN
         \/ Done(j) /\ killPC' = Set(killPC, k, "done")
         \/ AttemptClosed(j, killAttempt[k]) /\ ~Done(j) /\ killPC' = Set(killPC, k, "incomplete")
         \/ k \notin Patient /\ killPC' = Set(killPC, k, "incomplete")
    /\ UNCHANGED <<mgrVars, startVars, procVars, ioVars, termVars, doneVars, phase, ready,
                   timer, killJob, killAttempt, killNewly, closeVars>>
-----------------------------------------------------------------------------
(* manager.Close; an incomplete Close may be retried                        *)

CloseGoto(k, label) == closePC' = Set(closePC, k, label)

CloseUnchanged == UNCHANGED <<startVars, procVars, ioVars, doneVars, phase, ready, timer,
                              killVars>>

CloseEnter(k) ==
    /\ \/ closePC[k] = "idle"
       \/ closePC[k] = "incomplete" /\ \A j \in Jobs : attempts[j] < MaxAttempts
    /\ IF closed
         THEN CloseGoto(k, "nil") /\ UNCHANGED closing
         ELSE CloseGoto(k, "starts") /\ closing' = TRUE
    /\ UNCHANGED <<jobs, hidden, counted, starting, running, closed, termVars,
                   closeBegin, closeWait>> /\ CloseUnchanged

\* Mutation: Close does not wait for starts in progress.
CloseSnapshotEarly(k) ==
    /\ closePC[k] = "starts"
    /\ closeBegin' = Set(closeBegin, k, jobs \cup hidden)
    /\ closeWait' = Set(closeWait, k, <<>>)
    /\ CloseGoto(k, "begin")
    /\ UNCHANGED <<mgrVars, termVars>> /\ CloseUnchanged

\* starts.Wait(), then the snapshot of both registries.
CloseSnapshot(k) ==
    /\ closePC[k] = "starts"
    /\ starting = 0
    /\ closeBegin' = Set(closeBegin, k, jobs \cup hidden)
    /\ closeWait' = Set(closeWait, k, <<>>)
    /\ CloseGoto(k, "begin")
    /\ UNCHANGED <<mgrVars, termVars>> /\ CloseUnchanged

\* One iteration of the loop of beginTermination(causeClose).
CloseBegin(k) ==
    /\ closePC[k] = "begin"
    /\ \E j \in closeBegin[k] :
          /\ beginTermination(j, "close")
          /\ closeWait' = [closeWait EXCEPT ![k] = Append(@, [job |-> j, attempt |-> Attempt(j)])]
          /\ closeBegin' = [closeBegin EXCEPT ![k] = @ \ {j}]
    /\ UNCHANGED <<mgrVars, closePC>> /\ CloseUnchanged

CloseBegun(k) ==
    /\ closePC[k] = "begin"
    /\ closeBegin[k] = {}
    /\ CloseGoto(k, "wait")
    /\ UNCHANGED <<mgrVars, termVars, closeBegin, closeWait>> /\ CloseUnchanged

\* goroutines.Wait() and timeoutDone.
Settled(j) ==
    /\ reader[j] = "exited" /\ waiter[j] = "exited" /\ coord[j] = "none"
    /\ timer[j] \in {"none", "closed"}

\* One iteration of the loop that waits, in the order of the first loop.
CloseWait(k) ==
    /\ closePC[k] = "wait"
    /\ closeWait[k] # <<>>
    /\ LET j == Head(closeWait[k]).job
           a == Head(closeWait[k]).attempt
       IN \/ /\ Done(j) /\ Settled(j)
             /\ closeWait' = [closeWait EXCEPT ![k] = Tail(@)]
             /\ UNCHANGED closePC
          \/ /\ ~Done(j) /\ AttemptClosed(j, a)
             /\ CloseGoto(k, "incomplete")
             /\ UNCHANGED closeWait
    /\ UNCHANGED <<mgrVars, termVars, closeBegin>> /\ CloseUnchanged

CloseGivesUp(k) ==
    /\ k \notin Patient
    /\ closePC[k] \in {"starts", "wait"}
    /\ CloseGoto(k, "incomplete")
    /\ UNCHANGED <<mgrVars, termVars, closeBegin, closeWait>> /\ CloseUnchanged

\* The end of Close: the registries are reset and closed is set.
CloseFinish(k) ==
    /\ closePC[k] = "wait"
    /\ closeWait[k] = <<>>
    /\ jobs' = {} /\ hidden' = {}
    /\ closed' = TRUE
    /\ CloseGoto(k, "nil")
    /\ UNCHANGED <<counted, starting, running, closing, termVars, closeBegin,
                   closeWait>> /\ CloseUnchanged
-----------------------------------------------------------------------------
start(j) ==
    \/ reserveStart(j) \/ RefuseClosing(j) \/ releaseReservation(j) \/ Spawn(j)
    \/ waitSupervisorReady(j) \/ CheckGate(j) \/ releaseCommand(j) \/ Publish(j)
    \/ ArmTimer(j) \/ CleanupBegin(j) \/ CleanupWait(j)

Supervisor(j) ==
    SupervisorReady(j) \/ SupervisorGate(j) \/ CommandEnds(j) \/ SupervisorDies(j)

coordinate(j) ==
    CoordBegin(j) \/ advanceTerm(j) \/ CoordGrace(j) \/ advanceKill(j) \/ CoordAwait(j)
    \/ completeAttempt(j)

finishTerminal(j) == FinishMark(j) \/ jobCompleted(j) \/ FinishDone(j) \/ FinishReturn(j)

kill(k) == KillLookup(k) \/ KillBegin(k) \/ KillWait(k)

Close(k) ==
    CloseEnter(k) \/ CloseSnapshot(k) \/ CloseBegin(k) \/ CloseBegun(k) \/ CloseWait(k)
    \/ CloseGivesUp(k) \/ CloseFinish(k)

Next ==
    \/ \E j \in Jobs : start(j) \/ Supervisor(j) \/ readStatus(j) \/ Reap(j)
                       \/ coordinate(j) \/ finishTerminal(j)
                       \/ TimerFires(j) \/ TimeoutCallback(j)
    \/ \E k \in Killers : kill(k)
    \/ \E k \in Closers : Close(k)

Spec == Init /\ [][Next]_vars
-----------------------------------------------------------------------------
\* Fairness: goroutines run, timers fire, a killed process dies and is reaped,
\* the supervisor script proceeds.  Nothing obliges a command to end, a fragile
\* supervisor to die, or a host to start, kill or close anything.
Fairness ==
    /\ \A j \in Jobs :
          /\ WF_vars(startPC[j] # "idle" /\ start(j))
          /\ WF_vars(SupervisorReady(j) \/ SupervisorGate(j))
          /\ WF_vars(proc[j] = "dying" /\ SupervisorDies(j))
          /\ WF_vars(readStatus(j))
          /\ WF_vars(Reap(j))
          /\ WF_vars(coordinate(j))
          /\ WF_vars(finishTerminal(j))
          /\ WF_vars(TimerFires(j))
          /\ WF_vars(TimeoutCallback(j))
    /\ \A k \in Killers : WF_vars(killPC[k] # "idle" /\ kill(k))
    /\ \A k \in Closers : WF_vars(closePC[k] \notin {"idle", "incomplete"} /\ Close(k))

FairSpec == Spec /\ Fairness
-----------------------------------------------------------------------------
Spawned(j) == proc[j] # "none"

\* Capacity: the counters are the jobs they stand for, and between them the
\* processes that are not reaped never exceed MaxRunning, nor the registry
\* MaxTracked, whatever starts, completions and evictions interleave; and what
\* the registry no longer knows is terminal, with its waiters told
\* (manager.go:165-202, 337-347).
CapacityHolds ==
    /\ starting = Cardinality({j \in Jobs : startPC[j] \in Starting})
    /\ running = Cardinality(counted)
    /\ starting + running <= MaxRunning
    /\ {j \in Jobs : Spawned(j) /\ ~reaped[j]} \subseteq
          counted \cup {j \in Jobs : startPC[j] \in Starting}
    /\ Tracked <= MaxTracked
    /\ \A j \in Jobs : Spawned(j) /\ startPC[j] \notin Starting /\ j \notin jobs \cup hidden =>
          fin[j] \in {"released", "done"} /\ state[j] \in Terminal

\* The supervisor anchors the number of its process group through TERM and KILL
\* (README.md:218): one that does not die on its own is reaped only after the
\* final signal, so no signal goes to a number the system may have given away.
\* TERM has to wait for the supervisor's readiness for that (job.go:132, 179).
SupervisorAnchorsGroup == \A j \in Jobs \ Fragile : reaped[j] => phase[j] = "final"

\* A terminal state is final in fact: the group got its final signal and the
\* supervisor was reaped (README: "reaped before kill, timeout, or close
\* succeeds"), so a kill that succeeded left no supervisor behind.
TerminalMeansReaped ==
    /\ \A j \in Jobs : state[j] \in Terminal => reaped[j] /\ phase[j] = "final"
    /\ \A k \in Killers : killPC[k] = "done" =>
          state[killJob[k]] \in Terminal /\ reaped[killJob[k]]

\* A Close that succeeded left nothing behind: every supervisor ever spawned is
\* reaped and every job terminal, also those of starts that raced with it.
ClosedMeansNothingLeft ==
    (closed \/ \E k \in Closers : closePC[k] = "nil") =>
        /\ closing
        /\ \A j \in Jobs : Spawned(j) => reaped[j] /\ state[j] \in Terminal
        /\ \A j \in Jobs : startPC[j] \notin Starting

\* Kill, timeout, Close and natural completion race for the verdict and one of
\* them gets it: a kill that is told it was newly accepted owns the cause and the
\* job ends as killed; success is claimed only for a command that ran and
\* exited with zero.  With the types, which count running jobs.
OneVerdict ==
    /\ TypeOK
    /\ \A k \in Killers : killNewly[k] =>
          /\ cause[killJob[k]] = "kill"
          /\ state[killJob[k]] \in {"running", "killed"}
    /\ \A j \in Jobs : state[j] = "succeeded" => code[j] = "zero" /\ gate[j] = "released"
    /\ \A j \in Jobs : state[j] = "timed_out" => timer[j] \in {"fired", "closed"}

\* The last signal of a group and the one it may have after a step
Escalations == {"initial", "term", "final"} \X {"final"}
               \cup {<<"initial", "initial">>, <<"initial", "term">>, <<"term", "term">>}

\* A verdict never changes, whichever goroutine comes late, and at most one
\* coordinator signals a group: a new one starts only when the previous has ended
\* and the job is not terminal, and signals only escalate (job.go:99-125, 176-220).
VerdictIsStable ==
    [][\A j \in Jobs :
          /\ cause[j] # "none" => cause'[j] = cause[j]
          /\ state[j] \in Terminal => state'[j] = state[j]
          /\ attempts'[j] # attempts[j] =>
                coord[j] = "none" /\ ~attemptOpen[j] /\ state[j] = "running"
          /\ <<phase[j], phase'[j]>> \in Escalations]_vars

\* What was begun ends: a termination completes or its attempt ends before the final
\* signal was sent, because kill(2) failed, and may be retried; once that signal was
\* sent, by whichever attempt, the job completes without another; and neither kill
\* nor Close, the retried one included, waits forever, as long as supervisors do not
\* die on their own (job.go:127-174, manager.go:311-335).
TerminationCompletes ==
    /\ \A j \in Jobs :
          /\ cause[j] # "none" ~>
                Done(j) \/ (SignalMayFail /\ ~coordinatorRunning[j] /\ phase[j] # "final")
          /\ phase[j] = "final" ~> Done(j)
    /\ \A k \in Killers : killPC[k] = "waiting" ~> killPC[k] \in {"done", "incomplete"}
    /\ \A k \in Closers : closePC[k] = "starts" ~> closePC[k] \in {"nil", "incomplete"}

\* backgroundjobs/manager_race_unix_test.go:187-188 (post-close state): after a
\* successful Close with every start returned, nothing is starting or running.
NothingRunsAfterClose ==
    closed => starting = 0 /\ running = 0 /\ jobs = {} /\ hidden = {}
=============================================================================
