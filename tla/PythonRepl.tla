----------------------------- MODULE PythonRepl -----------------------------
(***************************************************************************)
(* pythonrepl: manager.go and session.go over runner_unix.go and           *)
(* venv_unix.go.  An owner's operations (execute, clear, closeSession) go  *)
(* through its FIFO gate one at a time; the holder makes the owner's       *)
(* virtual environment, starts its Python runner behind a supervisor       *)
(* process, sends it one request, and on any failure terminates it.  What  *)
(* cannot be cleaned up with certainty quarantines the owner for good.     *)
(*                                                                         *)
(* Fields of an ownerSession are touched only while its gate is held, so   *)
(* an action of the holder is one blocking call: a process start, a        *)
(* select, a wait, a removal.  Python, the supervisor, the termination     *)
(* goroutine and the contexts move on their own.                           *)
(***************************************************************************)
EXTENDS Integers, Sequences, FiniteSets

CONSTANTS Owners,        \* owner keys
          Ops,           \* goroutines that call execute and clear, one call after the other
          Closers,       \* calls of Close
          Patient,       \* closers whose context never ends
          MaxSessions, MaxQueued,
          MaxCalls,      \* bound: calls of execute and clear, over all Ops
          MayFail        \* whether disk, spawn and signal calls may fail

Actors == Ops \cup Closers

ASSUME LimitsAssumption == MaxSessions \in Nat \ {0} /\ MaxQueued \in Nat /\ MaxCalls \in Nat
ASSUME ActorsAssumption == Ops \cap Closers = {} /\ Patient \subseteq Closers
ASSUME MayFailAssumption == MayFail \in BOOLEAN

VARIABLES
    closing, closed,  \* manager
    sessions,         \* the keys of manager.owners
    lifeDone,         \* owners whose lifecycle context is cancelled
    gate,             \* per owner: active and the queue of waiters
    granted,          \* actors whose waiter was granted the gate and have not seen it
    sess,             \* per owner: the fields of ownerSession guarded by the gate
    env,              \* per owner: the environment being made, kept or removed
    proc,             \* per owner: its runner process, supervisor and termination
    calls,            \* how many calls were made
    pc, own, kind,    \* where an actor is, its owner, "execute", "clear" or "close"
    ended,            \* actors whose context is done
    local,            \* an actor's local variables
    todo, failed,     \* Close: sessions still to close, and whether one failed
    told              \* history: per owner the generation and runner last reported

mgrVars == <<closing, closed, sessions, lifeDone>>
gateVars == <<gate, granted>>
worldVars == <<sess, env, proc>>
callVars == <<calls, own, kind>>
closeVars == <<todo, failed>>
vars == <<mgrVars, gateVars, worldVars, pc, callVars, ended, local, closeVars, told>>

Held == {"check", "ctx", "mkdir", "creating", "finish", "finishWait", "rmdir", "publish",
         "start", "ready", "cancelStart", "startWait", "request", "write", "reply",
         "reset", "resetWait", "closeCtx", "release"}

TypeOK ==
    /\ closing \in BOOLEAN /\ closed \in BOOLEAN
    /\ sessions \subseteq Owners /\ Cardinality(sessions) <= MaxSessions
    /\ lifeDone \subseteq sessions
    /\ gate \in [Owners -> [active : BOOLEAN, waiters : Seq(Actors)]]
    /\ \A o \in Owners : Len(gate[o].waiters) <= MaxQueued
    /\ granted \subseteq Actors
    /\ sess \in [Owners -> [venv : BOOLEAN, invalid : BOOLEAN, runner : BOOLEAN,
                            gen : 0 .. MaxCalls, pending : BOOLEAN,
                            quarantined : BOOLEAN, closed : BOOLEAN]]
    /\ env \in [Owners -> [dir : BOOLEAN, creator : {"none", "running", "dying", "gone"},
                           finishing : BOOLEAN, signalErr : BOOLEAN]]
    /\ proc \in [Owners -> [sup : {"none", "up", "exited"}, child : BOOLEAN,
                            ready : {"none", "good", "incompatible", "bad"},
                            status : {"none", "reaped"},
                            term : {"none", "signal", "await", "done"},
                            termErr : BOOLEAN, serial : 0 .. MaxCalls]]
    /\ pc \in [Actors -> Held \cup {"idle", "acquire", "waiting", "next", "returned",
                                    "nil", "error"}]
    /\ calls \in 0 .. MaxCalls
    /\ own \in [Actors -> Owners \cup {"none"}] /\ kind \in [Actors -> {"execute", "clear", "close"}]
    /\ ended \subseteq Actors
    /\ local \in [Actors -> [after : {"", "invalid", "create", "integrity", "close", "created",
                                      "rejected", "ctx"},
                             fresh : BOOLEAN, invalidate : BOOLEAN]]
    /\ todo \in [Closers -> SUBSET Owners] /\ failed \subseteq Closers

\* The kind of an actor that is not in a call.
Idle(a) == IF a \in Closers THEN "close" ELSE "execute"

noLocals == [after |-> "", fresh |-> FALSE, invalidate |-> FALSE]

noProcess == [sup |-> "none", child |-> FALSE, ready |-> "none", status |-> "none",
              term |-> "none", termErr |-> FALSE, serial |-> 0]

Init ==
    /\ closing = FALSE /\ closed = FALSE /\ sessions = {} /\ lifeDone = {}
    /\ gate = [o \in Owners |-> [active |-> FALSE, waiters |-> <<>>]] /\ granted = {}
    /\ sess = [o \in Owners |-> [venv |-> FALSE, invalid |-> FALSE, runner |-> FALSE, gen |-> 0,
                                 pending |-> FALSE, quarantined |-> FALSE, closed |-> FALSE]]
    /\ env = [o \in Owners |-> [dir |-> FALSE, creator |-> "none", finishing |-> FALSE,
                                signalErr |-> FALSE]]
    /\ proc = [o \in Owners |-> noProcess]
    /\ calls = 0
    /\ pc = [a \in Actors |-> "idle"]
    /\ own = [a \in Actors |-> "none"]
    /\ kind = [a \in Actors |-> Idle(a)]
    /\ ended = {}
    /\ local = [a \in Actors |-> noLocals]
    /\ todo = [k \in Closers |-> {}] /\ failed = {}
    /\ told = [o \in Owners |-> [gen |-> 0, serial |-> 0]]

Goto(a, label) == pc' = [pc EXCEPT ![a] = label]

\* An operation ends without a result; its deferred release comes next.
Fail(a) ==
    /\ Goto(a, "release") /\ local' = [local EXCEPT ![a] = noLocals]
    /\ failed' = failed \cup (Closers \cap {a})
Succeed(a) == Goto(a, "release") /\ local' = [local EXCEPT ![a] = noLocals] /\ UNCHANGED failed
Continue(a, label) == Goto(a, label) /\ UNCHANGED <<local, failed>>

\* Goes to a label and remembers what comes after the call.
CallThen(a, label, after) ==
    Goto(a, label) /\ local' = [local EXCEPT ![a].after = after] /\ UNCHANGED failed

\* What the steps of a gate holder leave alone.
HolderUnchanged == UNCHANGED <<mgrVars, gateVars, callVars, ended, todo>>
-----------------------------------------------------------------------------
(* manager.ownerForExecute, and the head of manager.clear                   *)


Refused(a) == Continue(a, "returned") /\ UNCHANGED <<sessions, own, kind>>

Admitted(a, o, what) ==
    /\ Continue(a, "acquire")
    /\ own' = [own EXCEPT ![a] = o] /\ kind' = [kind EXCEPT ![a] = what]

\* An execute: a known owner with the same workspace root, or a new one while
\* the budget of owners lasts.
ownerForExecute(a, o) ==
    \/ o \in sessions /\ Admitted(a, o, "execute") /\ UNCHANGED sessions
    \/ o \in sessions /\ Refused(a)                        \* workspace-root-mismatch
    \/ /\ o \notin sessions /\ Cardinality(sessions) < MaxSessions
       /\ sessions' = sessions \cup {o}
       /\ Admitted(a, o, "execute")
    \/ o \notin sessions /\ Cardinality(sessions) >= MaxSessions /\ Refused(a)

\* A clear: an unknown owner has nothing to clear.
ownerForClear(a, o) ==
    \/ o \in sessions /\ Admitted(a, o, "clear") /\ UNCHANGED sessions
    \/ o \in sessions /\ Refused(a)                        \* workspace-root-mismatch
    \/ o \notin sessions /\ Refused(a)

\* A call; the last case is a manager that is closing or a context that is done.
Enter(a) ==
    /\ pc[a] \in {"idle", "returned"} /\ calls < MaxCalls
    /\ calls' = calls + 1
    /\ ended' = ended \ {a}
    /\ \/ ~closing /\ \E o \in Owners : ownerForExecute(a, o)
       \/ ~closing /\ \E o \in Owners : ownerForClear(a, o)
       \/ Refused(a)
    /\ UNCHANGED <<closing, closed, lifeDone, gateVars, worldVars, todo, told>>
-----------------------------------------------------------------------------
(* operationGate                                                            *)

\* Where an actor goes that did not get the gate or has given it back: an
\* operation returns, Close goes on with its next session.
LeaveGate(a) ==
    /\ Goto(a, IF a \in Ops THEN "returned" ELSE "next")
    /\ own' = [own EXCEPT ![a] = "none"] /\ kind' = [kind EXCEPT ![a] = Idle(a)]
    /\ UNCHANGED local

\* Mutation: one waiter too many.
acquireOneMore(a) ==
    /\ pc[a] = "acquire"
    /\ LET g == gate[own[a]] IN
       \/ /\ ~g.active
          /\ gate' = [gate EXCEPT ![own[a]].active = TRUE]
          /\ Continue(a, "check") /\ UNCHANGED <<own, kind>>
       \/ /\ g.active /\ Len(g.waiters) <= MaxQueued
          /\ gate' = [gate EXCEPT ![own[a]].waiters = Append(@, a)]
          /\ Continue(a, "waiting") /\ UNCHANGED <<own, kind>>
       \/ /\ g.active /\ Len(g.waiters) > MaxQueued
          /\ LeaveGate(a) /\ failed' = failed \cup (Closers \cap {a}) /\ UNCHANGED gate
    /\ UNCHANGED <<mgrVars, granted, worldVars, calls, ended, todo, told>>

acquire(a) ==
    /\ pc[a] = "acquire"
    /\ LET g == gate[own[a]] IN
       \/ /\ ~g.active
          /\ gate' = [gate EXCEPT ![own[a]].active = TRUE]
          /\ Continue(a, "check") /\ UNCHANGED <<own, kind>>
       \/ /\ g.active /\ Len(g.waiters) < MaxQueued
          /\ gate' = [gate EXCEPT ![own[a]].waiters = Append(@, a)]
          /\ Continue(a, "waiting") /\ UNCHANGED <<own, kind>>
       \/ /\ g.active /\ Len(g.waiters) >= MaxQueued
          /\ LeaveGate(a) /\ failed' = failed \cup (Closers \cap {a}) /\ UNCHANGED gate
    /\ UNCHANGED <<mgrVars, granted, worldVars, calls, ended, todo, told>>

\* The loop that cuts a waiter out of the queue.
removeWaiter(waiters, a) ==
    LET at == {i \in 1 .. Len(waiters) : waiters[i] = a}
        index == CHOOSE i \in at : \A j \in at : i <= j
    IN  IF at = {} THEN waiters
        ELSE [i \in 1 .. Len(waiters) - 1 |-> waiters[IF i < index THEN i ELSE i + 1]]

\* Mutation: a waiter that was granted the gate and finds its context done leaves.
waitLosesGrant(a) ==
    /\ pc[a] = "waiting"
    /\ \/ /\ a \in granted /\ a \notin ended
          /\ granted' = granted \ {a}
          /\ Continue(a, "check") /\ UNCHANGED <<gate, own, kind>>
       \/ /\ a \in ended
          /\ granted' = granted \ {a}
          /\ gate' = [gate EXCEPT ![own[a]].waiters = removeWaiter(@, a)]
          /\ LeaveGate(a) /\ failed' = failed \cup (Closers \cap {a})
    /\ UNCHANGED <<mgrVars, worldVars, calls, ended, todo, told>>

\* The select on the waiter's ready channel and the context.  A waiter that was
\* granted the gate although its context is done passes it on.
wait(a) ==
    /\ pc[a] = "waiting"
    /\ \/ /\ a \in granted
          /\ granted' = granted \ {a}
          /\ IF a \notin ended THEN Continue(a, "check") ELSE Fail(a)
          /\ UNCHANGED <<gate, own, kind>>
       \/ /\ a \notin granted /\ a \in ended
          /\ gate' = [gate EXCEPT ![own[a]].waiters = removeWaiter(@, a)]
          /\ LeaveGate(a) /\ failed' = failed \cup (Closers \cap {a}) /\ UNCHANGED granted
    /\ UNCHANGED <<mgrVars, worldVars, calls, ended, todo, told>>

release(a) ==
    /\ pc[a] = "release"
    /\ LET g == gate[own[a]] IN
       IF g.waiters = <<>>
         THEN gate' = [gate EXCEPT ![own[a]].active = FALSE] /\ UNCHANGED granted
         ELSE /\ gate' = [gate EXCEPT ![own[a]].waiters = Tail(@)]
              /\ granted' = granted \cup {Head(g.waiters)}
    /\ LeaveGate(a) /\ UNCHANGED failed
    /\ UNCHANGED <<mgrVars, worldVars, calls, ended, todo, told>>
-----------------------------------------------------------------------------
(* The gate holder looks at the session                                     *)

CheckExecute(a, s) ==
    \/ (s.closed \/ s.quarantined) /\ Fail(a)
    \/ ~s.closed /\ ~s.quarantined /\ s.invalid /\ CallThen(a, "rmdir", "invalid")
    \/ ~s.closed /\ ~s.quarantined /\ ~s.invalid /\ Continue(a, "ctx")

CheckClose(a, s) ==
    \/ s.closed /\ Succeed(a)
    \/ ~s.closed /\ s.quarantined /\ Fail(a)
    \/ ~s.closed /\ ~s.quarantined /\ Continue(a, IF s.runner THEN "reset" ELSE "closeCtx")

\* manager.clear: without a runner there is no state, only a notice to drop.
CheckClear(a, o, s) ==
    \/ (s.closed \/ s.quarantined \/ a \in ended) /\ Fail(a) /\ UNCHANGED <<sess, told>>
    \/ /\ ~s.closed /\ ~s.quarantined /\ a \notin ended
       /\ sess' = [sess EXCEPT ![o].pending = FALSE]
       /\ IF s.runner
            THEN /\ Goto(a, "reset")
                 /\ local' = [local EXCEPT ![a].invalidate = TRUE]
                 /\ UNCHANGED <<failed, told>>
            ELSE Succeed(a) /\ told' = [told EXCEPT ![o] = [gen |-> s.gen, serial |-> 0]]

Check(a) ==
    /\ pc[a] = "check"
    /\ LET o == own[a] IN
       \/ kind[a] = "execute" /\ CheckExecute(a, sess[o]) /\ UNCHANGED <<sess, told>>
       \/ kind[a] = "close" /\ CheckClose(a, sess[o]) /\ UNCHANGED <<sess, told>>
       \/ kind[a] = "clear" /\ CheckClear(a, o, sess[o])
    /\ UNCHANGED <<env, proc>> /\ HolderUnchanged

\* The context is looked at again before anything is made or, in Close, removed.
CheckContext(a) ==
    /\ pc[a] \in {"ctx", "closeCtx"}
    /\ \/ a \in ended /\ Fail(a)
       \/ a \notin ended /\ pc[a] = "closeCtx" /\ CallThen(a, "rmdir", "close")
       \/ a \notin ended /\ pc[a] = "ctx"
          /\ Continue(a, IF sess[own[a]].venv THEN "start" ELSE "mkdir")
    /\ UNCHANGED <<worldVars, told>> /\ HolderUnchanged
-----------------------------------------------------------------------------
(* createVenv and removeVenv                                                *)

\* The private directory, and the creator process in it.
Mkdir(a) ==
    /\ pc[a] = "mkdir"
    /\ LET o == own[a] IN
       \/ MayFail /\ Fail(a) /\ UNCHANGED env
       \/ /\ MayFail \/ a \in ended
          /\ env' = [env EXCEPT ![o].dir = TRUE]
          /\ CallThen(a, "rmdir", "create")
       \/ /\ a \notin ended
          /\ env' = [env EXCEPT ![o] = [dir |-> TRUE, creator |-> "running", finishing |-> TRUE,
                                        signalErr |-> FALSE]]
          /\ Continue(a, "creating")
    /\ UNCHANGED <<sess, proc, told>> /\ HolderUnchanged

\* The creator reports; or the context, with the ceiling VenvCreateTimeout, is
\* done: the creator's group gets TERM and its grace.
Creating(a) ==
    /\ pc[a] = "creating"
    /\ \/ \E verdict \in {"created", "rejected"} : CallThen(a, "finish", verdict) /\ UNCHANGED env
       \/ /\ CallThen(a, "finish", "rejected")
          /\ MayFail /\ env' = [env EXCEPT ![own[a]].signalErr = TRUE]
    /\ UNCHANGED <<sess, proc, told>> /\ HolderUnchanged

\* What createVenv and removeVenv do when the creator could not be finished or
\* the directory could not be removed: the environment stays with the session,
\* invalid unless it is Close that found out.
KeepInvalid(a, o) ==
    /\ sess' = [sess EXCEPT ![o].venv = TRUE, ![o].invalid = @ \/ local[a].after # "close"]
    /\ Fail(a)

\* venvCreation.finish: KILL to the group, then the wait.
finish(a) ==
    /\ pc[a] = "finish"
    /\ LET o == own[a] IN
       \/ /\ env' = [env EXCEPT ![o].creator = IF @ = "running" THEN "dying" ELSE @]
          /\ Continue(a, "finishWait") /\ UNCHANGED sess
       \/ /\ MayFail /\ env[o].creator = "running"
          /\ env' = [env EXCEPT ![o].signalErr = TRUE]
          /\ KeepInvalid(a, o)
    /\ UNCHANGED <<proc, told>> /\ HolderUnchanged

\* The wait, bounded by KillWait; a signal that failed at any time fails every
\* finish.  Afterwards createVenv checks what was made
\* and publishes it or cleans up; removeVenv goes on to the directory.
finishWait(a) ==
    /\ pc[a] = "finishWait"
    /\ LET o == own[a] IN
       \/ KeepInvalid(a, o) /\ UNCHANGED env
       \/ /\ env[o].creator = "gone" /\ ~env[o].signalErr
          /\ env' = [env EXCEPT ![o].finishing = FALSE, ![o].creator = "none"]
          /\ \/ local[a].after = "created" /\ Continue(a, "publish")
             \/ local[a].after = "created" /\ MayFail /\ CallThen(a, "rmdir", "create")
             \/ local[a].after = "rejected" /\ CallThen(a, "rmdir", "create")
             \/ local[a].after \notin {"created", "rejected"} /\ Continue(a, "rmdir")
          /\ UNCHANGED sess
    /\ UNCHANGED <<proc, told>> /\ HolderUnchanged

\* Mutation: a directory that could not be removed is dropped.
removeVenvForgets(a) ==
    /\ pc[a] = "rmdir" /\ ~env[own[a]].finishing
    /\ LET o == own[a] IN
       /\ \/ env' = [env EXCEPT ![o].dir = FALSE]
          \/ MayFail /\ UNCHANGED env
       /\ sess' = [sess EXCEPT ![o].venv = FALSE, ![o].invalid = FALSE,
                               ![o].closed = local[a].after = "close"]
       /\ IF local[a].after = "close" THEN Succeed(a)
          ELSE IF local[a].after = "invalid" THEN Continue(a, "ctx") ELSE Fail(a)
    /\ UNCHANGED <<proc, told>> /\ HolderUnchanged

\* removeVenv: finish a creation that is still open first; then RemoveAll.  The
\* callers go on, close the session, or return the error they came with.
removeVenv(a) ==
    /\ pc[a] = "rmdir"
    /\ LET o == own[a] IN
       \/ env[o].finishing /\ Continue(a, "finish") /\ UNCHANGED <<sess, env>>
       \/ /\ ~env[o].finishing
          /\ env' = [env EXCEPT ![o].dir = FALSE]
          /\ sess' = [sess EXCEPT ![o].venv = FALSE, ![o].invalid = FALSE,
                                  ![o].closed = local[a].after = "close"]
          /\ IF local[a].after = "close" THEN Succeed(a)
             ELSE IF local[a].after = "invalid" THEN Continue(a, "ctx") ELSE Fail(a)
       \/ ~env[o].finishing /\ MayFail /\ env[o].dir /\ KeepInvalid(a, o) /\ UNCHANGED env
    /\ UNCHANGED <<proc, told>> /\ HolderUnchanged

\* The environment belongs to the session unless the context is done by now.
Publish(a) ==
    /\ pc[a] = "publish"
    /\ \/ a \in ended /\ CallThen(a, "rmdir", "create") /\ UNCHANGED sess
       \/ /\ a \notin ended
          /\ sess' = [sess EXCEPT ![own[a]].venv = TRUE]
          /\ Continue(a, "start")
    /\ UNCHANGED <<env, proc, told>> /\ HolderUnchanged
-----------------------------------------------------------------------------
(* startRunner                                                              *)

\* A runner that is there is used; otherwise the supervisor is started.
Start(a) ==
    /\ pc[a] = "start"
    /\ LET o == own[a] IN
       \/ /\ sess[o].runner
          /\ Goto(a, "request") /\ local' = [local EXCEPT ![a].fresh = FALSE]
          /\ UNCHANGED <<failed, proc>>
       \/ ~sess[o].runner /\ MayFail /\ Fail(a) /\ UNCHANGED proc
       \/ /\ ~sess[o].runner
          /\ proc' = [proc EXCEPT ![o] = [noProcess EXCEPT !.sup = "up", !.child = TRUE,
                                                           !.serial = proc[o].serial + 1]]
          /\ Goto(a, "ready") /\ local' = [local EXCEPT ![a].fresh = TRUE]
          /\ UNCHANGED failed
    /\ UNCHANGED <<sess, env, told>> /\ HolderUnchanged

\* The owner keeps a process that could not be cleaned up, and is quarantined.
Quarantine(a, o) ==
    /\ sess' = [sess EXCEPT ![o].runner = TRUE, ![o].quarantined = TRUE]
    /\ Fail(a)

\* forceSupervisorStop: without the group's number only the supervisor can be
\* killed; the wait for it is bounded by KillWait.  The status pipe is closed.
forceSupervisorStop(a, o) ==
    /\ \E sup \in {proc[o].sup, "exited"} :
          proc' = [proc EXCEPT ![o].sup = sup, ![o].ready = "bad"]
    /\ Quarantine(a, o)

\* terminate: one termination goroutine per process, however often it is asked.
terminate(o) == proc' = [proc EXCEPT ![o].term = IF @ = "none" THEN "signal" ELSE @]

\* The session drops its process object: only what still lives is left of it.
dropProcess(o) ==
    proc' = [proc EXCEPT ![o] = [noProcess EXCEPT !.sup = proc[o].sup, !.child = proc[o].child,
                                                  !.serial = proc[o].serial]]

\* The select on readiness and the context, with the ceiling RunnerStartTimeout;
\* classifyReadiness.
Ready(a) ==
    /\ pc[a] = "ready"
    /\ LET o == own[a] IN
       \/ /\ proc[o].ready = "good"
          /\ sess' = [sess EXCEPT ![o].runner = TRUE]
          /\ Continue(a, "request") /\ UNCHANGED proc
       \/ /\ proc[o].ready = "incompatible"
          /\ terminate(o) /\ CallThen(a, "startWait", "integrity") /\ UNCHANGED sess
       \/ proc[o].ready = "bad" /\ forceSupervisorStop(a, o)
       \/ Continue(a, "cancelStart") /\ UNCHANGED <<sess, proc>>
    /\ UNCHANGED <<env, told>> /\ HolderUnchanged

\* cancelStartup: KillWait for a readiness that names the group, else force.
cancelStartup(a) ==
    /\ pc[a] = "cancelStart"
    /\ LET o == own[a] IN
       \/ /\ proc[o].ready \in {"good", "incompatible"}
          /\ terminate(o) /\ CallThen(a, "startWait", "ctx") /\ UNCHANGED sess
       \/ forceSupervisorStop(a, o)
    /\ UNCHANGED <<env, told>> /\ HolderUnchanged

\* terminateAndWait, and what execute makes of it: an interpreter that is not
\* what was asked for takes its environment with it.
terminateAndWait(a) ==
    /\ pc[a] = "startWait"
    /\ LET o == own[a] IN
       \/ /\ proc[o].term = "done" /\ ~proc[o].termErr
          /\ dropProcess(o)
          /\ IF local[a].after = "integrity"
               THEN sess' = [sess EXCEPT ![o].invalid = TRUE] /\ Continue(a, "rmdir")
               ELSE Fail(a) /\ UNCHANGED sess
       \/ proc[o].term = "done" /\ proc[o].termErr /\ Quarantine(a, o) /\ UNCHANGED proc
       \/ Quarantine(a, o) /\ UNCHANGED proc                    \* the timer
    /\ UNCHANGED <<env, told>> /\ HolderUnchanged
-----------------------------------------------------------------------------
(* runnerProcess.execute                                                    *)

\* Mutation: a runner that had state is reset as if it had none.
ExecutionFailedFresh(a, mayHaveExecuted) ==
    /\ Goto(a, "reset")
    /\ local' = [local EXCEPT ![a].invalidate = mayHaveExecuted]
    /\ UNCHANGED failed

\* manager.execute's error path: the reset counts if code may have run now, or
\* if the runner had been there before.
ExecutionFailed(a, mayHaveExecuted) ==
    /\ Goto(a, "reset")
    /\ local' = [local EXCEPT ![a].invalidate = mayHaveExecuted \/ ~local[a].fresh]
    /\ UNCHANGED failed

\* Before the request: the supervisor is gone, the frame is too large, or the
\* context is done.
Request(a) ==
    /\ pc[a] = "request"
    /\ LET o == own[a] IN
       \/ proc[o].sup = "exited" /\ ExecutionFailed(a, FALSE)
       \/ MayFail /\ ExecutionFailed(a, FALSE)
       \/ a \in ended /\ ExecutionFailed(a, FALSE)
       \/ proc[o].sup = "up" /\ a \notin ended /\ Continue(a, "write")
    /\ UNCHANGED <<worldVars, told>> /\ HolderUnchanged

\* The select on the writer goroutine, the cancellation and the supervisor.
Write(a) ==
    /\ pc[a] = "write"
    /\ \/ a \notin ended /\ Continue(a, "reply")
       \/ MayFail /\ \E some \in BOOLEAN : ExecutionFailed(a, some)
       \/ a \in ended /\ ExecutionFailed(a, TRUE)
       \/ proc[own[a]].sup = "exited" /\ ExecutionFailed(a, FALSE)
    /\ UNCHANGED <<worldVars, told>> /\ HolderUnchanged

\* A frame arrives from Python.  It is the result if it is valid, the supervisor
\* is there and raceCoordinator.commit comes before the cancellation; the result
\* takes the pending notice with it.
Response(a) ==
    /\ pc[a] = "reply"
    /\ LET o == own[a] IN
       \/ ExecutionFailed(a, TRUE) /\ UNCHANGED <<sess, told>>
       \/ /\ proc[o].sup = "up" /\ a \notin ended
          /\ sess' = [sess EXCEPT ![o].pending = FALSE]
          /\ told' = [told EXCEPT ![o] = [gen |-> sess[o].gen, serial |-> proc[o].serial]]
          /\ Succeed(a)
    /\ UNCHANGED <<env, proc>> /\ HolderUnchanged

\* The other cases of the select: cancellation, or the supervisor is gone.
Interrupted(a) ==
    /\ pc[a] = "reply"
    /\ \/ a \in ended /\ ExecutionFailed(a, TRUE)
       \/ proc[own[a]].sup = "exited" /\ ExecutionFailed(a, TRUE)
    /\ UNCHANGED <<worldVars, told>> /\ HolderUnchanged
-----------------------------------------------------------------------------
(* manager.resetRunner                                                      *)

Reset(a) ==
    /\ pc[a] = "reset"
    /\ terminate(own[a])
    /\ Continue(a, "resetWait")
    /\ UNCHANGED <<sess, env, told>> /\ HolderUnchanged

\* Mutation: the outcome of the termination is not looked at.
ResetDoneUnchecked(a, o) ==
    /\ proc[o].term = "done" /\ dropProcess(o)
    /\ sess' = [sess EXCEPT ![o].runner = FALSE,
                            ![o].gen = IF local[a].invalidate THEN @ + 1 ELSE @,
                            ![o].pending = @ \/ local[a].invalidate]
    /\ CASE kind[a] = "execute" -> Fail(a) /\ UNCHANGED told
         [] kind[a] = "close" -> Continue(a, "closeCtx") /\ UNCHANGED told
         [] kind[a] = "clear" -> Succeed(a) /\ UNCHANGED told

\* The termination is complete.  clear reports the new generation itself and
\* drops the notice.
ResetDone(a, o) ==
    /\ proc[o].term = "done"
    /\ IF proc[o].termErr
         THEN Quarantine(a, o) /\ UNCHANGED <<proc, told>>
         ELSE /\ dropProcess(o)
              /\ \/ /\ kind[a] = "execute" /\ Fail(a) /\ UNCHANGED told
                    /\ \/ /\ local[a].invalidate
                          /\ sess' = [sess EXCEPT ![o].runner = FALSE, ![o].gen = @ + 1,
                                                  ![o].pending = TRUE]
                       \/ ~local[a].invalidate /\ sess' = [sess EXCEPT ![o].runner = FALSE]
                 \/ /\ kind[a] = "clear" /\ Succeed(a)
                    /\ sess' = [sess EXCEPT ![o].runner = FALSE, ![o].gen = @ + 1,
                                            ![o].pending = FALSE]
                    /\ told' = [told EXCEPT ![o] = [gen |-> sess[o].gen + 1, serial |-> 0]]
                 \/ /\ kind[a] = "close" /\ Continue(a, "closeCtx") /\ UNCHANGED told
                    /\ sess' = [sess EXCEPT ![o].runner = FALSE]

\* An operation waits for a fixed time and then quarantines the owner; Close
\* waits as long as its context lasts and may come back.
ResetWait(a) ==
    /\ pc[a] = "resetWait"
    /\ LET o == own[a] IN
       \/ ResetDone(a, o)
       \/ kind[a] # "close" /\ Quarantine(a, o) /\ UNCHANGED <<proc, told>>
       \/ kind[a] = "close" /\ a \in ended /\ Fail(a) /\ UNCHANGED <<sess, proc, told>>
    /\ UNCHANGED env /\ HolderUnchanged
-----------------------------------------------------------------------------
(* manager.Close; after an error it may be called again                     *)

CloseEnter(k) ==
    /\ pc[k] \in {"idle", "error"}
    /\ IF closed
         THEN Goto(k, "nil") /\ UNCHANGED <<closing, lifeDone, todo, failed>>
         ELSE /\ closing' = TRUE
              /\ lifeDone' = sessions
              /\ todo' = [todo EXCEPT ![k] = sessions] /\ failed' = failed \ {k}
              /\ Goto(k, "next")
    /\ ended' = ended \ {k}
    /\ UNCHANGED <<closed, sessions, gateVars, worldVars, callVars, local, told>>

\* Mutation: Close succeeds although a session could not be closed.
CloseNextEager(k) ==
    /\ pc[k] = "next"
    /\ \/ \E o \in todo[k] :
             /\ own' = [own EXCEPT ![k] = o]
             /\ todo' = [todo EXCEPT ![k] = @ \ {o}]
             /\ Goto(k, "acquire") /\ UNCHANGED closed
       \/ todo[k] = {} /\ closed' = TRUE /\ Goto(k, "nil") /\ UNCHANGED <<own, todo>>
    /\ UNCHANGED <<closing, sessions, lifeDone, gateVars, worldVars, calls, kind, ended, local, failed, told>>

\* The loop over the sessions, and the verdict.
CloseNext(k) ==
    /\ pc[k] = "next"
    /\ \/ \E o \in todo[k] :
             /\ own' = [own EXCEPT ![k] = o]
             /\ todo' = [todo EXCEPT ![k] = @ \ {o}]
             /\ Goto(k, "acquire") /\ UNCHANGED closed
       \/ todo[k] = {} /\ k \in failed /\ Goto(k, "error") /\ UNCHANGED <<closed, own, todo>>
       \/ todo[k] = {} /\ k \notin failed /\ closed' = TRUE /\ Goto(k, "nil") /\ UNCHANGED <<own, todo>>
    /\ UNCHANGED <<closing, sessions, lifeDone, gateVars, worldVars, calls, kind, ended, local, failed, told>>
-----------------------------------------------------------------------------
(* What moves on its own                                                    *)

WorldUnchanged == UNCHANGED <<mgrVars, gateVars, pc, callVars, ended, local, closeVars, told>>

\* The supervisor's first frame; when it dies before, the reader sees the end.
SupervisorReady(o) ==
    /\ proc[o].sup # "none" /\ proc[o].ready = "none"
    /\ \E frame \in {"good", "incompatible", "bad"} :
          /\ proc[o].sup = "exited" => frame = "bad"
          /\ proc' = [proc EXCEPT ![o].ready = frame]
    /\ UNCHANGED <<sess, env>> /\ WorldUnchanged

\* The supervisor dies; its child stays.
SupervisorDies(o) ==
    /\ MayFail /\ proc[o].sup = "up"
    /\ proc' = [proc EXCEPT ![o].sup = "exited"]
    /\ UNCHANGED <<sess, env>> /\ WorldUnchanged

\* coordinateTermination, first part: the pipes are closed, the group gets TERM,
\* its grace and KILL, and the supervisor the order to reap, which fails when it
\* is gone.
TermSignal(o) ==
    /\ proc[o].term = "signal"
    /\ \E killed \in (IF MayFail THEN BOOLEAN ELSE {TRUE}) :
          proc' = [proc EXCEPT ![o].term = "await",
                               ![o].child = @ /\ ~killed,
                               ![o].termErr = ~killed \/ proc[o].sup = "exited"]
    /\ UNCHANGED <<sess, env>> /\ WorldUnchanged

\* The supervisor has waited for the child, reports, and exits.
SupervisorReaps(o) ==
    /\ proc[o].sup = "up" /\ proc[o].term \in {"await", "done"} /\ ~proc[o].child
    /\ proc' = [proc EXCEPT ![o].status = "reaped", ![o].sup = "exited"]
    /\ UNCHANGED <<sess, env>> /\ WorldUnchanged

\* The selects on the status frame and on waitDone, each with KillWait: without
\* the frame and the exit in time the cleanup is incomplete.
TermAwait(o) ==
    /\ proc[o].term = "await"
    /\ \E intime \in BOOLEAN :
          proc' = [proc EXCEPT ![o].term = "done",
                               ![o].termErr = @ \/ proc[o].status # "reaped" \/ ~intime]
    /\ UNCHANGED <<sess, env>> /\ WorldUnchanged

coordinateTermination(o) == TermSignal(o) \/ TermAwait(o)

\* The creator dies of KILL and is waited for.
CreatorExits(o) ==
    /\ env[o].creator = "dying"
    /\ env' = [env EXCEPT ![o].creator = "gone"]
    /\ UNCHANGED <<sess, proc>> /\ WorldUnchanged

EndContext(a) ==
    /\ a \notin ended
    /\ ended' = ended \cup {a}
    /\ UNCHANGED <<mgrVars, gateVars, worldVars, pc, callVars, local, closeVars, told>>

\* The caller gives up, or the call's timeout passes.
ContextEnds(a) ==
    /\ a \notin Patient /\ pc[a] \notin {"idle", "returned", "nil", "error"}
    /\ EndContext(a)

\* context.AfterFunc of the owner's lifecycle, which Close cancelled.
LifecycleEnds(a) ==
    /\ a \in Ops /\ own[a] \in lifeDone /\ pc[a] \notin {"idle", "returned"}
    /\ EndContext(a)
-----------------------------------------------------------------------------
HolderStep(a) ==
    \/ Check(a) \/ CheckContext(a) \/ Mkdir(a) \/ Creating(a) \/ finish(a) \/ finishWait(a)
    \/ removeVenv(a) \/ Publish(a) \/ Start(a) \/ Ready(a) \/ cancelStartup(a)
    \/ terminateAndWait(a) \/ Request(a) \/ Write(a) \/ Interrupted(a) \/ Reset(a)
    \/ ResetWait(a)

Proceed(a) == acquire(a) \/ wait(a) \/ release(a) \/ HolderStep(a)

Next ==
    \/ \E a \in Ops : Enter(a) \/ Response(a) \/ LifecycleEnds(a)
    \/ \E a \in Actors : Proceed(a) \/ ContextEnds(a)
    \/ \E k \in Closers : CloseEnter(k) \/ CloseNext(k)
    \/ \E o \in Owners : SupervisorReady(o) \/ SupervisorDies(o) \/ SupervisorReaps(o)
                         \/ coordinateTermination(o) \/ CreatorExits(o)

Spec == Init /\ [][Next]_vars
-----------------------------------------------------------------------------
Holders(o) == {a \in Actors : own[a] = o /\ (pc[a] \in Held \/ a \in granted)}

Alive(o) == proc[o].sup = "up" \/ proc[o].child

\* The gate of an owner is held by at most one operation, is free exactly when
\* nobody holds it or was handed it (a waiter whose context ended as it was
\* granted passes it on), and its queue holds those that wait, in order, once,
\* and never more than MaxQueued, which is part of the types (session.go:29-80).
GateIsExclusive ==
    /\ TypeOK
    /\ \A o \in Owners :
          /\ Cardinality(Holders(o)) = (IF gate[o].active THEN 1 ELSE 0)
          /\ \A a \in Actors :
                Cardinality({i \in DOMAIN gate[o].waiters : gate[o].waiters[i] = a})
                  = (IF pc[a] = "waiting" /\ own[a] = o /\ a \notin granted THEN 1 ELSE 0)

\* Between operations nothing is lost sight of: a live process is the session's
\* runner, a directory its environment, and a creator that was not waited for
\* belongs to an environment marked invalid.
ResourcesAreOwned ==
    \A o \in Owners : Holders(o) = {} =>
        /\ Alive(o) => sess[o].runner
        /\ env[o].dir => sess[o].venv
        /\ env[o].creator # "none" => (sess[o].venv /\ sess[o].invalid /\ env[o].finishing)

\* Close succeeds only when no process and no directory is left, whatever failed
\* on the way ("close removes it after the runner process group, out-of-group
\* reaper supervisor, and Go child wait all finish").
ClosedMeansNothingLeft ==
    closed => \A o \in Owners :
        ~Alive(o) /\ ~env[o].dir /\ env[o].creator = "none"

\* A runner is started only when nothing of the owner's previous one is left.
OneRunnerAtATime ==
    [][\A o \in Owners : proc'[o].serial # proc[o].serial => ~Alive(o)]_vars

\* Before the owner is closed, a result says state_reset exactly when its
\* generation is not the one last reported; under one generation all results come
\* from one runner, so globals are never lost unnoticed.
StateLossIsReported ==
    [][\A a \in Ops : LET o == own[a] IN
          (pc[a] = "reply" /\ pc'[a] = "release" /\ o \notin lifeDone) =>
              /\ sess[o].pending <=> sess[o].gen # told[o].gen
              /\ sess[o].gen = told[o].gen => told[o].serial \in {0, proc[o].serial}]_vars
=============================================================================
