------------------------ MODULE WorkspaceCoordinator ------------------------
(***************************************************************************)
(* workspaceinstructions/coordinator.go: one run of the prompt provider's  *)
(* work (resolver, discovery, rendering).  Admission and Close are those   *)
(* of CoordinatorAdmission, except that every cancel function takes a      *)
(* cause, which the work goroutine reads back when it has finished: a run  *)
(* that Close interrupted must answer "closed", never with the work's own  *)
(* context error or with a truncated section.                              *)
(***************************************************************************)
EXTENDS CoordinatorAdmission

VARIABLES pc,       \* where each caller goroutine stands
          worker,   \* where each work goroutine stands
          ended,    \* runs whose parent context is done
          expired,  \* runs whose deadline has passed on the clock
          cause,    \* context.Cause(child)
          envelope, \* workEnvelope, filled in by runWork
          seen,     \* what the caller's snapshot() returned
          result    \* what run returned

callVars == <<pc, worker, ended, expired, cause, envelope, seen, result>>
vars == <<admissionVars, callVars>>

Causes == {"none", "canceled", "closing", "deadline", "parent"}

\* What the work itself may return: an outcome of its own (a section or a
\* sanitized error, which run passes on alike), or the error of its child
\* context, which it polls between files.
WorkResults == {"own", "childErr"}
Results == WorkResults \cup {"none", "ctxErr", "closed", "saturated", "deadline"}
Envelopes == [published : BOOLEAN, early : BOOLEAN, cause : Causes,
              value : WorkResults \cup {"none"}]
None == [published |-> FALSE, early |-> FALSE, cause |-> "none", value |-> "none"]

TypeOK ==
    /\ AdmissionTypeOK
    /\ pc \in [Calls -> {"idle", "acquire", "rejectedClosed", "rejectedSaturated",
                         "admitted", "abort", "select", "woken", "snapshot",
                         "decide", "returned"}]
    /\ worker \in [Calls -> {"none", "running", "completed", "caused", "published",
                             "released", "exited"}]
    /\ ended \subseteq Calls /\ expired \subseteq Calls
    /\ cause \in [Calls -> Causes]
    /\ envelope \in [Calls -> Envelopes]
    /\ seen \in [Calls -> Envelopes]
    /\ result \in [Calls -> Results]

Init ==
    /\ AdmissionInit
    /\ pc = [c \in Calls |-> "idle"]
    /\ worker = [c \in Calls |-> "none"]
    /\ ended = {} /\ expired = {}
    /\ cause = [c \in Calls |-> "none"]
    /\ envelope = [c \in Calls |-> None]
    /\ seen = [c \in Calls |-> None]
    /\ result = [c \in Calls |-> "none"]

\* The first cancellation of a context fixes its cause.
Caused(c, why) ==
    cause' = [cause EXCEPT ![c] = IF @ = "none" THEN why ELSE @]

\* cancel(why): cancelChild(why), then stopDeadline().
cancel(c, why) == Caused(c, why) /\ cancelled' = cancelled \cup {c}

Goto(c, label) == pc' = [pc EXCEPT ![c] = label]
Return(c, r) == Goto(c, "returned") /\ result' = [result EXCEPT ![c] = r]
-----------------------------------------------------------------------------
\* run: the first context check, then the deadline and the child contexts.
Enter(c) ==
    /\ pc[c] = "idle"
    /\ IF c \in ended
         THEN Return(c, "ctxErr")
         ELSE Goto(c, "acquire") /\ UNCHANGED result
    /\ UNCHANGED <<admissionVars, worker, ended, expired, cause, envelope, seen>>

\* acquire, admitted.
Acquire(c) ==
    /\ pc[c] = "acquire"
    /\ acquire(c)
    /\ Goto(c, "admitted")
    /\ UNCHANGED <<cancelled, worker, ended, expired, cause, envelope, seen, result>>

\* acquire, rejectedClosed or rejectedSaturated, then cancel(nil).
Reject(c) ==
    /\ pc[c] = "acquire"
    /\ \/ (closing \/ closed) /\ Goto(c, "rejectedClosed")
       \/ ~closing /\ ~closed /\ Saturated /\ Goto(c, "rejectedSaturated")
    /\ cancel(c, "canceled")
    /\ UNCHANGED <<admissionButCancelled, worker, ended, expired, envelope, seen, result>>

ReturnRejected(c) ==
    /\ pc[c] \in {"rejectedClosed", "rejectedSaturated"}
    /\ Return(c, CASE c \in ended -> "ctxErr"
                   [] c \notin ended /\ pc[c] = "rejectedClosed" -> "closed"
                   [] c \notin ended /\ pc[c] = "rejectedSaturated" -> "saturated")
    /\ UNCHANGED <<admissionVars, worker, ended, expired, cause, envelope, seen>>

Launch(c) ==
    /\ pc[c] = "admitted"
    /\ IF c \in ended
         THEN cancel(c, "canceled") /\ Goto(c, "abort") /\ UNCHANGED worker
         ELSE /\ worker' = [worker EXCEPT ![c] = "running"]
              /\ Goto(c, "select")
              /\ UNCHANGED <<cancelled, cause>>
    /\ UNCHANGED <<admissionButCancelled, ended, expired, envelope, seen, result>>

AbortAdmitted(c) ==
    /\ pc[c] = "abort"
    /\ release(c)
    /\ Return(c, "ctxErr")
    /\ UNCHANGED <<cancelled, worker, ended, expired, cause, envelope, seen>>

SelectParent(c) ==
    /\ pc[c] = "select"
    /\ c \in ended
    /\ cancel(c, "canceled")
    /\ Return(c, "ctxErr")
    /\ UNCHANGED <<admissionButCancelled, worker, ended, expired, envelope, seen>>

SelectWake(c) ==
    /\ pc[c] = "select"
    /\ envelope[c].published \/ c \in expired
    /\ Goto(c, "woken")
    /\ UNCHANGED <<admissionVars, worker, ended, expired, cause, envelope, seen, result>>

Recheck(c) ==
    /\ pc[c] = "woken"
    /\ IF c \in ended
         THEN cancel(c, "canceled") /\ Return(c, "ctxErr")
         ELSE Goto(c, "snapshot") /\ UNCHANGED <<cancelled, cause, result>>
    /\ UNCHANGED <<admissionButCancelled, worker, ended, expired, envelope, seen>>

Snapshot(c) ==
    /\ pc[c] = "snapshot"
    /\ seen' = [seen EXCEPT ![c] = IF envelope[c].published THEN envelope[c] ELSE None]
    /\ Goto(c, "decide")
    /\ UNCHANGED <<admissionVars, worker, ended, expired, cause, envelope, result>>

\* Mutations: the deadline, or the cause, is not looked at.
SettledAnyTime(e) == e.published
resultIgnoresCause(e) == e.value

\* resultBefore: what a snapshot is worth, if it settles the run.
Settled(e) == e.published /\ e.early
resultBefore(e) == IF e.cause = "closing" THEN "closed" ELSE e.value

Decide(c) ==
    /\ pc[c] = "decide"
    /\ seen' = [seen EXCEPT ![c] = None]
    /\ \/ /\ Settled(seen[c])
          /\ cancel(c, "canceled")
          /\ Return(c, resultBefore(seen[c]))
       \/ /\ ~Settled(seen[c])
          /\ c \in expired \/ seen[c].published
          /\ cancel(c, "deadline")
          /\ Return(c, "deadline")
       \/ /\ ~seen[c].published
          /\ c \notin expired
          /\ Goto(c, "select")
          /\ UNCHANGED <<cancelled, cause, result>>
    /\ UNCHANGED <<admissionButCancelled, worker, ended, expired, envelope>>
-----------------------------------------------------------------------------
\* runWork: the work returns or panics, and completedAt is read.  Only a child
\* that is done makes the work return the child's error.
Work(c) ==
    /\ worker[c] = "running"
    /\ \E value \in WorkResults :
          /\ value = "childErr" => cause[c] # "none"
          /\ envelope' = [envelope EXCEPT ![c].early = c \notin expired, ![c].value = value]
    /\ worker' = [worker EXCEPT ![c] = "completed"]
    /\ UNCHANGED <<admissionVars, pc, ended, expired, cause, seen, result>>

\* envelope.cause = context.Cause(ctx), read after completedAt.
ReadCause(c) ==
    /\ worker[c] = "completed"
    /\ envelope' = [envelope EXCEPT ![c].cause = cause[c]]
    /\ worker' = [worker EXCEPT ![c] = "caused"]
    /\ UNCHANGED <<admissionVars, pc, ended, expired, cause, seen, result>>

Publish(c) ==
    /\ worker[c] = "caused"
    /\ envelope' = [envelope EXCEPT ![c].published = TRUE]
    /\ worker' = [worker EXCEPT ![c] = "published"]
    /\ UNCHANGED <<admissionVars, pc, ended, expired, cause, seen, result>>

Release(c) ==
    /\ worker[c] = "published"
    /\ release(c)
    /\ worker' = [worker EXCEPT ![c] = "released"]
    /\ UNCHANGED <<cancelled, pc, ended, expired, cause, envelope, seen, result>>

Exit(c) ==
    /\ worker[c] = "released"
    /\ cancel(c, "canceled")
    /\ worker' = [worker EXCEPT ![c] = "exited"]
    /\ UNCHANGED <<admissionButCancelled, pc, ended, expired, envelope, seen, result>>

\* The parent ends, and the child with it if it exists and is not yet done.
\* After the return nobody looks at the parent.
ParentEnds(c) ==
    /\ c \notin ended
    /\ pc[c] # "returned"
    /\ ended' = ended \cup {c}
    /\ IF pc[c] = "idle" THEN UNCHANGED cause ELSE Caused(c, "parent")
    /\ UNCHANGED <<admissionVars, pc, worker, expired, envelope, seen, result>>

Expire(c) ==
    /\ pc[c] # "idle"
    /\ c \notin expired
    /\ expired' = expired \cup {c}
    /\ UNCHANGED <<admissionVars, pc, worker, ended, cause, envelope, seen, result>>

\* The deadline context's timer runs, unless stopDeadline() came first.
DeadlineFires(c) ==
    /\ c \in expired
    /\ c \notin cancelled
    /\ cause[c] = "none"
    /\ Caused(c, "deadline")
    /\ UNCHANGED <<admissionVars, pc, worker, ended, expired, envelope, seen, result>>

\* Close; its loop calls each cancel function with errCoordinatorClosing.
Close(k) ==
    /\ \/ (CloseEnter(k) \/ CloseDone(k) \/ CloseGivesUp(k)) /\ UNCHANGED cause
       \/ /\ CloseCancel(k)
          /\ \E c \in pending[k] : pending'[k] = pending[k] \ {c} /\ Caused(c, "closing")
    /\ UNCHANGED <<pc, worker, ended, expired, envelope, seen, result>>
-----------------------------------------------------------------------------
run(c) ==
    \/ Enter(c) \/ Acquire(c) \/ Reject(c) \/ ReturnRejected(c) \/ Launch(c)
    \/ AbortAdmitted(c) \/ SelectParent(c) \/ SelectWake(c) \/ Recheck(c)
    \/ Snapshot(c) \/ Decide(c)

Unwind(c) == ReadCause(c) \/ Publish(c) \/ Release(c) \/ Exit(c)

Next ==
    \/ \E c \in Calls : run(c) \/ Work(c) \/ Unwind(c) \/ ParentEnds(c)
                        \/ Expire(c) \/ DeadlineFires(c)
    \/ \E k \in Closers : Close(k)

Spec == Init /\ [][Next]_vars
-----------------------------------------------------------------------------
Working(c) == worker[c] \in {"running", "completed", "caused", "published"}

\* The slot is kept until the work goroutine leaves, also when the caller was
\* told "deadline" or its context ended; later runs are then "saturated"
\* (coordinator.go:153-155, 187-214).
SlotsMatchWorkers ==
    /\ TypeOK
    /\ live = Cardinality(cancels)
    /\ live <= MaxInFlight
    /\ cancels = {c \in Calls : pc[c] \in {"admitted", "abort"} \/ Working(c)}

\* Answers tell the truth: the outcome of the work is the one it
\* published before the deadline and before Close interrupted it; "closed"
\* is answered only when Close has been called, "saturated" only to runs that
\* never started their work, "deadline" only after the deadline; and the child
\* context's own error never reaches the model attempt, whichever of parent,
\* deadline and Close ended the child (coordinator.go:119-167).
AnswersAreTrue ==
    \A c \in Calls :
        /\ result[c] # "childErr"
        /\ result[c] \in WorkResults =>
              /\ envelope[c].published /\ envelope[c].early
              /\ envelope[c].value = result[c] /\ envelope[c].cause # "closing"
        /\ result[c] = "closed" => closing
        /\ result[c] = "saturated" => worker[c] = "none"
        /\ result[c] = "deadline" => c \in expired

\* The coordinator implements the pool its host was promised.
ImplementsPool == Pool!PoolSpec
=============================================================================
