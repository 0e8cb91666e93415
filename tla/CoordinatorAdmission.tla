----------------------- MODULE CoordinatorAdmission -----------------------
(***************************************************************************)
(* The part the callback coordinators have in common, word for word in     *)
(* askuser/coordinator.go, delegatetask/coordinator.go and                 *)
(* websearch/coordinator.go: the admission counter with its map of cancel  *)
(* functions, and Close, which runs in its own goroutine, snapshots the    *)
(* cancel functions under the mutex, calls them after unlocking and then   *)
(* waits for the last release.  workspaceinstructions/coordinator.go has   *)
(* the same text with a cause passed to each cancel function.              *)
(*                                                                         *)
(* Every step below is one critical section of c.mu, or one call made      *)
(* outside it.  The id a call gets from c.nextID is the call itself, and   *)
(* the channel c.done is closed exactly when c.closed becomes true.        *)
(***************************************************************************)
EXTENDS Integers, FiniteSets

CONSTANTS Calls,        \* tool calls
          Closers,      \* goroutines that call Close
          Patient,      \* closers whose context is never done
          MaxInFlight   \* Limits.MaxInFlight

ASSUME MaxInFlightAssumption == MaxInFlight \in Nat \ {0}
ASSUME PatientAssumption == Patient \subseteq Closers

VARIABLES closing, closed, \* c.closing, c.closed (and c.done)
          live,            \* c.live
          cancels,         \* the keys of c.cancels
          cancelled,       \* calls whose cancel function has been called
          closePC,         \* where each Close call stands
          pending          \* cancel functions a Close call has still to call

admissionVars == <<closing, closed, live, cancels, cancelled, closePC, pending>>
\* All but what a call of a cancel function changes.
admissionButCancelled == <<closing, closed, live, cancels, closePC, pending>>

AdmissionTypeOK ==
    /\ closing \in BOOLEAN
    /\ closed \in BOOLEAN
    /\ live \in 0 .. MaxInFlight
    /\ cancels \subseteq Calls
    /\ cancelled \subseteq Calls
    /\ closePC \in [Closers -> {"idle", "cancelling", "nil", "ctxErr"}]
    /\ pending \in [Closers -> SUBSET Calls]

AdmissionInit ==
    /\ closing = FALSE
    /\ closed = FALSE
    /\ live = 0
    /\ cancels = {}
    /\ cancelled = {}
    /\ closePC = [k \in Closers |-> "idle"]
    /\ pending = [k \in Closers |-> {}]

Saturated == live >= MaxInFlight

\* Mutation of acquire: the limit is not looked at.
acquireUnbounded(c) ==
    /\ ~closing /\ ~closed
    /\ live' = live + 1
    /\ cancels' = cancels \cup {c}
    /\ UNCHANGED <<closing, closed, closePC, pending>>

\* Mutation of acquire: a closing coordinator still admits.
acquireWhileClosing(c) ==
    /\ ~Saturated
    /\ live' = live + 1
    /\ cancels' = cancels \cup {c}
    /\ UNCHANGED <<closing, closed, closePC, pending>>

\* acquire, the admitting branch.
acquire(c) ==
    /\ ~closing /\ ~closed /\ ~Saturated
    /\ live' = live + 1
    /\ cancels' = cancels \cup {c}
    /\ UNCHANGED <<closing, closed, closePC, pending>>

\* acquire, the refusing branch: nothing changes.
refused == closing \/ closed \/ Saturated

\* Mutation of release: the cancel function is not deleted.
releaseKeepsEntry(c) ==
    /\ live' = IF c \in cancels THEN live - 1 ELSE live
    /\ closed' = (closed \/ (closing /\ live' = 0))
    /\ UNCHANGED <<closing, cancels, closePC, pending>>

\* Mutation of release: the last release does not close c.done.
releaseNoWakeup(c) ==
    /\ cancels' = cancels \ {c}
    /\ live' = IF c \in cancels THEN live - 1 ELSE live
    /\ UNCHANGED <<closing, closed, closePC, pending>>

\* release: an unknown id changes no counter, the last release of a closing
\* coordinator closes c.done.
release(c) ==
    /\ cancels' = cancels \ {c}
    /\ live' = IF c \in cancels THEN live - 1 ELSE live
    /\ closed' = (closed \/ (closing /\ live' = 0))
    /\ UNCHANGED <<closing, closePC, pending>>

\* Mutation of Close: closed is set without looking at live.
CloseEnterEager(k) ==
    /\ closePC[k] \in {"idle", "ctxErr"}
    /\ closing' = TRUE
    /\ closed' = TRUE
    /\ pending' = [pending EXCEPT ![k] = cancels]
    /\ closePC' = [closePC EXCEPT ![k] = "cancelling"]
    /\ UNCHANGED <<live, cancels, cancelled>>

\* Close up to c.mu.Unlock(): nil at once if closed, else closing is set and
\* the registered cancel functions are copied.  A closer that gave up because
\* its context ended may call Close again.
CloseEnter(k) ==
    /\ closePC[k] \in {"idle", "ctxErr"}
    /\ IF closed
         THEN /\ closePC' = [closePC EXCEPT ![k] = "nil"]
              /\ UNCHANGED <<closing, closed, pending>>
         ELSE /\ closing' = TRUE
              /\ closed' = (live = 0)
              /\ pending' = [pending EXCEPT ![k] = cancels]
              /\ closePC' = [closePC EXCEPT ![k] = "cancelling"]
    /\ UNCHANGED <<live, cancels, cancelled>>

\* Close, one iteration of "for _, cancel := range cancels".
CloseCancel(k) ==
    \E c \in pending[k] :
        /\ closePC[k] = "cancelling"
        /\ cancelled' = cancelled \cup {c}
        /\ pending' = [pending EXCEPT ![k] = @ \ {c}]
        /\ UNCHANGED <<closing, closed, live, cancels, closePC>>

Waiting(k) == closePC[k] = "cancelling" /\ pending[k] = {}

\* Mutation of Close: it returns nil as soon as the cancel functions are called.
CloseDoneEarly(k) ==
    /\ Waiting(k)
    /\ closePC' = [closePC EXCEPT ![k] = "nil"]
    /\ UNCHANGED <<closing, closed, live, cancels, cancelled, pending>>

\* Close, the final select: c.done.
CloseDone(k) ==
    /\ Waiting(k)
    /\ closed
    /\ closePC' = [closePC EXCEPT ![k] = "nil"]
    /\ UNCHANGED <<closing, closed, live, cancels, cancelled, pending>>

\* Close, the final select: the caller's context.
CloseGivesUp(k) ==
    /\ Waiting(k)
    /\ k \notin Patient
    /\ closePC' = [closePC EXCEPT ![k] = "ctxErr"]
    /\ UNCHANGED <<closing, closed, live, cancels, cancelled, pending>>

CloseStep(k) == CloseEnter(k) \/ CloseCancel(k) \/ CloseDone(k) \/ CloseGivesUp(k)

\* The slots as the host sees them.
Pool == INSTANCE CallbackPool WITH
            open <- ~closing, inFlight <- cancels,
            told <- {k \in Closers : closePC[k] = "nil"}
=============================================================================
