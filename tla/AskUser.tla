------------------------------ MODULE AskUser ------------------------------
(***************************************************************************)
(* askuser/coordinator.go: one ask_user call from admission to its result. *)
(* Each call has a caller goroutine (ask), a responder goroutine           *)
(* (runResponder), a parent context that may end at any moment and a       *)
(* deadline (MaxWait) that may pass at any moment after it was set.        *)
(* delegatetask/coordinator.go runs the same protocol (DelegateTask).      *)
(*                                                                         *)
(* Time is kept as the set of calls whose deadline has passed: that is all *)
(* the code compares (completedAt.Before(deadline), Now().Before(deadline)) *)
(***************************************************************************)
EXTENDS CoordinatorAdmission

CONSTANTS Responses,        \* what Responder.Respond may return
          mapResponse(_)    \* the result mapResponse makes of a response

VARIABLES pc,        \* where each caller goroutine stands
          responder, \* where each responder goroutine stands
          ended,     \* calls whose parent context is done
          expired,   \* calls whose deadline has passed
          ticked,    \* calls that have received the one tick of their timer
          envelope,  \* responseEnvelope, filled in by runResponder
          seen,      \* what the caller's snapshot() returned
          result     \* what ask returned

callVars == <<pc, responder, ended, expired, ticked, envelope, seen, result>>
vars == <<admissionVars, callVars>>

\* What ask itself answers; mapResponse supplies the other results.
Own(status) == [status |-> status, answer |-> ""]
OwnStatuses == {"none", "ctxErr", "identity", "refused", "timed_out"}
\* mapResponse never answers for ask: no response is mapped to StatusTimedOut, to an
\* error of ask's own checks or to its refusal (coordinator.go:228-257, and 230-254
\* of delegatetask).
ASSUME MapResponseAssumption ==
    \A r \in Responses : mapResponse(r).status \notin OwnStatuses

Results == {Own(s) : s \in OwnStatuses} \cup {mapResponse(r) : r \in Responses}

None == [early |-> FALSE, published |-> FALSE, value |-> Own("none")]

Envelopes == [early : BOOLEAN, published : BOOLEAN, value : Results]

TypeOK ==
    /\ AdmissionTypeOK
    /\ pc \in [Calls -> {"idle", "acquire", "refused", "admitted", "abort",
                         "select", "woken", "snapshot", "decide", "returned"}]
    /\ responder \in [Calls -> {"none", "running", "completed", "published",
                                "released", "exited"}]
    /\ ended \subseteq Calls
    /\ expired \subseteq Calls
    /\ ticked \subseteq Calls
    /\ envelope \in [Calls -> Envelopes]
    /\ seen \in [Calls -> Envelopes]
    /\ result \in [Calls -> Results]

Init ==
    /\ AdmissionInit
    /\ pc = [c \in Calls |-> "idle"]
    /\ responder = [c \in Calls |-> "none"]
    /\ ended = {}
    /\ expired = {}
    /\ ticked = {}
    /\ envelope = [c \in Calls |-> None]
    /\ seen = [c \in Calls |-> None]
    /\ result = [c \in Calls |-> Own("none")]

\* The child context the responder is given: derived from the parent, with
\* the package deadline, and cancelled by the cancel function.
ChildDone(c) == c \in ended \/ c \in expired \/ c \in cancelled

cancel(c) == cancelled' = cancelled \cup {c}

Goto(c, label) == pc' = [pc EXCEPT ![c] = label]

Return(c, r) ==
    /\ Goto(c, "returned")
    /\ result' = [result EXCEPT ![c] = r]
-----------------------------------------------------------------------------
\* ask, up to setting the deadline: the context check, then the identity check.
Enter(c) ==
    /\ pc[c] = "idle"
    /\ IF c \in ended
         THEN Return(c, Own("ctxErr"))
         ELSE \/ Return(c, Own("identity"))
              \/ Goto(c, "acquire") /\ UNCHANGED result
    /\ UNCHANGED <<admissionVars, responder, ended, expired, ticked, envelope, seen>>

\* ask: id, admitted := c.acquire(cancel).
Acquire(c) ==
    /\ pc[c] = "acquire"
    /\ acquire(c)
    /\ Goto(c, "admitted")
    /\ UNCHANGED <<cancelled, responder, ended, expired, ticked, envelope, seen, result>>

\* ask: not admitted; the cancel function is called first ...
Refuse(c) ==
    /\ pc[c] = "acquire"
    /\ refused
    /\ cancel(c)
    /\ Goto(c, "refused")
    /\ UNCHANGED <<admissionButCancelled, responder, ended, expired, ticked, envelope, seen, result>>

\* ... and the parent context decides between its error and the refusal:
\* StatusUnavailable here and in delegatetask.
ReturnRefused(c) ==
    /\ pc[c] = "refused"
    /\ Return(c, Own(IF c \in ended THEN "ctxErr" ELSE "refused"))
    /\ UNCHANGED <<admissionVars, responder, ended, expired, ticked, envelope, seen>>

\* ask: the second context check, then go c.runResponder(...).
Launch(c) ==
    /\ pc[c] = "admitted"
    /\ IF c \in ended
         THEN /\ cancel(c)
              /\ Goto(c, "abort")
              /\ UNCHANGED responder
         ELSE /\ responder' = [responder EXCEPT ![c] = "running"]
              /\ Goto(c, "select")
              /\ UNCHANGED cancelled
    /\ UNCHANGED <<admissionButCancelled, ended, expired, ticked, envelope, seen, result>>

\* ask: admitted, but the parent ended before the responder was started.
AbortAdmitted(c) ==
    /\ pc[c] = "abort"
    /\ release(c)
    /\ Return(c, Own("ctxErr"))
    /\ UNCHANGED <<cancelled, responder, ended, expired, ticked, envelope, seen>>

\* Mutation of the select: the caller gives the responder's slot back.
SelectParentReleases(c) ==
    /\ pc[c] = "select"
    /\ c \in ended
    /\ release(c)
    /\ cancel(c)
    /\ Return(c, Own("ctxErr"))
    /\ UNCHANGED <<responder, ended, expired, ticked, envelope, seen>>

\* ask, the select statement: the parent context is done.
SelectParent(c) ==
    /\ pc[c] = "select"
    /\ c \in ended
    /\ cancel(c)
    /\ Return(c, Own("ctxErr"))
    /\ UNCHANGED <<admissionButCancelled, responder, ended, expired, ticked, envelope, seen>>

\* Mutation of the select: there is no timer case.
SelectWakeNoTimer(c) ==
    /\ pc[c] = "select"
    /\ envelope[c].published
    /\ Goto(c, "woken")
    /\ UNCHANGED <<admissionVars, responder, ended, expired, ticked, envelope, seen, result>>

\* ask, the select statement: state.done is closed, or the timer has fired.  The
\* timer's channel holds one tick: whoever takes it and goes round the loop finds
\* none the next time.
SelectWake(c) ==
    /\ pc[c] = "select"
    /\ \/ envelope[c].published /\ UNCHANGED ticked
       \/ c \in expired \ ticked /\ ticked' = ticked \cup {c}
    /\ Goto(c, "woken")
    /\ UNCHANGED <<admissionVars, responder, ended, expired, envelope, seen, result>>

\* ask after the select: ctx.Err() is looked at again.
Recheck(c) ==
    /\ pc[c] = "woken"
    /\ IF c \in ended
         THEN cancel(c) /\ Return(c, Own("ctxErr"))
         ELSE Goto(c, "snapshot") /\ UNCHANGED <<cancelled, result>>
    /\ UNCHANGED <<admissionButCancelled, responder, ended, expired, ticked, envelope, seen>>

\* Mutation of snapshot: an envelope that was not published counts as published.
SnapshotUnpublished(c) ==
    /\ pc[c] = "snapshot"
    /\ seen' = [seen EXCEPT ![c] = [envelope[c] EXCEPT !.published = TRUE]]
    /\ Goto(c, "decide")
    /\ UNCHANGED <<admissionVars, responder, ended, expired, ticked, envelope, result>>

\* ask: envelope, published := state.snapshot().
Snapshot(c) ==
    /\ pc[c] = "snapshot"
    /\ seen' = [seen EXCEPT ![c] = IF envelope[c].published THEN envelope[c] ELSE None]
    /\ Goto(c, "decide")
    /\ UNCHANGED <<admissionVars, responder, ended, expired, ticked, envelope, result>>

\* Mutation: the clock is not read, the loop waits for an answer that may be late.
DecideOnAnswer(c) ==
    /\ pc[c] = "decide"
    /\ seen' = [seen EXCEPT ![c] = None]
    /\ IF seen[c].published
         THEN /\ cancel(c)
              /\ Return(c, IF seen[c].early THEN seen[c].value ELSE Own("timed_out"))
         ELSE Goto(c, "select") /\ UNCHANGED <<cancelled, result>>
    /\ UNCHANGED <<admissionButCancelled, responder, ended, expired, ticked, envelope>>

\* ask, the last two conditions of the loop body.
Decide(c) ==
    /\ pc[c] = "decide"
    /\ seen' = [seen EXCEPT ![c] = None]
    /\ \/ /\ seen[c].published /\ seen[c].early
          /\ cancel(c)
          /\ Return(c, seen[c].value)
       \/ /\ ~(seen[c].published /\ seen[c].early)
          /\ c \in expired \/ seen[c].published
          /\ cancel(c)
          /\ Return(c, Own("timed_out"))
       \/ /\ ~seen[c].published
          /\ c \notin expired
          /\ Goto(c, "select")
          /\ UNCHANGED <<cancelled, result>>
    /\ UNCHANGED <<admissionButCancelled, responder, ended, expired, ticked, envelope>>
-----------------------------------------------------------------------------
\* runResponder: Respond returns (or panics) and completedAt is stamped.
Respond(c) ==
    /\ responder[c] = "running"
    /\ \E r \in Responses :
          envelope' = [envelope EXCEPT ![c].early = c \notin expired,
                                       ![c].value = mapResponse(r)]
    /\ responder' = [responder EXCEPT ![c] = "completed"]
    /\ UNCHANGED <<admissionVars, pc, ended, expired, ticked, seen, result>>

\* state.publish(envelope).
Publish(c) ==
    /\ responder[c] = "completed"
    /\ envelope' = [envelope EXCEPT ![c].published = TRUE]
    /\ responder' = [responder EXCEPT ![c] = "published"]
    /\ UNCHANGED <<admissionVars, pc, ended, expired, ticked, seen, result>>

\* runResponder, the first deferred call: c.release(id).
Release(c) ==
    /\ responder[c] = "published"
    /\ release(c)
    /\ responder' = [responder EXCEPT ![c] = "released"]
    /\ UNCHANGED <<cancelled, pc, ended, expired, ticked, envelope, seen, result>>

\* runResponder, the second deferred call: cancel().
Exit(c) ==
    /\ responder[c] = "released"
    /\ cancel(c)
    /\ responder' = [responder EXCEPT ![c] = "exited"]
    /\ UNCHANGED <<admissionButCancelled, pc, ended, expired, ticked, envelope, seen, result>>

\* The host ends the parent context of a call (once ask has returned the child
\* is cancelled anyway and nobody looks at the parent).
ParentEnds(c) ==
    /\ c \notin ended
    /\ pc[c] # "returned"
    /\ ended' = ended \cup {c}
    /\ UNCHANGED <<admissionVars, pc, responder, expired, ticked, envelope, seen, result>>

\* MaxWait passes.
Expire(c) ==
    /\ pc[c] # "idle"
    /\ c \notin expired
    /\ expired' = expired \cup {c}
    /\ UNCHANGED <<admissionVars, pc, responder, ended, ticked, envelope, seen, result>>

Close(k) == CloseStep(k) /\ UNCHANGED callVars
-----------------------------------------------------------------------------
ask(c) ==
    \/ Enter(c) \/ Acquire(c) \/ Refuse(c) \/ ReturnRefused(c)
    \/ Launch(c) \/ AbortAdmitted(c)
    \/ SelectParent(c) \/ SelectWake(c) \/ Recheck(c) \/ Snapshot(c) \/ Decide(c)

\* The package's part of runResponder, once Respond has come back.
Unwind(c) == Publish(c) \/ Release(c) \/ Exit(c)

Next ==
    \/ \E c \in Calls :
          ask(c) \/ Respond(c) \/ Unwind(c) \/ ParentEnds(c) \/ Expire(c)
    \/ \E k \in Closers : Close(k)

Spec == Init /\ [][Next]_vars

\* The Go scheduler runs every runnable goroutine and time passes; nothing
\* obliges the host's responder to return, a parent to end, or anyone to call.
Fairness ==
    /\ \A c \in Calls :
          /\ WF_vars(pc[c] # "idle" /\ ask(c))
          /\ WF_vars(Unwind(c))
          /\ WF_vars(Expire(c))
    /\ \A k \in Closers : WF_vars(closePC[k] = "cancelling" /\ Close(k))

FairSpec == Spec /\ Fairness
-----------------------------------------------------------------------------
Responding(c) == responder[c] \in {"running", "completed", "published"}

\* Capacity accounting: live is the number of registered cancel functions and
\* never exceeds MaxInFlight; and every responder that has not run its deferred
\* release still holds its slot, also after its caller timed out or was
\* cancelled (README: MaxInFlight counts callbacks until they actually exit).
SlotsMatchResponders ==
    /\ live = Cardinality(cancels)
    /\ live <= MaxInFlight
    /\ cancels = {c \in Calls : pc[c] \in {"admitted", "abort"} \/ Responding(c)}

\* Close never reports success early: once c.closed is set, or a Close has
\* returned nil, no responder is live and no call holds a slot.
ClosedMeansQuiescent ==
    /\ closed => (closing /\ \A c \in Calls : ~Responding(c) /\ pc[c] # "admitted")
    /\ \A k \in Closers : closePC[k] = "nil" => closed

\* Once a Close waits for c.done, every responder it waits for has had its
\* context cancelled: nobody is admitted between the snapshot of the cancel
\* functions and the calls, so none is missed.
CloseCancelsEveryResponder ==
    \A k \in Closers : Waiting(k) => \A c \in Calls : Responding(c) => ChildDone(c)

\* Results are earned: a responder's answer is returned only if that responder
\* published it before the deadline, and "timed_out" only after the deadline;
\* the call whose admission was refused never reached the responder.
ResultsAreEarned ==
    \A c \in Calls : pc[c] = "returned" =>
        /\ result[c] = Own("timed_out") => c \in expired /\ responder[c] # "none"
        /\ result[c].status \notin OwnStatuses =>
              envelope[c].published /\ envelope[c].early /\ envelope[c].value = result[c]
        /\ result[c].status \in {"identity", "refused"} => responder[c] = "none"

\* MaxWait bounds the caller's wait: every call returns, whatever the
\* responder does, and even if it never comes back.
EveryCallReturns == \A c \in Calls : pc[c] = "acquire" ~> pc[c] = "returned"

\* Close with a patient context returns nil, provided the host's responders
\* leave once they are cancelled, as the Responder contract requires (none stays
\* running and cancelled for ever).
CloseCompletes ==
    (\A c \in Calls : []<>~(responder[c] = "running" /\ ChildDone(c)))
    => \A k \in Patient : closePC[k] = "cancelling" ~> closePC[k] = "nil"

\* README.md:285-287 (a responder that completed strictly before the package deadline
\* wins unless the parent was cancelled): a timed-out call has no such response.
EarlyResponseWins ==
    \A c \in Calls : result[c] = Own("timed_out") =>
        ~(responder[c] \notin {"none", "running"} /\ envelope[c].early)

\* The coordinator implements the pool its host was promised.
ImplementsPool == Pool!PoolSpec
=============================================================================
