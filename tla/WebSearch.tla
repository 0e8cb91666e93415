----------------------------- MODULE WebSearch -----------------------------
(***************************************************************************)
(* websearch/coordinator.go: one web_search call.  Admission and Close are *)
(* those of CoordinatorAdmission; the caller differs from AskUser: the     *)
(* searcher's envelope comes through a channel of capacity one, the caller *)
(* selects once, polls the channel when its timer wins, and before it      *)
(* reports context.DeadlineExceeded it waits until the child context       *)
(* itself is done.  The package timer and the child's deadline aim at the  *)
(* same instant but fire independently.                                    *)
(***************************************************************************)
EXTENDS CoordinatorAdmission

VARIABLES pc,        \* where each caller goroutine stands
          searcher,  \* where each searcher goroutine stands
          ended,     \* calls whose parent context is done
          expired,   \* calls whose deadline has passed on the clock
          fired,     \* calls whose child context's own deadline timer has run
          offered,   \* history: calls whose timer won while an early envelope was there
          envelope,  \* the responseEnvelope being made by runSearcher
          responses, \* calls whose response channel holds the envelope
          received,  \* the envelope the caller has received
          result     \* what search returned

callVars == <<pc, searcher, ended, expired, fired, offered, envelope, responses, received,
              result>>
vars == <<admissionVars, callVars>>

\* What runSearcher puts in the envelope: the encoded sources, or a sanitized
\* error (errSearchOperation and result-encoding are passed on alike).
Values == {"sources", "error"}
Results == Values \cup {"none", "ctxErr", "runtimeError", "errSearchCapacity",
                        "DeadlineExceeded"}
Envelopes == [early : BOOLEAN, value : Values \cup {"none"}]
Empty == [early |-> FALSE, value |-> "none"]

TypeOK ==
    /\ AdmissionTypeOK
    /\ pc \in [Calls -> {"idle", "acquire", "refused", "admitted", "abort", "select",
                         "poll", "recheck", "decide", "child", "final", "returned"}]
    /\ searcher \in [Calls -> {"none", "running", "encode", "completed", "sent",
                               "released", "exited"}]
    /\ ended \subseteq Calls /\ expired \subseteq Calls /\ fired \subseteq Calls
    /\ offered \subseteq Calls
    /\ envelope \in [Calls -> Envelopes]
    /\ responses \subseteq Calls
    /\ received \in [Calls -> Envelopes]
    /\ result \in [Calls -> Results]

Init ==
    /\ AdmissionInit
    /\ pc = [c \in Calls |-> "idle"]
    /\ searcher = [c \in Calls |-> "none"]
    /\ ended = {} /\ expired = {} /\ fired = {} /\ offered = {}
    /\ envelope = [c \in Calls |-> Empty]
    /\ responses = {}
    /\ received = [c \in Calls |-> Empty]
    /\ result = [c \in Calls |-> "none"]

\* child.Err() # nil
ChildDone(c) == c \in ended \/ c \in fired \/ c \in cancelled

cancel(c) == cancelled' = cancelled \cup {c}
Goto(c, label) == pc' = [pc EXCEPT ![c] = label]
Return(c, r) == Goto(c, "returned") /\ result' = [result EXCEPT ![c] = r]
-----------------------------------------------------------------------------
\* search up to the deadline: context, then call identity and turn identity.
Enter(c) ==
    /\ pc[c] = "idle"
    /\ IF c \in ended
         THEN Return(c, "ctxErr")
         ELSE \/ Return(c, "runtimeError")
              \/ Goto(c, "acquire") /\ UNCHANGED result
    /\ UNCHANGED <<admissionVars, searcher, ended, expired, fired, offered, envelope,
                   responses, received>>

Acquire(c) ==
    /\ pc[c] = "acquire"
    /\ acquire(c)
    /\ Goto(c, "admitted")
    /\ UNCHANGED <<cancelled, searcher, ended, expired, fired, offered, envelope,
                   responses, received, result>>

Refuse(c) ==
    /\ pc[c] = "acquire"
    /\ refused
    /\ cancel(c)
    /\ Goto(c, "refused")
    /\ UNCHANGED <<admissionButCancelled, searcher, ended, expired, fired, offered, envelope,
                   responses, received, result>>

ReturnRefused(c) ==
    /\ pc[c] = "refused"
    /\ Return(c, IF c \in ended THEN "ctxErr" ELSE "errSearchCapacity")
    /\ UNCHANGED <<admissionVars, searcher, ended, expired, fired, offered, envelope,
                   responses, received>>

Launch(c) ==
    /\ pc[c] = "admitted"
    /\ IF c \in ended
         THEN cancel(c) /\ Goto(c, "abort") /\ UNCHANGED searcher
         ELSE /\ searcher' = [searcher EXCEPT ![c] = "running"]
              /\ Goto(c, "select")
              /\ UNCHANGED cancelled
    /\ UNCHANGED <<admissionButCancelled, ended, expired, fired, offered, envelope,
                   responses, received, result>>

AbortAdmitted(c) ==
    /\ pc[c] = "abort"
    /\ release(c)
    /\ Return(c, "ctxErr")
    /\ UNCHANGED <<cancelled, searcher, ended, expired, fired, offered, envelope,
                   responses, received>>

\* case envelope = <-responses
Receive(c) ==
    /\ c \in responses
    /\ responses' = responses \ {c}
    /\ received' = [received EXCEPT ![c] = envelope[c]]

SelectParent(c) ==
    /\ pc[c] = "select"
    /\ c \in ended
    /\ cancel(c)
    /\ Return(c, "ctxErr")
    /\ UNCHANGED <<admissionButCancelled, searcher, ended, expired, fired, offered, envelope,
                   responses, received>>

SelectResponse(c) ==
    /\ pc[c] = "select"
    /\ Receive(c)
    /\ Goto(c, "recheck")
    /\ UNCHANGED <<admissionVars, searcher, ended, expired, fired, offered, envelope, result>>

SelectTimer(c) ==
    /\ pc[c] = "select"
    /\ c \in expired
    /\ Goto(c, "poll")
    /\ offered' = IF c \in responses /\ envelope[c].early THEN offered \cup {c} ELSE offered
    /\ UNCHANGED <<admissionVars, searcher, ended, expired, fired, envelope,
                   responses, received, result>>

\* Mutation: the timer case does not look into the channel.
PollNot(c) ==
    /\ pc[c] = "poll"
    /\ Goto(c, "recheck")
    /\ UNCHANGED <<admissionVars, searcher, ended, expired, fired, offered, envelope,
                   responses, received, result>>

\* The inner select of the timer case: a response that is already there counts.
Poll(c) ==
    /\ pc[c] = "poll"
    /\ \/ Receive(c)
       \/ c \notin responses /\ UNCHANGED <<responses, received>>
    /\ Goto(c, "recheck")
    /\ UNCHANGED <<admissionVars, searcher, ended, expired, fired, offered, envelope, result>>

Recheck(c) ==
    /\ pc[c] = "recheck"
    /\ IF c \in ended
         THEN cancel(c) /\ Return(c, "ctxErr")
         ELSE Goto(c, "decide") /\ UNCHANGED <<cancelled, result>>
    /\ UNCHANGED <<admissionButCancelled, searcher, ended, expired, fired, offered, envelope,
                   responses, received>>

\* Mutation: completedAt is not compared with the deadline.
DecideAnyTime(c) ==
    /\ pc[c] = "decide"
    /\ IF received[c].value # "none"
         THEN cancel(c) /\ Return(c, received[c].value)
         ELSE Goto(c, "child") /\ UNCHANGED <<cancelled, result>>
    /\ UNCHANGED <<admissionButCancelled, searcher, ended, expired, fired, offered, envelope,
                   responses, received>>

\* published && envelope.completedAt.Before(deadline)
Decide(c) ==
    /\ pc[c] = "decide"
    /\ IF received[c].early
         THEN cancel(c) /\ Return(c, received[c].value)
         ELSE Goto(c, "child") /\ UNCHANGED <<cancelled, result>>
    /\ UNCHANGED <<admissionButCancelled, searcher, ended, expired, fired, offered, envelope,
                   responses, received>>

\* Mutation: the caller does not wait for the child context.
AwaitChildNot(c) ==
    /\ pc[c] = "child"
    /\ Goto(c, "final")
    /\ UNCHANGED <<admissionVars, searcher, ended, expired, fired, offered, envelope,
                   responses, received, result>>

\* Mutation: only a call of the cancel function ends the wait.
AwaitCancelOnly(c) ==
    /\ pc[c] = "child"
    /\ c \in cancelled
    /\ Goto(c, "final")
    /\ UNCHANGED <<admissionVars, searcher, ended, expired, fired, offered, envelope,
                   responses, received, result>>

\* if child.Err() == nil { select child.Done() / ctx.Done() }; a parent that
\* has ended makes the child done as well, and either case may be taken.
AwaitChild(c) ==
    /\ pc[c] = "child"
    /\ ChildDone(c)
    /\ \/ Goto(c, "final") /\ UNCHANGED <<cancelled, result>>
       \/ c \in ended /\ cancel(c) /\ Return(c, "ctxErr")
    /\ UNCHANGED <<admissionButCancelled, searcher, ended, expired, fired, offered, envelope,
                   responses, received>>

Final(c) ==
    /\ pc[c] = "final"
    /\ cancel(c)
    /\ Return(c, IF c \in ended THEN "ctxErr" ELSE "DeadlineExceeded")
    /\ UNCHANGED <<admissionButCancelled, searcher, ended, expired, fired, offered, envelope,
                   responses, received>>
-----------------------------------------------------------------------------
\* callSearcher: the host's Search returns records, an error, or panics.
Search(c) ==
    /\ searcher[c] = "running"
    /\ \/ searcher' = [searcher EXCEPT ![c] = "encode"] /\ UNCHANGED envelope
       \/ /\ searcher' = [searcher EXCEPT ![c] = "completed"]
          /\ envelope' = [envelope EXCEPT ![c] =
                            [early |-> c \notin expired, value |-> "error"]]
    /\ UNCHANGED <<admissionVars, pc, ended, expired, fired, offered, responses, received, result>>

\* c.encode bounds and encodes the records; then completedAt is stamped.
Encode(c) ==
    /\ searcher[c] = "encode"
    /\ \E value \in Values :
          envelope' = [envelope EXCEPT ![c] = [early |-> c \notin expired, value |-> value]]
    /\ searcher' = [searcher EXCEPT ![c] = "completed"]
    /\ UNCHANGED <<admissionVars, pc, ended, expired, fired, offered, responses, received, result>>

\* responses <- envelope: never blocks, the channel has room for one.
Send(c) ==
    /\ searcher[c] = "completed"
    /\ responses' = responses \cup {c}
    /\ searcher' = [searcher EXCEPT ![c] = "sent"]
    /\ UNCHANGED <<admissionVars, pc, ended, expired, fired, offered, envelope, received, result>>

\* Mutation: the slot is given back when Search returns, before encoding.
ReleaseBeforeEncoding(c) ==
    /\ searcher[c] = "encode"
    /\ release(c)
    /\ UNCHANGED <<cancelled, searcher, pc, ended, expired, fired, offered, envelope, responses,
                   received, result>>

Release(c) ==
    /\ searcher[c] = "sent"
    /\ release(c)
    /\ searcher' = [searcher EXCEPT ![c] = "released"]
    /\ UNCHANGED <<cancelled, pc, ended, expired, fired, offered, envelope, responses,
                   received, result>>

Exit(c) ==
    /\ searcher[c] = "released"
    /\ cancel(c)
    /\ searcher' = [searcher EXCEPT ![c] = "exited"]
    /\ UNCHANGED <<admissionButCancelled, pc, ended, expired, fired, offered, envelope,
                   responses, received, result>>

\* The host ends the parent context; after the return nobody looks at it.
ParentEnds(c) ==
    /\ c \notin ended
    /\ pc[c] # "returned"
    /\ ended' = ended \cup {c}
    /\ UNCHANGED <<admissionVars, pc, searcher, expired, fired, offered, envelope, responses,
                   received, result>>

Expire(c) ==
    /\ pc[c] # "idle"
    /\ c \notin expired
    /\ expired' = expired \cup {c}
    /\ UNCHANGED <<admissionVars, pc, searcher, ended, fired, offered, envelope, responses,
                   received, result>>

\* The child context's deadline timer runs, at or after the deadline.
ChildDeadline(c) ==
    /\ c \in expired
    /\ c \notin fired
    /\ pc[c] # "returned"
    /\ fired' = fired \cup {c}
    /\ UNCHANGED <<admissionVars, pc, searcher, ended, expired, offered, envelope, responses,
                   received, result>>

Close(k) == CloseStep(k) /\ UNCHANGED callVars
-----------------------------------------------------------------------------
search(c) ==
    \/ Enter(c) \/ Acquire(c) \/ Refuse(c) \/ ReturnRefused(c) \/ Launch(c)
    \/ AbortAdmitted(c) \/ SelectParent(c) \/ SelectResponse(c) \/ SelectTimer(c)
    \/ Poll(c) \/ Recheck(c) \/ Decide(c) \/ AwaitChild(c) \/ Final(c)

\* The package's part of runSearcher, once Search has come back.
Unwind(c) == Encode(c) \/ Send(c) \/ Release(c) \/ Exit(c)

Next ==
    \/ \E c \in Calls : search(c) \/ Search(c) \/ Unwind(c) \/ ParentEnds(c)
                        \/ Expire(c) \/ ChildDeadline(c)
    \/ \E k \in Closers : Close(k)

Spec == Init /\ [][Next]_vars

\* Goroutines and runtime timers make progress; the host's Search need not.
Fairness ==
    /\ \A c \in Calls :
          /\ WF_vars(pc[c] # "idle" /\ search(c))
          /\ WF_vars(Unwind(c))
          /\ WF_vars(Expire(c))
          /\ WF_vars(ChildDeadline(c))
    /\ \A k \in Closers : WF_vars(closePC[k] = "cancelling" /\ Close(k))

FairSpec == Spec /\ Fairness
-----------------------------------------------------------------------------
Searching(c) == searcher[c] \in {"running", "encode", "completed", "sent"}

\* The slot of a search is held through Search, bounding, encoding and the
\* send, also after the caller has gone (README: "through source bounding and
\* JSON encoding"), and the counter agrees with the registered cancel functions.
SlotsCoverEncoding ==
    /\ TypeOK
    /\ live = Cardinality(cancels)
    /\ live <= MaxInFlight
    /\ cancels = {c \in Calls : pc[c] \in {"admitted", "abort"} \/ Searching(c)}

\* A response completed in time is what the call returns, unless the parent ended,
\* when the caller has received it and also when it only lay in the channel as the
\* timer won the select.  Without one the caller answers past the deadline, once
\* the child context is done without its help: "Let the finite child deadline own
\* cancellation identity" (coordinator.go:84-125).
ReceivedInTimeWins ==
    \A c \in Calls :
        /\ pc[c] = "final" => c \in expired /\ ChildDone(c)
        /\ pc[c] = "returned" =>
              /\ received[c].early => result[c] \in {received[c].value, "ctxErr"}
              /\ c \in offered => result[c] \in {envelope[c].value, "ctxErr"}
              /\ result[c] \in Values => received[c].early /\ result[c] = received[c].value

\* The single select, the wait for the child and a Close at any point never
\* leave the caller stuck, whatever Search does.
EverySearchReturns == \A c \in Calls : pc[c] = "acquire" ~> pc[c] = "returned"

\* The coordinator implements the pool its host was promised.
ImplementsPool == Pool!PoolSpec
=============================================================================
