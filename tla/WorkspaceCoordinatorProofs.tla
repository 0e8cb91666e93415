--------------------- MODULE WorkspaceCoordinatorProofs ---------------------
(***************************************************************************)
(* For every set of runs and closers and every MaxInFlight: the workspace  *)
(* instruction coordinator keeps a slot until the work goroutine leaves,   *)
(* answers every run truthfully, and implements CallbackPool.              *)
(*                                                                         *)
(* That a child context's own error is never an answer needs the most:     *)
(* Truthful relates why the child ended (cause) to the parent, the clock   *)
(* and Close, the envelope to the cause that was current when it was       *)
(* stamped, and the caller's position to what it has ruled out.  A caller  *)
(* past its recheck with an early child error in the envelope was not      *)
(* looking at an ended parent when the envelope was already there, so      *)
(* Close is what ended that child.                                         *)
(***************************************************************************)
EXTENDS WorkspaceCoordinator, CoordinatorAdmissionProofs

Rejected == {"rejectedClosed", "rejectedSaturated"}
BeforeLaunch == {"idle", "acquire", "admitted", "abort"} \cup Rejected

CallTypeOK ==
    /\ pc \in [Calls -> {"idle", "acquire", "rejectedClosed", "rejectedSaturated",
                         "admitted", "abort", "select", "woken", "snapshot",
                         "decide", "returned"}]
    /\ worker \in [Calls -> {"none", "running", "completed", "caused", "published",
                             "released", "exited"}]
    /\ ended \subseteq Calls /\ expired \subseteq Calls
    /\ cause \in [Calls -> Causes]
    /\ envelope \in [Calls -> Envelopes]
    /\ seen \in [Calls -> Envelopes]
    /\ result \in [Calls -> Results]

\* Who holds a slot, and that the worker exists only after Launch.
SlotHolders ==
    /\ cancels = {c \in Calls : pc[c] \in {"admitted", "abort"} \/ Working(c)}
    /\ \A c \in Calls : pc[c] \in BeforeLaunch => worker[c] = "none"

Stamped(c) == worker[c] \in {"completed", "caused", "published", "released", "exited"}
CauseRead(c) == worker[c] \in {"caused", "published", "released", "exited"}
Published(c) == worker[c] \in {"published", "released", "exited"}

\* The work returned the error of its child context before the deadline.
EarlyChildErr(c) == Stamped(c) /\ envelope[c].early /\ envelope[c].value = "childErr"

\* Why a child context ended.
CauseIsTrue(c) ==
    /\ cause[c] = "closing" => closing
    /\ cause[c] = "deadline" => c \in expired
    /\ cause[c] = "parent" => c \in ended
    /\ cause[c] = "canceled" =>
          pc[c] \in Rejected \cup {"abort", "returned"} \/ worker[c] = "exited"

\* The envelope, from the stamp over the reading of the cause to publication.
EnvelopeIsTrue(c) ==
    /\ ~Stamped(c) => envelope[c] = None
    /\ Stamped(c) => envelope[c].early \/ c \in expired
    /\ envelope[c].published <=> Published(c)
    /\ envelope[c].cause = "closing" => closing
    /\ EarlyChildErr(c) =>
          /\ cause[c] = "closing" \/ c \in ended \/ pc[c] = "returned"
          /\ cause[c] # "none"
          /\ CauseRead(c) => envelope[c].cause = cause[c]

\* What a run's answer rests on.
AnswerIsTrue(c) ==
    /\ result[c] # "childErr"
    /\ result[c] \in WorkResults =>
          /\ envelope[c].published /\ envelope[c].early
          /\ envelope[c].value = result[c] /\ envelope[c].cause # "closing"
    /\ result[c] = "closed" => closing
    /\ result[c] = "saturated" => worker[c] = "none"
    /\ result[c] = "deadline" => c \in expired

\* What the caller has ruled out at each point.
CallerKnows(c) ==
    /\ pc[c] # "returned" => result[c] = "none"
    /\ pc[c] = "rejectedClosed" => closing
    /\ pc[c] \in {"woken", "snapshot", "decide"} => Published(c) \/ c \in expired
    /\ pc[c] \in {"snapshot", "decide"} => (EarlyChildErr(c) => cause[c] = "closing")
    /\ pc[c] = "decide" => seen[c] = None \/ (seen[c] = envelope[c] /\ Published(c))
    /\ AnswerIsTrue(c)

Truthful == \A c \in Calls : CauseIsTrue(c) /\ EnvelopeIsTrue(c) /\ CallerKnows(c)

\* The inductive invariant.
IInv == AdmissionInv /\ CallTypeOK /\ SlotHolders /\ Truthful

\* No answer is an envelope.
LEMMA NoneTypes == None \in Envelopes
<1>1. FALSE \in BOOLEAN
    OBVIOUS
<1> QED
    BY <1>1 DEF None, Envelopes, Causes

\* The initial states, which are also initial states of the pool.
LEMMA InitIInv == Init => IInv /\ Pool!PoolInit
<1> SUFFICES ASSUME Init PROVE IInv /\ Pool!PoolInit
    OBVIOUS
<1>1. AdmissionInv /\ Pool!PoolInit
    BY AdmissionInitInv DEF Init
<1>2. CallTypeOK
    BY NoneTypes DEF Init, CallTypeOK, Results, Causes
<1>3. SlotHolders
    BY DEF Init, AdmissionInit, SlotHolders, Working, BeforeLaunch
<1>4. Truthful
    BY DEF Init, Truthful, CauseIsTrue, EnvelopeIsTrue, CallerKnows, AnswerIsTrue,
           EarlyChildErr, Stamped, Published, None, WorkResults
<1> QED
    BY <1>1, <1>2, <1>3, <1>4 DEF IInv

\* The steps of the caller, the worker and the environment that neither take nor
\* free a slot.
QuietCaller(c) ==
    \/ Enter(c) \/ Reject(c) \/ ReturnRejected(c) \/ Launch(c) \/ SelectParent(c)
    \/ SelectWake(c) \/ Recheck(c) \/ Snapshot(c) \/ Decide(c)
QuietOther(c) ==
    \/ Work(c) \/ ReadCause(c) \/ Publish(c) \/ Exit(c) \/ ParentEnds(c)
    \/ Expire(c) \/ DeadlineFires(c)

\* A quiet step changes nothing of the admission but cancelled calls.
LEMMA QuietAdmission ==
    ASSUME NEW c \in Calls, IInv, QuietCaller(c) \/ QuietOther(c)
    PROVE  UNCHANGED admissionButCancelled /\ cancelled \subseteq cancelled' /\ cancelled' \subseteq Calls
<1> USE DEF IInv, AdmissionInv, AdmissionTypeOK, admissionVars, admissionButCancelled, cancel
<1>1. CASE Enter(c) \/ ReturnRejected(c) \/ SelectWake(c) \/ Snapshot(c)
    BY <1>1 DEF Enter, ReturnRejected, SelectWake, Snapshot
<1>2. CASE Reject(c) \/ Launch(c) \/ SelectParent(c) \/ Recheck(c)
    BY <1>2 DEF Reject, Launch, SelectParent, Recheck
<1>3. CASE Decide(c)
    BY <1>3 DEF Decide
<1>4. CASE QuietOther(c)
    BY <1>4 DEF QuietOther, Work, ReadCause, Publish, Exit, ParentEnds, Expire, DeadlineFires
<1> QED
    BY <1>1, <1>2, <1>3, <1>4 DEF QuietCaller

\* The first cancellation fixes the cause, and touches no other call.
LEMMA CausedOnce ==
    ASSUME NEW c \in Calls, NEW why \in Causes, CallTypeOK, Caused(c, why)
    PROVE  /\ cause' \in [Calls -> Causes]
           /\ cause'[c] = IF cause[c] = "none" THEN why ELSE cause[c]
           /\ \A d \in Calls \ {c} : cause'[d] = cause[d]
BY DEF CallTypeOK, Caused

\* Steps of a caller that leave the slots alone keep the types.
LEMMA QuietCallerTypes ==
    ASSUME NEW c \in Calls, IInv, QuietCaller(c)
    PROVE  CallTypeOK'
<1> USE DEF IInv, CallTypeOK, Goto, Return, Results, cancel
<1>0. {"canceled", "closing", "deadline", "parent"} \subseteq Causes
    BY DEF Causes
<1>1. CASE Enter(c)
    BY <1>1 DEF Enter
<1>2. CASE Reject(c)
    BY <1>0, <1>2, CausedOnce DEF Reject
<1>3. CASE ReturnRejected(c)
    BY <1>3 DEF ReturnRejected
<1>4. CASE Launch(c)
    BY <1>0, <1>4, CausedOnce DEF Launch
<1>5. CASE SelectParent(c)
    BY <1>0, <1>5, CausedOnce DEF SelectParent
<1>6. CASE SelectWake(c)
    BY <1>6 DEF SelectWake
<1>7. CASE Recheck(c)
    BY <1>0, <1>7, CausedOnce DEF Recheck
<1>8. CASE Snapshot(c)
  <2>1. (IF envelope[c].published THEN envelope[c] ELSE None) \in Envelopes
    BY NoneTypes
  <2> QED
    BY <1>8, <2>1 DEF Snapshot
<1>9. CASE Decide(c)
  <2>1. resultBefore(seen[c]) \in Results
    BY DEF Envelopes, resultBefore
  <2>2. cause' \in [Calls -> Causes]
    BY <1>0, <1>9, CausedOnce DEF Decide
  <2>3. pc' \in [Calls -> {"idle", "acquire", "rejectedClosed", "rejectedSaturated",
                           "admitted", "abort", "select", "woken", "snapshot",
                           "decide", "returned"}]
    BY <1>9 DEF Decide
  <2>4. result' \in [Calls -> Results]
    BY <1>9, <2>1 DEF Decide
  <2> QED
    BY <1>9, <2>2, <2>3, <2>4, NoneTypes DEF Decide
<1> QED
    BY <1>1, <1>2, <1>3, <1>4, <1>5, <1>6, <1>7, <1>8, <1>9 DEF QuietCaller

\* runWork's envelope after the work has come back.
LEMMA WorkStamps ==
    ASSUME NEW c \in Calls, IInv, Work(c)
    PROVE  /\ envelope' \in [Calls -> Envelopes]
           /\ envelope'[c].early <=> c \notin expired
           /\ envelope'[c].value = "childErr" => cause[c] # "none"
           /\ envelope'[c].cause = "none" /\ ~envelope'[c].published
           /\ \A d \in Calls \ {c} : envelope'[d] = envelope[d]
<1>1. PICK value \in WorkResults :
         /\ value = "childErr" => cause[c] # "none"
         /\ envelope' = [envelope EXCEPT ![c].early = c \notin expired, ![c].value = value]
    BY DEF Work
<1>2. envelope[c] \in Envelopes /\ envelope[c].cause = "none" /\ ~envelope[c].published
    BY DEF IInv, CallTypeOK, Truthful, EnvelopeIsTrue, Stamped, Published, Work, None
<1> DEFINE Stamp(e, b, v) ==
         /\ e \in [Calls -> Envelopes]
         /\ e[c].value = v /\ e[c].early = b /\ e[c].published = envelope[c].published
         /\ e[c].cause = envelope[c].cause
         /\ \A d \in Calls \ {c} : e[d] = envelope[d]
<1>3. \A b \in BOOLEAN, v \in WorkResults : \A e :
         e = [envelope EXCEPT ![c].early = b, ![c].value = v] => Stamp(e, b, v)
  <2> SUFFICES ASSUME NEW b \in BOOLEAN, NEW v \in WorkResults, NEW e,
                      e = [envelope EXCEPT ![c].early = b, ![c].value = v]
               PROVE  Stamp(e, b, v)
    OBVIOUS
  <2>1. envelope \in [Calls -> Envelopes]
    BY DEF IInv, CallTypeOK
  <2>2. e \in [Calls -> Envelopes]
    BY <2>1 DEF Envelopes
  <2> QED
    BY <2>1, <2>2 DEF Envelopes
<1>4. (c \notin expired) \in BOOLEAN
    BY Zenon
<1> HIDE DEF Stamp
<1>5. Stamp(envelope', c \notin expired, value)
    BY <1>1, <1>3, <1>4, Zenon
<1> QED
    BY <1>1, <1>2, <1>5, Zenon DEF Stamp

\* A field of an envelope may be set to any value of its type.
LEMMA EnvelopeFields ==
    ASSUME NEW c \in Calls, NEW e \in [Calls -> Envelopes]
    PROVE  /\ [e EXCEPT ![c].published = TRUE] \in [Calls -> Envelopes]
           /\ \A x \in Causes : [e EXCEPT ![c].cause = x] \in [Calls -> Envelopes]
<1>1. [e EXCEPT ![c].published = TRUE] \in [Calls -> Envelopes]
    BY DEF Envelopes
<1>2. ASSUME NEW x \in Causes PROVE [e EXCEPT ![c].cause = x] \in [Calls -> Envelopes]
    BY DEF Envelopes
<1> QED
    BY <1>1, <1>2

\* So do such steps of the others.
LEMMA QuietOtherTypes ==
    ASSUME NEW c \in Calls, IInv, QuietOther(c)
    PROVE  CallTypeOK'
<1> USE DEF IInv, CallTypeOK
<1>0. {"canceled", "closing", "deadline", "parent"} \subseteq Causes
    BY DEF Causes
<1>1. CASE Work(c)
    BY <1>1, WorkStamps DEF Work
<1>2. CASE ReadCause(c)
  <2>1. envelope' \in [Calls -> Envelopes]
    BY <1>2, EnvelopeFields DEF ReadCause
  <2> QED
    BY <1>2, <2>1 DEF ReadCause
<1>3. CASE Publish(c)
  <2>1. envelope' \in [Calls -> Envelopes]
    BY <1>3, EnvelopeFields DEF Publish
  <2> QED
    BY <1>3, <2>1 DEF Publish
<1>4. CASE Exit(c)
    BY <1>0, <1>4, CausedOnce DEF Exit, cancel
<1>5. CASE ParentEnds(c) \/ Expire(c) \/ DeadlineFires(c)
    BY <1>0, <1>5, CausedOnce DEF ParentEnds, Expire, DeadlineFires
<1> QED
    BY <1>1, <1>2, <1>3, <1>4, <1>5 DEF QuietOther

\* Steps that leave the slots alone keep who holds them.
LEMMA QuietSlots ==
    ASSUME NEW c \in Calls, IInv, QuietCaller(c) \/ QuietOther(c)
    PROVE  SlotHolders'
<1> USE DEF IInv, CallTypeOK, SlotHolders, Working, BeforeLaunch, Rejected, Goto, Return
<1>0. cancels' = cancels
    BY QuietAdmission DEF admissionButCancelled
<1>1. CASE Enter(c) \/ Reject(c) \/ ReturnRejected(c)
    BY <1>0, <1>1 DEF Enter, Reject, ReturnRejected
<1>2. CASE Launch(c)
    BY <1>0, <1>2 DEF Launch
<1>3. CASE SelectParent(c) \/ SelectWake(c) \/ Recheck(c) \/ Snapshot(c)
    BY <1>0, <1>3 DEF SelectParent, SelectWake, Recheck, Snapshot
<1>4. CASE Decide(c)
    BY <1>0, <1>4 DEF Decide
<1>5. CASE Work(c) \/ ReadCause(c) \/ Publish(c) \/ Exit(c)
    BY <1>0, <1>5 DEF Work, ReadCause, Publish, Exit
<1>6. CASE ParentEnds(c) \/ Expire(c) \/ DeadlineFires(c)
    BY <1>0, <1>6 DEF ParentEnds, Expire, DeadlineFires
<1> QED
    BY <1>1, <1>2, <1>3, <1>4, <1>5, <1>6 DEF QuietCaller, QuietOther

CallStep(c) ==
    run(c) \/ Work(c) \/ Unwind(c) \/ ParentEnds(c) \/ Expire(c) \/ DeadlineFires(c)

\* Every step of a run keeps the causes, the envelopes and the answers true.
LEMMA TruthfulStep ==
    ASSUME NEW c \in Calls, IInv, CallStep(c)
    PROVE  Truthful'
<1> SUFFICES ASSUME NEW d \in Calls
             PROVE  (CauseIsTrue(d) /\ EnvelopeIsTrue(d) /\ CallerKnows(d))'
    BY DEF Truthful
<1>0. /\ CauseIsTrue(d) /\ EnvelopeIsTrue(d) /\ CallerKnows(d)
      /\ CauseIsTrue(c) /\ EnvelopeIsTrue(c) /\ CallerKnows(c)
      /\ pc[c] \in BeforeLaunch => worker[c] = "none"
      /\ CallTypeOK
    BY DEF IInv, Truthful, SlotHolders
<1>a. {"canceled", "closing", "deadline", "parent"} \subseteq Causes
    BY DEF Causes
<1> USE <1>0, <1>a
    DEF CallTypeOK, CauseIsTrue, EnvelopeIsTrue, CallerKnows, AnswerIsTrue, EarlyChildErr,
        Stamped, CauseRead, Published, BeforeLaunch, Rejected, WorkResults, Goto, Return
<1>1. CASE Enter(c)
    BY <1>1 DEF Enter, admissionVars
<1>2. CASE Acquire(c)
    BY <1>2 DEF Acquire, acquire
<1>3. CASE Reject(c)
  <2>1. closing' = closing /\ (closed => closing)
    BY <1>3 DEF Reject, admissionButCancelled, IInv, AdmissionInv
  <2> QED
    BY <1>3, <2>1, CausedOnce DEF Reject, cancel
<1>4. CASE ReturnRejected(c)
    BY <1>4 DEF ReturnRejected, admissionVars
<1>5. CASE Launch(c)
    BY <1>5, CausedOnce DEF Launch, cancel, admissionButCancelled
<1>6. CASE AbortAdmitted(c)
    BY <1>6 DEF AbortAdmitted, release
<1>7. CASE SelectParent(c)
    BY <1>7, CausedOnce DEF SelectParent, cancel, admissionButCancelled
<1>8. CASE SelectWake(c)
    BY <1>8 DEF SelectWake, admissionVars
<1>9. CASE Recheck(c)
    BY <1>9, CausedOnce DEF Recheck, cancel, admissionButCancelled
<1>10. CASE Snapshot(c)
    BY <1>10 DEF Snapshot, admissionVars
<1>11. CASE Decide(c)
  <2>1. seen[c].published => seen[c] = envelope[c] /\ Published(c)
    BY <1>11 DEF Decide, None
  <2>2. closing' = closing
    BY <1>11 DEF Decide, admissionButCancelled
  <2>3. CASE Settled(seen[c]) /\ cancel(c, "canceled") /\ Return(c, resultBefore(seen[c]))
    <3>1. envelope[c].value \in WorkResults \/ envelope[c].value = "none"
      BY DEF Envelopes
    <3>2. resultBefore(seen[c]) \in {"own", "none", "closed"}
      BY <2>1, <2>3, <3>1, <1>11 DEF resultBefore, Settled, Decide
    <3>3. /\ cause'[c] = IF cause[c] = "none" THEN "canceled" ELSE cause[c]
          /\ d # c => cause'[d] = cause[d]
      BY <2>3, CausedOnce DEF cancel
    <3>4. /\ pc'[c] = "returned" /\ result'[c] = resultBefore(seen[c])
          /\ d # c => pc'[d] = pc[d] /\ result'[d] = result[d] /\ seen'[d] = seen[d]
          /\ UNCHANGED <<worker, ended, expired, envelope>>
      BY <1>11, <2>3 DEF Decide
    <3>5. /\ envelope[c].published /\ envelope[c].early
          /\ result'[c] = IF envelope[c].cause = "closing" THEN "closed" ELSE envelope[c].value
      BY <2>1, <2>3, <3>4 DEF Settled, resultBefore
    <3>6. CASE d = c
      <4>1. CauseIsTrue(d)' /\ EnvelopeIsTrue(d)'
        BY <2>2, <3>3, <3>4, <3>6
      <4>2. AnswerIsTrue(d)'
        <5>1. CASE envelope[c].cause = "closing"
          BY <2>2, <3>4, <3>5, <3>6, <5>1
        <5>2. CASE envelope[c].cause # "closing"
          BY <3>1, <3>2, <3>4, <3>5, <3>6, <5>2
        <5> QED
          BY <5>1, <5>2
      <4> QED
        BY <3>4, <3>6, <4>1, <4>2
    <3>7. CASE d # c
      BY <2>2, <3>3, <3>4, <3>7
    <3> QED
      BY <3>6, <3>7
  <2>4. CASE /\ c \in expired \/ (seen[c].published /\ ~seen[c].early)
             /\ cancel(c, "deadline") /\ Return(c, "deadline")
    BY <1>11, <2>1, <2>2, <2>4, CausedOnce DEF Decide, cancel
  <2>5. CASE ~seen[c].published /\ Goto(c, "select") /\ UNCHANGED <<cause, result>>
    BY <1>11, <2>2, <2>5 DEF Decide
  <2> QED
    BY <1>11, <2>3, <2>4, <2>5 DEF Decide, Settled
<1>12. CASE Work(c)
  <2>1. /\ envelope'[c].early <=> c \notin expired
        /\ envelope'[c].value = "childErr" => cause[c] # "none"
        /\ envelope'[c].cause = "none" /\ ~envelope'[c].published
        /\ d # c => envelope'[d] = envelope[d]
    BY <1>12, WorkStamps
  <2>2. /\ worker[c] = "running" /\ worker'[c] = "completed"
        /\ d # c => worker'[d] = worker[d]
        /\ UNCHANGED <<closing, pc, ended, expired, cause, seen, result>>
    BY <1>12 DEF Work, admissionVars
  <2>3. CASE d = c
    BY <2>1, <2>2, <2>3 DEF Causes
  <2>4. CASE d # c
    BY <2>1, <2>2, <2>4
  <2> QED
    BY <2>3, <2>4
<1>13. CASE ReadCause(c)
    BY <1>13 DEF ReadCause, Envelopes, admissionVars
<1>14. CASE Publish(c)
    BY <1>14 DEF Publish, Envelopes, admissionVars
<1>15. CASE Release(c)
    BY <1>15 DEF Release, release
<1>16. CASE Exit(c)
    BY <1>16, CausedOnce DEF Exit, cancel, admissionButCancelled
<1>17. CASE ParentEnds(c)
    BY <1>17, CausedOnce DEF ParentEnds, admissionVars
<1>18. CASE Expire(c)
    BY <1>18 DEF Expire, admissionVars
<1>19. CASE DeadlineFires(c)
    BY <1>19, CausedOnce DEF DeadlineFires, admissionVars
<1> QED
    BY <1>1, <1>2, <1>3, <1>4, <1>5, <1>6, <1>7, <1>8, <1>9, <1>10, <1>11, <1>12, <1>13,
       <1>14, <1>15, <1>16, <1>17, <1>18, <1>19
    DEF CallStep, run, Unwind

\* Close passes a cause to the cancel function it calls, and that is all it changes
\* of a run: it keeps causes, envelopes and answers true.
LEMMA CloseTruthful ==
    ASSUME NEW k \in Closers, IInv, Close(k)
    PROVE  CloseStep(k) /\ CallTypeOK' /\ Truthful'
<1>1. CloseStep(k)
    BY DEF Close, CloseStep
<1>2. UNCHANGED <<pc, worker, ended, expired, envelope, seen, result>>
    BY DEF Close
<1>3. closing => closing'
    BY <1>1 DEF CloseStep, CloseEnter, CloseCancel, CloseDone, CloseGivesUp
<1>4. /\ cause' \in [Calls -> Causes]
      /\ \A d \in Calls : \/ cause'[d] = cause[d]
                          \/ cause[d] = "none" /\ cause'[d] = "closing" /\ closing'
  <2>1. CASE UNCHANGED cause
    BY <2>1 DEF IInv, CallTypeOK
  <2>2. CASE CloseCancel(k) /\ \E c \in pending[k] : Caused(c, "closing")
    <3>1. PICK c \in pending[k] : Caused(c, "closing")
      BY <2>2
    <3>2. c \in Calls /\ closing'
      BY <2>2 DEF CloseCancel, IInv, AdmissionInv, AdmissionTypeOK, SnapshotCovers
    <3> QED
      BY <3>1, <3>2, CausedOnce DEF IInv, Causes
  <2> QED
    BY <2>1, <2>2 DEF Close
<1>5. CallTypeOK'
    BY <1>2, <1>4 DEF IInv, CallTypeOK
<1>6. Truthful'
  <2> SUFFICES ASSUME NEW d \in Calls
               PROVE  (CauseIsTrue(d) /\ EnvelopeIsTrue(d) /\ CallerKnows(d))'
    BY DEF Truthful
  <2>1. CauseIsTrue(d) /\ EnvelopeIsTrue(d) /\ CallerKnows(d)
    BY DEF IInv, Truthful
  <2> QED
    BY <1>2, <1>3, <1>4, <2>1
    DEF CauseIsTrue, EnvelopeIsTrue, CallerKnows, AnswerIsTrue, EarlyChildErr, Stamped,
        CauseRead, Published
<1> QED
    BY <1>1, <1>5, <1>6

\* Every step keeps the invariant and is a step of the pool or invisible to it.
LEMMA NextIInv ==
    ASSUME IInv, [Next]_vars
    PROVE  IInv' /\ [Pool!PoolNext]_(Pool!poolVars)
<1>1. ASSUME NEW c \in Calls, QuietCaller(c) \/ QuietOther(c)
      PROVE  IInv' /\ UNCHANGED Pool!poolVars
  <2>1. CallStep(c)
    BY <1>1 DEF QuietCaller, QuietOther, CallStep, run, Unwind
  <2>2. AdmissionInv' /\ UNCHANGED Pool!poolVars
    BY <1>1, QuietAdmission, QuietStep DEF IInv
  <2> QED
    BY <1>1, <2>1, <2>2, QuietCallerTypes, QuietOtherTypes, QuietSlots, TruthfulStep DEF IInv
<1>2. ASSUME NEW c \in Calls, Acquire(c)
      PROVE  IInv' /\ Pool!Admit(c)
  <2>1. c \notin cancels
    BY <1>2 DEF Acquire, IInv, SlotHolders, Working, BeforeLaunch
  <2>2. AdmissionInv' /\ Pool!Admit(c)
    BY <1>2, <2>1, AcquireStep DEF Acquire, IInv
  <2>3. CallTypeOK'
    BY <1>2 DEF Acquire, Goto, IInv, CallTypeOK
  <2>4. SlotHolders'
    BY <1>2 DEF Acquire, acquire, Goto, IInv, CallTypeOK, SlotHolders, Working, BeforeLaunch
  <2> QED
    BY <1>2, <2>2, <2>3, <2>4, TruthfulStep DEF IInv, CallStep, run
<1>3. ASSUME NEW c \in Calls, AbortAdmitted(c)
      PROVE  IInv' /\ Pool!Finish(c)
  <2>1. c \in cancels
    BY <1>3 DEF AbortAdmitted, IInv, SlotHolders
  <2>2. AdmissionInv' /\ Pool!Finish(c)
    BY <1>3, <2>1, ReleaseStep DEF AbortAdmitted, IInv
  <2>3. CallTypeOK'
    BY <1>3 DEF AbortAdmitted, Goto, Return, Results, IInv, CallTypeOK
  <2>4. SlotHolders'
    BY <1>3 DEF AbortAdmitted, release, Goto, Return, IInv, CallTypeOK, SlotHolders,
                Working, BeforeLaunch, Rejected
  <2> QED
    BY <1>3, <2>2, <2>3, <2>4, TruthfulStep DEF IInv, CallStep, run
<1>4. ASSUME NEW c \in Calls, Release(c)
      PROVE  IInv' /\ Pool!Finish(c)
  <2>1. c \in cancels
    BY <1>4 DEF Release, IInv, SlotHolders, Working
  <2>2. AdmissionInv' /\ Pool!Finish(c)
    BY <1>4, <2>1, ReleaseStep DEF Release, IInv
  <2>3. CallTypeOK'
    BY <1>4 DEF Release, IInv, CallTypeOK
  <2>4. SlotHolders'
    BY <1>4 DEF Release, release, IInv, CallTypeOK, SlotHolders, Working, BeforeLaunch
  <2> QED
    BY <1>4, <2>2, <2>3, <2>4, TruthfulStep DEF IInv, CallStep, Unwind
<1>5. ASSUME NEW k \in Closers, Close(k)
      PROVE  IInv' /\ [Pool!PoolNext]_(Pool!poolVars)
  <2>1. AdmissionInv' /\ [Pool!PoolNext]_(Pool!poolVars)
    BY <1>5, CloseTruthful, CloseStepInv DEF IInv
  <2>2. SlotHolders'
    BY <1>5 DEF Close, CloseEnter, CloseCancel, CloseDone, CloseGivesUp, IInv, SlotHolders,
                Working
  <2> QED
    BY <1>5, <2>1, <2>2, CloseTruthful DEF IInv
<1>6. CASE UNCHANGED vars
  <2>1. UNCHANGED admissionButCancelled /\ cancelled \subseteq cancelled' /\ cancelled' \subseteq Calls
    BY <1>6 DEF vars, admissionVars, admissionButCancelled, IInv, AdmissionInv, AdmissionTypeOK
  <2>2. CallTypeOK' /\ SlotHolders'
    BY <1>6 DEF vars, admissionVars, callVars, IInv, CallTypeOK, SlotHolders, Working
  <2>3. Truthful'
    BY <1>6 DEF vars, admissionVars, callVars, IInv, Truthful, CauseIsTrue, EnvelopeIsTrue,
                CallerKnows, AnswerIsTrue, EarlyChildErr, Stamped, CauseRead, Published
  <2> QED
    BY <2>1, <2>2, <2>3, QuietStep DEF IInv
<1>7. ASSUME NEW c \in Calls, CallStep(c)
      PROVE  IInv' /\ [Pool!PoolNext]_(Pool!poolVars)
  <2>1. \/ QuietCaller(c) \/ QuietOther(c) \/ Acquire(c) \/ AbortAdmitted(c) \/ Release(c)
    BY <1>7 DEF CallStep, run, Unwind, QuietCaller, QuietOther
  <2> QED
    BY <2>1, <1>1, <1>2, <1>3, <1>4 DEF Pool!PoolNext
<1> QED
    BY <1>5, <1>6, <1>7 DEF Next, CallStep

\* IInv holds in every reachable state.
THEOREM Invariance == Spec => []IInv
<1>1. Init => IInv
    BY InitIInv
<1>2. IInv /\ [Next]_vars => IInv'
    BY NextIInv
<1> QED
    BY <1>1, <1>2, PTL DEF Spec

\* A run holds its slot from acquire until its work goroutine leaves, whatever its
\* caller was told, and live counts exactly those within MaxInFlight.
THEOREM WorkersHoldTheirSlots == Spec => []SlotsMatchWorkers
<1>1. IInv => SlotsMatchWorkers
    BY DEF IInv, AdmissionInv, CallTypeOK, SlotHolders, TypeOK, SlotsMatchWorkers
<1> QED
    BY <1>1, Invariance, PTL

\* run never answers with the child context's error, answers "closed" only when
\* Close was called, "deadline" only past it, and an outcome of the work only if it
\* was published before the deadline and before Close interrupted the work.
THEOREM EveryAnswerIsTrue == Spec => []AnswersAreTrue
<1>1. IInv => AnswersAreTrue
    BY DEF IInv, Truthful, CallerKnows, AnswerIsTrue, AnswersAreTrue
<1> QED
    BY <1>1, Invariance, PTL

\* The workspace instruction coordinator implements CallbackPool.
THEOREM RefinesPool == Spec => ImplementsPool
<1>1. Init => Pool!PoolInit
    BY InitIInv
<1>2. IInv /\ [Next]_vars => [Pool!PoolNext]_(Pool!poolVars)
    BY NextIInv
<1> QED
    BY <1>1, <1>2, Invariance, PTL DEF Spec, ImplementsPool, Pool!PoolSpec
=============================================================================
