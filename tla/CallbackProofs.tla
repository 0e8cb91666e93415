--------------------------- MODULE CallbackProofs ---------------------------
(***************************************************************************)
(* The coordinators of ask_user and delegate_task, for every set of calls  *)
(* and closers, every MaxInFlight and every response mapping: the type     *)
(* invariant, the capacity accounting, the quiescence Close reports, that  *)
(* results are earned, and the refinement of CallbackPool.                 *)
(*                                                                         *)
(* The argument: AdmissionInv is inductive over the shared steps           *)
(* (CoordinatorAdmissionProofs) as long as a call acquires only when it    *)
(* holds no slot and releases only when it does.  That is what SlotHolders *)
(* adds: the registered calls are exactly those between acquire and        *)
(* release, and a call whose goroutine was not launched has no responder.  *)
(* Earned follows the responder's envelope from its stamp to the caller's  *)
(* snapshot and decision.                                                  *)
(***************************************************************************)
EXTENDS DelegateTask, AskUserResponse, CoordinatorAdmissionProofs

BeforeLaunch == {"idle", "acquire", "refused", "admitted", "abort"}

\* Who holds a slot, and that the responder exists only after Launch.
SlotHolders ==
    /\ cancels = {c \in Calls : pc[c] \in {"admitted", "abort"} \/ Responding(c)}
    /\ \A c \in Calls : pc[c] \in BeforeLaunch => responder[c] = "none"

CallTypeOK ==
    /\ pc \in [Calls -> {"idle", "acquire", "refused", "admitted", "abort",
                         "select", "woken", "snapshot", "decide", "returned"}]
    /\ responder \in [Calls -> {"none", "running", "completed", "published",
                                "released", "exited"}]
    /\ ended \subseteq Calls
    /\ expired \subseteq Calls
    /\ ticked \subseteq Calls
    /\ envelope \in [Calls -> Envelopes]
    /\ seen \in [Calls -> Envelopes]
    /\ result \in [Calls -> Results]

Stamped(c) == responder[c] \in {"completed", "published", "released", "exited"}
Published(c) == responder[c] \in {"published", "released", "exited"}

\* The envelope of a call: empty until it is stamped, and then early or past the
\* deadline; published exactly once state.publish has run.
EnvelopeStamped(c) ==
    /\ ~Stamped(c) => envelope[c] = None
    /\ Stamped(c) => /\ envelope[c].value.status \notin OwnStatuses
                     /\ envelope[c].early \/ c \in expired
    /\ envelope[c].published <=> Published(c)

\* What a call's result rests on, and what the caller holds before it decides.
ResultEarned(c) ==
    /\ result[c] = Own("timed_out") => c \in expired /\ responder[c] # "none"
    /\ result[c].status \notin OwnStatuses =>
          envelope[c].published /\ envelope[c].early /\ envelope[c].value = result[c]
    /\ result[c].status \in {"identity", "refused"} => responder[c] = "none"

CallerKnows(c) ==
    /\ pc[c] \notin BeforeLaunch \cup {"returned"} => responder[c] # "none"
    /\ pc[c] = "decide" => seen[c] = None \/ (seen[c] = envelope[c] /\ Published(c))
    /\ pc[c] = "returned" => ResultEarned(c)

Earned == \A c \in Calls : EnvelopeStamped(c) /\ CallerKnows(c)

\* The inductive invariant.
IInv == AdmissionInv /\ CallTypeOK /\ SlotHolders /\ Earned

\* The statuses the coordinator gives on its own account.
LEMMA OwnResults ==
    /\ Own("none") \in Results /\ Own("ctxErr") \in Results /\ Own("identity") \in Results
    /\ Own("refused") \in Results /\ Own("timed_out") \in Results
    /\ None \in Envelopes
<1>1. \A s \in OwnStatuses : Own(s) \in Results
    BY Zenon DEF Results
<1>2. {"none", "ctxErr", "identity", "refused", "timed_out"} = OwnStatuses
    BY DEF OwnStatuses
<1>3. None \in Envelopes
  <2>1. FALSE \in BOOLEAN
    OBVIOUS
  <2>2. Own("none") \in Results
    BY <1>1, <1>2
  <2> QED
    BY <2>1, <2>2 DEF None, Envelopes
<1> QED
    BY <1>1, <1>2, <1>3

\* The mapping of ask_user satisfies MapResponseAssumption, whatever options the
\* question offers.
LEMMA AskMappingIsNotOwn ==
    \A r \in AskResponses : askMapResponse(r).status \notin OwnStatuses
BY DEF AskResponses, Kinds, askMapResponse, askFailure, OwnStatuses

\* The initial states, which are also initial states of the pool.
LEMMA InitIInv == Init => IInv /\ Pool!PoolInit
<1> SUFFICES ASSUME Init PROVE IInv /\ Pool!PoolInit
    OBVIOUS
<1>1. AdmissionInv /\ Pool!PoolInit
    BY AdmissionInitInv DEF Init
<1>2. CallTypeOK
    BY OwnResults DEF Init, CallTypeOK
<1>3. SlotHolders
    BY DEF Init, AdmissionInit, SlotHolders, Responding, BeforeLaunch
<1>4. Earned
    BY DEF Init, Earned, EnvelopeStamped, CallerKnows, Stamped, Published, BeforeLaunch, None
<1> QED
    BY <1>1, <1>2, <1>3, <1>4 DEF IInv

\* The caller's steps that neither take nor free a slot.
QuietCaller(c) ==
    \/ Enter(c) \/ Refuse(c) \/ ReturnRefused(c) \/ Launch(c) \/ SelectParent(c)
    \/ SelectWake(c) \/ Recheck(c) \/ Snapshot(c) \/ Decide(c)

\* A caller step that neither takes nor frees a slot changes the admission state only by cancelling.
LEMMA QuietCallerAdmission ==
    ASSUME NEW c \in Calls, IInv, QuietCaller(c)
    PROVE  UNCHANGED admissionButCancelled /\ cancelled \subseteq cancelled' /\ cancelled' \subseteq Calls
<1> USE DEF IInv, AdmissionInv, AdmissionTypeOK, admissionVars, admissionButCancelled, cancel
<1>1. CASE Enter(c) \/ ReturnRefused(c) \/ SelectWake(c) \/ Snapshot(c)
    BY <1>1 DEF Enter, ReturnRefused, SelectWake, Snapshot
<1>2. CASE Refuse(c) \/ Launch(c) \/ SelectParent(c)
    BY <1>2 DEF Refuse, Launch, SelectParent
<1>3. CASE Recheck(c) \/ Decide(c)
    BY <1>3 DEF Recheck, Decide
<1> QED
    BY <1>1, <1>2, <1>3 DEF QuietCaller

\* Such steps keep the types.
LEMMA QuietCallerTypes ==
    ASSUME NEW c \in Calls, IInv, QuietCaller(c)
    PROVE  CallTypeOK'
<1> USE DEF IInv, CallTypeOK, Goto, Return
<1>1. CASE Enter(c)
    BY <1>1, OwnResults DEF Enter
<1>2. CASE Refuse(c)
    BY <1>2 DEF Refuse
<1>3. CASE ReturnRefused(c)
    BY <1>3, OwnResults DEF ReturnRefused
<1>4. CASE Launch(c)
    BY <1>4 DEF Launch
<1>5. CASE SelectParent(c)
    BY <1>5, OwnResults DEF SelectParent
<1>6. CASE SelectWake(c)
    BY <1>6 DEF SelectWake
<1>7. CASE Recheck(c)
    BY <1>7, OwnResults DEF Recheck
<1>8. CASE Snapshot(c)
  <2>1. (IF envelope[c].published THEN envelope[c] ELSE None) \in Envelopes
    BY OwnResults
  <2> QED
    BY <1>8, <2>1 DEF Snapshot
<1>9. CASE Decide(c)
  <2>1. seen[c].value \in Results
    BY DEF Envelopes
  <2> QED
    BY <1>9, <2>1, OwnResults DEF Decide
<1> QED
    BY <1>1, <1>2, <1>3, <1>4, <1>5, <1>6, <1>7, <1>8, <1>9 DEF QuietCaller

\* Such steps keep who holds which slot.
LEMMA QuietCallerSlots ==
    ASSUME NEW c \in Calls, IInv, QuietCaller(c)
    PROVE  SlotHolders'
<1> USE DEF IInv, CallTypeOK, SlotHolders, Responding, BeforeLaunch, Goto, Return
<1>0. cancels' = cancels
    BY QuietCallerAdmission DEF admissionButCancelled
<1>1. CASE Enter(c)
    BY <1>0, <1>1 DEF Enter
<1>2. CASE Refuse(c)
    BY <1>0, <1>2 DEF Refuse
<1>3. CASE ReturnRefused(c)
    BY <1>0, <1>3 DEF ReturnRefused
<1>4. CASE Launch(c)
    BY <1>0, <1>4 DEF Launch
<1>5. CASE SelectParent(c)
    BY <1>0, <1>5 DEF SelectParent
<1>6. CASE SelectWake(c)
    BY <1>0, <1>6 DEF SelectWake
<1>7. CASE Recheck(c)
    BY <1>0, <1>7 DEF Recheck
<1>8. CASE Snapshot(c)
    BY <1>0, <1>8 DEF Snapshot
<1>9. CASE Decide(c)
    BY <1>0, <1>9 DEF Decide
<1> QED
    BY <1>1, <1>2, <1>3, <1>4, <1>5, <1>6, <1>7, <1>8, <1>9 DEF QuietCaller

\* The environment's and the responder's steps that neither take nor free a slot.
QuietOther(c) ==
    Respond(c) \/ Publish(c) \/ Exit(c) \/ ParentEnds(c) \/ Expire(c)

\* The same of the other steps that neither take nor free a slot.
LEMMA QuietOtherStep ==
    ASSUME NEW c \in Calls, IInv, QuietOther(c)
    PROVE  UNCHANGED admissionButCancelled /\ cancelled \subseteq cancelled' /\ cancelled' \subseteq Calls
           /\ CallTypeOK' /\ SlotHolders'
<1> USE DEF IInv, CallTypeOK
<1>1. UNCHANGED admissionButCancelled /\ cancelled \subseteq cancelled' /\ cancelled' \subseteq Calls
    BY DEF QuietOther, Respond, Publish, Exit, ParentEnds, Expire, cancel,
           admissionVars, admissionButCancelled, AdmissionInv, AdmissionTypeOK
<1>2. cancels' = cancels
    BY <1>1 DEF admissionButCancelled
<1>3. CASE Respond(c)
  <2>1. PICK r \in Responses :
           envelope' = [envelope EXCEPT ![c].early = c \notin expired,
                                        ![c].value = mapResponse(r)]
    BY <1>3 DEF Respond
  <2>2. mapResponse(r) \in Results
    BY DEF Results
  <2>3. \A b \in BOOLEAN, v \in Results :
           [envelope EXCEPT ![c].early = b, ![c].value = v] \in [Calls -> Envelopes]
    BY DEF Envelopes
  <2>4. envelope' \in [Calls -> Envelopes]
    BY <2>1, <2>2, <2>3, Zenon
  <2>5. CallTypeOK'
    BY <1>3, <2>4 DEF Respond
  <2>6. SlotHolders'
    BY <1>2, <1>3 DEF Respond, SlotHolders, Responding, BeforeLaunch
  <2> QED
    BY <1>1, <2>5, <2>6
<1>4. CASE Publish(c)
  <2>1. envelope' \in [Calls -> Envelopes]
    BY <1>4 DEF Publish, Envelopes
  <2>2. CallTypeOK'
    BY <1>4, <2>1 DEF Publish
  <2>3. SlotHolders'
    BY <1>2, <1>4 DEF Publish, SlotHolders, Responding, BeforeLaunch
  <2> QED
    BY <1>1, <2>2, <2>3
<1>5. CASE Exit(c)
    BY <1>1, <1>2, <1>5 DEF Exit, SlotHolders, Responding, BeforeLaunch
<1>6. CASE ParentEnds(c) \/ Expire(c)
    BY <1>1, <1>2, <1>6 DEF ParentEnds, Expire, SlotHolders, Responding, BeforeLaunch
<1> QED
    BY <1>3, <1>4, <1>5, <1>6 DEF QuietOther

CallStep(c) == ask(c) \/ Respond(c) \/ Unwind(c) \/ ParentEnds(c) \/ Expire(c)

\* The status of a result tells ask's own answers apart from a mapped response.
LEMMA OwnStatus ==
    /\ \A s \in OwnStatuses : Own(s).status = s
    /\ {"none", "ctxErr", "identity", "refused", "timed_out"} = OwnStatuses
BY DEF Own, OwnStatuses

\* runResponder's envelope after Respond: unpublished, holding a mapped response,
\* early or past the deadline.
LEMMA RespondStamps ==
    ASSUME NEW c \in Calls, IInv, Respond(c)
    PROVE  /\ envelope'[c].value.status \notin OwnStatuses
           /\ envelope'[c].early \/ c \in expired
           /\ ~envelope'[c].published
           /\ \A d \in Calls \ {c} : envelope'[d] = envelope[d]
<1>1. PICK r \in Responses :
         envelope' = [envelope EXCEPT ![c].early = c \notin expired,
                                      ![c].value = mapResponse(r)]
    BY DEF Respond
<1>2. envelope[c] \in Envelopes /\ ~envelope[c].published
    BY DEF IInv, CallTypeOK, Earned, EnvelopeStamped, Published, Respond
<1> DEFINE Stamp(e, b, v) ==
         /\ e[c].value = v /\ e[c].early = b /\ e[c].published = envelope[c].published
         /\ \A d \in Calls \ {c} : e[d] = envelope[d]
<1>3. \A b \in BOOLEAN, v \in Results : \A e :
         e = [envelope EXCEPT ![c].early = b, ![c].value = v] => Stamp(e, b, v)
    BY DEF IInv, CallTypeOK, Envelopes
<1>4. (c \notin expired) \in BOOLEAN /\ mapResponse(r) \in Results
    BY Zenon DEF Results
<1> HIDE DEF Stamp
<1>5. Stamp(envelope', c \notin expired, mapResponse(r))
    BY <1>1, <1>3, <1>4, Zenon
<1> QED
    BY <1>2, <1>5, MapResponseAssumption, Zenon DEF Stamp

\* Every step of a call keeps the envelopes stamped truthfully and the results earned.
LEMMA EarnedStep ==
    ASSUME NEW c \in Calls, IInv, CallStep(c)
    PROVE  Earned'
<1> SUFFICES ASSUME NEW d \in Calls PROVE (EnvelopeStamped(d) /\ CallerKnows(d))'
    BY DEF Earned
<1>0. EnvelopeStamped(d) /\ CallerKnows(d) /\ EnvelopeStamped(c) /\ CallerKnows(c)
    BY DEF IInv, Earned
<1> USE <1>0, OwnStatus
    DEF IInv, CallTypeOK, EnvelopeStamped, CallerKnows, ResultEarned, Stamped, Published,
        BeforeLaunch, Goto, Return
<1>1. CASE Enter(c)
    BY <1>1 DEF Enter, SlotHolders
<1>2. CASE Acquire(c)
    BY <1>2 DEF Acquire
<1>3. CASE Refuse(c)
    BY <1>3 DEF Refuse
<1>4. CASE ReturnRefused(c)
    BY <1>4 DEF ReturnRefused, SlotHolders
<1>5. CASE Launch(c)
    BY <1>5 DEF Launch, SlotHolders
<1>6. CASE AbortAdmitted(c)
    BY <1>6 DEF AbortAdmitted
<1>7. CASE SelectParent(c)
    BY <1>7 DEF SelectParent
<1>8. CASE SelectWake(c)
    BY <1>8 DEF SelectWake
<1>9. CASE Recheck(c)
    BY <1>9 DEF Recheck
<1>10. CASE Snapshot(c)
    BY <1>10 DEF Snapshot
<1>11. CASE Decide(c)
  <2>1. seen[c].published => seen[c] = envelope[c] /\ Published(c)
    BY <1>11 DEF Decide, None
  <2>2. CASE seen[c].published /\ seen[c].early /\ Return(c, seen[c].value)
    BY <1>11, <2>1, <2>2 DEF Decide
  <2>3. CASE /\ c \in expired \/ (seen[c].published /\ ~seen[c].early)
             /\ Return(c, Own("timed_out"))
    BY <1>11, <2>1, <2>3 DEF Decide
  <2>4. CASE Goto(c, "select") /\ UNCHANGED result
    BY <1>11, <2>4 DEF Decide
  <2> QED
    BY <1>11, <2>2, <2>3, <2>4 DEF Decide
<1>12. CASE Respond(c)
  <2>1. CASE d = c
    BY <1>12, <2>1, RespondStamps DEF Respond
  <2>2. CASE d # c
    BY <1>12, <2>2, RespondStamps, ZenonT(30) DEF Respond
  <2> QED
    BY <2>1, <2>2
<1>13. CASE Publish(c)
    BY <1>13 DEF Publish, Envelopes
<1>14. CASE Release(c)
    BY <1>14 DEF Release
<1>15. CASE Exit(c)
    BY <1>15 DEF Exit
<1>16. CASE ParentEnds(c) \/ Expire(c)
    BY <1>16 DEF ParentEnds, Expire
<1> QED
    BY <1>1, <1>2, <1>3, <1>4, <1>5, <1>6, <1>7, <1>8, <1>9, <1>10, <1>11, <1>12, <1>13,
       <1>14, <1>15, <1>16
    DEF CallStep, ask, Unwind

\* Every step keeps the invariant and is a step of the pool or invisible to it.
LEMMA NextIInv ==
    ASSUME IInv, [Next]_vars
    PROVE  IInv' /\ [Pool!PoolNext]_(Pool!poolVars)
<1>1. ASSUME NEW c \in Calls, QuietCaller(c)
      PROVE  IInv' /\ UNCHANGED Pool!poolVars
    BY <1>1, QuietCallerAdmission, QuietCallerTypes, QuietCallerSlots, QuietStep, EarnedStep
    DEF IInv, QuietCaller, CallStep, ask
<1>2. ASSUME NEW c \in Calls, QuietOther(c)
      PROVE  IInv' /\ UNCHANGED Pool!poolVars
    BY <1>2, QuietOtherStep, QuietStep, EarnedStep DEF IInv, QuietOther, CallStep, Unwind
<1>3. ASSUME NEW c \in Calls, Acquire(c)
      PROVE  IInv' /\ Pool!Admit(c)
  <2>1. c \notin cancels
    BY <1>3 DEF Acquire, IInv, SlotHolders, Responding, BeforeLaunch
  <2>2. AdmissionInv' /\ Pool!Admit(c)
    BY <1>3, <2>1, AcquireStep DEF Acquire, IInv
  <2>3. CallTypeOK'
    BY <1>3 DEF Acquire, Goto, IInv, CallTypeOK
  <2>4. SlotHolders'
    BY <1>3 DEF Acquire, acquire, Goto, IInv, CallTypeOK, SlotHolders, Responding, BeforeLaunch
  <2> QED
    BY <1>3, <2>2, <2>3, <2>4, EarnedStep DEF IInv, CallStep, ask
<1>4. ASSUME NEW c \in Calls, AbortAdmitted(c)
      PROVE  IInv' /\ Pool!Finish(c)
  <2>1. c \in cancels
    BY <1>4 DEF AbortAdmitted, IInv, SlotHolders
  <2>2. AdmissionInv' /\ Pool!Finish(c)
    BY <1>4, <2>1, ReleaseStep DEF AbortAdmitted, IInv
  <2>3. CallTypeOK'
    BY <1>4, OwnResults DEF AbortAdmitted, Goto, Return, IInv, CallTypeOK
  <2>4. SlotHolders'
    BY <1>4 DEF AbortAdmitted, release, Goto, Return, IInv, CallTypeOK, SlotHolders,
                Responding, BeforeLaunch
  <2> QED
    BY <1>4, <2>2, <2>3, <2>4, EarnedStep DEF IInv, CallStep, ask
<1>5. ASSUME NEW c \in Calls, Release(c)
      PROVE  IInv' /\ Pool!Finish(c)
  <2>1. c \in cancels
    BY <1>5 DEF Release, IInv, SlotHolders, Responding
  <2>2. AdmissionInv' /\ Pool!Finish(c)
    BY <1>5, <2>1, ReleaseStep DEF Release, IInv
  <2>3. CallTypeOK'
    BY <1>5 DEF Release, IInv, CallTypeOK
  <2>4. SlotHolders'
    BY <1>5 DEF Release, release, IInv, CallTypeOK, SlotHolders, Responding, BeforeLaunch
  <2> QED
    BY <1>5, <2>2, <2>3, <2>4, EarnedStep DEF IInv, CallStep, Unwind
<1>6. ASSUME NEW k \in Closers, Close(k)
      PROVE  IInv' /\ [Pool!PoolNext]_(Pool!poolVars)
  <2>1. AdmissionInv' /\ [Pool!PoolNext]_(Pool!poolVars)
    BY <1>6, CloseStepInv DEF Close, IInv
  <2>2. cancels' = cancels
    BY <1>6 DEF Close, CloseStep, CloseEnter, CloseCancel, CloseDone, CloseGivesUp
  <2>3. CallTypeOK' /\ SlotHolders'
    BY <1>6, <2>2 DEF Close, callVars, IInv, CallTypeOK, SlotHolders, Responding, BeforeLaunch
  <2>4. Earned'
    BY <1>6 DEF Close, callVars, IInv, Earned, EnvelopeStamped, CallerKnows, ResultEarned,
                Stamped, Published, BeforeLaunch
  <2> QED
    BY <2>1, <2>3, <2>4 DEF IInv
<1>7. CASE UNCHANGED vars
  <2>1. UNCHANGED admissionButCancelled /\ cancelled \subseteq cancelled' /\ cancelled' \subseteq Calls
    BY <1>7 DEF vars, admissionVars, admissionButCancelled, IInv, AdmissionInv, AdmissionTypeOK
  <2>2. CallTypeOK' /\ SlotHolders'
    BY <1>7 DEF vars, admissionVars, callVars, IInv, CallTypeOK, SlotHolders, Responding,
                BeforeLaunch
  <2>3. Earned'
    BY <1>7 DEF vars, callVars, IInv, Earned, EnvelopeStamped, CallerKnows, ResultEarned,
                Stamped, Published, BeforeLaunch
  <2> QED
    BY <2>1, <2>2, <2>3, QuietStep DEF IInv
<1>8. ASSUME NEW c \in Calls,
             ask(c) \/ Respond(c) \/ Unwind(c) \/ ParentEnds(c) \/ Expire(c)
      PROVE  IInv' /\ [Pool!PoolNext]_(Pool!poolVars)
  <2>1. \/ QuietCaller(c) \/ QuietOther(c) \/ Acquire(c) \/ AbortAdmitted(c) \/ Release(c)
    BY <1>8 DEF ask, Unwind, QuietCaller, QuietOther
  <2> QED
    BY <2>1, <1>1, <1>2, <1>3, <1>4, <1>5 DEF Pool!PoolNext
<1> QED
    BY <1>6, <1>7, <1>8 DEF Next

\* IInv holds in every reachable state.
THEOREM Invariance == Spec => []IInv
<1>1. Init => IInv
    BY InitIInv
<1>2. IInv /\ [Next]_vars => IInv'
    BY NextIInv
<1> QED
    BY <1>1, <1>2, PTL DEF Spec

\* Type correctness of the ask_user coordinator.
THEOREM TypeCorrect == Spec => []TypeOK
<1>1. IInv => TypeOK
    BY DEF IInv, AdmissionInv, CallTypeOK, TypeOK
<1> QED
    BY <1>1, Invariance, PTL

\* live counts exactly the calls between acquire and release and never exceeds
\* MaxInFlight, for any number of calls.
THEOREM CapacityHolds == Spec => []SlotsMatchResponders
<1>1. IInv => SlotsMatchResponders
    BY DEF IInv, AdmissionInv, SlotHolders, SlotsMatchResponders
<1> QED
    BY <1>1, Invariance, PTL

\* A Close that returned nil, and c.closed, mean that no responder is live.
THEOREM CloseIsQuiescent == Spec => []ClosedMeansQuiescent
<1>1. IInv => ClosedMeansQuiescent
  <2> SUFFICES ASSUME IInv PROVE ClosedMeansQuiescent
    OBVIOUS
  <2>1. closed => cancels = {}
    BY LiveZero DEF IInv, AdmissionInv
  <2> QED
    BY <2>1 DEF IInv, AdmissionInv, SlotHolders, ClosedMeansQuiescent
<1> QED
    BY <1>1, Invariance, PTL

\* A Close that waits for c.done has had the context of every live responder
\* cancelled: its snapshot of the cancel functions missed none.
THEOREM CloseCancelsAll == Spec => []CloseCancelsEveryResponder
<1>1. IInv => CloseCancelsEveryResponder
    BY DEF IInv, AdmissionInv, SnapshotCovers, SlotHolders, CloseCancelsEveryResponder,
           Waiting, ChildDone
<1> QED
    BY <1>1, Invariance, PTL

\* A result of the responder was published by it before the deadline, timed_out is
\* answered past the deadline only, and a refused call never reached the responder,
\* for every mapping of responses that keeps off ask's own answers.
THEOREM EveryResultIsEarned == Spec => []ResultsAreEarned
<1>1. IInv => ResultsAreEarned
    BY DEF IInv, Earned, CallerKnows, ResultEarned, ResultsAreEarned
<1> QED
    BY <1>1, Invariance, PTL

\* The ask_user coordinator implements CallbackPool.
THEOREM RefinesPool == Spec => ImplementsPool
<1>1. Init => Pool!PoolInit
    BY InitIInv
<1>2. IInv /\ [Next]_vars => [Pool!PoolNext]_(Pool!poolVars)
    BY NextIInv
<1> QED
    BY <1>1, <1>2, Invariance, PTL DEF Spec, ImplementsPool, Pool!PoolSpec
-----------------------------------------------------------------------------
(* delegate_task runs the same protocol: its specification implies AskUser's. *)

\* Every step is a step of the shared coordinator.
LEMMA DelegateStep ==
    ASSUME DelegateNext
    PROVE  Next
<1>1. ASSUME NEW c \in Calls, run(c) \/ runRunner(c) \/ ParentEnds(c) \/ Expire(c)
      PROVE  Next
    BY <1>1 DEF run, runRunner, Next
<1>2. ASSUME NEW k \in Closers, Close(k)
      PROVE  Next
    BY <1>2 DEF Next
<1> QED
    BY <1>1, <1>2 DEF DelegateNext

\* The mapping of delegate_task satisfies MapResponseAssumption.
LEMMA DelegateMappingIsNotOwn ==
    \A r \in DelegateResponses : delegateMapResponse(r).status \notin OwnStatuses
BY DEF DelegateResponses, Statuses, delegateMapResponse, OwnStatuses

\* Every behaviour of the delegate_task coordinator (coordinator.go:60-228) is one
\* of the callback protocol.
THEOREM DelegateRunsTheProtocol == DelegateSpec => Spec
<1>1. newCoordinator => Init
    BY DEF newCoordinator
<1>2. [DelegateNext]_vars => [Next]_vars
    BY DelegateStep
<1> QED
    BY <1>1, <1>2, PTL DEF DelegateSpec, Spec

\* A Close of the delegate_task coordinator that returned nil left no runner live.
THEOREM DelegateCloseIsQuiescent == DelegateSpec => []ClosedMeansQuiescent
<1> QED
    BY DelegateRunsTheProtocol, CloseIsQuiescent, PTL

\* A Close of the delegate_task coordinator has the context of every live runner
\* cancelled before it waits for them.
THEOREM DelegateCloseCancelsAll == DelegateSpec => []CloseCancelsEveryResponder
<1> QED
    BY DelegateRunsTheProtocol, CloseCancelsAll, PTL

\* A report of the runner reaches the model only if the runner published it before
\* the deadline, and timed_out is answered only past it.
THEOREM DelegateResultsAreEarned == DelegateSpec => []ResultsAreEarned
<1> QED
    BY DelegateRunsTheProtocol, EveryResultIsEarned, PTL

\* The delegate_task coordinator implements the pool its host was promised.
THEOREM DelegateRefinesPool == DelegateSpec => ImplementsPool
<1> QED
    BY DelegateRunsTheProtocol, RefinesPool, PTL
=============================================================================
