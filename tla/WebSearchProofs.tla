-------------------------- MODULE WebSearchProofs --------------------------
(***************************************************************************)
(* For every set of calls and closers and every MaxInFlight: the web       *)
(* search coordinator keeps its slots through encoding and send, returns   *)
(* what it received in time, and implements CallbackPool.                  *)
(*                                                                         *)
(* Two invariants are needed.  SlotHolders says who is registered, so that *)
(* the lemmas of CoordinatorAdmissionProofs apply.  Timely follows the     *)
(* envelope from its stamp through the channel to the caller: what was     *)
(* received is the searcher's envelope, an envelope that was not early was *)
(* stamped past the deadline, an early one that lay in the channel when    *)
(* the timer won is received by the poll, and a caller that is past its    *)
(* select without an early envelope is past the deadline.                  *)
(***************************************************************************)
EXTENDS WebSearch, CoordinatorAdmissionProofs

BeforeLaunch == {"idle", "acquire", "refused", "admitted", "abort"}

CallTypeOK ==
    /\ pc \in [Calls -> {"idle", "acquire", "refused", "admitted", "abort", "select",
                         "poll", "recheck", "decide", "child", "final", "returned"}]
    /\ searcher \in [Calls -> {"none", "running", "encode", "completed", "sent",
                               "released", "exited"}]
    /\ ended \subseteq Calls /\ expired \subseteq Calls /\ fired \subseteq Calls
    /\ offered \subseteq Calls
    /\ envelope \in [Calls -> Envelopes]
    /\ responses \subseteq Calls
    /\ received \in [Calls -> Envelopes]
    /\ result \in [Calls -> Results]

\* Who holds a slot, and that the searcher exists only after Launch.
SlotHolders ==
    /\ cancels = {c \in Calls : pc[c] \in {"admitted", "abort"} \/ Searching(c)}
    /\ \A c \in Calls : pc[c] \in BeforeLaunch => searcher[c] = "none"

Stamped(c) == searcher[c] \in {"completed", "sent", "released", "exited"}
Sent(c) == searcher[c] \in {"sent", "released", "exited"}

\* The envelope of a call from its stamp to the caller.
EnvelopeTravels(c) ==
    /\ Stamped(c) => envelope[c].value \in Values /\ (envelope[c].early \/ c \in expired)
    /\ ~Stamped(c) => envelope[c] = Empty
    /\ c \in responses => Sent(c)
    /\ received[c] = Empty \/ (received[c] = envelope[c] /\ Sent(c))

\* An early envelope that was in the channel when the timer won stays there for the
\* poll, and is then the one the caller has received.
OfferStands(c) ==
    c \in offered =>
        /\ Sent(c) /\ envelope[c].early
        /\ pc[c] \in {"poll", "recheck", "decide", "returned"}
        /\ pc[c] = "poll" => c \in responses
        /\ pc[c] \in {"recheck", "decide"} => received[c] = envelope[c]
        /\ pc[c] = "returned" => result[c] \in {envelope[c].value, "ctxErr"}

\* What the caller knows at each point after its select.
CallerKnows(c) ==
    /\ pc[c] \in BeforeLaunch \cup {"select", "poll"} => received[c] = Empty
    /\ pc[c] = "poll" => c \in expired
    /\ pc[c] \in {"recheck", "decide"} =>
          (received[c] = envelope[c] /\ Sent(c)) \/ c \in expired
    /\ pc[c] \in {"child", "final"} => c \in expired /\ ~received[c].early
    /\ pc[c] = "final" => ChildDone(c)
    /\ pc[c] = "returned" =>
          /\ received[c].early => result[c] \in {received[c].value, "ctxErr"}
          /\ result[c] \in Values => received[c].early /\ result[c] = received[c].value

Timely == \A c \in Calls : EnvelopeTravels(c) /\ OfferStands(c) /\ CallerKnows(c)

\* The inductive invariant.
IInv == AdmissionInv /\ CallTypeOK /\ SlotHolders /\ Timely

\* The initial states, which are also initial states of the pool.
LEMMA InitIInv == Init => IInv /\ Pool!PoolInit
<1> SUFFICES ASSUME Init PROVE IInv /\ Pool!PoolInit
    OBVIOUS
<1>1. AdmissionInv /\ Pool!PoolInit
    BY AdmissionInitInv DEF Init
<1>2. Empty \in Envelopes
  <2>1. FALSE \in BOOLEAN
    OBVIOUS
  <2> QED
    BY <2>1 DEF Empty, Envelopes
<1>3. CallTypeOK
    BY <1>2 DEF Init, CallTypeOK, Results
<1>4. SlotHolders
    BY DEF Init, AdmissionInit, SlotHolders, Searching, BeforeLaunch
<1>5. Timely
    BY DEF Init, Timely, EnvelopeTravels, OfferStands, CallerKnows, Stamped, Sent, BeforeLaunch
<1> QED
    BY <1>1, <1>3, <1>4, <1>5 DEF IInv

\* The steps of the caller, the searcher and the environment that neither take
\* nor free a slot.
QuietCaller(c) ==
    \/ Enter(c) \/ Refuse(c) \/ ReturnRefused(c) \/ Launch(c) \/ SelectParent(c)
    \/ SelectResponse(c) \/ SelectTimer(c) \/ Poll(c) \/ Recheck(c) \/ Decide(c)
    \/ AwaitChild(c) \/ Final(c)
QuietOther(c) ==
    \/ Search(c) \/ Encode(c) \/ Send(c) \/ Exit(c) \/ ParentEnds(c)
    \/ Expire(c) \/ ChildDeadline(c)

\* A quiet step changes nothing of the admission but cancelled calls.
LEMMA QuietAdmission ==
    ASSUME NEW c \in Calls, IInv, QuietCaller(c) \/ QuietOther(c)
    PROVE  UNCHANGED admissionButCancelled /\ cancelled \subseteq cancelled' /\ cancelled' \subseteq Calls
<1> USE DEF IInv, AdmissionInv, AdmissionTypeOK, admissionVars, admissionButCancelled, cancel
<1>1. CASE Enter(c) \/ ReturnRefused(c) \/ SelectResponse(c) \/ SelectTimer(c) \/ Poll(c)
    BY <1>1 DEF Enter, ReturnRefused, SelectResponse, SelectTimer, Poll
<1>2. CASE Refuse(c) \/ Launch(c) \/ SelectParent(c) \/ Recheck(c)
    BY <1>2 DEF Refuse, Launch, SelectParent, Recheck
<1>3. CASE Decide(c) \/ AwaitChild(c) \/ Final(c)
    BY <1>3 DEF Decide, AwaitChild, Final
<1>4. CASE QuietOther(c)
    BY <1>4 DEF QuietOther, Search, Encode, Send, Exit, ParentEnds, Expire, ChildDeadline
<1> QED
    BY <1>1, <1>2, <1>3, <1>4 DEF QuietCaller

\* What Receive leaves in the caller's hands is an envelope.
LEMMA ReceiveTypes ==
    ASSUME NEW c \in Calls, CallTypeOK, Receive(c)
    PROVE  responses' \subseteq Calls /\ received' \in [Calls -> Envelopes]
BY DEF CallTypeOK, Receive

\* Steps of a caller that leave the slots alone keep the types.
LEMMA QuietCallerTypes ==
    ASSUME NEW c \in Calls, IInv, QuietCaller(c)
    PROVE  CallTypeOK'
<1> USE DEF IInv, CallTypeOK, Goto, Return, Results
<1>1. CASE Enter(c)
    BY <1>1 DEF Enter
<1>2. CASE Refuse(c)
    BY <1>2 DEF Refuse
<1>3. CASE ReturnRefused(c)
    BY <1>3 DEF ReturnRefused
<1>4. CASE Launch(c)
    BY <1>4 DEF Launch
<1>5. CASE SelectParent(c)
    BY <1>5 DEF SelectParent
<1>6. CASE SelectResponse(c)
    BY <1>6, ReceiveTypes DEF SelectResponse
<1>7. CASE SelectTimer(c)
    BY <1>7 DEF SelectTimer
<1>8. CASE Poll(c)
    BY <1>8, ReceiveTypes DEF Poll
<1>9. CASE Recheck(c)
    BY <1>9 DEF Recheck
<1>10. CASE Decide(c)
  <2>1. received[c].value \in Results
    BY DEF Envelopes
  <2> QED
    BY <1>10, <2>1 DEF Decide
<1>11. CASE AwaitChild(c)
    BY <1>11 DEF AwaitChild
<1>12. CASE Final(c)
    BY <1>12 DEF Final
<1> QED
    BY <1>1, <1>2, <1>3, <1>4, <1>5, <1>6, <1>7, <1>8, <1>9, <1>10, <1>11, <1>12
    DEF QuietCaller

\* So do such steps of the others.
LEMMA QuietOtherTypes ==
    ASSUME NEW c \in Calls, IInv, QuietOther(c)
    PROVE  CallTypeOK'
<1> USE DEF IInv, CallTypeOK
<1>0. \A v \in Values : [envelope EXCEPT ![c] = [early |-> c \notin expired, value |-> v]]
                          \in [Calls -> Envelopes]
  <2>1. (c \notin expired) \in BOOLEAN
    BY Zenon
  <2>2. \A b \in BOOLEAN, v \in Values : [early |-> b, value |-> v] \in Envelopes
    BY DEF Envelopes
  <2> QED
    BY <2>1, <2>2, Zenon
<1>1. CASE Search(c)
    BY <1>0, <1>1 DEF Search, Values
<1>2. CASE Encode(c)
    BY <1>0, <1>2 DEF Encode
<1>3. CASE Send(c)
    BY <1>3 DEF Send
<1>4. CASE Exit(c)
    BY <1>4 DEF Exit
<1>5. CASE ParentEnds(c) \/ Expire(c) \/ ChildDeadline(c)
    BY <1>5 DEF ParentEnds, Expire, ChildDeadline
<1> QED
    BY <1>1, <1>2, <1>3, <1>4, <1>5 DEF QuietOther

\* Steps that leave the slots alone keep who holds them.
LEMMA QuietSlots ==
    ASSUME NEW c \in Calls, IInv, QuietCaller(c) \/ QuietOther(c)
    PROVE  SlotHolders'
<1> USE DEF IInv, CallTypeOK, SlotHolders, Searching, BeforeLaunch, Goto, Return
<1>0. cancels' = cancels
    BY QuietAdmission DEF admissionButCancelled
<1>1. CASE Enter(c) \/ Refuse(c) \/ ReturnRefused(c)
    BY <1>0, <1>1 DEF Enter, Refuse, ReturnRefused
<1>2. CASE Launch(c)
    BY <1>0, <1>2 DEF Launch
<1>3. CASE SelectParent(c) \/ SelectTimer(c) \/ SelectResponse(c) \/ Poll(c)
    BY <1>0, <1>3 DEF SelectParent, SelectTimer, SelectResponse, Poll
<1>4. CASE Recheck(c) \/ Decide(c) \/ AwaitChild(c) \/ Final(c)
    BY <1>0, <1>4 DEF Recheck, Decide, AwaitChild, Final
<1>5. CASE Search(c) \/ Encode(c) \/ Send(c) \/ Exit(c)
    BY <1>0, <1>5 DEF Search, Encode, Send, Exit
<1>6. CASE ParentEnds(c) \/ Expire(c) \/ ChildDeadline(c)
    BY <1>0, <1>6 DEF ParentEnds, Expire, ChildDeadline
<1> QED
    BY <1>1, <1>2, <1>3, <1>4, <1>5, <1>6 DEF QuietCaller, QuietOther

\* Every step of a call keeps the journey of every envelope, and what the
\* callers know of it.
CallStep(c) ==
    search(c) \/ Search(c) \/ Unwind(c) \/ ParentEnds(c) \/ Expire(c) \/ ChildDeadline(c)

StampedNow(c, v) ==
    envelope' = [envelope EXCEPT ![c] = [early |-> c \notin expired, value |-> v]]

\* The stamp is early or the deadline has passed, and no other envelope changes.
LEMMA StampTravels ==
    ASSUME NEW c \in Calls, NEW v \in Values, CallTypeOK, StampedNow(c, v)
    PROVE  /\ envelope'[c].value = v
           /\ envelope'[c].early \/ c \in expired
           /\ \A d \in Calls \ {c} : envelope'[d] = envelope[d]
<1>1. envelope'[c] = [early |-> c \notin expired, value |-> v]
    BY Zenon DEF CallTypeOK, StampedNow
<1>2. envelope'[c].value = v /\ envelope'[c].early = (c \notin expired)
  <2>1. \A b \in BOOLEAN : [early |-> b, value |-> v].early = b /\ [early |-> b, value |-> v].value = v
    OBVIOUS
  <2>2. (c \notin expired) \in BOOLEAN
    BY Zenon
  <2> QED
    BY <1>1, <2>1, <2>2, Zenon
<1>3. \A d \in Calls \ {c} : envelope'[d] = envelope[d]
    BY DEF CallTypeOK, StampedNow
<1> QED
    BY <1>2, <1>3, Zenon

\* No step turns an answer received in time into another result.
LEMMA TimelyStep ==
    ASSUME NEW c \in Calls, IInv, CallStep(c)
    PROVE  Timely'
<1> SUFFICES ASSUME NEW d \in Calls PROVE (EnvelopeTravels(d) /\ OfferStands(d) /\ CallerKnows(d))'
    BY DEF Timely
<1>0. /\ EnvelopeTravels(d) /\ OfferStands(d) /\ CallerKnows(d)
      /\ EnvelopeTravels(c) /\ OfferStands(c) /\ CallerKnows(c)
    BY DEF IInv, Timely
<1> USE <1>0 DEF IInv, CallTypeOK, EnvelopeTravels, OfferStands, CallerKnows, Stamped, Sent, ChildDone,
               BeforeLaunch, Goto, Return, Values
<1>1. CASE Enter(c)
    BY <1>1 DEF Enter, Empty, admissionVars
<1>2. CASE Acquire(c)
    BY <1>2 DEF Acquire
<1>3. CASE Refuse(c)
    BY <1>3 DEF Refuse, cancel
<1>4. CASE ReturnRefused(c)
    BY <1>4 DEF ReturnRefused, Empty, admissionVars
<1>5. CASE Launch(c)
    BY <1>5 DEF Launch, cancel, SlotHolders
<1>6. CASE AbortAdmitted(c)
    BY <1>6 DEF AbortAdmitted, Empty
<1>7. CASE SelectParent(c)
    BY <1>7 DEF SelectParent, cancel, Empty
<1>8. CASE SelectResponse(c)
    BY <1>8 DEF SelectResponse, Receive, admissionVars
<1>9. CASE SelectTimer(c)
    BY <1>9 DEF SelectTimer, admissionVars
<1>10. CASE Poll(c)
    BY <1>10 DEF Poll, Receive, admissionVars
<1>11. CASE Recheck(c)
    BY <1>11 DEF Recheck, cancel
<1>12. CASE Decide(c)
    BY <1>12 DEF Decide, cancel, Empty
<1>13. CASE AwaitChild(c)
    BY <1>13 DEF AwaitChild, cancel
<1>14. CASE Final(c)
  <2>1. ~received[c].early
    BY <1>14 DEF Final
  <2> QED
    BY <1>14, <2>1 DEF Final, cancel
<1>15. CASE Search(c)
  <2>1. CASE searcher' = [searcher EXCEPT ![c] = "encode"] /\ UNCHANGED envelope
    BY <1>15, <2>1 DEF Search, admissionVars
  <2>2. CASE searcher' = [searcher EXCEPT ![c] = "completed"] /\ StampedNow(c, "error")
    BY <1>15, <2>2, StampTravels DEF Search, admissionVars
  <2> QED
    BY <1>15, <2>1, <2>2 DEF Search, StampedNow
<1>16. CASE Encode(c)
  <2>1. PICK value \in Values : StampedNow(c, value)
    BY <1>16 DEF Encode, StampedNow
  <2> QED
    BY <1>16, <2>1, StampTravels DEF Encode, admissionVars
<1>17. CASE Send(c)
    BY <1>17 DEF Send, admissionVars
<1>18. CASE Release(c)
    BY <1>18 DEF Release
<1>19. CASE Exit(c)
    BY <1>19 DEF Exit, cancel
<1>20. CASE ParentEnds(c) \/ Expire(c) \/ ChildDeadline(c)
    BY <1>20 DEF ParentEnds, Expire, ChildDeadline, admissionVars
<1> QED
    BY <1>1, <1>2, <1>3, <1>4, <1>5, <1>6, <1>7, <1>8, <1>9, <1>10, <1>11, <1>12, <1>13,
       <1>14, <1>15, <1>16, <1>17, <1>18, <1>19, <1>20
    DEF CallStep, search, Unwind

\* Every step keeps the invariant and is a step of the pool or invisible to it.
LEMMA NextIInv ==
    ASSUME IInv, [Next]_vars
    PROVE  IInv' /\ [Pool!PoolNext]_(Pool!poolVars)
<1>1. ASSUME NEW c \in Calls, QuietCaller(c) \/ QuietOther(c)
      PROVE  IInv' /\ UNCHANGED Pool!poolVars
  <2>1. CallStep(c)
    BY <1>1 DEF QuietCaller, QuietOther, CallStep, search, Unwind
  <2>2. AdmissionInv' /\ UNCHANGED Pool!poolVars
    BY <1>1, QuietAdmission, QuietStep DEF IInv
  <2> QED
    BY <1>1, <2>1, <2>2, QuietCallerTypes, QuietOtherTypes, QuietSlots, TimelyStep DEF IInv
<1>2. ASSUME NEW c \in Calls, Acquire(c)
      PROVE  IInv' /\ Pool!Admit(c)
  <2>1. c \notin cancels
    BY <1>2 DEF Acquire, IInv, SlotHolders, Searching, BeforeLaunch
  <2>2. AdmissionInv' /\ Pool!Admit(c)
    BY <1>2, <2>1, AcquireStep DEF Acquire, IInv
  <2>3. CallTypeOK'
    BY <1>2 DEF Acquire, Goto, IInv, CallTypeOK
  <2>4. SlotHolders'
    BY <1>2 DEF Acquire, acquire, Goto, IInv, CallTypeOK, SlotHolders, Searching, BeforeLaunch
  <2> QED
    BY <1>2, <2>2, <2>3, <2>4, TimelyStep DEF IInv, CallStep, search
<1>3. ASSUME NEW c \in Calls, AbortAdmitted(c)
      PROVE  IInv' /\ Pool!Finish(c)
  <2>1. c \in cancels
    BY <1>3 DEF AbortAdmitted, IInv, SlotHolders
  <2>2. AdmissionInv' /\ Pool!Finish(c)
    BY <1>3, <2>1, ReleaseStep DEF AbortAdmitted, IInv
  <2>3. CallTypeOK'
    BY <1>3 DEF AbortAdmitted, Goto, Return, Results, IInv, CallTypeOK
  <2>4. SlotHolders'
    BY <1>3 DEF AbortAdmitted, release, Goto, Return, IInv, CallTypeOK, SlotHolders,
                Searching, BeforeLaunch
  <2> QED
    BY <1>3, <2>2, <2>3, <2>4, TimelyStep DEF IInv, CallStep, search
<1>4. ASSUME NEW c \in Calls, Release(c)
      PROVE  IInv' /\ Pool!Finish(c)
  <2>1. c \in cancels
    BY <1>4 DEF Release, IInv, SlotHolders, Searching
  <2>2. AdmissionInv' /\ Pool!Finish(c)
    BY <1>4, <2>1, ReleaseStep DEF Release, IInv
  <2>3. CallTypeOK'
    BY <1>4 DEF Release, IInv, CallTypeOK
  <2>4. SlotHolders'
    BY <1>4 DEF Release, release, IInv, CallTypeOK, SlotHolders, Searching, BeforeLaunch
  <2> QED
    BY <1>4, <2>2, <2>3, <2>4, TimelyStep DEF IInv, CallStep, Unwind
<1>5. ASSUME NEW k \in Closers, Close(k)
      PROVE  IInv' /\ [Pool!PoolNext]_(Pool!poolVars)
  <2>1. AdmissionInv' /\ [Pool!PoolNext]_(Pool!poolVars)
    BY <1>5, CloseStepInv DEF Close, IInv
  <2>2. cancels' = cancels /\ cancelled \subseteq cancelled'
    BY <1>5 DEF Close, CloseStep, CloseEnter, CloseCancel, CloseDone, CloseGivesUp
  <2>3. CallTypeOK' /\ SlotHolders'
    BY <1>5, <2>2 DEF Close, callVars, IInv, CallTypeOK, SlotHolders, Searching, BeforeLaunch
  <2>4. Timely'
    BY <1>5, <2>2 DEF Close, callVars, IInv, Timely, EnvelopeTravels, OfferStands, CallerKnows, Stamped,
                      Sent, ChildDone
  <2> QED
    BY <2>1, <2>3, <2>4 DEF IInv
<1>6. CASE UNCHANGED vars
  <2>1. UNCHANGED admissionButCancelled /\ cancelled \subseteq cancelled' /\ cancelled' \subseteq Calls
    BY <1>6 DEF vars, admissionVars, admissionButCancelled, IInv, AdmissionInv, AdmissionTypeOK
  <2>2. CallTypeOK' /\ SlotHolders' /\ Timely'
    BY <1>6 DEF vars, admissionVars, callVars, IInv, CallTypeOK, SlotHolders, Searching,
                Timely, EnvelopeTravels, OfferStands, CallerKnows, Stamped, Sent, ChildDone
  <2> QED
    BY <2>1, <2>2, QuietStep DEF IInv
<1>7. ASSUME NEW c \in Calls, CallStep(c)
      PROVE  IInv' /\ [Pool!PoolNext]_(Pool!poolVars)
  <2>1. \/ QuietCaller(c) \/ QuietOther(c) \/ Acquire(c) \/ AbortAdmitted(c) \/ Release(c)
    BY <1>7 DEF CallStep, search, Unwind, QuietCaller, QuietOther
  <2> QED
    BY <2>1, <1>1, <1>2, <1>3, <1>4 DEF Pool!PoolNext
<1> QED
    BY <1>5, <1>6, <1>7 DEF Next, CallStep

\* IInv holds in every reachable state.
THEOREM Invariance == Spec => []IInv
<1>1. Init => IInv
    BY InitIInv
<1>2. IInv /\ [Next]_vars => IInv'
    BY NextIInv
<1> QED
    BY <1>1, <1>2, PTL DEF Spec

\* A search holds its slot from acquire through Search, bounding, encoding and
\* send until release, live counts those slots and stays within MaxInFlight, for
\* any number of calls; type correctness is part of it.
THEOREM EncodingHoldsItsSlot == Spec => []SlotsCoverEncoding
<1>1. IInv => SlotsCoverEncoding
    BY DEF IInv, AdmissionInv, CallTypeOK, SlotHolders, TypeOK, SlotsCoverEncoding
<1> QED
    BY <1>1, Invariance, PTL

\* The caller's select, poll and wait for the child return what was received in
\* time, and nothing of the searcher's otherwise; the deadline is reported only past
\* it and with the child context done.
THEOREM InTimeWins == Spec => []ReceivedInTimeWins
<1>1. IInv => ReceivedInTimeWins
    BY DEF IInv, Timely, OfferStands, CallerKnows, ReceivedInTimeWins
<1> QED
    BY <1>1, Invariance, PTL

\* The web search coordinator implements CallbackPool.
THEOREM RefinesPool == Spec => ImplementsPool
<1>1. Init => Pool!PoolInit
    BY InitIInv
<1>2. IInv /\ [Next]_vars => [Pool!PoolNext]_(Pool!poolVars)
    BY NextIInv
<1> QED
    BY <1>1, <1>2, Invariance, PTL DEF Spec, ImplementsPool, Pool!PoolSpec
=============================================================================
