-------------------------- MODULE RtkReducerProofs --------------------------
(***************************************************************************)
(* For every set of callbacks and closers, every MaxConcurrent and number  *)
(* of fields, with a disk that may fail or not: the reducer's slots and    *)
(* active count are the leases not given back, and Close reports success   *)
(* only when no owner works and nothing is left on disk.                   *)
(*                                                                         *)
(* LeaseOK is what makes the two ways of giving a lease back exclusive:    *)
(* the callback gives it back only when no owner is pending, the owner     *)
(* only when the callback has returned.  CleanInv says who answers for a   *)
(* directory, and that nobody works once a Close is past its wait.         *)
(***************************************************************************)
EXTENDS RtkReducer, FiniteSetTheorems, TLAPS

WorkingOwner == {"root", "make", "process", "remove", "done"}
SlotSet == {c \in Callbacks : HoldsSlot(c)}
LeaseSet == {c \in Callbacks : HoldsLease(c)}

\* One lease: its callback, its owner, and which of the two gives it back.
LeaseOK(c) ==
    /\ owner[c] \in WorkingOwner <=> pending[c] = 1
    /\ owner[c] \in {"finish", "giveSlot"} => pc[c] = "returned"
    /\ pc[c] \in {"idle", "slot", "refused", "leased"} => owner[c] = "none"
    /\ released[c] => pc[c] \in {"finish", "giveSlot", "returned"}
    /\ pc[c] = "returned" /\ ~released[c] => owner[c] = "none"
    /\ pc[c] \in {"finish", "giveSlot"} => pending[c] = 0 /\ released[c]
    /\ pc[c] \in {"reduce", "killWait"} /\ sent[c] => owner[c] = "none"
    /\ pc[c] \in {"leased", "reduce", "killWait"} => fields[c] >= 1

Leases == \A c \in Callbacks : LeaseOK(c)

\* The counters are the holders.
CountInv ==
    /\ IsFiniteSet(SlotSet)
    /\ slots = Cardinality(SlotSet)
    /\ active = Cardinality(LeaseSet)

\* Directories and closing.
CleanInv ==
    /\ \A c \in dirs : owner[c] \in {"process", "remove"} \/ (c \in paths /\ quarantined)
    /\ rootDir => root
    /\ closed => closing /\ active = 0 /\ dirs = {} /\ ~rootDir
    /\ \A k \in Closers :
          /\ closePC[k] = "nil" => closed
          /\ closePC[k] \in {"remove", "verdict"} => closing /\ active = 0

\* The inductive invariant.
IInv == TypeOK /\ Leases /\ CountInv /\ CleanInv

\* One element more, one less.
LEMMA OneMore ==
    ASSUME NEW S, NEW T, NEW x, IsFiniteSet(S), x \notin S, T = S \cup {x}
    PROVE  IsFiniteSet(T) /\ Cardinality(T) = Cardinality(S) + 1 /\ Cardinality(S) \in Nat
BY FS_AddElement, FS_CardinalityType

\* A finite set less one of its elements.
LEMMA OneLess ==
    ASSUME NEW S, NEW T, NEW x, IsFiniteSet(S), x \in S, T = S \ {x}
    PROVE  /\ IsFiniteSet(T) /\ Cardinality(T) = Cardinality(S) - 1
           /\ Cardinality(T) \in Nat /\ Cardinality(S) \in Nat
BY FS_RemoveElement, FS_CardinalityType

\* A lease that counts as active holds a slot, so active never exceeds slots.
LEMMA LeaseNeedsSlot ==
    ASSUME IsFiniteSet(SlotSet)
    PROVE  /\ LeaseSet \subseteq SlotSet /\ IsFiniteSet(LeaseSet)
           /\ Cardinality(LeaseSet) <= Cardinality(SlotSet)
           /\ Cardinality(LeaseSet) \in Nat /\ Cardinality(SlotSet) \in Nat
<1>1. LeaseSet \subseteq SlotSet
    BY DEF LeaseSet, SlotSet, HoldsLease, HoldsSlot
<1> QED
    BY <1>1, FS_Subset, FS_CardinalityType

\* With no active lease no owner is at work.
LEMMA IdleOwners ==
    ASSUME IInv, active = 0
    PROVE  \A c \in Callbacks : ~HoldsLease(c) /\ owner[c] \notin WorkingOwner /\ pending[c] = 0
<1>1. LeaseSet = {}
    BY LeaseNeedsSlot, FS_EmptySet DEF IInv, CountInv
<1>2. \A c \in Callbacks : ~HoldsLease(c)
    BY <1>1 DEF LeaseSet
<1>3. ASSUME NEW c \in Callbacks PROVE pending[c] = 0
  <2>1. pending[c] \in {0, 1} /\ LeaseOK(c)
    BY DEF IInv, TypeOK, Leases
  <2>2. pc[c] \in {"idle", "slot", "refused", "leased", "reduce", "killWait", "release", "finish",
                   "giveSlot", "returned"}
    BY DEF IInv, TypeOK
  <2>3. pending[c] # 1
    BY <1>2, <2>2, <2>1 DEF LeaseOK, WorkingOwner, HoldsLease
  <2> QED
    BY <2>1, <2>3
<1>4. \A c \in Callbacks : LeaseOK(c)
    BY DEF IInv, Leases
<1> QED
    BY <1>2, <1>3, <1>4 DEF LeaseOK

\* The initial states.
LEMMA InitIInv == Init => IInv
<1> SUFFICES ASSUME Init PROVE IInv
    OBVIOUS
<1>1. TypeOK
  <2>1. FALSE \in BOOLEAN
    OBVIOUS
  <2>2. /\ closing \in BOOLEAN /\ closed \in BOOLEAN /\ quarantined \in BOOLEAN
        /\ root \in BOOLEAN /\ rootDir \in BOOLEAN
    BY Zenon DEF Init
  <2> QED
    BY <2>1, <2>2, MaxConcurrentAssumption, MaxFieldsAssumption DEF Init, TypeOK
<1>2. Leases
    BY DEF Init, Leases, LeaseOK, WorkingOwner
<1>3. SlotSet = {} /\ LeaseSet = {}
    BY DEF Init, SlotSet, LeaseSet, HoldsSlot, HoldsLease
<1>4. CountInv
    BY <1>3, FS_EmptySet DEF Init, CountInv
<1>5. CleanInv
    BY DEF Init, CleanInv
<1> QED
    BY <1>1, <1>2, <1>4, <1>5 DEF IInv

\* The steps of a callback, of its owner and of its context.
CallStep(c) ==
    \/ transform(c) \/ Finish(c) \/ releaseSlot(c) \/ run(c) \/ runProcess(c) \/ ContextEnds(c)

\* Every step of a callback or an owner keeps every lease in order.
LEMMA LeaseStep ==
    ASSUME NEW c \in Callbacks, IInv, CallStep(c)
    PROVE  Leases'
<1> SUFFICES ASSUME NEW d \in Callbacks PROVE LeaseOK(d)'
    BY DEF Leases
<1>0. LeaseOK(d) /\ LeaseOK(c)
    BY DEF IInv, Leases
<1> USE <1>0 DEF IInv, TypeOK, LeaseOK, WorkingOwner, Set, coordVars, leaseVars, ownerVars,
               callVars
<1>1. CASE TakeSlot(c)
    BY <1>1 DEF TakeSlot
<1>2. CASE Admit(c)
    BY <1>2 DEF Admit
<1>3. CASE GiveSlotBack(c)
    BY <1>3 DEF GiveSlotBack
<1>4. CASE StartField(c)
    BY <1>4 DEF StartField, Conclude
<1>5. CASE ReceiveResult(c)
    BY <1>5 DEF ReceiveResult, Conclude
<1>6. CASE LeaseEnds(c)
    BY <1>6 DEF LeaseEnds
<1>7. CASE AbandonOwner(c)
    BY <1>7 DEF AbandonOwner, Conclude
<1>8. CASE release(c)
    BY <1>8 DEF release
<1>9. CASE Finish(c)
    BY <1>9 DEF Finish, FinishUnchanged
<1>10. CASE releaseSlot(c)
    BY <1>10 DEF releaseSlot
<1>11. CASE lazyRoot(c)
    BY <1>11 DEF lazyRoot, OwnerUnchanged
<1>12. CASE makeInvocation(c)
    BY <1>12 DEF makeInvocation, OwnerUnchanged
<1>13. CASE runProcess(c)
    BY <1>13 DEF runProcess, OwnerUnchanged
<1>14. CASE Remove(c)
    BY <1>14 DEF Remove, OwnerUnchanged
<1>15. CASE ownerDone(c)
    BY <1>15 DEF ownerDone
<1>16. CASE Send(c)
    BY <1>16 DEF Send
<1>17. CASE ContextEnds(c)
    BY <1>17 DEF ContextEnds
<1> QED
    BY <1>1, <1>2, <1>3, <1>4, <1>5, <1>6, <1>7, <1>8, <1>9, <1>10, <1>11, <1>12, <1>13,
       <1>14, <1>15, <1>16, <1>17
    DEF CallStep, transform, run

\* Who holds a slot and who a lease after each step: TakeSlot and Admit take them,
\* GiveSlotBack, Finish and releaseSlot give them back, once each, and no other
\* step does.
LEMMA Holders ==
    ASSUME NEW c \in Callbacks, IInv, CallStep(c)
    PROVE  \/ /\ slots' = slots /\ SlotSet' = SlotSet
              /\ active' = active /\ LeaseSet' = LeaseSet
           \/ /\ slots' = slots + 1 /\ slots < MaxConcurrent
              /\ c \notin SlotSet /\ SlotSet' = SlotSet \cup {c}
              /\ active' = active /\ LeaseSet' = LeaseSet
           \/ /\ slots' = slots - 1 /\ c \in SlotSet /\ SlotSet' = SlotSet \ {c}
              /\ active' = active /\ LeaseSet' = LeaseSet
           \/ /\ slots' = slots /\ SlotSet' = SlotSet
              /\ ~Shut
              /\ active' = active + 1 /\ c \notin LeaseSet /\ LeaseSet' = LeaseSet \cup {c}
           \/ /\ slots' = slots /\ SlotSet' = SlotSet
              /\ active' = active - 1 /\ c \in LeaseSet /\ LeaseSet' = LeaseSet \ {c}
<1>0. LeaseOK(c)
    BY DEF IInv, Leases
<1> USE <1>0 DEF IInv, TypeOK, LeaseOK, WorkingOwner, SlotSet, LeaseSet, HoldsSlot, HoldsLease,
               Set, coordVars, leaseVars, ownerVars, callVars
<1>1. CASE TakeSlot(c)
    BY <1>1 DEF TakeSlot
<1>2. CASE Admit(c)
    BY <1>2 DEF Admit
<1>3. CASE GiveSlotBack(c)
    BY <1>3 DEF GiveSlotBack
<1>4. CASE StartField(c)
    BY <1>4 DEF StartField, Conclude
<1>5. CASE ReceiveResult(c) \/ LeaseEnds(c) \/ AbandonOwner(c)
    BY <1>5 DEF ReceiveResult, LeaseEnds, AbandonOwner, Conclude
<1>6. CASE release(c)
    BY <1>6 DEF release
<1>7. CASE Finish(c)
    BY <1>7 DEF Finish, finishOwner, FinishUnchanged
<1>8. CASE releaseSlot(c)
    BY <1>8 DEF releaseSlot
<1>9. CASE lazyRoot(c) \/ makeInvocation(c) \/ runProcess(c) \/ Remove(c)
    BY <1>9 DEF lazyRoot, makeInvocation, runProcess, Remove, OwnerUnchanged
<1>10. CASE ownerDone(c)
    BY <1>10 DEF ownerDone
<1>11. CASE Send(c) \/ ContextEnds(c)
    BY <1>11 DEF Send, ContextEnds
<1> QED
    BY <1>1, <1>2, <1>3, <1>4, <1>5, <1>6, <1>7, <1>8, <1>9, <1>10, <1>11
    DEF CallStep, transform, run

\* The counters stay the numbers of holders, and within MaxConcurrent.
LEMMA CountStep ==
    ASSUME NEW c \in Callbacks, IInv, CallStep(c)
    PROVE  CountInv' /\ slots' \in 0 .. MaxConcurrent /\ active' \in 0 .. MaxConcurrent
<1> USE DEF CountInv
<1>1. IsFiniteSet(SlotSet) /\ slots = Cardinality(SlotSet) /\ active = Cardinality(LeaseSet)
    BY DEF IInv
<1>2. IsFiniteSet(LeaseSet) /\ slots \in Nat /\ active \in Nat
    BY <1>1, LeaseNeedsSlot
<1>3. slots <= MaxConcurrent /\ MaxConcurrent \in Nat
    BY MaxConcurrentAssumption DEF IInv, TypeOK
<1>4. IsFiniteSet(SlotSet') /\ slots' = Cardinality(SlotSet') /\ slots' \in 0 .. MaxConcurrent
    BY <1>1, <1>2, <1>3, Holders, OneMore, OneLess
<1>5. active' = Cardinality(LeaseSet')
    BY <1>1, <1>2, Holders, OneMore, OneLess
<1>6. /\ Cardinality(LeaseSet') <= Cardinality(SlotSet') /\ Cardinality(LeaseSet') \in Nat
  <2>1. LeaseSet' \subseteq SlotSet'
    BY DEF LeaseSet, SlotSet, HoldsLease, HoldsSlot
  <2> QED
    BY <1>4, <2>1, FS_Subset, FS_CardinalityType
<1> QED
    BY <1>3, <1>4, <1>5, <1>6

\* The steps of owners and processes keep the types.
LEMMA TypesStep ==
    ASSUME NEW c \in Callbacks, IInv, CallStep(c)
    PROVE  TypeOK'
<1>0. slots' \in 0 .. MaxConcurrent /\ active' \in 0 .. MaxConcurrent
    BY CountStep
<1>a. LeaseOK(c) /\ MaxFields \in Nat \ {0}
    BY MaxFieldsAssumption DEF IInv, Leases
<1>b. TRUE \in BOOLEAN /\ FALSE \in BOOLEAN
    OBVIOUS
<1> USE <1>0, <1>a, <1>b DEF IInv, TypeOK, Set, coordVars, diskVars, leaseVars, callVars,
               ownerVars, closeVars
<1>1. CASE TakeSlot(c) \/ GiveSlotBack(c)
    BY <1>1 DEF TakeSlot, GiveSlotBack
<1>2. CASE Admit(c)
    BY <1>2 DEF Admit
<1>3. CASE StartField(c)
  <2>1. pending[c] = 0
    BY <1>3 DEF StartField, LeaseOK, WorkingOwner
  <2>2. [pending EXCEPT ![c] = pending[c] + 1] \in [Callbacks -> 0 .. 1]
    BY <2>1
  <2>3. pending' \in [Callbacks -> 0 .. 1]
    BY <1>3, <2>2 DEF StartField
  <2>4. CASE Conclude(c, "original") /\ UNCHANGED <<pending, ownerVars>>
    BY <1>3, <2>4 DEF StartField, Conclude
  <2>5. CASE ~(Conclude(c, "original") /\ UNCHANGED <<pending, ownerVars>>)
    <3>1. /\ owner' = Set(owner, c, "root") /\ pc' = Set(pc, c, "reduce")
          /\ ok' = Set(ok, c, FALSE) /\ sent' = Set(sent, c, FALSE)
          /\ UNCHANGED <<outcome, coordVars, diskVars, released, fields, ended, closeVars>>
      BY <1>3, <2>5 DEF StartField
    <3> QED
      BY <2>3, <3>1
  <2> QED
    BY <2>4, <2>5
<1>4. CASE ReceiveResult(c)
    BY <1>4 DEF ReceiveResult, Conclude, LeaseOK
<1>5. CASE LeaseEnds(c) \/ AbandonOwner(c)
    BY <1>5 DEF LeaseEnds, AbandonOwner, Conclude
<1>6. CASE release(c)
    BY <1>6 DEF release
<1>7. CASE Finish(c)
    BY <1>7 DEF Finish, finishOwner, FinishUnchanged
<1>8. CASE releaseSlot(c)
    BY <1>8 DEF releaseSlot
<1>9. CASE lazyRoot(c)
  <2>1. root' \in BOOLEAN /\ rootDir' \in BOOLEAN /\ quarantined' \in BOOLEAN
    BY <1>9, Zenon DEF lazyRoot
  <2> QED
    BY <1>9, <2>1 DEF lazyRoot, OwnerUnchanged
<1>10. CASE makeInvocation(c)
    BY <1>10 DEF makeInvocation, OwnerUnchanged
<1>11. CASE runProcess(c)
  <2>1. PICK good \in BOOLEAN : ok' = Set(ok, c, good /\ c \notin ended)
    BY <1>11 DEF runProcess
  <2>2. (good /\ c \notin ended) \in BOOLEAN
    BY Zenon
  <2>3. \A b \in BOOLEAN : [ok EXCEPT ![c] = b] \in [Callbacks -> BOOLEAN]
    OBVIOUS
  <2>4. ok' \in [Callbacks -> BOOLEAN]
    BY <2>1, <2>2, <2>3, Zenon
  <2> QED
    BY <1>11, <2>4 DEF runProcess, OwnerUnchanged
<1>12. CASE Remove(c)
  <2>1. quarantined' \in BOOLEAN
    BY <1>12, Zenon DEF Remove
  <2> QED
    BY <1>12, <2>1, ZenonT(30) DEF Remove, OwnerUnchanged
<1>13. CASE ownerDone(c)
    BY <1>13 DEF ownerDone, LeaseOK, WorkingOwner
<1>14. CASE Send(c)
    BY <1>14 DEF Send
<1>15. CASE ContextEnds(c)
    BY <1>15 DEF ContextEnds
<1> QED
    BY <1>1, <1>2, <1>3, <1>4, <1>5, <1>6, <1>7, <1>8, <1>9, <1>10, <1>11, <1>12, <1>13,
       <1>14, <1>15
    DEF CallStep, transform, run

\* Directories stay accounted for, and once nothing is active nothing comes back.
LEMMA CleanStep ==
    ASSUME NEW c \in Callbacks, IInv, CallStep(c)
    PROVE  CleanInv'
<1>0. \/ lazyRoot(c) \/ Remove(c) \/ makeInvocation(c)
      \/ /\ UNCHANGED <<closing, closed, quarantined, paths, root, rootDir, dirs, closePC>>
  <2>1. CASE TakeSlot(c) \/ Admit(c) \/ GiveSlotBack(c)
    BY <2>1 DEF TakeSlot, Admit, GiveSlotBack, diskVars, closeVars
  <2>2. CASE StartField(c) \/ ReceiveResult(c) \/ LeaseEnds(c) \/ AbandonOwner(c) \/ release(c)
    BY <2>2 DEF StartField, ReceiveResult, LeaseEnds, AbandonOwner, release, coordVars, diskVars,
                closeVars
  <2>3. CASE Finish(c) \/ releaseSlot(c)
    BY <2>3 DEF Finish, FinishUnchanged, releaseSlot, diskVars, closeVars
  <2>4. CASE runProcess(c)
    BY <2>4 DEF runProcess, OwnerUnchanged, diskVars, closeVars
  <2>5. CASE ownerDone(c) \/ Send(c) \/ ContextEnds(c)
    BY <2>5 DEF ownerDone, Send, ContextEnds, coordVars, diskVars, closeVars
  <2> QED
    BY <2>1, <2>2, <2>3, <2>4, <2>5 DEF CallStep, transform, run
<1>1. /\ closing' = closing /\ closed' = closed /\ closePC' = closePC
      /\ quarantined => quarantined'
      /\ paths \subseteq paths'
  <2>1. CASE lazyRoot(c)
    BY <2>1 DEF lazyRoot, OwnerUnchanged, closeVars
  <2>2. CASE Remove(c)
    <3>1. quarantined => quarantined'
      BY <2>2, Zenon DEF Remove
    <3> QED
      BY <2>2, <3>1 DEF Remove, OwnerUnchanged, closeVars
  <2>3. CASE makeInvocation(c)
    BY <2>3 DEF makeInvocation, OwnerUnchanged, closeVars
  <2> QED
    BY <1>0, <2>1, <2>2, <2>3
<1>2. \A d \in dirs' : owner'[d] \in {"process", "remove"} \/ (d \in paths' /\ quarantined')
  <2>1. \A d \in dirs : owner[d] \in {"process", "remove"} \/ (d \in paths /\ quarantined)
    BY DEF IInv, CleanInv
  <2>2. owner \in [Callbacks -> {"none", "root", "make", "process", "remove", "done", "finish",
                                 "giveSlot", "send"}] /\ dirs \subseteq Callbacks
    BY DEF IInv, TypeOK
  <2> USE <1>1, <2>1, <2>2 DEF Set
  <2>3. CASE owner' = owner /\ dirs' = dirs
    BY <2>3
  <2>4. CASE StartField(c)
    BY <2>4 DEF StartField, IInv, Leases, LeaseOK, diskVars, ownerVars
  <2>5. CASE Finish(c) \/ releaseSlot(c)
    BY <2>5 DEF Finish, FinishUnchanged, releaseSlot, diskVars
  <2>6. CASE lazyRoot(c)
    BY <2>6 DEF lazyRoot
  <2>7. CASE makeInvocation(c)
    BY <2>7 DEF makeInvocation
  <2>8. CASE runProcess(c)
    BY <2>8 DEF runProcess, diskVars
  <2>9. CASE Remove(c)
    BY <2>9 DEF Remove
  <2>10. CASE ownerDone(c) \/ Send(c)
    BY <2>10 DEF ownerDone, Send, diskVars
  <2> QED
    BY <2>3, <2>4, <2>5, <2>6, <2>7, <2>8, <2>9, <2>10
    DEF CallStep, transform, run, TakeSlot, Admit, GiveSlotBack, ReceiveResult, LeaseEnds,
        AbandonOwner, release, ContextEnds, diskVars, ownerVars
<1>3. rootDir' => root'
  <2>1. rootDir => root
    BY DEF IInv, CleanInv
  <2> QED
    <3>1. (root' = root /\ rootDir' = rootDir) \/ root' = TRUE
      BY <1>0 DEF lazyRoot, Remove, makeInvocation
    <3> QED
      BY <2>1, <3>1, Zenon
<1>4. ASSUME closing, active = 0
      PROVE  active' = 0 /\ dirs' \subseteq dirs /\ (rootDir' => rootDir)
  <2>1. owner[c] \notin WorkingOwner /\ c \notin LeaseSet
    BY <1>4, IdleOwners DEF LeaseSet
  <2>2. active' = 0
    BY <1>4, <2>1, Holders DEF Shut
  <2>3. ~lazyRoot(c) /\ ~Remove(c) /\ ~makeInvocation(c)
    BY <2>1 DEF WorkingOwner, lazyRoot, Remove, makeInvocation
  <2> QED
    BY <1>0, <2>2, <2>3
<1>5. closed' => closing' /\ active' = 0 /\ dirs' = {} /\ ~rootDir'
    BY <1>1, <1>4 DEF IInv, CleanInv
<1>6. \A k \in Closers :
         /\ closePC'[k] = "nil" => closed'
         /\ closePC'[k] \in {"remove", "verdict"} => closing' /\ active' = 0
    BY <1>1, <1>4 DEF IInv, CleanInv
<1> QED
    BY <1>2, <1>3, <1>5, <1>6 DEF CleanInv

\* The two sets of holders do not depend on the closers.
LEMMA CloseCounts ==
    ASSUME NEW k \in Closers, IInv, Close(k)
    PROVE  /\ UNCHANGED <<slots, active, pc, fields, ended, pending, released, owner, ok, sent, outcome>>
           /\ Leases' /\ CountInv'
<1>1. UNCHANGED <<slots, active, pc, fields, ended, pending, released, owner, ok, sent, outcome>>
  <2> USE DEF coordVars, leaseVars, callVars, ownerVars
  <2>1. CASE CloseCall(k) \/ CloseWait(k)
    BY <2>1 DEF CloseCall, CloseWait
  <2>2. CASE CloseLoop(k)
    BY <2>2 DEF CloseLoop
  <2>3. CASE CloseRemove(k) \/ CloseRemoveRoot(k) \/ CloseVerdict(k)
    BY <2>3 DEF CloseRemove, CloseRemoveRoot, CloseVerdict
  <2> QED
    BY <2>1, <2>2, <2>3 DEF Close
<1>2. Leases'
    BY <1>1 DEF IInv, Leases, LeaseOK
<1>3. SlotSet' = SlotSet /\ LeaseSet' = LeaseSet
    BY <1>1 DEF SlotSet, LeaseSet, HoldsSlot, HoldsLease
<1> QED
    BY <1>1, <1>2, <1>3 DEF IInv, CountInv

\* The steps of Close keep the types.
LEMMA CloseTypes ==
    ASSUME NEW k \in Closers, IInv, Close(k)
    PROVE  TypeOK'
<1>0. UNCHANGED <<slots, active, pc, fields, ended, pending, released, owner, ok, sent, outcome>>
    BY CloseCounts
<1>b. TRUE \in BOOLEAN /\ FALSE \in BOOLEAN
    OBVIOUS
<1> USE <1>0, <1>b DEF IInv, TypeOK, Set, coordVars, diskVars, CloseGoto
<1>1. CASE CloseCall(k) \/ CloseWait(k)
    BY <1>1 DEF CloseCall, CloseWait
<1>2. CASE CloseLoop(k)
  <2>1. closing' \in BOOLEAN
    BY <1>2, Zenon DEF CloseLoop
  <2> QED
    <3>1. CASE closed
      BY <1>2, <2>1, <3>1 DEF CloseLoop
    <3>2. CASE ~closed /\ active # 0
      BY <1>2, <2>1, <3>2 DEF CloseLoop
    <3>3. CASE ~closed /\ active = 0
      <4>1. \A b \in BOOLEAN : [closeRoot EXCEPT ![k] = b] \in [Closers -> BOOLEAN]
        OBVIOUS
      <4>2. closeRoot' = [closeRoot EXCEPT ![k] = root] /\ root \in BOOLEAN
        BY <1>2, <3>3 DEF CloseLoop
      <4>3. closeRoot' \in [Closers -> BOOLEAN]
        BY <4>1, <4>2, Zenon
      <4>4. closePaths' = Set(closePaths, k, paths)
        BY <1>2, <3>3 DEF CloseLoop
      <4>5. closePaths' \in [Closers -> SUBSET (Callbacks \cup {"root"})]
        BY <4>4
      <4>6. /\ closeFailed' = Set(closeFailed, k, FALSE) /\ closePC' = Set(closePC, k, "remove")
            /\ UNCHANGED <<seenChange, slots, active, closed, quarantined, root, paths, changes,
                           rootDir, dirs>>
        BY <1>2, <3>3 DEF CloseLoop
      <4> QED
        BY <2>1, <4>3, <4>5, <4>6
    <3> QED
      BY <3>1, <3>2, <3>3
<1>3. CASE CloseRemove(k)
  <2>1. rootDir' \in BOOLEAN
    <3>1. rootDir' = rootDir \/ \E c : rootDir' = (rootDir /\ c # "root")
      BY <1>3, Zenon DEF CloseRemove
    <3> QED
      BY <3>1, Zenon
  <2> QED
    <3>1. PICK c \in closePaths[k] :
             /\ paths' \subseteq paths /\ dirs' \subseteq dirs
             /\ closeFailed' = closeFailed \/ closeFailed' = Set(closeFailed, k, TRUE)
             /\ closePaths' = Set(closePaths, k, closePaths[k] \ {c})
      BY <1>3 DEF CloseRemove
    <3>2. closePaths' \in [Closers -> SUBSET (Callbacks \cup {"root"})]
      BY <3>1
    <3> QED
      BY <1>3, <2>1, <3>1, <3>2 DEF CloseRemove
<1>4. CASE CloseRemoveRoot(k)
  <2>1. root' \in BOOLEAN /\ rootDir' \in BOOLEAN
    <3>1. (root' = root /\ rootDir' = rootDir) \/ (root' = FALSE /\ rootDir' = FALSE)
      BY <1>4 DEF CloseRemoveRoot
    <3> QED
      BY <3>1, Zenon
  <2> QED
    BY <1>4, <2>1 DEF CloseRemoveRoot
<1>5. CASE CloseVerdict(k)
  <2>1. closed' \in BOOLEAN /\ quarantined' \in BOOLEAN
    BY <1>5, Zenon DEF CloseVerdict
  <2> QED
    BY <1>5, <2>1 DEF CloseVerdict
<1> QED
    BY <1>1, <1>2, <1>3, <1>4, <1>5 DEF Close

\* A Close that reaches its verdict with nothing left makes the closed state true.
LEMMA CloseClean ==
    ASSUME NEW k \in Closers, IInv, Close(k)
    PROVE  CleanInv'
<1>0. UNCHANGED <<active, owner>> /\ CleanInv /\ TypeOK
    BY CloseCounts DEF IInv
<1> USE <1>0 DEF CleanInv
<1>1. CASE CloseCall(k) \/ CloseWait(k)
  <2>1. /\ UNCHANGED <<closing, closed, quarantined, root, paths, rootDir, dirs>>
        /\ \E l \in {"loop", "ctxErr"} : closePC' = [closePC EXCEPT ![k] = l]
    BY <1>1 DEF CloseCall, CloseWait, CloseGoto, Set, coordVars, diskVars
  <2> QED
    BY <2>1 DEF TypeOK
<1>2. CASE CloseLoop(k)
  <2>1. UNCHANGED <<closed, quarantined, root, paths, rootDir, dirs>>
    BY <1>2 DEF CloseLoop, diskVars
  <2>2. \/ closed /\ closing' = closing /\ closePC' = [closePC EXCEPT ![k] = "nil"]
        \/ closing' /\ closePC' = [closePC EXCEPT ![k] = "waiting"]
        \/ closing' /\ active = 0 /\ closePC' = [closePC EXCEPT ![k] = "remove"]
    BY <1>2, Zenon DEF CloseLoop, CloseGoto, Set
  <2>3. closing => closing'
    BY <2>2
  <2> QED
    BY <2>1, <2>2, <2>3 DEF TypeOK
<1>3. CASE CloseRemove(k)
  <2>1. UNCHANGED <<closing, closed, quarantined, root, closePC>>
    BY <1>3 DEF CloseRemove
  <2>2. \/ UNCHANGED <<dirs, paths, rootDir>>
        \/ \E c : dirs' = dirs \ {c} /\ paths' = paths \ {c} /\ (rootDir' => rootDir)
    <3>1. \/ UNCHANGED <<dirs, paths, rootDir>>
          \/ \E c : dirs' = dirs \ {c} /\ paths' = paths \ {c} /\ rootDir' = (rootDir /\ c # "root")
      BY <1>3, Zenon DEF CloseRemove
    <3> QED
      BY <3>1, Zenon
  <2> QED
    BY <2>1, <2>2
<1>4. CASE CloseRemoveRoot(k)
  <2>1. UNCHANGED <<closing, closed, quarantined, paths, dirs>>
    BY <1>4 DEF CloseRemoveRoot
  <2>2. (root' = root /\ rootDir' = rootDir) \/ (~root' /\ ~rootDir')
    BY <1>4 DEF CloseRemoveRoot
  <2>3. closePC[k] = "remove" /\ closePC' = [closePC EXCEPT ![k] = "verdict"]
    BY <1>4 DEF CloseRemoveRoot, CloseGoto, Set
  <2> QED
    BY <2>1, <2>2, <2>3 DEF TypeOK
<1>5. CASE CloseVerdict(k)
  <2>1. UNCHANGED <<closing, root, paths, rootDir, dirs>> /\ closePC[k] = "verdict"
    BY <1>5 DEF CloseVerdict, diskVars
  <2>2. closing /\ active = 0
    BY <2>1
  <2>3. \A c \in Callbacks : owner[c] \notin WorkingOwner
    BY <2>2, IdleOwners
  <2>4. paths = {} => dirs = {}
    BY <2>3 DEF WorkingOwner, TypeOK
  <2>5. \/ closed' = closed /\ quarantined' = quarantined /\ closed
           /\ closePC' = [closePC EXCEPT ![k] = "nil"]
        \/ closed' /\ quarantined' = quarantined /\ paths = {} /\ ~root
           /\ closePC' = [closePC EXCEPT ![k] = "nil"]
        \/ closed' = closed /\ quarantined'
           /\ \E l \in {"cleanupError", "ctxErr"} : closePC' = [closePC EXCEPT ![k] = l]
    BY <1>5, Zenon DEF CloseVerdict, CloseGoto, Set
  <2>6. closed => closed'
    BY <2>5
  <2> QED
    BY <2>1, <2>2, <2>4, <2>5, <2>6 DEF TypeOK
<1> QED
    BY <1>1, <1>2, <1>3, <1>4, <1>5 DEF Close

\* The invariant is kept by every step.
LEMMA NextIInv == IInv /\ [Next]_vars => IInv'
<1> SUFFICES ASSUME IInv, [Next]_vars PROVE IInv'
    OBVIOUS
<1>1. CASE \E c \in Callbacks : CallStep(c)
    BY <1>1, LeaseStep, CountStep, TypesStep, CleanStep DEF IInv
<1>2. CASE \E k \in Closers : Close(k)
    BY <1>2, CloseCounts, CloseTypes, CloseClean DEF IInv
<1>3. CASE UNCHANGED vars
    BY <1>3 DEF IInv, TypeOK, Leases, LeaseOK, CountInv, SlotSet, LeaseSet, HoldsSlot, HoldsLease,
                CleanInv, vars, coordVars, diskVars, leaseVars, callVars, ownerVars, closeVars
<1> QED
    BY <1>1, <1>2, <1>3 DEF Next, CallStep

\* The inductive invariant holds in every reachable state.
THEOREM Invariance == Spec => []IInv
BY InitIInv, NextIInv, PTL DEF Spec

\* acquire, release, finishOwner and releaseSlot: slots and active are the leases
\* not given back, each given back once by the callback or by the owner it left
\* behind, and never more than MaxConcurrent (process.go:100-127, 164-175, 257-290).
THEOREM OwnersHoldTheirSlots == Spec => []SlotsCoverOwners
<1>1. IInv => SlotsCoverOwners
    BY DEF IInv, SlotsCoverOwners, CountInv, SlotSet, LeaseSet, Leases, LeaseOK, WorkingOwner
<1> QED
    BY <1>1, Invariance, PTL

\* Close: success means no owner at work and nothing on disk, and until then every
\* directory has somebody who answers for it (process.go:176-245).
THEOREM CloseLeavesNothing == Spec => []ClosedMeansClean
<1>1. ASSUME IInv PROVE ClosedMeansClean
  <2>1. (closed \/ \E k \in Closers : closePC[k] = "nil")
        => closed /\ active = 0 /\ dirs = {} /\ ~rootDir
    BY <1>1 DEF IInv, CleanInv
  <2>2. active = 0 => \A c \in Callbacks : owner[c] \notin {"root", "make", "process", "remove"}
    BY <1>1, IdleOwners DEF WorkingOwner
  <2>3. \A c \in dirs : owner[c] \in {"process", "remove"} \/ (c \in paths /\ quarantined)
    BY <1>1 DEF IInv, CleanInv
  <2> QED
    BY <2>1, <2>2, <2>3 DEF ClosedMeansClean
<1> QED
    BY <1>1, Invariance, PTL
=============================================================================
