-------------------- MODULE CoordinatorAdmissionProofs --------------------
(***************************************************************************)
(* What the shared steps of the callback coordinators preserve, and which  *)
(* step of CallbackPool each of them is.  The proofs about AskUser,        *)
(* WebSearch and WorkspaceCoordinator cite these lemmas.                   *)
(***************************************************************************)
EXTENDS CoordinatorAdmission, FiniteSetTheorems, TLAPS

SnapshotCovers ==
    \A k \in Closers :
        /\ closePC[k] # "idle" => closing
        /\ closePC[k] = "cancelling" => cancels \subseteq cancelled \cup pending[k]

\* The inductive part of the admission state: the counter is the size of the
\* finite map of cancel functions and within the limit; closed means closing
\* and empty; a Close that returned nil saw closed.  Once anyone has called
\* Close nobody is admitted, so the snapshot of a Close that is calling cancel
\* functions still covers every registered call.
AdmissionInv ==
    /\ AdmissionTypeOK
    /\ IsFiniteSet(cancels)
    /\ live = Cardinality(cancels)
    /\ live <= MaxInFlight
    /\ closed => closing /\ live = 0
    /\ \A k \in Closers : closePC[k] = "nil" => closed
    /\ SnapshotCovers

\* CallbackPool counts with its own copy of Cardinality, which is the same.
LEMMA PoolCardinality ==
    ASSUME NEW S PROVE Pool!Cardinality(S) = Cardinality(S)
BY DEF Pool!Cardinality, Cardinality

\* A fresh coordinator (newCoordinator) satisfies the invariant and is a fresh pool.
LEMMA AdmissionInitInv ==
    AdmissionInit => AdmissionInv /\ Pool!PoolInit
<1> SUFFICES ASSUME AdmissionInit PROVE AdmissionInv /\ Pool!PoolInit
    OBVIOUS
<1>1. IsFiniteSet({}) /\ Cardinality({}) = 0
    BY FS_EmptySet
<1>2. AdmissionTypeOK
  <2>1. closing \in BOOLEAN /\ closed \in BOOLEAN
    BY Zenon DEF AdmissionInit
  <2> QED
    BY <2>1, MaxInFlightAssumption DEF AdmissionInit, AdmissionTypeOK
<1>3. AdmissionInv
    BY <1>1, <1>2, MaxInFlightAssumption DEF AdmissionInit, AdmissionInv, SnapshotCovers
<1>4. Pool!PoolInit
    BY DEF AdmissionInit, Pool!PoolInit
<1> QED
    BY <1>3, <1>4

\* An empty coordinator has live = 0, and only an empty one.
LEMMA LiveZero ==
    AdmissionInv => (live = 0 <=> cancels = {})
BY FS_EmptySet DEF AdmissionInv

\* The admitting branch of acquire, for a call that holds no slot, is Admit.
LEMMA AcquireStep ==
    ASSUME NEW c \in Calls, AdmissionInv, c \notin cancels, acquire(c),
           cancelled' = cancelled
    PROVE  AdmissionInv' /\ Pool!Admit(c)
<1>1. /\ IsFiniteSet(cancels \cup {c})
      /\ Cardinality(cancels \cup {c}) = Cardinality(cancels) + 1
    BY FS_AddElement DEF AdmissionInv
<1>2. AdmissionTypeOK'
    BY MaxInFlightAssumption DEF AdmissionInv, AdmissionTypeOK, acquire, Saturated
<1>3. live' = Cardinality(cancels') /\ live' <= MaxInFlight
    BY <1>1, MaxInFlightAssumption DEF AdmissionInv, AdmissionTypeOK, acquire, Saturated
<1>4. AdmissionInv'
    BY <1>1, <1>2, <1>3 DEF AdmissionInv, SnapshotCovers, acquire
<1>5. Pool!Admit(c)
    BY MaxInFlightAssumption, PoolCardinality
    DEF Pool!Admit, AdmissionInv, AdmissionTypeOK, acquire, Saturated
<1> QED
    BY <1>4, <1>5

\* release of a held slot is Finish; the last one of a closing coordinator
\* sets closed in the same critical section.
LEMMA ReleaseStep ==
    ASSUME NEW c \in Calls, AdmissionInv, c \in cancels, release(c),
           cancelled' = cancelled
    PROVE  AdmissionInv' /\ Pool!Finish(c)
<1>1. /\ IsFiniteSet(cancels \ {c})
      /\ Cardinality(cancels \ {c}) = Cardinality(cancels) - 1
    BY FS_RemoveElement DEF AdmissionInv
<1>2. AdmissionTypeOK'
  <2>1. live - 1 \in 0 .. MaxInFlight
    BY <1>1, FS_CardinalityType, MaxInFlightAssumption DEF AdmissionInv, AdmissionTypeOK
  <2> QED
    BY <2>1 DEF AdmissionInv, AdmissionTypeOK, release
<1>3. live' = Cardinality(cancels') /\ live' <= MaxInFlight
    BY <1>1, MaxInFlightAssumption DEF AdmissionInv, AdmissionTypeOK, release
<1>4. ~closed
    BY LiveZero DEF AdmissionInv
<1>5. closed' => closing' /\ live' = 0
    BY <1>4 DEF release
<1>6. AdmissionInv'
    BY <1>1, <1>2, <1>3, <1>4, <1>5 DEF AdmissionInv, SnapshotCovers, release
<1>7. Pool!Finish(c)
    BY DEF Pool!Finish, release
<1> QED
    BY <1>6, <1>7

\* A step that touches nothing but cancel functions is invisible to the pool.
LEMMA QuietStep ==
    ASSUME AdmissionInv, UNCHANGED admissionButCancelled,
           cancelled \subseteq cancelled', cancelled' \subseteq Calls
    PROVE  AdmissionInv' /\ UNCHANGED Pool!poolVars
<1>1. AdmissionTypeOK'
    BY DEF AdmissionInv, AdmissionTypeOK, admissionButCancelled
<1>2. AdmissionInv'
    BY <1>1 DEF AdmissionInv, SnapshotCovers, admissionButCancelled
<1>3. UNCHANGED Pool!poolVars
    BY DEF admissionButCancelled, Pool!poolVars
<1> QED
    BY <1>2, <1>3

\* Every step of Close keeps the invariant; it is Shut, Tell or a stutter.
LEMMA CloseStepInv ==
    ASSUME NEW k \in Closers, AdmissionInv, CloseStep(k)
    PROVE  AdmissionInv' /\ [Pool!PoolNext]_(Pool!poolVars)
<1>1. CASE CloseEnter(k) /\ closed
  <2>1. AdmissionInv'
    BY <1>1 DEF AdmissionInv, AdmissionTypeOK, SnapshotCovers, CloseEnter
  <2>2. Pool!Tell(k)
    BY <1>1, LiveZero DEF AdmissionInv, AdmissionTypeOK, CloseEnter, Pool!Tell
  <2> QED
    BY <2>1, <2>2 DEF Pool!PoolNext
<1>2. CASE CloseEnter(k) /\ ~closed
  <2>1. AdmissionTypeOK'
    BY <1>2 DEF AdmissionInv, AdmissionTypeOK, CloseEnter
  <2>2. \A j \in Closers : closePC[j] # "nil" /\ closePC'[j] # "nil"
    BY <1>2 DEF AdmissionInv, AdmissionTypeOK, CloseEnter
  <2>3. AdmissionInv'
    BY <1>2, <2>1, <2>2 DEF AdmissionInv, AdmissionTypeOK, SnapshotCovers, CloseEnter
  <2>4. CASE closing
    BY <1>2, <2>2, <2>3, <2>4 DEF CloseEnter, Pool!poolVars
  <2>5. CASE ~closing
    <3>1. Pool!Shut
      BY <1>2, <2>2, <2>5 DEF CloseEnter, Pool!Shut
    <3> QED
      BY <2>3, <3>1 DEF Pool!PoolNext
  <2> QED
    BY <2>4, <2>5
<1>3. CASE CloseCancel(k)
  <2>1. AdmissionInv'
    BY <1>3 DEF AdmissionInv, AdmissionTypeOK, SnapshotCovers, CloseCancel
  <2>2. UNCHANGED Pool!poolVars
    BY <1>3 DEF CloseCancel, Pool!poolVars
  <2> QED
    BY <2>1, <2>2
<1>4. CASE CloseDone(k)
  <2>1. AdmissionInv'
    BY <1>4 DEF AdmissionInv, AdmissionTypeOK, SnapshotCovers, CloseDone
  <2>2. Pool!Tell(k)
    BY <1>4, LiveZero DEF AdmissionInv, AdmissionTypeOK, CloseDone, Pool!Tell
  <2> QED
    BY <2>1, <2>2 DEF Pool!PoolNext
<1>5. CASE CloseGivesUp(k)
  <2>1. AdmissionInv'
    BY <1>5 DEF AdmissionInv, AdmissionTypeOK, SnapshotCovers, CloseGivesUp, Waiting
  <2>2. UNCHANGED Pool!poolVars
    BY <1>5 DEF AdmissionInv, AdmissionTypeOK, CloseGivesUp, Waiting, Pool!poolVars
  <2> QED
    BY <2>1, <2>2
<1> QED
    BY <1>1, <1>2, <1>3, <1>4, <1>5 DEF CloseStep
=============================================================================
