-------------------------- MODULE PythonReplProofs --------------------------
(***************************************************************************)
(* For any owners, any number of operations and closers, every limit, and  *)
(* disk, spawn and signal calls that may fail: an owner's gate has one     *)
(* holder, nothing the holder leaves behind is lost sight of, a runner is  *)
(* started only when the previous one is gone, a Close that succeeded left *)
(* nothing, and lost state is reported.                                    *)
(*                                                                         *)
(* The invariant ties the gate to the labels of the actors (GateOK), and   *)
(* says per label how far its holder may be from the quiet state in which  *)
(* everything of the owner is accounted for (HolderOK).  Since there is    *)
(* one holder, a step of it concerns its owner alone.                      *)
(***************************************************************************)
EXTENDS PythonRepl, FiniteSetTheorems, SequenceTheorems, TLAPS

GateTypes == [active : BOOLEAN, waiters : Seq(Actors)]
SessTypes == [venv : BOOLEAN, invalid : BOOLEAN, runner : BOOLEAN, gen : Nat, pending : BOOLEAN,
              quarantined : BOOLEAN, closed : BOOLEAN]
EnvTypes == [dir : BOOLEAN, creator : {"none", "running", "dying", "gone"},
             finishing : BOOLEAN, signalErr : BOOLEAN]
ProcTypes == [sup : {"none", "up", "exited"}, child : BOOLEAN,
              ready : {"none", "good", "incompatible", "bad"}, status : {"none", "reaped"},
              term : {"none", "signal", "await", "done"}, termErr : BOOLEAN, serial : Nat]
LocalTypes == [after : {"", "invalid", "create", "integrity", "close", "created", "rejected", "ctx"},
               fresh : BOOLEAN, invalidate : BOOLEAN]
Labels == Held \cup {"idle", "acquire", "waiting", "next", "returned", "nil", "error"}

\* The types, by who changes them.
MgrTypeOK ==
    /\ closing \in BOOLEAN /\ closed \in BOOLEAN
    /\ sessions \subseteq Owners /\ IsFiniteSet(sessions) /\ Cardinality(sessions) <= MaxSessions
    /\ lifeDone \subseteq sessions
GateTypeOK ==
    /\ gate \in [Owners -> GateTypes] /\ \A o \in Owners : Len(gate[o].waiters) <= MaxQueued
    /\ granted \subseteq Actors
WorldTypeOK ==
    /\ sess \in [Owners -> SessTypes] /\ env \in [Owners -> EnvTypes]
    /\ proc \in [Owners -> ProcTypes] /\ told \in [Owners -> [gen : Nat, serial : Nat]]
ActorTypeOK ==
    /\ pc \in [Actors -> Labels] /\ calls \in 0 .. MaxCalls
    /\ own \in [Actors -> Owners \cup {"none"}] /\ kind \in [Actors -> {"execute", "clear", "close"}]
    /\ ended \subseteq Actors /\ local \in [Actors -> LocalTypes]
    /\ todo \in [Closers -> SUBSET Owners] /\ failed \subseteq Closers
Types == MgrTypeOK /\ GateTypeOK /\ WorldTypeOK /\ ActorTypeOK

Busy == Held \cup {"acquire", "waiting"}
CloserLabels == {"idle", "next", "nil", "error", "acquire", "waiting", "check", "reset", "resetWait",
                 "closeCtx", "finish", "finishWait", "rmdir", "release"}
Removal == {"finish", "finishWait", "rmdir"}
AtRest == {"idle", "nil", "error"}

\* Which labels and owners an actor can have.
LabelOK(a) ==
    /\ a \in Closers => /\ kind[a] = "close" /\ pc[a] \in CloserLabels
                        /\ pc[a] \in Removal => local[a].after = "close"
                        /\ pc[a] \in Busy => own[a] \in lifeDone
    /\ a \in Ops => kind[a] # "close" /\ pc[a] \in (Busy \ {"closeCtx"}) \cup {"idle", "returned"}
    /\ pc[a] \in Busy => own[a] \in sessions

LabelInv == \A a \in Actors : LabelOK(a)

Holds(a, o) == own[a] = o /\ (pc[a] \in Held \/ a \in granted)
Waits(a, o) == own[a] = o /\ pc[a] = "waiting" /\ a \notin granted

\* The gate and its queue against the labels.
GateOK(o) ==
    /\ \A a, b \in Actors : Holds(a, o) /\ Holds(b, o) => a = b
    /\ gate[o].active => \E a \in Actors : Holds(a, o)
    /\ ~gate[o].active => gate[o].waiters = <<>> /\ \A a \in Actors : ~Holds(a, o)
    /\ \A i \in 1 .. Len(gate[o].waiters) : Waits(gate[o].waiters[i], o)
    /\ \A i, j \in 1 .. Len(gate[o].waiters) : gate[o].waiters[i] = gate[o].waiters[j] => i = j
    /\ \A a \in Actors : Waits(a, o) => \E i \in 1 .. Len(gate[o].waiters) : gate[o].waiters[i] = a

GateInv == (\A a \in granted : pc[a] = "waiting") /\ \A o \in Owners : GateOK(o)

ProcOwned(o) == Alive(o) => sess[o].runner
EnvOwned(o) ==
    /\ env[o].dir => sess[o].venv
    /\ env[o].creator # "none" => sess[o].venv /\ sess[o].invalid /\ env[o].finishing
NothingLeft(o) == ~Alive(o) /\ ~env[o].dir /\ env[o].creator = "none"

\* No result is on record under the owner's present generation.
Unrecorded(o) == sess[o].gen = told[o].gen => told[o].serial = 0
\* Whether state that was lost is still to be reported.
Reported(o) == o \in lifeDone \/ sess[o].quarantined
Recorded(o) == Reported(o) \/
    /\ sess[o].gen = told[o].gen => told[o].serial \in {0, proc[o].serial}
    /\ ~sess[o].runner => Unrecorded(o)
Pending(o) == Reported(o) \/ (sess[o].pending <=> sess[o].gen # told[o].gen)

\* What holds of an owner at all times: of its environment and its processes,
\* and of what was reported.
ResourceOK(o) ==
    /\ env[o].creator # "none" => env[o].finishing /\ env[o].dir
    /\ env[o].finishing => env[o].creator # "none"
    /\ proc[o].term \in {"await", "done"} /\ ~proc[o].termErr => ~proc[o].child
    /\ proc[o].status = "reaped" => proc[o].sup = "exited" /\ ~proc[o].child
    /\ proc[o].term = "done" /\ ~proc[o].termErr => proc[o].status = "reaped"
    /\ sess[o].closed \/ o \notin sessions => NothingLeft(o)
ReportOK(o) == told[o].gen <= sess[o].gen /\ Recorded(o)
OwnerOK(o) == ResourceOK(o) /\ ReportOK(o)

\* Between operations.
Quiet(o) == ProcOwned(o) /\ EnvOwned(o) /\ Pending(o)

\* Labels at which an environment is made, or removed and not by Close.
Making(a) ==
    pc[a] \in {"creating", "publish"} \/ (pc[a] \in Removal /\ local[a].after # "close")
\* Labels of Close after the runner is gone.
Removing(a) == pc[a] = "closeCtx" \/ (pc[a] \in Removal /\ local[a].after = "close")
Resetting == {"reset", "resetWait"}

\* What holds of the owner of a gate while its holder is at a label.
HolderOK(a, o) ==
    /\ pc[a] \notin {"ready", "cancelStart", "startWait"} => ProcOwned(o)
    /\ pc[a] \in {"ready", "cancelStart", "startWait"} => ~sess[o].runner
    /\ ~Making(a) => EnvOwned(o)
    /\ pc[a] = "publish" => env[o].creator = "none"
    /\ Removing(a) => ~Alive(o)
    /\ pc[a] \notin {"check", "release"} => ~sess[o].closed /\ ~sess[o].quarantined
    /\ ~(pc[a] \in Resetting /\ kind[a] = "clear") => Pending(o)
    /\ pc[a] \in {"request", "write", "reply"} =>
          sess[o].runner /\ (local[a].fresh /\ o \notin lifeDone => Unrecorded(o))
    /\ pc[a] \in Resetting /\ kind[a] = "execute" /\ ~local[a].invalidate /\ o \notin lifeDone =>
          Unrecorded(o)

ResInv ==
    /\ \A o \in Owners : OwnerOK(o)
    /\ \A a \in Actors : pc[a] \in Held => HolderOK(a, own[a])
    /\ \A o \in Owners : (\A a \in Actors : own[a] = o => pc[a] \notin Held) => Quiet(o)

\* A closer that has not failed has seen every session closed, is closing it or
\* has it before it.
CloserOK(k) ==
    /\ todo[k] \subseteq lifeDone
    /\ pc[k] \notin AtRest => closing
    /\ pc[k] \notin AtRest /\ k \notin failed =>
          \A o \in sessions : \/ o \in todo[k] \/ sess[o].closed
                              \/ own[k] = o /\ pc[k] \in Busy \ {"release"}

CloseInv ==
    /\ \A k \in Closers : CloserOK(k)
    /\ closed => closing /\ \A o \in sessions : sess[o].closed

\* Calls that may still raise the generation, and that may still start a runner.
Raisers == {a \in Ops : pc[a] \in Busy \ {"release"}}
Starters == {a \in Ops : \/ pc[a] \in {"acquire", "waiting", "check", "ctx", "mkdir", "creating",
                                       "publish", "start"}
                         \/ pc[a] \in Removal /\ local[a].after # "integrity"}

CountInv ==
    /\ IsFiniteSet(Raisers) /\ IsFiniteSet(Starters)
    /\ \A o \in Owners : /\ sess[o].gen + Cardinality(Raisers) <= calls
                         /\ proc[o].serial + Cardinality(Starters) <= calls

\* The inductive invariant.
IInv == Types /\ LabelInv /\ GateInv /\ ResInv /\ CloseInv /\ CountInv

\* One element more, one less.
LEMMA OneMore ==
    ASSUME NEW S, NEW T, NEW x, IsFiniteSet(S), x \notin S, T = S \cup {x}
    PROVE  IsFiniteSet(T) /\ Cardinality(T) = Cardinality(S) + 1 /\ Cardinality(S) \in Nat
BY FS_AddElement, FS_CardinalityType

\* A finite set less one of its elements.
LEMMA OneLess ==
    ASSUME NEW S, NEW T, NEW x, IsFiniteSet(S), x \in S, T = S \ {x}
    PROVE  /\ IsFiniteSet(T) /\ Cardinality(T) = Cardinality(S) - 1
           /\ Cardinality(T) \in Nat /\ Cardinality(S) \in Nat
BY FS_RemoveElement, FS_CardinalityType

\* Steps that touch one owner, or one actor.
SessStep(o) == sess' \in [Owners -> SessTypes] /\ \A p \in Owners : p # o => sess'[p] = sess[p]
EnvStep(o) == env' \in [Owners -> EnvTypes] /\ \A p \in Owners : p # o => env'[p] = env[p]
ProcStep(o) == proc' \in [Owners -> ProcTypes] /\ \A p \in Owners : p # o => proc'[p] = proc[p]
ToldStep(o) ==
    /\ told' \in [Owners -> [gen : Nat, serial : Nat]]
    /\ \A p \in Owners : p # o => told'[p] = told[p]
ActorStep(a) ==
    /\ pc[a] \in Held \ {"release"} /\ pc'[a] \in Held \ {"check"} /\ pc' \in [Actors -> Labels]
    /\ local' \in [Actors -> LocalTypes]
    /\ \A b \in Actors : b # a => pc'[b] = pc[b] /\ local'[b] = local[b]
    /\ failed' \subseteq Closers /\ failed \subseteq failed' /\ failed' \subseteq failed \cup {a}

\* What a step of a gate holder may touch.
HolderMove(a) ==
    /\ ActorStep(a) /\ SessStep(own[a]) /\ EnvStep(own[a]) /\ ProcStep(own[a]) /\ ToldStep(own[a])
    /\ HolderUnchanged

\* Fields of a session may be set to values of their types.
LEMMA SessFields ==
    ASSUME sess \in [Owners -> SessTypes], NEW o \in Owners
    PROVE  \A v, i, c \in BOOLEAN :
             \/ sess' = [sess EXCEPT ![o].venv = v]
             \/ sess' = [sess EXCEPT ![o].venv = v, ![o].invalid = i]
             \/ sess' = [sess EXCEPT ![o].venv = v, ![o].invalid = i, ![o].closed = c]
             => sess' \in [Owners -> SessTypes] /\ \A p \in Owners : p # o => sess'[p] = sess[p]
<1> SUFFICES ASSUME NEW v \in BOOLEAN, NEW i \in BOOLEAN, NEW c \in BOOLEAN,
                    \/ sess' = [sess EXCEPT ![o].venv = v]
                    \/ sess' = [sess EXCEPT ![o].venv = v, ![o].invalid = i]
                    \/ sess' = [sess EXCEPT ![o].venv = v, ![o].invalid = i, ![o].closed = c]
             PROVE  sess' \in [Owners -> SessTypes] /\ \A p \in Owners : p # o => sess'[p] = sess[p]
    OBVIOUS
<1> DEFINE r1 == [sess[o] EXCEPT !.venv = v]
           r2 == [r1 EXCEPT !.invalid = i]
           r3 == [r2 EXCEPT !.closed = c]
<1>1. r1 \in SessTypes
    BY DEF SessTypes
<1>2. r2 \in SessTypes
  <2> HIDE DEF r1
  <2> QED
    BY <1>1 DEF SessTypes
<1>3. r3 \in SessTypes
  <2> HIDE DEF r2
  <2> QED
    BY <1>2 DEF SessTypes
<1>4. \/ sess' = [sess EXCEPT ![o] = r1] \/ sess' = [sess EXCEPT ![o] = r2]
      \/ sess' = [sess EXCEPT ![o] = r3]
    OBVIOUS
<1> HIDE DEF r1, r2, r3
<1>5. PICK r \in SessTypes : sess' = [sess EXCEPT ![o] = r]
    BY <1>1, <1>2, <1>3, <1>4
<1> QED
    BY <1>5

\* The pieces the holder's steps are made of.
LEMMA SessPieces ==
    ASSUME WorldTypeOK, NEW a \in Actors, NEW o \in Owners
    PROVE  /\ Quarantine(a, o) =>
                /\ SessStep(o) /\ Fail(a) /\ sess'[o].runner /\ sess'[o].quarantined
                /\ sess'[o].venv = sess[o].venv /\ sess'[o].invalid = sess[o].invalid
                /\ sess'[o].gen = sess[o].gen /\ sess'[o].closed = sess[o].closed
           /\ KeepInvalid(a, o) =>
                /\ SessStep(o) /\ Fail(a) /\ sess'[o].venv
                /\ sess[o].invalid => sess'[o].invalid
                /\ local[a].after # "close" => sess'[o].invalid
                /\ sess'[o].runner = sess[o].runner /\ sess'[o].quarantined = sess[o].quarantined
                /\ sess'[o].gen = sess[o].gen /\ sess'[o].closed = sess[o].closed
                /\ sess'[o].pending = sess[o].pending
<1>0. sess \in [Owners -> SessTypes]
    BY DEF WorldTypeOK
<1>1. ASSUME Quarantine(a, o)
      PROVE  SessStep(o) /\ sess'[o].runner /\ sess'[o].quarantined
    BY <1>0, <1>1, ZenonT(30) DEF SessTypes, SessStep, Quarantine
<1>2. ASSUME Quarantine(a, o)
      PROVE  /\ Fail(a) /\ sess'[o].venv = sess[o].venv /\ sess'[o].invalid = sess[o].invalid
             /\ sess'[o].gen = sess[o].gen /\ sess'[o].closed = sess[o].closed
    BY <1>0, <1>2 DEF SessTypes, Quarantine
<1>3. ASSUME KeepInvalid(a, o)
      PROVE  SessStep(o)
  <2>1. (sess[o].invalid \/ local[a].after # "close") \in BOOLEAN
    OBVIOUS
  <2>2. PICK i \in BOOLEAN : sess' = [sess EXCEPT ![o].venv = TRUE, ![o].invalid = i]
    BY <1>3, <2>1, Zenon DEF KeepInvalid
  <2>3. sess' \in [Owners -> SessTypes] /\ \A p \in Owners : p # o => sess'[p] = sess[p]
    BY <1>0, <2>2, SessFields
  <2> QED
    BY <2>3 DEF SessStep
<1>4. ASSUME KeepInvalid(a, o)
      PROVE  /\ Fail(a) /\ sess'[o].venv
             /\ sess[o].invalid => sess'[o].invalid
             /\ local[a].after # "close" => sess'[o].invalid
    BY <1>0, <1>4 DEF SessTypes, KeepInvalid
<1>5. ASSUME KeepInvalid(a, o)
      PROVE  /\ sess'[o].runner = sess[o].runner /\ sess'[o].quarantined = sess[o].quarantined
             /\ sess'[o].gen = sess[o].gen /\ sess'[o].closed = sess[o].closed
             /\ sess'[o].pending = sess[o].pending
    BY <1>0, <1>5 DEF SessTypes, KeepInvalid
<1> QED
    BY <1>1, <1>2, <1>3, <1>4, <1>5

\* What dropping a process and asking for its termination write.
LEMMA ProcPieces ==
    ASSUME WorldTypeOK, NEW o \in Owners
    PROVE  /\ dropProcess(o) =>
                /\ ProcStep(o) /\ proc'[o].sup = proc[o].sup /\ proc'[o].child = proc[o].child
                /\ proc'[o].serial = proc[o].serial /\ proc'[o].term = "none"
                /\ proc'[o].status = "none"
           /\ terminate(o) =>
                /\ ProcStep(o) /\ proc'[o].sup = proc[o].sup /\ proc'[o].child = proc[o].child
                /\ proc'[o].serial = proc[o].serial /\ proc'[o].status = proc[o].status
                /\ proc'[o].termErr = proc[o].termErr
                /\ proc'[o].term = proc[o].term \/ proc'[o].term = "signal"
<1>0. proc \in [Owners -> ProcTypes]
    BY DEF WorldTypeOK
<1>1. ASSUME dropProcess(o)
      PROVE  ProcStep(o)
    BY <1>0, <1>1 DEF ProcTypes, dropProcess, noProcess, ProcStep
<1>2. ASSUME dropProcess(o)
      PROVE  /\ proc'[o].sup = proc[o].sup /\ proc'[o].child = proc[o].child
             /\ proc'[o].serial = proc[o].serial /\ proc'[o].term = "none"
             /\ proc'[o].status = "none"
    BY <1>0, <1>2 DEF ProcTypes, dropProcess, noProcess
<1>3. ASSUME terminate(o)
      PROVE  ProcStep(o)
    BY <1>0, <1>3 DEF ProcTypes, terminate, ProcStep
<1>4. ASSUME terminate(o)
      PROVE  /\ proc'[o].sup = proc[o].sup /\ proc'[o].child = proc[o].child
             /\ proc'[o].serial = proc[o].serial /\ proc'[o].status = proc[o].status
             /\ proc'[o].termErr = proc[o].termErr
             /\ proc'[o].term = proc[o].term \/ proc'[o].term = "signal"
    BY <1>0, <1>4 DEF ProcTypes, terminate
<1> QED
    BY <1>1, <1>2, <1>3, <1>4

\* What the ends and continuations of a holder's step write of the actor.
LEMMA ActorPieces ==
    ASSUME ActorTypeOK, NEW a \in Actors, pc[a] \in Held \ {"release"}
    PROVE  /\ Fail(a) => ActorStep(a) /\ pc'[a] = "release" /\ (a \in Closers => a \in failed')
           /\ Succeed(a) => ActorStep(a) /\ pc'[a] = "release" /\ failed' = failed
           /\ \A l \in Held \ {"check"} : Continue(a, l) =>
                 ActorStep(a) /\ pc'[a] = l /\ local' = local /\ failed' = failed
           /\ \A l \in Held \ {"check"},
                 after \in {"", "invalid", "create", "integrity", "close", "created", "rejected", "ctx"} :
                 CallThen(a, l, after) =>
                    /\ ActorStep(a) /\ pc'[a] = l /\ failed' = failed
                    /\ local'[a].after = after
           /\ \A b \in BOOLEAN : ExecutionFailed(a, b) =>
                 /\ ActorStep(a) /\ pc'[a] = "reset" /\ failed' = failed
                 /\ ~local'[a].invalidate => local[a].fresh
<1>0. noLocals \in LocalTypes
    BY DEF noLocals, LocalTypes
<1> USE DEF ActorTypeOK, ActorStep, Goto, Labels, Held
<1>1. ASSUME Fail(a)
      PROVE ActorStep(a) /\ pc'[a] = "release" /\ (a \in Closers => a \in failed')
    BY <1>0, <1>1 DEF Fail
<1>2. ASSUME Succeed(a)
      PROVE ActorStep(a) /\ pc'[a] = "release" /\ failed' = failed
    BY <1>0, <1>2 DEF Succeed
<1>3. ASSUME NEW l \in Held \ {"check"}, Continue(a, l)
      PROVE ActorStep(a) /\ pc'[a] = l /\ local' = local /\ failed' = failed
    BY <1>3 DEF Continue
<1>4. ASSUME NEW l \in Held \ {"check"},
             NEW after \in {"", "invalid", "create", "integrity", "close", "created", "rejected", "ctx"},
             CallThen(a, l, after)
      PROVE ActorStep(a) /\ pc'[a] = l /\ failed' = failed /\ local'[a].after = after
    BY <1>4, ZenonT(30) DEF CallThen, LocalTypes
<1>5. ASSUME NEW b \in BOOLEAN, ExecutionFailed(a, b)
      PROVE /\ ActorStep(a) /\ pc'[a] = "reset" /\ failed' = failed
            /\ ~local'[a].invalidate => local[a].fresh
  <2> DEFINE i == b \/ ~local[a].fresh
  <2>1. local' = [local EXCEPT ![a].invalidate = i] /\ (~i => local[a].fresh)
    BY <1>5 DEF ExecutionFailed
  <2>2. i \in BOOLEAN
    BY Zenon
  <2>3. \A c \in BOOLEAN : [local EXCEPT ![a].invalidate = c] \in [Actors -> LocalTypes]
    BY DEF LocalTypes
  <2>4. local' \in [Actors -> LocalTypes]
    BY <2>1, <2>2, <2>3, Zenon
  <2>i. \A c \in BOOLEAN : [local EXCEPT ![a].invalidate = c][a].invalidate = c
    BY DEF LocalTypes
  <2>5. local'[a].invalidate = i
    BY <2>1, <2>2, <2>i, Zenon
  <2>7. \A c \in Actors : c # a => local'[c] = local[c]
    BY <2>1 DEF LocalTypes
  <2>6. ~local'[a].invalidate => local[a].fresh
    BY <2>1, <2>5, Zenon
  <2> QED
    BY <1>5, <2>4, <2>6, <2>7 DEF ExecutionFailed
<1> QED
    BY <1>1, <1>2, <1>3, <1>4, <1>5

\* Each way a holder writes the session writes its own owner and well typed.
LEMMA SessUpdates ==
    ASSUME WorldTypeOK, NEW o \in Owners
    PROVE  /\ sess' = [sess EXCEPT ![o].pending = FALSE] => SessStep(o)
           /\ sess' = [sess EXCEPT ![o].runner = TRUE] => SessStep(o)
           /\ sess' = [sess EXCEPT ![o].runner = FALSE] => SessStep(o)
           /\ \A b \in BOOLEAN :
                 sess' = [sess EXCEPT ![o].runner = FALSE, ![o].gen = @ + 1, ![o].pending = b] => SessStep(o)
<1>0. sess \in [Owners -> SessTypes]
    BY DEF WorldTypeOK
<1>1. ASSUME sess' = [sess EXCEPT ![o].pending = FALSE]
      PROVE SessStep(o)
    BY <1>0, <1>1 DEF SessTypes, SessStep
<1>2. ASSUME sess' = [sess EXCEPT ![o].runner = TRUE]
      PROVE SessStep(o)
    BY <1>0, <1>2 DEF SessTypes, SessStep
<1>3. ASSUME sess' = [sess EXCEPT ![o].runner = FALSE]
      PROVE SessStep(o)
    BY <1>0, <1>3 DEF SessTypes, SessStep
<1>4. ASSUME NEW b \in BOOLEAN,
             sess' = [sess EXCEPT ![o].runner = FALSE, ![o].gen = @ + 1, ![o].pending = b]
      PROVE SessStep(o)
  <2>1. sess' \in [Owners -> SessTypes]
    BY <1>0, <1>4 DEF SessTypes
  <2>2. \A p \in Owners : p # o => sess'[p] = sess[p]
    BY <1>0, <1>4 DEF SessTypes
  <2> QED
    BY <2>1, <2>2 DEF SessStep
<1> QED
    BY <1>1, <1>2, <1>3, <1>4

\* The same of the environment.
LEMMA EnvUpdates ==
    ASSUME WorldTypeOK, NEW o \in Owners
    PROVE  /\ \A c \in {"running", "dying", "gone", "none"} :
                 /\ env' = [env EXCEPT ![o].creator = c] => EnvStep(o)
                 /\ env' = [env EXCEPT ![o].finishing = FALSE, ![o].creator = c] => EnvStep(o)
           /\ env' = [env EXCEPT ![o].signalErr = TRUE] => EnvStep(o)
           /\ env' = [env EXCEPT ![o].dir = TRUE] => EnvStep(o)
           /\ env' = [env EXCEPT ![o].dir = FALSE] => EnvStep(o)
           /\ env' = [env EXCEPT ![o] = [dir |-> TRUE, creator |-> "running", finishing |-> TRUE,
                                         signalErr |-> FALSE]] => EnvStep(o)
<1>0. env \in [Owners -> EnvTypes]
    BY DEF WorldTypeOK
<1>1. ASSUME NEW c \in {"running", "dying", "gone", "none"}, env' = [env EXCEPT ![o].creator = c]
      PROVE EnvStep(o)
    BY <1>0, <1>1 DEF EnvTypes, EnvStep
<1>2. ASSUME NEW c \in {"running", "dying", "gone", "none"},
             env' = [env EXCEPT ![o].finishing = FALSE, ![o].creator = c]
      PROVE EnvStep(o)
    BY <1>0, <1>2 DEF EnvTypes, EnvStep
<1>3. ASSUME env' = [env EXCEPT ![o].signalErr = TRUE] PROVE EnvStep(o)
    BY <1>0, <1>3 DEF EnvTypes, EnvStep
<1>4. ASSUME env' = [env EXCEPT ![o].dir = TRUE] PROVE EnvStep(o)
    BY <1>0, <1>4 DEF EnvTypes, EnvStep
<1>5. ASSUME env' = [env EXCEPT ![o].dir = FALSE] PROVE EnvStep(o)
    BY <1>0, <1>5 DEF EnvTypes, EnvStep
<1>6. ASSUME env' = [env EXCEPT ![o] = [dir |-> TRUE, creator |-> "running", finishing |-> TRUE,
                                        signalErr |-> FALSE]]
      PROVE EnvStep(o)
  <2>1. [dir |-> TRUE, creator |-> "running", finishing |-> TRUE, signalErr |-> FALSE] \in EnvTypes
    BY DEF EnvTypes
  <2> QED
    BY <1>0, <1>6, <2>1 DEF EnvStep
<1> QED
    BY <1>1, <1>2, <1>3, <1>4, <1>5, <1>6

\* The same of the process.
LEMMA ProcUpdates ==
    ASSUME WorldTypeOK, NEW o \in Owners
    PROVE  /\ proc' = [proc EXCEPT ![o] = [noProcess EXCEPT !.sup = "up", !.child = TRUE,
                                                            !.serial = proc[o].serial + 1]] =>
                 /\ ProcStep(o) /\ proc'[o].serial = proc[o].serial + 1
                 /\ proc'[o].term = "none" /\ proc'[o].status = "none"
           /\ \A s \in {"none", "up", "exited"} :
                 proc' = [proc EXCEPT ![o].sup = s, ![o].ready = "bad"] => ProcStep(o)
<1>0. proc \in [Owners -> ProcTypes]
    BY DEF WorldTypeOK
<1>1. ASSUME proc' = [proc EXCEPT ![o] = [noProcess EXCEPT !.sup = "up", !.child = TRUE,
                                                            !.serial = proc[o].serial + 1]]
      PROVE  /\ ProcStep(o) /\ proc'[o].serial = proc[o].serial + 1
             /\ proc'[o].term = "none" /\ proc'[o].status = "none"
  <2> DEFINE p == [noProcess EXCEPT !.sup = "up", !.child = TRUE, !.serial = proc[o].serial + 1]
  <2>1. proc[o].serial + 1 \in Nat
    BY <1>0 DEF ProcTypes
  <2>2. \A n \in Nat : LET q == [noProcess EXCEPT !.sup = "up", !.child = TRUE, !.serial = n]
                       IN  q \in ProcTypes /\ q.serial = n /\ q.term = "none" /\ q.status = "none"
    BY DEF ProcTypes, noProcess
  <2>3. p \in ProcTypes /\ p.serial = proc[o].serial + 1 /\ p.term = "none" /\ p.status = "none"
    BY <2>1, <2>2
  <2>4. proc' = [proc EXCEPT ![o] = p]
    BY <1>1
  <2> HIDE DEF p
  <2> QED
    BY <1>0, <2>3, <2>4 DEF ProcStep
<1>2. ASSUME NEW s \in {"none", "up", "exited"}, proc' = [proc EXCEPT ![o].sup = s, ![o].ready = "bad"]
      PROVE ProcStep(o)
  <2> DEFINE q == [proc[o] EXCEPT !.sup = s, !.ready = "bad"]
  <2>1. q \in ProcTypes
    BY <1>0, ZenonT(30) DEF ProcTypes
  <2>2. proc' = [proc EXCEPT ![o] = q]
    BY <1>0, <1>2 DEF ProcTypes
  <2> HIDE DEF q
  <2> QED
    BY <1>0, <2>1, <2>2 DEF ProcStep
<1> QED
    BY <1>1, <1>2

\* What is left alone is a step that touches nothing but its owner.
LEMMA StillPieces ==
    ASSUME WorldTypeOK, NEW o \in Owners
    PROVE  /\ UNCHANGED sess => SessStep(o)
           /\ UNCHANGED env => EnvStep(o)
           /\ UNCHANGED proc => ProcStep(o)
           /\ UNCHANGED told => ToldStep(o)
BY DEF WorldTypeOK, SessStep, EnvStep, ProcStep, ToldStep

\* forceSupervisorStop writes only the supervisor and its readiness, and quarantines.
LEMMA ForcePiece ==
    ASSUME WorldTypeOK, NEW a \in Actors, NEW o \in Owners, forceSupervisorStop(a, o)
    PROVE  /\ Quarantine(a, o) /\ ProcStep(o)
           /\ proc'[o].sup = proc[o].sup \/ proc'[o].sup = "exited"
           /\ proc'[o].child = proc[o].child /\ proc'[o].serial = proc[o].serial
           /\ proc'[o].term = proc[o].term /\ proc'[o].termErr = proc[o].termErr
           /\ proc'[o].status = proc[o].status
<1>0. proc \in [Owners -> ProcTypes]
    BY DEF WorldTypeOK
<1>1. PICK sup \in {"none", "up", "exited"} :
         /\ sup = proc[o].sup \/ sup = "exited"
         /\ proc' = [proc EXCEPT ![o].sup = sup, ![o].ready = "bad"]
    BY <1>0 DEF forceSupervisorStop, ProcTypes
<1>2. ProcStep(o)
    BY <1>1, ProcUpdates
<1>3. /\ proc'[o].sup = sup /\ proc'[o].child = proc[o].child /\ proc'[o].serial = proc[o].serial
      /\ proc'[o].term = proc[o].term /\ proc'[o].termErr = proc[o].termErr
      /\ proc'[o].status = proc[o].status
    BY <1>0, <1>1 DEF ProcTypes
<1> QED
    BY <1>1, <1>2, <1>3 DEF forceSupervisorStop

\* What the invariant says where a holder stands.
LEMMA HolderKnows ==
    ASSUME IInv, NEW a \in Actors, pc[a] \in Held
    PROVE  /\ own[a] \in Owners /\ own[a] \in sessions
           /\ WorldTypeOK /\ ActorTypeOK
           /\ OwnerOK(own[a]) /\ HolderOK(a, own[a]) /\ LabelOK(a)
<1>1. own[a] \in sessions /\ LabelOK(a)
    BY DEF IInv, LabelInv, LabelOK, Busy
<1>2. own[a] \in Owners
    BY <1>1 DEF IInv, Types, MgrTypeOK
<1> QED
    BY <1>1, <1>2 DEF IInv, Types, ResInv

\* Every step of a holder touches its own owner and its own locals, and no gate.
LEMMA HolderMoves ==
    ASSUME IInv, NEW a \in Actors, HolderStep(a) \/ Response(a)
    PROVE  HolderMove(a)
<1> DEFINE o == own[a]
<1>0. pc[a] \in Held \ {"release"} /\ HolderUnchanged
  <2>1. CASE Check(a) \/ CheckContext(a) \/ Mkdir(a) \/ Creating(a) \/ finish(a) \/ finishWait(a)
    BY <2>1 DEF Check, CheckContext, Mkdir, Creating, finish, finishWait, Held
  <2>2. CASE removeVenv(a) \/ Publish(a) \/ Start(a) \/ Ready(a) \/ cancelStartup(a)
    BY <2>2 DEF removeVenv, Publish, Start, Ready, cancelStartup, Held
  <2>3. CASE terminateAndWait(a) \/ Request(a) \/ Write(a) \/ Interrupted(a) \/ Reset(a)
    BY <2>3 DEF terminateAndWait, Request, Write, Interrupted, Reset, Held
  <2>4. CASE ResetWait(a) \/ Response(a)
    BY <2>4 DEF ResetWait, Response, Held
  <2> QED
    BY <2>1, <2>2, <2>3, <2>4 DEF HolderStep
<1>k. o \in Owners /\ WorldTypeOK /\ ActorTypeOK
    BY <1>0, HolderKnows
<1>s. sess \in [Owners -> SessTypes]
    BY <1>k DEF WorldTypeOK
<1>e. env \in [Owners -> EnvTypes]
    BY <1>k DEF WorldTypeOK
<1>p. proc \in [Owners -> ProcTypes]
    BY <1>k DEF WorldTypeOK
<1>t. told \in [Owners -> [gen : Nat, serial : Nat]]
    BY <1>k DEF WorldTypeOK
<1>still. /\ UNCHANGED sess => SessStep(o)
          /\ UNCHANGED env => EnvStep(o)
          /\ UNCHANGED proc => ProcStep(o)
          /\ UNCHANGED told => ToldStep(o)
    BY <1>k, StillPieces
<1>su. /\ sess' = [sess EXCEPT ![o].pending = FALSE] => SessStep(o)
       /\ sess' = [sess EXCEPT ![o].runner = TRUE] => SessStep(o)
       /\ sess' = [sess EXCEPT ![o].runner = FALSE] => SessStep(o)
       /\ \A b \in BOOLEAN :
             sess' = [sess EXCEPT ![o].runner = FALSE, ![o].gen = @ + 1, ![o].pending = b] => SessStep(o)
    BY <1>k, SessUpdates
<1>eu. /\ \A c \in {"running", "dying", "gone", "none"} :
             /\ env' = [env EXCEPT ![o].creator = c] => EnvStep(o)
             /\ env' = [env EXCEPT ![o].finishing = FALSE, ![o].creator = c] => EnvStep(o)
       /\ env' = [env EXCEPT ![o].signalErr = TRUE] => EnvStep(o)
       /\ env' = [env EXCEPT ![o].dir = TRUE] => EnvStep(o)
       /\ env' = [env EXCEPT ![o].dir = FALSE] => EnvStep(o)
       /\ env' = [env EXCEPT ![o] = [dir |-> TRUE, creator |-> "running", finishing |-> TRUE,
                                     signalErr |-> FALSE]] => EnvStep(o)
    BY <1>k, EnvUpdates
<1>fail. Fail(a) => ActorStep(a)
    BY <1>0, <1>k, ActorPieces DEF Held
<1>succeed. Succeed(a) => ActorStep(a)
    BY <1>0, <1>k, ActorPieces DEF Held
<1>continue. \A l \in Held \ {"check"} : Continue(a, l) => ActorStep(a)
    BY <1>0, <1>k, ActorPieces
<1>call. \A l \in Held \ {"check"} :
            \A after \in {"", "invalid", "create", "integrity", "close", "created", "rejected", "ctx"} :
                 CallThen(a, l, after) => ActorStep(a)
    BY <1>0, <1>k, ActorPieces
<1>failed. \A b \in BOOLEAN : ExecutionFailed(a, b) => ActorStep(a)
    BY <1>0, <1>k, ActorPieces DEF Held
<1>quarantine. Quarantine(a, o) => SessStep(o) /\ Fail(a)
    BY <1>k, SessPieces
<1>keep. KeepInvalid(a, o) => SessStep(o) /\ Fail(a)
    BY <1>k, SessPieces
<1>force. forceSupervisorStop(a, o) => Quarantine(a, o) /\ ProcStep(o)
    BY <1>k, ForcePiece
<1>proc. (terminate(o) => ProcStep(o)) /\ (dropProcess(o) => ProcStep(o))
    BY <1>k, ProcPieces
<1> HIDE DEF o
<1> SUFFICES ActorStep(a) /\ SessStep(o) /\ EnvStep(o) /\ ProcStep(o) /\ ToldStep(o)
    BY <1>0 DEF HolderMove, o
<1> USE DEF Held
<1>1. CASE Check(a)
  <2>1. CASE kind[a] = "execute" /\ CheckExecute(a, sess[o]) /\ UNCHANGED <<sess, told, env, proc>>
    BY <2>1, <1>still, <1>fail, <1>call, <1>continue DEF CheckExecute
  <2>2. CASE kind[a] = "close" /\ CheckClose(a, sess[o]) /\ UNCHANGED <<sess, told, env, proc>>
    BY <2>2, <1>still, <1>fail, <1>succeed, <1>continue DEF CheckClose
  <2>3. CASE kind[a] = "clear" /\ CheckClear(a, o, sess[o]) /\ UNCHANGED <<env, proc>>
    <3>1. CASE Fail(a) /\ UNCHANGED <<sess, told>>
      BY <2>3, <3>1, <1>still, <1>fail
    <3>2. CASE sess' = [sess EXCEPT ![o].pending = FALSE] /\ UNCHANGED told
               /\ Goto(a, "reset") /\ local' = [local EXCEPT ![a].invalidate = TRUE] /\ UNCHANGED failed
      <4>1. SessStep(o)
        BY <1>s, <1>k, <3>2 DEF SessTypes, SessStep
      <4>2. ActorStep(a)
        BY <1>0, <1>k, <3>2 DEF ActorTypeOK, LocalTypes, ActorStep, Goto, Labels
      <4> QED
        BY <2>3, <3>2, <4>1, <4>2, <1>still
    <3>3. CASE sess' = [sess EXCEPT ![o].pending = FALSE] /\ Succeed(a)
               /\ told' = [told EXCEPT ![o] = [gen |-> sess[o].gen, serial |-> 0]]
      <4>1. SessStep(o)
        BY <1>s, <1>k, <3>3 DEF SessTypes, SessStep
      <4>2. ToldStep(o)
        BY <1>s, <1>t, <1>k, <3>3 DEF SessTypes, ToldStep
      <4> QED
        BY <2>3, <3>3, <4>1, <4>2, <1>still, <1>succeed
    <3> QED
      BY <2>3, <3>1, <3>2, <3>3 DEF CheckClear
  <2> QED
    BY <1>1, <2>1, <2>2, <2>3 DEF Check, o
<1>2. CASE CheckContext(a)
    BY <1>2, <1>still, <1>fail, <1>call, <1>continue DEF CheckContext, worldVars
<1>3. CASE Mkdir(a)
  <2>1. EnvStep(o)
    BY <1>3, <1>eu, <1>still DEF Mkdir, o
  <2> QED
    BY <1>3, <2>1, <1>still, <1>fail, <1>call, <1>continue DEF Mkdir
<1>4. CASE Creating(a)
  <2>1. EnvStep(o)
    BY <1>4, <1>eu, <1>still DEF Creating, o
  <2> QED
    BY <1>4, <2>1, <1>still, <1>call DEF Creating
<1>5. CASE finish(a)
  <2>1. EnvStep(o)
    <3>1. env[o].creator \in {"running", "dying", "gone", "none"}
      BY <1>e, <1>k DEF EnvTypes
    <3>2. \/ \E c \in {"running", "dying", "gone", "none"} : env' = [env EXCEPT ![o].creator = c]
          \/ env' = [env EXCEPT ![o].signalErr = TRUE]
      BY <1>5, <3>1 DEF finish, o
    <3> QED
      BY <3>2, <1>eu
  <2> QED
    BY <1>5, <2>1, <1>still, <1>fail, <1>keep, <1>continue DEF finish, o
<1>6. CASE finishWait(a)
  <2>1. EnvStep(o)
    BY <1>6, <1>eu, <1>still DEF finishWait, o
  <2> QED
    BY <1>6, <2>1, <1>still, <1>fail, <1>keep, <1>continue, <1>call DEF finishWait, o
<1>7. CASE removeVenv(a)
  <2>1. EnvStep(o)
    BY <1>7, <1>eu, <1>still DEF removeVenv, o
  <2>2. SessStep(o)
    <3> DEFINE c == local[a].after = "close"
    <3>1. ASSUME NEW b \in BOOLEAN,
                 sess' = [sess EXCEPT ![o].venv = FALSE, ![o].invalid = FALSE, ![o].closed = b]
          PROVE  sess' \in [Owners -> SessTypes] /\ \A p \in Owners : p # o => sess'[p] = sess[p]
      BY <1>s, <1>k, <3>1, SessFields
    <3>2. c \in BOOLEAN
      BY Zenon
    <3>3. CASE sess' = [sess EXCEPT ![o].venv = FALSE, ![o].invalid = FALSE, ![o].closed = c]
      BY <3>1, <3>2, <3>3, Zenon DEF SessStep
    <3>4. CASE UNCHANGED sess \/ KeepInvalid(a, o)
      BY <3>4, <1>still, <1>keep
    <3> QED
      BY <1>7, <3>3, <3>4 DEF removeVenv, o
  <2> QED
    BY <1>7, <2>1, <2>2, <1>still, <1>fail, <1>succeed, <1>keep, <1>continue DEF removeVenv, o
<1>8. CASE Publish(a)
  <2>1. SessStep(o)
    <3>1. CASE sess' = [sess EXCEPT ![o].venv = TRUE]
      <4>1. sess' \in [Owners -> SessTypes] /\ \A p \in Owners : p # o => sess'[p] = sess[p]
        BY <1>s, <1>k, <3>1, SessFields
      <4> QED
        BY <4>1 DEF SessStep
    <3> QED
      BY <1>8, <3>1, <1>still DEF Publish, o
  <2> QED
    BY <1>8, <2>1, <1>still, <1>continue, <1>call DEF Publish, o
<1>9. CASE Start(a)
  <2>1. ProcStep(o)
    BY <1>9, <1>k, <1>still, ProcUpdates DEF Start, o
  <2>2. ActorStep(a)
    <3>1. \A l \in {"request", "ready"}, b \in BOOLEAN :
             Goto(a, l) /\ local' = [local EXCEPT ![a].fresh = b] /\ UNCHANGED failed => ActorStep(a)
      <4> SUFFICES ASSUME NEW l \in {"request", "ready"}, NEW b \in BOOLEAN,
                          Goto(a, l), local' = [local EXCEPT ![a].fresh = b], UNCHANGED failed
                   PROVE  ActorStep(a)
        OBVIOUS
      <4>1. /\ local' \in [Actors -> LocalTypes]
            /\ \A c \in Actors : c # a => local'[c] = local[c]
        BY <1>k DEF ActorTypeOK, LocalTypes
      <4> QED
        BY <1>0, <1>k, <4>1 DEF ActorTypeOK, ActorStep, Goto, Labels
    <3> QED
      BY <1>9, <1>fail, <3>1 DEF Start
  <2> QED
    BY <1>9, <2>1, <2>2, <1>still DEF Start, o
<1>10. CASE Ready(a)
  <2>1. SessStep(o)
    BY <1>10, <1>su, <1>still, <1>force, <1>quarantine DEF Ready, o
  <2> QED
    BY <1>10, <2>1, <1>still, <1>call, <1>continue, <1>force, <1>quarantine, <1>proc, <1>fail DEF Ready, o
<1>11. CASE cancelStartup(a)
    BY <1>11, <1>still, <1>call, <1>force, <1>quarantine, <1>proc, <1>fail DEF cancelStartup, o
<1>12. CASE terminateAndWait(a)
  <2>1. SessStep(o)
    BY <1>12, <1>s, <1>k, <1>still, <1>quarantine, ZenonT(30) DEF terminateAndWait, SessTypes, SessStep, o
  <2> QED
    BY <1>12, <2>1, <1>still, <1>continue, <1>quarantine, <1>proc, <1>fail DEF terminateAndWait, o
<1>13. CASE Request(a) \/ Write(a) \/ Interrupted(a)
    BY <1>13, <1>still, <1>continue, <1>failed DEF Request, Write, Interrupted, worldVars, o
<1>14. CASE Response(a)
  <2>1. SessStep(o)
    BY <1>14, <1>su, <1>still DEF Response, o
  <2>2. ToldStep(o)
    <3>1. [gen |-> sess[o].gen, serial |-> proc[o].serial] \in [gen : Nat, serial : Nat]
      BY <1>s, <1>p, <1>k DEF SessTypes, ProcTypes
    <3> QED
      BY <1>14, <1>t, <1>k, <1>still, <3>1, ZenonT(30) DEF Response, ToldStep, o
  <2> QED
    BY <1>14, <2>1, <2>2, <1>still, <1>failed, <1>succeed DEF Response, o
<1>15. CASE Reset(a)
    BY <1>15, <1>still, <1>continue, <1>proc DEF Reset, o
<1>16. CASE ResetWait(a)
  <2>1. SessStep(o)
    BY <1>16, <1>su, <1>still, <1>quarantine DEF ResetWait, ResetDone, o
  <2>2. ToldStep(o)
    BY <1>16, <1>s, <1>t, <1>k, <1>still, SMTT(30) DEF ResetWait, ResetDone, SessTypes, ToldStep, o
  <2> QED
    BY <1>16, <2>1, <2>2, <1>still, <1>continue, <1>quarantine, <1>proc, <1>fail, <1>succeed
    DEF ResetWait, ResetDone, o
<1> QED
    BY <1>1, <1>2, <1>3, <1>4, <1>5, <1>6, <1>7, <1>8, <1>9, <1>10, <1>11, <1>12, <1>13, <1>14, <1>15,
       <1>16
    DEF HolderStep

\* What the other parts of the invariant need of a holder's step.
HolderEffect(a, o) ==
    /\ OwnerOK(o)' /\ HolderOK(a, o)' /\ LabelOK(a)'
    /\ sess[o].closed => sess'[o].closed
    /\ a \in Closers /\ pc'[a] = "release" => a \in failed' \/ sess'[o].closed
    /\ \/ sess'[o].gen = sess[o].gen
       \/ sess'[o].gen = sess[o].gen + 1 /\ a \in Ops /\ pc'[a] = "release"
    /\ \/ proc'[o].serial = proc[o].serial
       \/ proc'[o].serial = proc[o].serial + 1 /\ a \in Ops /\ pc[a] = "start" /\ pc'[a] = "ready"
    /\ a \in Starters' => a \in Starters

\* A step that leaves the owner's state alone.
LEMMA IdleStep ==
    ASSUME IInv, NEW a \in Actors, NEW o, o = own[a], pc[a] \in Held \ {"release"}, HolderUnchanged,
           UNCHANGED <<worldVars, told>>,
           HolderOK(a, o)', LabelOK(a)',
           a \in Closers /\ pc'[a] = "release" => a \in failed' \/ sess[o].closed,
           a \in Starters' => a \in Starters
    PROVE  HolderEffect(a, o)
<1>1. OwnerOK(o)
    BY HolderKnows
<1>2. OwnerOK(o)'
    BY <1>1 DEF OwnerOK, ResourceOK, ReportOK, NothingLeft, Alive, Recorded, Reported, Unrecorded, HolderUnchanged, mgrVars,
                callVars, worldVars
<1> QED
    BY <1>2 DEF HolderEffect, worldVars

\* The look at the session, for execute, clear and Close.
LEMMA CheckEffect ==
    ASSUME IInv, NEW a \in Actors, NEW o, o = own[a], Check(a)
    PROVE  HolderEffect(a, o)
<1>0. pc[a] = "check" /\ HolderUnchanged /\ UNCHANGED <<env, proc>>
    BY DEF Check
<1>k. /\ o \in Owners /\ o \in sessions /\ WorldTypeOK /\ ActorTypeOK
      /\ OwnerOK(o) /\ HolderOK(a, o) /\ LabelOK(a)
    BY <1>0, HolderKnows DEF Held
<1>a. ActorStep(a)
    BY HolderMoves DEF HolderMove, HolderStep
<1>p. /\ Fail(a) => pc'[a] = "release" /\ (a \in Closers => a \in failed')
      /\ Succeed(a) => pc'[a] = "release" /\ failed' = failed
      /\ \A l \in Held \ {"check"} : Continue(a, l) => pc'[a] = l
      /\ \A l \in Held \ {"check"}, after \in {"invalid"} :
            CallThen(a, l, after) => pc'[a] = l /\ local'[a].after = after
    BY <1>0, <1>k, ActorPieces, ZenonT(30) DEF Held
<1>1. CASE kind[a] = "execute" /\ CheckExecute(a, sess[o]) /\ UNCHANGED <<sess, told>>
  <2>1. a \in Ops
    BY <1>1, <1>k DEF LabelOK, Actors
  <2>2. \/ pc'[a] = "release"
        \/ pc'[a] = "rmdir" /\ local'[a].after = "invalid" /\ ~sess[o].closed /\ ~sess[o].quarantined
        \/ pc'[a] = "ctx" /\ ~sess[o].closed /\ ~sess[o].quarantined
    BY <1>0, <1>1, <1>p DEF CheckExecute, Held
  <2>3. HolderOK(a, o)'
    BY <1>0, <1>1, <2>2, <1>k DEF HolderOK, ProcOwned, EnvOwned, Pending, Reported, Alive, Unrecorded, Making, Removing, Removal,
         Resetting, HolderUnchanged, mgrVars, callVars
  <2>4. LabelOK(a)'
    BY <1>0, <2>1, <2>2, <1>k, ActorsAssumption DEF LabelOK, HolderUnchanged, mgrVars, callVars, Busy, Held
  <2>5. a \in Starters' => a \in Starters
    BY <1>0, <2>1 DEF Starters
  <2> QED
    BY <1>0, <1>1, <2>1, <2>3, <2>4, <2>5, ActorsAssumption, IdleStep DEF Held, worldVars
<1>2. CASE kind[a] = "close" /\ CheckClose(a, sess[o]) /\ UNCHANGED <<sess, told>>
  <2>1. a \in Closers
    BY <1>2, <1>k DEF LabelOK, Actors
  <2>2. \/ pc'[a] = "release" /\ (a \in failed' \/ sess[o].closed)
        \/ pc'[a] = "reset" /\ ~sess[o].closed /\ ~sess[o].quarantined
        \/ pc'[a] = "closeCtx" /\ ~sess[o].closed /\ ~sess[o].quarantined /\ ~sess[o].runner
    BY <1>0, <1>2, <2>1, <1>p DEF CheckClose, Held
  <2>3. HolderOK(a, o)'
    BY <1>0, <1>2, <2>2, <1>k DEF HolderOK, ProcOwned, EnvOwned, Pending, Reported, Alive, Unrecorded,
         Making, Removing, Removal, Resetting, HolderUnchanged, mgrVars, callVars
  <2>4. LabelOK(a)'
    BY <1>0, <2>1, <2>2, <1>k, ActorsAssumption
    DEF LabelOK, HolderUnchanged, mgrVars, callVars, Busy, Held, CloserLabels, Removal
  <2>5. a \in Starters' => a \in Starters
    BY <1>0, <2>1, ActorsAssumption DEF Starters
  <2> QED
    BY <1>0, <1>2, <2>1, <2>2, <2>3, <2>4, <2>5, IdleStep DEF Held, worldVars
<1>3. CASE kind[a] = "clear" /\ CheckClear(a, o, sess[o])
  <2>1. a \in Ops
    BY <1>3, <1>k DEF LabelOK, Actors
  <2>2. CASE Fail(a) /\ UNCHANGED <<sess, told>>
    <3>3. HolderOK(a, o)'
      BY <1>0, <2>2, <1>k, <1>p DEF HolderOK, ProcOwned, EnvOwned, Pending, Reported, Alive, Unrecorded,
           Making, Removing, Removal, Resetting, HolderUnchanged, mgrVars, callVars
    <3>4. LabelOK(a)'
      BY <1>0, <2>1, <2>2, <1>k, <1>p, ActorsAssumption
      DEF LabelOK, HolderUnchanged, mgrVars, callVars, Busy, Held
    <3>5. a \in Starters' => a \in Starters
      BY <1>0, <2>1 DEF Starters
    <3> QED
      BY <1>0, <2>1, <2>2, <3>3, <3>4, <3>5, ActorsAssumption, IdleStep DEF Held, worldVars
  <2>3. CASE /\ ~sess[o].closed /\ ~sess[o].quarantined
             /\ sess' = [sess EXCEPT ![o].pending = FALSE]
             /\ \/ sess[o].runner /\ Goto(a, "reset") /\ UNCHANGED told
                \/ /\ ~sess[o].runner /\ Succeed(a)
                   /\ told' = [told EXCEPT ![o] = [gen |-> sess[o].gen, serial |-> 0]]
    <3>1. /\ ~sess[o].closed /\ ~sess[o].quarantined
          /\ ~sess'[o].closed /\ ~sess'[o].quarantined /\ ~sess'[o].pending
          /\ sess'[o].runner <=> sess[o].runner
          /\ sess'[o].gen = sess[o].gen /\ sess'[o].gen \in Nat
          /\ sess'[o].venv = sess[o].venv /\ sess'[o].invalid = sess[o].invalid
      BY <2>3, <1>k DEF WorldTypeOK, SessTypes
    <3>2. \/ pc'[a] = "reset" /\ sess[o].runner /\ told' = told
          \/ pc'[a] = "release" /\ told'[o].gen = sess[o].gen /\ told'[o].serial = 0
      BY <2>3, <1>k, <1>p DEF WorldTypeOK, Goto, ActorTypeOK
    <3>3. OwnerOK(o)'
      <4>1. ResourceOK(o)'
        BY <1>0, <3>1, <1>k DEF OwnerOK, ResourceOK, NothingLeft, Alive, HolderUnchanged, mgrVars, callVars
      <4>2. ReportOK(o)'
        BY <1>0, <3>1, <3>2, <1>k DEF OwnerOK, ReportOK, Recorded, Reported, Unrecorded, HolderUnchanged,
             mgrVars, callVars
      <4> QED
        BY <4>1, <4>2 DEF OwnerOK
    <3>4. HolderOK(a, o)'
      BY <1>0, <1>3, <3>1, <3>2, <1>k DEF HolderOK, ProcOwned, EnvOwned, Pending, Reported, Alive,
           Unrecorded, Making, Removing, Removal, Resetting, HolderUnchanged, mgrVars, callVars
    <3>5. LabelOK(a)'
      BY <1>0, <2>1, <3>2, <1>k, ActorsAssumption
      DEF LabelOK, HolderUnchanged, mgrVars, callVars, Busy, Held
    <3>6. a \in Starters' => a \in Starters
      BY <1>0, <2>1 DEF Starters
    <3> QED
      BY <1>0, <2>1, <2>3, <3>1, <3>3, <3>4, <3>5, <3>6, ActorsAssumption DEF HolderEffect
  <2> QED
    BY <1>3, <2>2, <2>3 DEF CheckClear
<1> QED
    BY <1>1, <1>2, <1>3 DEF Check

\* A step that leaves alone what reports are about.
SameReport(o) ==
    /\ sess'[o].runner = sess[o].runner /\ sess'[o].gen = sess[o].gen
    /\ sess'[o].quarantined = sess[o].quarantined /\ sess'[o].pending = sess[o].pending
    /\ told'[o] = told[o] /\ proc'[o].serial = proc[o].serial

\* What was reported stays true when only the environment or the process moves.
LEMMA ReportKept ==
    ASSUME NEW o, ReportOK(o), HolderUnchanged, SameReport(o)
    PROVE  /\ ReportOK(o)' /\ (Pending(o) => Pending(o)') /\ (Unrecorded(o) => Unrecorded(o)')
           /\ ~sess[o].quarantined => ~sess'[o].quarantined
           /\ sess[o].runner => sess'[o].runner
           /\ ~sess[o].runner => ~sess'[o].runner
BY DEF ReportOK, SameReport, Recorded, Reported, Unrecorded, Pending, HolderUnchanged, mgrVars

\* The second look at the context.
LEMMA ContextEffect ==
    ASSUME IInv, NEW a \in Actors, NEW o, o = own[a], CheckContext(a)
    PROVE  HolderEffect(a, o)
<1>0. pc[a] \in {"ctx", "closeCtx"} /\ HolderUnchanged /\ UNCHANGED <<worldVars, told>>
    BY DEF CheckContext
<1>k. /\ o \in Owners /\ o \in sessions /\ WorldTypeOK /\ ActorTypeOK
      /\ OwnerOK(o) /\ HolderOK(a, o) /\ LabelOK(a)
    BY <1>0, HolderKnows DEF Held
<1>1. \/ pc'[a] = "release" /\ (a \in Closers => a \in failed')
      \/ pc[a] = "closeCtx" /\ pc'[a] = "rmdir" /\ local'[a].after = "close"
      \/ pc[a] = "ctx" /\ pc'[a] \in {"start", "mkdir"}
    BY <1>0, <1>k, ActorPieces DEF CheckContext, Held
<1>2. HolderOK(a, o)'
    BY <1>0, <1>1, <1>k DEF HolderOK, ProcOwned, EnvOwned, Pending, Reported, Alive, Unrecorded, Making,
         Removing, Removal, Resetting, HolderUnchanged, mgrVars, callVars, worldVars
<1>3. LabelOK(a)'
    BY <1>0, <1>1, <1>k, ActorsAssumption
    DEF LabelOK, HolderUnchanged, mgrVars, callVars, Busy, Held, CloserLabels, Removal
<1>4. a \in Starters' => a \in Starters
    BY <1>0, <1>1, <1>k DEF Starters, LabelOK, Removal
<1> QED
    BY <1>0, <1>1, <1>2, <1>3, <1>4, IdleStep DEF Held

\* The request and its writing, and the interruptions of a reply.
LEMMA RequestEffect ==
    ASSUME IInv, NEW a \in Actors, NEW o, o = own[a],
           Request(a) \/ Write(a) \/ Interrupted(a) \/ (Response(a) /\ UNCHANGED <<sess, told>>)
    PROVE  HolderEffect(a, o)
<1>0. pc[a] \in {"request", "write", "reply"} /\ HolderUnchanged /\ UNCHANGED <<worldVars, told>>
    BY DEF Request, Write, Interrupted, Response, worldVars
<1>k. /\ o \in Owners /\ o \in sessions /\ WorldTypeOK /\ ActorTypeOK
      /\ OwnerOK(o) /\ HolderOK(a, o) /\ LabelOK(a)
    BY <1>0, HolderKnows DEF Held
<1>o. a \in Ops
    BY <1>0, <1>k DEF LabelOK, CloserLabels, Actors
<1>1. \/ pc'[a] = "reset" /\ (~local'[a].invalidate => local[a].fresh)
      \/ pc'[a] \in {"write", "reply"} /\ local' = local
      \/ pc'[a] = "release" /\ Response(a)
    BY <1>0, <1>k, ActorPieces DEF Request, Write, Interrupted, Response, Held
<1>2. HolderOK(a, o)'
    BY <1>0, <1>1, <1>k DEF HolderOK, ProcOwned, EnvOwned, Pending, Reported, Alive, Unrecorded, Making,
         Removing, Removal, Resetting, HolderUnchanged, mgrVars, callVars, worldVars
<1>3. LabelOK(a)'
    BY <1>0, <1>1, <1>k, <1>o, ActorsAssumption DEF LabelOK, HolderUnchanged, mgrVars, callVars, Busy, Held
<1>4. a \in Starters' => a \in Starters
    BY <1>0, <1>1 DEF Starters, Removal
<1> QED
    BY <1>0, <1>1, <1>2, <1>3, <1>4, <1>o, ActorsAssumption, IdleStep DEF Held

\* A result records the generation and the runner it came from.
LEMMA ResponseEffect ==
    ASSUME IInv, NEW a \in Actors, NEW o, o = own[a], Response(a)
    PROVE  HolderEffect(a, o)
<1>0. pc[a] = "reply" /\ HolderUnchanged /\ UNCHANGED <<env, proc>>
    BY DEF Response
<1>k. /\ o \in Owners /\ o \in sessions /\ WorldTypeOK /\ ActorTypeOK
      /\ OwnerOK(o) /\ HolderOK(a, o) /\ LabelOK(a)
    BY <1>0, HolderKnows DEF Held
<1>o. a \in Ops /\ a \notin Closers
    BY <1>0, <1>k, ActorsAssumption DEF LabelOK, CloserLabels, Actors
<1>1. CASE /\ sess' = [sess EXCEPT ![o].pending = FALSE]
           /\ told' = [told EXCEPT ![o] = [gen |-> sess[o].gen, serial |-> proc[o].serial]]
           /\ Succeed(a)
  <2>1. pc'[a] = "release"
    BY <1>0, <1>1, <1>k, ActorPieces DEF Held
  <2>2. /\ sess'[o].closed = sess[o].closed /\ sess'[o].quarantined = sess[o].quarantined
        /\ ~sess'[o].pending
        /\ sess'[o].runner = sess[o].runner
        /\ sess'[o].gen = sess[o].gen /\ sess'[o].gen \in Nat
        /\ sess'[o].venv = sess[o].venv /\ sess'[o].invalid = sess[o].invalid
    BY <1>1, <1>k DEF WorldTypeOK, SessTypes
  <2>3. told'[o].gen = sess[o].gen /\ told'[o].serial = proc[o].serial
    BY <1>1, <1>k DEF WorldTypeOK
  <2>4. ResourceOK(o)'
    BY <1>0, <2>2, <1>k DEF OwnerOK, ResourceOK, NothingLeft, Alive, HolderUnchanged, mgrVars
  <2>5. sess'[o].runner
    BY <1>0, <1>k, <2>2, Zenon DEF HolderOK
  <2>6. ReportOK(o)'
    BY <1>0, <2>2, <2>3, <2>5 DEF ReportOK, Recorded
  <2>7. HolderOK(a, o)'
    BY <1>0, <2>1, <2>2, <2>3, <1>k DEF HolderOK, ProcOwned, EnvOwned, Pending, Reported, Alive,
         Unrecorded, Making, Removing, Removal, Resetting, HolderUnchanged, mgrVars, callVars
  <2>8. LabelOK(a)'
    BY <1>0, <2>1, <1>k, <1>o DEF LabelOK, HolderUnchanged, mgrVars, callVars, Busy, Held
  <2>9. a \notin Starters'
    BY <2>1 DEF Starters, Removal
  <2> QED
    BY <1>0, <1>o, <2>2, <2>4, <2>6, <2>7, <2>8, <2>9 DEF HolderEffect, OwnerOK
<1>2. CASE UNCHANGED <<sess, told>>
    BY <1>2, RequestEffect
<1> QED
    BY <1>1, <1>2 DEF Response

\* The directory, the creator and its verdict.
LEMMA MkdirEffect ==
    ASSUME IInv, NEW a \in Actors, NEW o, o = own[a], Mkdir(a) \/ Creating(a)
    PROVE  HolderEffect(a, o)
<1>0. pc[a] \in {"mkdir", "creating"} /\ HolderUnchanged /\ UNCHANGED <<sess, proc, told>>
    BY DEF Mkdir, Creating
<1>k. /\ o \in Owners /\ o \in sessions /\ WorldTypeOK /\ ActorTypeOK
      /\ OwnerOK(o) /\ HolderOK(a, o) /\ LabelOK(a)
    BY <1>0, HolderKnows DEF Held
<1>o. a \in Ops /\ a \notin Closers
    BY <1>0, <1>k, ActorsAssumption DEF LabelOK, CloserLabels, Actors
<1>c. ~sess[o].closed /\ ~sess[o].quarantined
    BY <1>0, <1>k DEF HolderOK
<1>1. \/ pc[a] = "mkdir" /\ pc'[a] = "release" /\ env' = env
      \/ /\ pc'[a] = "rmdir" /\ local'[a].after = "create"
         /\ env' = [env EXCEPT ![o].dir = TRUE]
      \/ /\ pc'[a] = "creating"
         /\ env' = [env EXCEPT ![o] = [dir |-> TRUE, creator |-> "running", finishing |-> TRUE,
                                       signalErr |-> FALSE]]
      \/ /\ pc'[a] = "finish" /\ local'[a].after \in {"created", "rejected"}
         /\ env' = env \/ env' = [env EXCEPT ![o].signalErr = TRUE]
  <2>1. CASE Mkdir(a)
    BY <2>1, <1>0, <1>k, ActorPieces DEF Mkdir, Held
  <2>2. CASE Creating(a)
    <3>1. \A v \in {"created", "rejected"} :
             CallThen(a, "finish", v) => pc'[a] = "finish" /\ local'[a].after = v
      BY <1>0, <1>k, ActorPieces DEF Held
    <3> QED
      BY <2>2, <3>1 DEF Creating
  <2> QED
    BY <2>1, <2>2
<1>2. \/ pc[a] = "mkdir" /\ pc'[a] = "release"
      \/ pc'[a] = "rmdir" /\ local'[a].after = "create"
      \/ pc'[a] = "creating"
      \/ pc'[a] = "finish" /\ local'[a].after \in {"created", "rejected"}
    BY <1>1
<1>3. \/ env'[o] = env[o]
      \/ env'[o].dir /\ env'[o].creator = env[o].creator /\ env'[o].finishing = env[o].finishing
      \/ env'[o].dir /\ env'[o].creator = "running" /\ env'[o].finishing
      \/ /\ env'[o].dir = env[o].dir /\ env'[o].creator = env[o].creator
         /\ env'[o].finishing = env[o].finishing
    BY <1>1, <1>k DEF WorldTypeOK, EnvTypes
<1>4. ResourceOK(o)'
    BY <1>0, <1>c, <1>3, <1>k DEF OwnerOK, ResourceOK, NothingLeft, Alive, HolderUnchanged, mgrVars
<1>5. ReportOK(o)' /\ (Pending(o) => Pending(o)')
    BY <1>0, <1>k, ReportKept DEF OwnerOK, SameReport
<1>6. pc'[a] = "release" => EnvOwned(o)'
    BY <1>0, <1>1, <1>k DEF HolderOK, EnvOwned, Making, Removal
<1>7. HolderOK(a, o)'
    BY <1>0, <1>2, <1>5, <1>6, <1>k DEF HolderOK, ProcOwned, Alive, Making, Removing, Removal, Resetting
<1>8. LabelOK(a)'
    BY <1>0, <1>2, <1>k, <1>o DEF LabelOK, HolderUnchanged, mgrVars, callVars, Busy, Held
<1>9. a \in Starters' => a \in Starters
    BY <1>0, <1>o DEF Starters
<1> QED
    BY <1>0, <1>o, <1>4, <1>5, <1>7, <1>8, <1>9 DEF HolderEffect, OwnerOK

\* The publication of an environment.
LEMMA PublishEffect ==
    ASSUME IInv, NEW a \in Actors, NEW o, o = own[a], Publish(a)
    PROVE  HolderEffect(a, o)
<1>0. pc[a] = "publish" /\ HolderUnchanged /\ UNCHANGED <<env, proc, told>>
    BY DEF Publish
<1>k. /\ o \in Owners /\ o \in sessions /\ WorldTypeOK /\ ActorTypeOK
      /\ OwnerOK(o) /\ HolderOK(a, o) /\ LabelOK(a)
    BY <1>0, HolderKnows DEF Held
<1>o. a \in Ops /\ a \notin Closers
    BY <1>0, <1>k, ActorsAssumption DEF LabelOK, CloserLabels, Actors
<1>c. ~sess[o].closed /\ ~sess[o].quarantined
    BY <1>0, <1>k DEF HolderOK
<1>1. \/ pc'[a] = "rmdir" /\ local'[a].after = "create" /\ sess' = sess
      \/ pc'[a] = "start" /\ sess' = [sess EXCEPT ![o].venv = TRUE]
    BY <1>0, <1>k, ActorPieces DEF Publish, Held
<1>2. /\ SameReport(o) /\ sess'[o].closed = sess[o].closed
      /\ pc'[a] = "start" => sess'[o].venv
    BY <1>0, <1>1, <1>k DEF WorldTypeOK, SessTypes, SameReport
<1>4. ResourceOK(o)'
    BY <1>0, <1>2, <1>k DEF OwnerOK, ResourceOK, NothingLeft, Alive, HolderUnchanged, mgrVars
<1>5. /\ ReportOK(o)' /\ (Pending(o) => Pending(o)')
      /\ sess[o].runner => sess'[o].runner
      /\ ~sess'[o].quarantined
    BY <1>0, <1>2, <1>c, <1>k, ReportKept DEF OwnerOK
<1>c2. ~sess'[o].closed
    BY <1>c, <1>2
<1>6. pc'[a] = "start" => EnvOwned(o)'
    BY <1>0, <1>2, <1>k DEF HolderOK, EnvOwned
<1>7. HolderOK(a, o)'
    BY <1>0, <1>1, <1>5, <1>c2, <1>6, <1>k DEF HolderOK, ProcOwned, Alive, Making, Removing, Removal,
         Resetting
<1>8. LabelOK(a)'
    BY <1>0, <1>1, <1>k, <1>o DEF LabelOK, HolderUnchanged, mgrVars, callVars, Busy, Held
<1>9. a \in Starters' => a \in Starters
    BY <1>0, <1>o DEF Starters
<1> QED
    BY <1>0, <1>o, <1>2, <1>4, <1>5, <1>7, <1>8, <1>9 DEF HolderEffect, OwnerOK, SameReport

\* Ending the creator keeps a creator that was not waited for with the session.
LEMMA FinishEffect ==
    ASSUME IInv, NEW a \in Actors, NEW o, o = own[a], finish(a) \/ finishWait(a)
    PROVE  HolderEffect(a, o)
<1>0. pc[a] \in {"finish", "finishWait"} /\ HolderUnchanged /\ UNCHANGED <<proc, told>>
    BY DEF finish, finishWait
<1>k. /\ o \in Owners /\ o \in sessions /\ WorldTypeOK /\ ActorTypeOK
      /\ OwnerOK(o) /\ HolderOK(a, o) /\ LabelOK(a)
    BY <1>0, HolderKnows DEF Held
<1>c. ~sess[o].closed /\ ~sess[o].quarantined
    BY <1>0, <1>k DEF HolderOK
<1>1. \/ KeepInvalid(a, o) /\ env' = env
      \/ KeepInvalid(a, o) /\ env' = [env EXCEPT ![o].signalErr = TRUE]
      \/ /\ sess' = sess /\ pc'[a] = "finishWait" /\ local' = local
         /\ env' = [env EXCEPT ![o].creator = IF @ = "running" THEN "dying" ELSE @]
      \/ /\ sess' = sess /\ env' = [env EXCEPT ![o].finishing = FALSE, ![o].creator = "none"]
         /\ \/ pc'[a] = "publish" /\ local[a].after = "created"
            \/ pc'[a] = "rmdir" /\ local[a].after \in {"created", "rejected"} /\ local'[a].after = "create"
            \/ pc'[a] = "rmdir" /\ local' = local
    BY <1>0, <1>k, ActorPieces DEF finish, finishWait, Held
<1>2. \/ /\ KeepInvalid(a, o)
         /\ env'[o].dir = env[o].dir /\ env'[o].creator = env[o].creator
         /\ env'[o].finishing = env[o].finishing
      \/ /\ sess' = sess /\ pc'[a] = "finishWait" /\ local' = local
         /\ env'[o].dir = env[o].dir /\ env'[o].finishing = env[o].finishing
         /\ env'[o].creator # "none" <=> env[o].creator # "none"
      \/ /\ sess' = sess
         /\ env'[o].dir = env[o].dir /\ env'[o].creator = "none" /\ ~env'[o].finishing
         /\ \/ pc'[a] = "publish" /\ local[a].after = "created"
            \/ pc'[a] = "rmdir" /\ local[a].after \in {"created", "rejected"} /\ local'[a].after = "create"
            \/ pc'[a] = "rmdir" /\ local' = local
    BY <1>1, <1>k DEF WorldTypeOK, EnvTypes
<1>keep. KeepInvalid(a, o) =>
            /\ pc'[a] = "release" /\ (a \in Closers => a \in failed') /\ sess'[o].venv
            /\ sess[o].invalid => sess'[o].invalid
            /\ local[a].after # "close" => sess'[o].invalid
            /\ sess'[o].closed = sess[o].closed /\ SameReport(o)
  <2>1. Fail(a) => pc'[a] = "release" /\ (a \in Closers => a \in failed')
    BY <1>0, <1>k, ActorPieces DEF Held
  <2> QED
    BY <1>0, <1>k, <2>1, SessPieces DEF SameReport
<1>3. SameReport(o) /\ sess'[o].closed = sess[o].closed
    BY <1>0, <1>2, <1>keep DEF SameReport
<1>4. ResourceOK(o)'
  <2>1. ~sess'[o].closed
    BY <1>c, <1>3
  <2>2. /\ env'[o].creator # "none" => env'[o].finishing /\ env'[o].dir
        /\ env'[o].finishing => env'[o].creator # "none"
    BY <1>2, <1>k DEF OwnerOK, ResourceOK
  <2> QED
    BY <1>0, <2>1, <2>2, <1>k DEF OwnerOK, ResourceOK, HolderUnchanged, mgrVars
<1>5. /\ ReportOK(o)' /\ (Pending(o) => Pending(o)')
      /\ sess[o].runner => sess'[o].runner
      /\ ~sess'[o].quarantined
    BY <1>0, <1>3, <1>c, <1>k, ReportKept DEF OwnerOK
<1>6. ~Making(a)' => EnvOwned(o)'
  <2>1. CASE KeepInvalid(a, o)
    <3>1. /\ env'[o].dir = env[o].dir /\ env'[o].creator = env[o].creator
          /\ env'[o].finishing = env[o].finishing /\ sess'[o].venv
          /\ sess[o].invalid => sess'[o].invalid
          /\ local[a].after # "close" => sess'[o].invalid
      BY <2>1, <1>2, <1>keep, <1>0
    <3> QED
      BY <1>0, <3>1, <1>k DEF HolderOK, OwnerOK, ResourceOK, EnvOwned, Making, Removal
  <2>2. CASE ~KeepInvalid(a, o)
    BY <1>0, <1>2, <2>2, <1>k DEF HolderOK, EnvOwned, Making, Removal
  <2> QED
    BY <2>1, <2>2
<1>7. HolderOK(a, o)'
  <2>1. ~sess'[o].closed
    BY <1>c, <1>3
  <2>2. ProcOwned(o)'
    BY <1>0, <1>5, <1>k DEF HolderOK, ProcOwned, Alive
  <2>3. Removing(a)' => Removing(a)
    BY <1>0, <1>2, <1>keep DEF Removing, Removal
  <2>4. Removing(a)' => ~Alive(o)'
    BY <1>0, <2>3, <1>k DEF HolderOK, Alive
  <2>5. pc'[a] \in {"release", "finishWait", "publish", "rmdir"}
    BY <1>2, <1>keep
  <2>6. pc'[a] = "publish" => env'[o].creator = "none"
    BY <1>2, <1>keep
  <2>7. Pending(o)'
    BY <1>0, <1>5, <1>k DEF HolderOK, Resetting
  <2> QED
    BY <2>1, <2>2, <2>4, <2>5, <2>6, <2>7, <1>5, <1>6 DEF HolderOK, Resetting
<1>8. LabelOK(a)'
    BY <1>0, <1>2, <1>keep, <1>k, ActorsAssumption
    DEF LabelOK, HolderUnchanged, mgrVars, callVars, Busy, Held, CloserLabels, Removal
<1>9. a \in Starters' => a \in Starters
    BY <1>0, <1>2, <1>keep DEF Starters, Removal
<1>10. pc'[a] = "release" => KeepInvalid(a, o)
    BY <1>2
<1> QED
    BY <1>0, <1>3, <1>4, <1>5, <1>7, <1>8, <1>9, <1>10, <1>keep DEF HolderEffect, OwnerOK, SameReport

\* removeVenv: a directory is dropped only when it was removed.
LEMMA RemoveEffect ==
    ASSUME IInv, NEW a \in Actors, NEW o, o = own[a], removeVenv(a)
    PROVE  HolderEffect(a, o)
<1>0. pc[a] = "rmdir" /\ HolderUnchanged /\ UNCHANGED <<proc, told>>
    BY DEF removeVenv
<1>k. /\ o \in Owners /\ o \in sessions /\ WorldTypeOK /\ ActorTypeOK
      /\ OwnerOK(o) /\ HolderOK(a, o) /\ LabelOK(a)
    BY <1>0, HolderKnows DEF Held
<1>c. ~sess[o].closed /\ ~sess[o].quarantined
    BY <1>0, <1>k DEF HolderOK
<1>p. /\ Fail(a) => pc'[a] = "release" /\ (a \in Closers => a \in failed')
      /\ Succeed(a) => pc'[a] = "release"
      /\ Continue(a, "ctx") => pc'[a] = "ctx"
      /\ Continue(a, "finish") => pc'[a] = "finish" /\ local' = local
    BY <1>0, <1>k, ActorPieces DEF Held
<1>1. CASE Continue(a, "finish") /\ UNCHANGED <<sess, env>>
  <2>1. pc'[a] = "finish" /\ local' = local
    BY <1>1, <1>p
  <2>2. HolderOK(a, o)'
    BY <1>0, <1>1, <2>1, <1>k DEF HolderOK, ProcOwned, EnvOwned, Pending, Reported, Alive, Unrecorded,
         Making, Removing, Removal, Resetting, HolderUnchanged, mgrVars, callVars
  <2>3. LabelOK(a)'
    BY <1>0, <2>1, <1>k, ActorsAssumption
    DEF LabelOK, HolderUnchanged, mgrVars, callVars, Busy, Held, CloserLabels, Removal
  <2>4. a \in Starters' => a \in Starters
    BY <1>0, <2>1 DEF Starters, Removal
  <2> QED
    BY <1>0, <1>1, <2>1, <2>2, <2>3, <2>4, IdleStep DEF Held, worldVars
<1>2. CASE ~env[o].finishing /\ KeepInvalid(a, o) /\ UNCHANGED env
  <2>1. /\ pc'[a] = "release" /\ (a \in Closers => a \in failed') /\ sess'[o].venv
        /\ sess'[o].closed = sess[o].closed /\ SameReport(o)
    BY <1>0, <1>2, <1>k, <1>p, SessPieces DEF SameReport
  <2>2. ResourceOK(o)'
    BY <1>0, <1>2, <2>1, <1>c, <1>k DEF OwnerOK, ResourceOK, NothingLeft, Alive, HolderUnchanged, mgrVars
  <2>3. /\ ReportOK(o)' /\ (Pending(o) => Pending(o)')
        /\ sess[o].runner => sess'[o].runner
    BY <1>0, <2>1, <1>k, ReportKept DEF OwnerOK
  <2>4. EnvOwned(o)'
    BY <1>2, <2>1, <1>k DEF OwnerOK, ResourceOK, EnvOwned
  <2>5. HolderOK(a, o)'
    BY <1>0, <2>1, <2>3, <2>4, <1>k DEF HolderOK, ProcOwned, Alive, Removing, Removal, Resetting
  <2>6. LabelOK(a)'
    BY <1>0, <2>1, <1>k, ActorsAssumption
    DEF LabelOK, HolderUnchanged, mgrVars, callVars, Busy, Held, CloserLabels, Removal
  <2>7. a \notin Starters'
    BY <2>1 DEF Starters, Removal
  <2> QED
    BY <1>0, <2>1, <2>2, <2>3, <2>5, <2>6, <2>7 DEF HolderEffect, OwnerOK, SameReport
<1>3. CASE /\ ~env[o].finishing /\ env' = [env EXCEPT ![o].dir = FALSE]
           /\ sess' = [sess EXCEPT ![o].venv = FALSE, ![o].invalid = FALSE,
                                   ![o].closed = local[a].after = "close"]
           /\ IF local[a].after = "close" THEN Succeed(a)
              ELSE IF local[a].after = "invalid" THEN Continue(a, "ctx") ELSE Fail(a)
  <2>1. \/ local[a].after = "close" /\ pc'[a] = "release"
        \/ local[a].after = "invalid" /\ pc'[a] = "ctx"
        \/ local[a].after # "close" /\ pc'[a] = "release" /\ (a \in Closers => a \in failed')
    BY <1>3, <1>p
  <2>2. ~env'[o].dir /\ env'[o].creator = "none" /\ ~env'[o].finishing
    BY <1>3, <1>k DEF WorldTypeOK, EnvTypes, OwnerOK, ResourceOK
  <2>3. SameReport(o)
    BY <1>0, <1>3, <1>k DEF WorldTypeOK, SessTypes, SameReport
  <2>4. sess'[o].closed <=> local[a].after = "close"
    <3> DEFINE c == local[a].after = "close"
    <3>1. c \in BOOLEAN
      BY Zenon
    <3>2. \A b \in BOOLEAN :
             [sess EXCEPT ![o].venv = FALSE, ![o].invalid = FALSE, ![o].closed = b][o].closed = b
      BY <1>k DEF WorldTypeOK, SessTypes
    <3>3. sess'[o].closed = c
      BY <1>3, <3>1, <3>2, Zenon
    <3> QED
      BY <3>3, Zenon
  <2>5. sess'[o].closed => ~Alive(o)'
    BY <1>0, <2>4, <1>k DEF HolderOK, Removing, Removal, Alive
  <2>6. ResourceOK(o)'
    BY <1>0, <2>2, <2>5, <1>k DEF OwnerOK, ResourceOK, NothingLeft, HolderUnchanged, mgrVars
  <2>7. /\ ReportOK(o)' /\ (Pending(o) => Pending(o)')
        /\ sess[o].runner => sess'[o].runner
        /\ ~sess'[o].quarantined
    BY <1>0, <1>c, <2>3, <1>k, ReportKept DEF OwnerOK
  <2>8. HolderOK(a, o)'
    <3>1. pc'[a] = "ctx" => ~sess'[o].closed
      BY <2>1, <2>4
    <3> QED
      BY <1>0, <2>1, <2>2, <2>7, <3>1, <1>k
      DEF HolderOK, ProcOwned, EnvOwned, Alive, Removing, Removal, Resetting
  <2>9. LabelOK(a)'
    BY <1>0, <2>1, <1>k, ActorsAssumption
    DEF LabelOK, HolderUnchanged, mgrVars, callVars, Busy, Held, CloserLabels, Removal
  <2>10. a \in Starters' => a \in Starters
    BY <1>0, <2>1 DEF Starters, Removal
  <2> QED
    BY <1>0, <1>c, <2>1, <2>3, <2>4, <2>6, <2>7, <2>8, <2>9, <2>10 DEF HolderEffect, OwnerOK, SameReport
<1> QED
    BY <1>1, <1>2, <1>3 DEF removeVenv

\* A start finds no live process of the owner.
LEMMA StartEffect ==
    ASSUME IInv, NEW a \in Actors, NEW o, o = own[a], Start(a)
    PROVE  HolderEffect(a, o)
<1>0. pc[a] = "start" /\ HolderUnchanged /\ UNCHANGED <<sess, env, told>>
    BY DEF Start
<1>k. /\ o \in Owners /\ o \in sessions /\ WorldTypeOK /\ ActorTypeOK
      /\ OwnerOK(o) /\ HolderOK(a, o) /\ LabelOK(a)
    BY <1>0, HolderKnows DEF Held
<1>o. a \in Ops /\ a \notin Closers
    BY <1>0, <1>k, ActorsAssumption DEF LabelOK, CloserLabels, Actors
<1>c. ~sess[o].closed /\ ~sess[o].quarantined
    BY <1>0, <1>k DEF HolderOK
<1>1. CASE \/ /\ sess[o].runner
              /\ Goto(a, "request") /\ local' = [local EXCEPT ![a].fresh = FALSE]
              /\ UNCHANGED <<failed, proc>>
           \/ Fail(a) /\ UNCHANGED proc
  <2>1. \/ sess[o].runner /\ pc'[a] = "request" /\ ~local'[a].fresh
        \/ pc'[a] = "release"
    <3>1. CASE Fail(a)
      BY <1>0, <1>k, <3>1, ActorPieces DEF Held
    <3>2. CASE sess[o].runner /\ Goto(a, "request") /\ local' = [local EXCEPT ![a].fresh = FALSE]
      BY <1>k, <3>2 DEF Goto, ActorTypeOK, LocalTypes
    <3> QED
      BY <1>1, <3>1, <3>2
  <2>2. HolderOK(a, o)'
    BY <1>0, <1>1, <2>1, <1>k DEF HolderOK, ProcOwned, EnvOwned, Pending, Reported, Alive, Unrecorded,
         Making, Removing, Removal, Resetting, HolderUnchanged, mgrVars, callVars
  <2>3. LabelOK(a)'
    BY <1>0, <2>1, <1>k, <1>o DEF LabelOK, HolderUnchanged, mgrVars, callVars, Busy, Held
  <2>4. a \notin Starters'
    BY <2>1 DEF Starters, Removal
  <2> QED
    BY <1>0, <1>1, <1>o, <2>2, <2>3, <2>4, IdleStep DEF Held, worldVars
<1>2. CASE /\ ~sess[o].runner
           /\ proc' = [proc EXCEPT ![o] = [noProcess EXCEPT !.sup = "up", !.child = TRUE,
                                                            !.serial = proc[o].serial + 1]]
           /\ Goto(a, "ready")
  <2>1. pc'[a] = "ready"
    BY <1>2, <1>k DEF Goto, ActorTypeOK
  <2>2. /\ proc'[o].serial = proc[o].serial + 1 /\ proc'[o].term = "none" /\ proc'[o].status = "none"
    BY <1>2, <1>k, ProcUpdates
  <2>3. ResourceOK(o)'
    BY <1>0, <1>c, <2>2, <1>k DEF OwnerOK, ResourceOK, HolderUnchanged, mgrVars
  <2>4. ReportOK(o)'
    BY <1>0, <1>2, <1>k DEF OwnerOK, ReportOK, Recorded, Reported, Unrecorded, HolderUnchanged, mgrVars
  <2>5. HolderOK(a, o)'
    BY <1>0, <1>2, <2>1, <1>k DEF HolderOK, EnvOwned, Pending, Reported, Making, Removing, Removal,
         Resetting, HolderUnchanged, mgrVars
  <2>6. LabelOK(a)'
    BY <1>0, <2>1, <1>k, <1>o DEF LabelOK, HolderUnchanged, mgrVars, callVars, Busy, Held
  <2>7. a \notin Starters'
    BY <2>1 DEF Starters, Removal
  <2> QED
    BY <1>0, <1>o, <2>1, <2>2, <2>3, <2>4, <2>5, <2>6, <2>7 DEF HolderEffect, OwnerOK
<1> QED
    BY <1>1, <1>2 DEF Start

\* An owner that is quarantined keeps whatever its process has become.
LEMMA QuarantineEffect ==
    ASSUME IInv, NEW a \in Actors, NEW o, o = own[a], HolderUnchanged, Quarantine(a, o),
           pc[a] \in Held \ {"check", "release"}, ~Making(a), UNCHANGED <<env, told>>,
           \/ UNCHANGED proc
           \/ /\ proc'[o].sup = proc[o].sup \/ proc'[o].sup = "exited"
              /\ proc'[o].child = proc[o].child /\ proc'[o].serial = proc[o].serial
              /\ proc'[o].term = proc[o].term /\ proc'[o].termErr = proc[o].termErr
              /\ proc'[o].status = proc[o].status
    PROVE  HolderEffect(a, o)
<1>k. /\ o \in Owners /\ o \in sessions /\ WorldTypeOK /\ ActorTypeOK
      /\ OwnerOK(o) /\ HolderOK(a, o) /\ LabelOK(a)
    BY HolderKnows DEF Held
<1>c. ~sess[o].closed
    BY <1>k DEF HolderOK
<1>1. /\ Fail(a) /\ sess'[o].runner /\ sess'[o].quarantined
      /\ sess'[o].venv = sess[o].venv /\ sess'[o].invalid = sess[o].invalid
      /\ sess'[o].gen = sess[o].gen /\ sess'[o].closed = sess[o].closed
    BY <1>k, SessPieces
<1>2. pc'[a] = "release" /\ (a \in Closers => a \in failed')
    BY <1>1, <1>k, ActorPieces
<1>3. /\ proc'[o].sup = proc[o].sup \/ proc'[o].sup = "exited"
      /\ proc'[o].child = proc[o].child /\ proc'[o].serial = proc[o].serial
      /\ proc'[o].term = proc[o].term /\ proc'[o].termErr = proc[o].termErr
      /\ proc'[o].status = proc[o].status
    OBVIOUS
<1>4. ResourceOK(o)'
    BY <1>1, <1>3, <1>c, <1>k DEF OwnerOK, ResourceOK, HolderUnchanged, mgrVars
<1>5. ReportOK(o)' /\ Pending(o)'
  <2>1. Reported(o)'
    BY <1>1 DEF Reported
  <2> QED
    BY <2>1, <1>1, <1>k DEF OwnerOK, ReportOK, Recorded, Pending
<1>6. EnvOwned(o)'
    BY <1>1, <1>k DEF HolderOK, EnvOwned
<1>7. HolderOK(a, o)'
    BY <1>1, <1>2, <1>5, <1>6 DEF HolderOK, ProcOwned, Removing, Removal, Resetting
<1>8. LabelOK(a)'
    BY <1>2, <1>k DEF LabelOK, HolderUnchanged, mgrVars, callVars, Busy, Held, CloserLabels, Removal
<1>9. a \notin Starters'
    BY <1>2 DEF Starters, Removal
<1> QED
    BY <1>1, <1>2, <1>3, <1>4, <1>5, <1>7, <1>8, <1>9 DEF HolderEffect, OwnerOK

\* A termination is asked for.
LEMMA TerminateEffect ==
    ASSUME IInv, NEW a \in Actors, NEW o, o = own[a], HolderUnchanged, terminate(o),
           UNCHANGED <<sess, env, told>>,
           \/ pc[a] \in {"ready", "cancelStart"} /\ pc'[a] = "startWait"
           \/ pc[a] = "reset" /\ pc'[a] = "resetWait" /\ local' = local
    PROVE  HolderEffect(a, o)
<1>k. /\ o \in Owners /\ o \in sessions /\ WorldTypeOK /\ ActorTypeOK
      /\ OwnerOK(o) /\ HolderOK(a, o) /\ LabelOK(a)
    BY HolderKnows DEF Held
<1>c. ~sess[o].closed
    BY <1>k DEF HolderOK
<1>1. /\ proc'[o].sup = proc[o].sup /\ proc'[o].child = proc[o].child
      /\ proc'[o].serial = proc[o].serial /\ proc'[o].status = proc[o].status
      /\ proc'[o].termErr = proc[o].termErr
      /\ proc'[o].term = proc[o].term \/ proc'[o].term = "signal"
    BY <1>k, ProcPieces
<1>2. ResourceOK(o)'
    BY <1>1, <1>c, <1>k DEF OwnerOK, ResourceOK, HolderUnchanged, mgrVars
<1>3. ReportOK(o)' /\ (Pending(o) => Pending(o)') /\ (Unrecorded(o) => Unrecorded(o)')
    BY <1>1, <1>k, ReportKept DEF OwnerOK, SameReport
<1>4. HolderOK(a, o)'
  <2>1. Alive(o)' <=> Alive(o)
    BY <1>1 DEF Alive
  <2>2. EnvOwned(o)' <=> EnvOwned(o)
    BY DEF EnvOwned
  <2> QED
    BY <1>3, <2>1, <2>2, <1>k DEF HolderOK, ProcOwned, Making, Removing, Removal, Resetting,
         HolderUnchanged, mgrVars, callVars
<1>5. LabelOK(a)'
    BY <1>k, ActorsAssumption
    DEF LabelOK, HolderUnchanged, mgrVars, callVars, Busy, Held, CloserLabels, Removal
<1>6. a \notin Starters'
    BY DEF Starters, Removal
<1> QED
    BY <1>1, <1>2, <1>3, <1>4, <1>5, <1>6 DEF HolderEffect, OwnerOK

\* Readiness, the cancellation of a start, and a forced stop.
LEMMA ReadyEffect ==
    ASSUME IInv, NEW a \in Actors, NEW o, o = own[a], Ready(a) \/ cancelStartup(a)
    PROVE  HolderEffect(a, o)
<1>0. pc[a] \in {"ready", "cancelStart"} /\ HolderUnchanged /\ UNCHANGED <<env, told>>
    BY DEF Ready, cancelStartup
<1>k. /\ o \in Owners /\ o \in sessions /\ WorldTypeOK /\ ActorTypeOK
      /\ OwnerOK(o) /\ HolderOK(a, o) /\ LabelOK(a)
    BY <1>0, HolderKnows DEF Held
<1>o. a \in Ops /\ a \notin Closers
    BY <1>0, <1>k, ActorsAssumption DEF LabelOK, CloserLabels, Actors
<1>m. ~Making(a) /\ ~sess[o].closed /\ ~sess[o].quarantined /\ ~sess[o].runner
    BY <1>0, <1>k DEF Making, Removal, HolderOK
<1>1. CASE terminate(o) /\ UNCHANGED sess /\ \E after \in {"integrity", "ctx"} : CallThen(a, "startWait", after)
  <2>1. pc'[a] = "startWait"
    <3>1. \A after \in {"integrity", "ctx"} : CallThen(a, "startWait", after) => pc'[a] = "startWait"
      BY <1>0, <1>k, ActorPieces DEF Held
    <3> QED
      BY <1>1, <3>1
  <2> QED
    BY <1>0, <1>1, <2>1, TerminateEffect
<1>2. CASE forceSupervisorStop(a, o)
  <2>1. /\ Quarantine(a, o)
        /\ proc'[o].sup = proc[o].sup \/ proc'[o].sup = "exited"
        /\ proc'[o].child = proc[o].child /\ proc'[o].serial = proc[o].serial
        /\ proc'[o].term = proc[o].term /\ proc'[o].termErr = proc[o].termErr
        /\ proc'[o].status = proc[o].status
    BY <1>2, <1>k, ForcePiece
  <2> QED
    BY <1>0, <1>m, <2>1, QuarantineEffect DEF Held
<1>3. CASE Continue(a, "cancelStart") /\ UNCHANGED <<sess, proc>>
  <2>1. pc'[a] = "cancelStart"
    BY <1>0, <1>3, <1>k, ActorPieces DEF Held
  <2>2. HolderOK(a, o)'
    BY <1>0, <1>3, <2>1, <1>k DEF HolderOK, EnvOwned, Pending, Reported, Making, Removing, Removal,
         Resetting, HolderUnchanged, mgrVars
  <2>3. LabelOK(a)'
    BY <1>0, <2>1, <1>k, <1>o DEF LabelOK, HolderUnchanged, mgrVars, callVars, Busy, Held
  <2>4. a \notin Starters'
    BY <2>1 DEF Starters, Removal
  <2> QED
    BY <1>0, <1>3, <1>o, <2>2, <2>3, <2>4, IdleStep DEF Held, worldVars
<1>4. CASE sess' = [sess EXCEPT ![o].runner = TRUE] /\ Continue(a, "request") /\ UNCHANGED proc
  <2>1. pc'[a] = "request"
    BY <1>0, <1>4, <1>k, ActorPieces DEF Held
  <2>2. /\ sess'[o].runner /\ ~sess'[o].closed /\ ~sess'[o].quarantined
        /\ sess'[o].gen = sess[o].gen /\ sess'[o].pending = sess[o].pending
        /\ sess'[o].venv = sess[o].venv /\ sess'[o].invalid = sess[o].invalid
    BY <1>4, <1>k, <1>m DEF WorldTypeOK, SessTypes
  <2>3. ResourceOK(o)'
    BY <1>0, <1>4, <2>2, <1>k DEF OwnerOK, ResourceOK, HolderUnchanged, mgrVars
  <2>4. ReportOK(o)'
    BY <1>0, <1>4, <2>2, <1>m, <1>k
    DEF OwnerOK, ReportOK, Recorded, Reported, Unrecorded, HolderUnchanged, mgrVars
  <2>5. o \notin lifeDone => Unrecorded(o)'
    BY <1>0, <2>2, <1>m, <1>k DEF OwnerOK, ReportOK, Recorded, Reported, Unrecorded
  <2>6. Pending(o)' /\ EnvOwned(o)'
    BY <1>0, <2>2, <1>m, <1>k
    DEF HolderOK, Pending, Reported, EnvOwned, Making, Removal, Resetting, HolderUnchanged, mgrVars
  <2>7. HolderOK(a, o)'
    BY <1>0, <2>1, <2>2, <2>5, <2>6
    DEF HolderOK, ProcOwned, Removing, Removal, Resetting, HolderUnchanged, mgrVars
  <2>8. LabelOK(a)'
    BY <1>0, <2>1, <1>k, <1>o DEF LabelOK, HolderUnchanged, mgrVars, callVars, Busy, Held
  <2>9. a \notin Starters'
    BY <2>1 DEF Starters, Removal
  <2> QED
    BY <1>0, <1>4, <1>o, <1>m, <2>2, <2>3, <2>4, <2>7, <2>8, <2>9 DEF HolderEffect, OwnerOK
<1> QED
    BY <1>1, <1>2, <1>3, <1>4 DEF Ready, cancelStartup

\* The session drops a process whose termination is complete: nothing of it lives.
LEMMA DropEffect ==
    ASSUME IInv, NEW a \in Actors, NEW o, o = own[a], HolderUnchanged, pc[a] \in Held \ {"check", "release"},
           dropProcess(o), proc[o].term = "done", ~proc[o].termErr, UNCHANGED env,
           sess'[o].closed = sess[o].closed
    PROVE  /\ ~Alive(o) /\ ~Alive(o)' /\ proc'[o].serial = proc[o].serial
           /\ ResourceOK(o)' /\ ~sess'[o].closed
<1>k. o \in Owners /\ o \in sessions /\ WorldTypeOK /\ OwnerOK(o) /\ HolderOK(a, o)
    BY HolderKnows DEF Held
<1>1. /\ proc'[o].sup = proc[o].sup /\ proc'[o].child = proc[o].child
      /\ proc'[o].serial = proc[o].serial /\ proc'[o].term = "none" /\ proc'[o].status = "none"
    BY <1>k, ProcPieces
<1>2. ~Alive(o) /\ ~Alive(o)'
    BY <1>1, <1>k DEF OwnerOK, ResourceOK, Alive
<1>3. ~sess'[o].closed
    BY <1>k DEF HolderOK
<1> QED
    BY <1>1, <1>2, <1>3, <1>k DEF OwnerOK, ResourceOK, HolderUnchanged, mgrVars

\* The wait for the termination of a start that failed.
LEMMA StartWaitEffect ==
    ASSUME IInv, NEW a \in Actors, NEW o, o = own[a], terminateAndWait(a)
    PROVE  HolderEffect(a, o)
<1>0. pc[a] = "startWait" /\ HolderUnchanged /\ UNCHANGED <<env, told>>
    BY DEF terminateAndWait
<1>k. /\ o \in Owners /\ o \in sessions /\ WorldTypeOK /\ ActorTypeOK
      /\ OwnerOK(o) /\ HolderOK(a, o) /\ LabelOK(a)
    BY <1>0, HolderKnows DEF Held
<1>o. a \in Ops /\ a \notin Closers
    BY <1>0, <1>k, ActorsAssumption DEF LabelOK, CloserLabels, Actors
<1>m. ~Making(a)
    BY <1>0 DEF Making, Removal
<1>1. CASE Quarantine(a, o) /\ UNCHANGED proc
    BY <1>0, <1>1, <1>m, QuarantineEffect DEF Held
<1>2. CASE /\ proc[o].term = "done" /\ ~proc[o].termErr /\ dropProcess(o)
           /\ \/ /\ local[a].after = "integrity"
                 /\ sess' = [sess EXCEPT ![o].invalid = TRUE] /\ Continue(a, "rmdir")
              \/ Fail(a) /\ UNCHANGED sess
  <2>1. \/ pc'[a] = "rmdir" /\ local[a].after = "integrity" /\ local' = local
        \/ pc'[a] = "release" /\ sess' = sess
    BY <1>0, <1>2, <1>k, ActorPieces DEF Held
  <2>2. /\ sess'[o].closed = sess[o].closed /\ sess'[o].runner = sess[o].runner
        /\ sess'[o].gen = sess[o].gen /\ sess'[o].quarantined = sess[o].quarantined
        /\ sess'[o].pending = sess[o].pending
    BY <1>2, <1>k DEF WorldTypeOK, SessTypes
  <2>3. /\ ~Alive(o)' /\ proc'[o].serial = proc[o].serial /\ ResourceOK(o)' /\ ~sess'[o].closed
    BY <1>0, <1>2, <2>2, DropEffect DEF Held
  <2>4. SameReport(o)
    BY <1>0, <2>2, <2>3 DEF SameReport
  <2>5. /\ ReportOK(o)' /\ (Pending(o) => Pending(o)')
        /\ ~sess[o].quarantined => ~sess'[o].quarantined
    BY <1>0, <2>4, <1>k, ReportKept DEF OwnerOK
  <2>6. pc'[a] = "release" => EnvOwned(o)'
    BY <1>0, <2>1, <1>m, <1>k DEF HolderOK, EnvOwned
  <2>7. HolderOK(a, o)'
    BY <1>0, <2>1, <2>3, <2>5, <2>6, <1>k
    DEF HolderOK, ProcOwned, Making, Removing, Removal, Resetting
  <2>8. LabelOK(a)'
    BY <1>0, <2>1, <1>k, <1>o DEF LabelOK, HolderUnchanged, mgrVars, callVars, Busy, Held
  <2>9. a \notin Starters'
    BY <2>1 DEF Starters, Removal
  <2> QED
    BY <1>0, <1>o, <2>2, <2>3, <2>5, <2>7, <2>8, <2>9 DEF HolderEffect, OwnerOK
<1> QED
    BY <1>1, <1>2 DEF terminateAndWait

\* resetRunner: the runner is dropped only after a termination without error.
LEMMA ResetEffect ==
    ASSUME IInv, NEW a \in Actors, NEW o, o = own[a], Reset(a) \/ ResetWait(a)
    PROVE  HolderEffect(a, o)
<1>0. pc[a] \in {"reset", "resetWait"} /\ HolderUnchanged /\ UNCHANGED env
    BY DEF Reset, ResetWait
<1>k. /\ o \in Owners /\ o \in sessions /\ WorldTypeOK /\ ActorTypeOK
      /\ OwnerOK(o) /\ HolderOK(a, o) /\ LabelOK(a)
    BY <1>0, HolderKnows DEF Held
<1>m. ~Making(a) /\ ~sess[o].closed /\ ~sess[o].quarantined /\ EnvOwned(o)
    BY <1>0, <1>k DEF Making, Removal, HolderOK
<1>p. /\ Fail(a) => pc'[a] = "release" /\ (a \in Closers => a \in failed')
      /\ Succeed(a) => pc'[a] = "release"
      /\ Continue(a, "closeCtx") => pc'[a] = "closeCtx"
      /\ Continue(a, "resetWait") => pc'[a] = "resetWait" /\ local' = local
    BY <1>0, <1>k, ActorPieces DEF Held
<1>1. CASE Reset(a)
    BY <1>1, <1>p, TerminateEffect DEF Reset
<1>2. CASE Quarantine(a, o) /\ UNCHANGED <<proc, told>>
    BY <1>0, <1>2, <1>m, QuarantineEffect DEF Held
<1>3. CASE kind[a] = "close" /\ Fail(a) /\ UNCHANGED <<sess, proc, told>>
  <2>1. pc'[a] = "release" /\ (a \in Closers => a \in failed')
    BY <1>3, <1>p
  <2>2. HolderOK(a, o)'
    BY <1>0, <1>3, <2>1, <1>m, <1>k DEF HolderOK, ProcOwned, Alive, EnvOwned, Pending, Reported, Making,
         Removing, Removal, Resetting, HolderUnchanged, mgrVars
  <2>3. LabelOK(a)'
    BY <1>0, <2>1, <1>k DEF LabelOK, HolderUnchanged, mgrVars, callVars, Busy, Held, CloserLabels, Removal
  <2>4. a \notin Starters'
    BY <2>1 DEF Starters, Removal
  <2> QED
    BY <1>0, <1>3, <2>1, <2>2, <2>3, <2>4, IdleStep DEF Held, worldVars
<1>4. ASSUME proc[o].term = "done", ~proc[o].termErr, dropProcess(o),
             \/ /\ kind[a] = "execute" /\ Fail(a) /\ UNCHANGED told
                /\ \/ /\ local[a].invalidate
                      /\ sess' = [sess EXCEPT ![o].runner = FALSE, ![o].gen = @ + 1, ![o].pending = TRUE]
                   \/ ~local[a].invalidate /\ sess' = [sess EXCEPT ![o].runner = FALSE]
             \/ /\ kind[a] = "clear" /\ Succeed(a)
                /\ sess' = [sess EXCEPT ![o].runner = FALSE, ![o].gen = @ + 1, ![o].pending = FALSE]
                /\ told' = [told EXCEPT ![o] = [gen |-> sess[o].gen + 1, serial |-> 0]]
             \/ /\ kind[a] = "close" /\ Continue(a, "closeCtx") /\ UNCHANGED told
                /\ sess' = [sess EXCEPT ![o].runner = FALSE]
      PROVE  HolderEffect(a, o)
  <2>0. sess \in [Owners -> SessTypes] /\ told \in [Owners -> [gen : Nat, serial : Nat]]
    BY <1>k DEF WorldTypeOK
  <2>1. /\ ~sess'[o].runner
        /\ sess'[o].closed = sess[o].closed /\ sess'[o].quarantined = sess[o].quarantined
        /\ sess'[o].venv = sess[o].venv /\ sess'[o].invalid = sess[o].invalid
    <3>1. CASE sess' = [sess EXCEPT ![o].runner = FALSE]
      BY <2>0, <3>1, <1>k DEF SessTypes
    <3>2. CASE sess' = [sess EXCEPT ![o].runner = FALSE, ![o].gen = @ + 1, ![o].pending = TRUE]
      BY <2>0, <3>2, <1>k DEF SessTypes
    <3>3. CASE sess' = [sess EXCEPT ![o].runner = FALSE, ![o].gen = @ + 1, ![o].pending = FALSE]
      BY <2>0, <3>3, <1>k DEF SessTypes
    <3> QED
      BY <1>4, <3>1, <3>2, <3>3
  <2>2. /\ ~Alive(o)' /\ proc'[o].serial = proc[o].serial /\ ResourceOK(o)' /\ ~sess'[o].closed
    BY <1>0, <1>4, <2>1, DropEffect DEF Held
  <2>3. /\ sess[o].gen \in Nat /\ told[o].gen \in Nat
        /\ \/ /\ kind[a] = "execute" /\ pc'[a] = "release" /\ told' = told
              /\ \/ sess'[o].gen = sess[o].gen + 1 /\ sess'[o].pending
                 \/ /\ ~local[a].invalidate /\ sess'[o].gen = sess[o].gen
                    /\ sess'[o].pending = sess[o].pending
           \/ /\ kind[a] = "clear" /\ pc'[a] = "release" /\ told'[o].gen = sess[o].gen + 1
              /\ told'[o].serial = 0 /\ sess'[o].gen = sess[o].gen + 1 /\ ~sess'[o].pending
           \/ /\ kind[a] = "close" /\ pc'[a] = "closeCtx" /\ told' = told
              /\ sess'[o].gen = sess[o].gen /\ sess'[o].pending = sess[o].pending
    <3>1. sess[o].gen \in Nat /\ told[o].gen \in Nat
      BY <2>0, <1>k DEF SessTypes
    <3>2. sess' = [sess EXCEPT ![o].runner = FALSE] =>
             sess'[o].gen = sess[o].gen /\ sess'[o].pending = sess[o].pending
      BY <2>0, <1>k DEF SessTypes
    <3>3. sess' = [sess EXCEPT ![o].runner = FALSE, ![o].gen = @ + 1, ![o].pending = TRUE] =>
             sess'[o].gen = sess[o].gen + 1 /\ sess'[o].pending
      BY <2>0, <1>k DEF SessTypes
    <3>4. sess' = [sess EXCEPT ![o].runner = FALSE, ![o].gen = @ + 1, ![o].pending = FALSE] =>
             sess'[o].gen = sess[o].gen + 1 /\ ~sess'[o].pending
      BY <2>0, <1>k DEF SessTypes
    <3>5. told' = [told EXCEPT ![o] = [gen |-> sess[o].gen + 1, serial |-> 0]] =>
             told'[o].gen = sess[o].gen + 1 /\ told'[o].serial = 0
      BY <2>0, <1>k
    <3> QED
      BY <1>4, <1>p, <3>1, <3>2, <3>3, <3>4, <3>5
  <2>4. ~sess'[o].quarantined
    BY <2>1, <1>m
  <2>5. ReportOK(o)' /\ Pending(o)'
    <3>1. kind[a] = "close" => Reported(o)'
      BY <1>0, <1>k DEF LabelOK, Reported, HolderUnchanged, mgrVars, Busy, Held, Actors
    <3>2. told'[o].gen <= sess'[o].gen
      BY <2>3, <1>k DEF OwnerOK, ReportOK
    <3>3. CASE kind[a] = "close"
      BY <3>1, <3>2, <3>3 DEF ReportOK, Recorded, Pending
    <3>4. CASE kind[a] = "clear"
      BY <2>3, <3>2, <3>4 DEF ReportOK, Recorded, Unrecorded, Pending
    <3>5. CASE kind[a] = "execute" /\ sess'[o].gen = sess[o].gen + 1 /\ sess'[o].pending /\ told' = told
      <4>1. sess'[o].gen # told'[o].gen
        BY <2>3, <3>5, <1>k DEF OwnerOK, ReportOK
      <4> QED
        BY <3>2, <3>5, <4>1 DEF ReportOK, Recorded, Unrecorded, Pending
    <3>6. CASE /\ kind[a] = "execute" /\ ~local[a].invalidate /\ sess'[o].gen = sess[o].gen
               /\ sess'[o].pending = sess[o].pending /\ told' = told
      <4>1. o \notin lifeDone => Unrecorded(o)'
        BY <1>0, <3>6, <1>k DEF HolderOK, Unrecorded, Resetting
      <4>2. Pending(o)'
        BY <1>0, <3>6, <1>m, <1>k DEF HolderOK, Pending, Reported, Resetting, HolderUnchanged, mgrVars
      <4> QED
        BY <1>0, <3>2, <4>1, <4>2 DEF ReportOK, Recorded, Reported, Unrecorded, HolderUnchanged, mgrVars
    <3> QED
      BY <2>3, <3>3, <3>4, <3>5, <3>6
  <2>6. EnvOwned(o)'
    BY <1>0, <1>m, <2>1 DEF EnvOwned
  <2>7. HolderOK(a, o)'
    BY <2>2, <2>3, <2>4, <2>5, <2>6 DEF HolderOK, ProcOwned, Resetting
  <2>8. LabelOK(a)'
    BY <1>0, <2>3, <1>k, ActorsAssumption
    DEF LabelOK, HolderUnchanged, mgrVars, callVars, Busy, Held, CloserLabels, Removal
  <2>9. a \notin Starters'
    BY <2>3 DEF Starters, Removal
  <2>10. kind[a] # "close" <=> a \in Ops /\ a \notin Closers
    BY <1>k, ActorsAssumption DEF LabelOK, Actors
  <2> QED
    BY <1>m, <2>2, <2>3, <2>5, <2>7, <2>8, <2>9, <2>10 DEF HolderEffect, OwnerOK
<1> QED
    BY <1>1, <1>2, <1>3, <1>4 DEF ResetWait, ResetDone

\* Every step of a holder.
LEMMA HolderEffects ==
    ASSUME IInv, NEW a \in Actors, HolderStep(a) \/ Response(a), NEW o, o = own[a]
    PROVE  HolderEffect(a, o)
BY CheckEffect, ContextEffect, RequestEffect, ResponseEffect, MkdirEffect, PublishEffect, FinishEffect,
   RemoveEffect, StartEffect, ReadyEffect, StartWaitEffect, ResetEffect DEF HolderStep

\* An owner whose state is left alone keeps what holds of it.
LEMMA OwnerKept ==
    ASSUME NEW o, sess'[o] = sess[o], env'[o] = env[o], proc'[o] = proc[o], told'[o] = told[o],
           UNCHANGED <<sessions, lifeDone>>
    PROVE  /\ OwnerOK(o) => OwnerOK(o)'
           /\ Quiet(o) => Quiet(o)'
           /\ \A b : HolderOK(b, o) /\ pc'[b] = pc[b] /\ local'[b] = local[b] /\ kind'[b] = kind[b] =>
                 HolderOK(b, o)'
<1>1. OwnerOK(o) => OwnerOK(o)'
    BY DEF OwnerOK, ResourceOK, ReportOK, NothingLeft, Alive, Recorded, Reported, Unrecorded
<1>2. Quiet(o) => Quiet(o)'
    BY DEF Quiet, ProcOwned, EnvOwned, Pending, Reported, Alive
<1>3. ASSUME NEW b, HolderOK(b, o), pc'[b] = pc[b], local'[b] = local[b], kind'[b] = kind[b]
      PROVE  HolderOK(b, o)'
    BY <1>3 DEF HolderOK, ProcOwned, EnvOwned, Pending, Reported, Alive, Unrecorded, Making, Removing
<1> QED
    BY <1>1, <1>2, <1>3

\* The steps of gate holders keep the invariant.
LEMMA HolderKeeps ==
    ASSUME IInv, NEW a \in Actors, HolderStep(a) \/ Response(a)
    PROVE  IInv'
<1>h. PICK h : h = own[a]
    OBVIOUS
<1> USE <1>h
<1>m. HolderMove(a) /\ HolderEffect(a, h)
    BY HolderMoves, HolderEffects
<1>k. h \in Owners /\ h \in sessions /\ pc[a] \in Held \ {"release"} /\ pc'[a] \in Held
    BY <1>m, HolderKnows DEF HolderMove, ActorStep
<1>u. /\ UNCHANGED <<closing, closed, sessions, lifeDone, gate, granted, calls, own, kind, ended, todo>>
    BY <1>m DEF HolderMove, HolderUnchanged, mgrVars, gateVars, callVars
<1>b. \A b \in Actors : b # a => pc'[b] = pc[b] /\ local'[b] = local[b]
    BY <1>m DEF HolderMove, ActorStep
<1>w. \A o \in Owners : o # h => /\ sess'[o] = sess[o] /\ env'[o] = env[o]
                                 /\ proc'[o] = proc[o] /\ told'[o] = told[o]
    BY <1>m DEF HolderMove, SessStep, EnvStep, ProcStep, ToldStep
<1>1. Types'
  <2>1. MgrTypeOK' /\ GateTypeOK'
    BY <1>u DEF IInv, Types, MgrTypeOK, GateTypeOK
  <2>2. WorldTypeOK'
    BY <1>m DEF HolderMove, SessStep, EnvStep, ProcStep, ToldStep, WorldTypeOK
  <2>3. ActorTypeOK'
    BY <1>m, <1>u DEF HolderMove, ActorStep, IInv, Types, ActorTypeOK
  <2> QED
    BY <2>1, <2>2, <2>3 DEF Types
<1>2. LabelInv'
  <2> SUFFICES ASSUME NEW b \in Actors PROVE LabelOK(b)'
    BY DEF LabelInv
  <2>1. CASE b = a
    BY <1>m, <2>1 DEF HolderEffect
  <2>2. CASE b # a
    BY <1>b, <1>u, <2>2 DEF IInv, LabelInv, LabelOK
  <2> QED
    BY <2>1, <2>2
<1>3. GateInv'
  <2>1. \A b \in Actors : /\ pc'[b] \in Held <=> pc[b] \in Held
                          /\ pc'[b] = "waiting" <=> pc[b] = "waiting"
    BY <1>b, <1>k DEF Held
  <2>2. \A b \in Actors, o \in Owners : (Holds(b, o)' <=> Holds(b, o)) /\ (Waits(b, o)' <=> Waits(b, o))
    BY <2>1, <1>u DEF Holds, Waits
  <2>3. \A b \in granted' : pc'[b] = "waiting"
    BY <2>1, <1>u DEF IInv, GateInv, Types, GateTypeOK
  <2>4. ASSUME NEW o \in Owners PROVE GateOK(o)'
    <3>1. GateOK(o) /\ gate[o].waiters \in Seq(Actors)
      BY DEF IInv, GateInv, Types, GateTypeOK, GateTypes
    <3>2. \A i \in 1 .. Len(gate[o].waiters) : gate[o].waiters[i] \in Actors
      BY <3>1
    <3> QED
      BY <3>1, <3>2, <2>2, <1>u DEF GateOK
  <2> QED
    BY <2>3, <2>4 DEF GateInv
<1>4. ResInv'
  <2>1. ASSUME NEW o \in Owners PROVE OwnerOK(o)'
    <3>1. CASE o = h
      BY <1>m, <3>1, <1>u DEF HolderEffect
    <3>2. CASE o # h
      BY <1>w, <1>u, <3>2, OwnerKept DEF IInv, ResInv
    <3> QED
      BY <3>1, <3>2
  <2>2. ASSUME NEW b \in Actors, pc'[b] \in Held PROVE HolderOK(b, own[b])'
    <3>1. CASE b = a
      BY <1>m, <1>u, <3>1 DEF HolderEffect
    <3>2. CASE b # a
      <4>1. pc[b] \in Held
        BY <1>b, <2>2, <3>2
      <4>2. own[b] \in Owners /\ HolderOK(b, own[b])
        BY <4>1, HolderKnows
      <4>3. own[b] # h
        BY <4>1, <4>2, <1>k, <3>2 DEF IInv, GateInv, GateOK, Holds
      <4>4. own'[b] = own[b]
        BY <1>u
      <4>5. ASSUME NEW o, o = own[b] PROVE HolderOK(b, o)'
        <5>1. /\ sess'[o] = sess[o] /\ env'[o] = env[o] /\ proc'[o] = proc[o] /\ told'[o] = told[o]
              /\ pc'[b] = pc[b] /\ local'[b] = local[b] /\ kind'[b] = kind[b]
              /\ UNCHANGED <<sessions, lifeDone>> /\ HolderOK(b, o)
          BY <4>2, <4>3, <4>5, <1>w, <1>b, <1>u, <3>2
        <5> QED
          BY <5>1, OwnerKept
      <4> QED
        BY <4>4, <4>5
    <3> QED
      BY <3>1, <3>2
  <2>3. ASSUME NEW o \in Owners, \A b \in Actors : own'[b] = o => pc'[b] \notin Held PROVE Quiet(o)'
    <3>1. o # h
      BY <2>3, <1>k, <1>u
    <3>2. \A b \in Actors : own[b] = o => pc[b] \notin Held
      BY <2>3, <3>1, <1>b, <1>u
    <3> QED
      BY <3>1, <3>2, <1>w, <1>u, OwnerKept DEF IInv, ResInv
  <2> QED
    BY <2>1, <2>2, <2>3 DEF ResInv
<1>5. CloseInv'
  <2>1. \A o \in sessions : sess[o].closed => sess'[o].closed
    BY <1>m, <1>w DEF HolderEffect, IInv, Types, MgrTypeOK
  <2>2. ASSUME NEW k \in Closers PROVE CloserOK(k)'
    <3>0. CloserOK(k) /\ k \in Actors
      BY DEF IInv, CloseInv, Actors
    <3>1. CASE k # a
      <4>1. pc'[k] = pc[k] /\ (k \in failed' <=> k \in failed)
        BY <1>b, <3>0, <3>1, <1>m DEF HolderMove, ActorStep
      <4> QED
        BY <3>0, <4>1, <2>1, <1>u DEF CloserOK
    <3>2. CASE k = a
      <4>1. /\ k \notin failed' => k \notin failed
            /\ pc'[k] = "release" => k \in failed' \/ sess'[h].closed
        BY <3>2, <1>m DEF HolderMove, ActorStep, HolderEffect
      <4>2. pc[k] \notin AtRest /\ pc[k] \in Busy \ {"release"} /\ pc'[k] \in Busy
        BY <3>2, <1>k DEF AtRest, Busy, Held
      <4> QED
        BY <3>0, <3>2, <4>1, <4>2, <2>1, <1>u DEF CloserOK
    <3> QED
      BY <3>1, <3>2
  <2> QED
    BY <2>1, <2>2, <1>u DEF IInv, CloseInv
<1>6. CountInv'
  <2>0. /\ IsFiniteSet(Raisers) /\ IsFiniteSet(Starters)
        /\ \A o \in Owners : /\ sess[o].gen + Cardinality(Raisers) <= calls
                             /\ proc[o].serial + Cardinality(Starters) <= calls
    BY DEF IInv, CountInv
  <2>t. /\ \A o \in Owners : sess[o].gen \in Nat /\ proc[o].serial \in Nat
        /\ calls \in Nat
    BY DEF IInv, Types, WorldTypeOK, SessTypes, ProcTypes, ActorTypeOK
  <2>1. IsFiniteSet(Raisers') /\ \A o \in Owners : sess'[o].gen + Cardinality(Raisers') <= calls
    <3>1. CASE a \in Ops /\ pc'[a] = "release"
      <4>1. a \in Raisers /\ Raisers' = Raisers \ {a}
        BY <3>1, <1>b, <1>k DEF Raisers, Busy, Actors
      <4>2. /\ IsFiniteSet(Raisers') /\ Cardinality(Raisers') = Cardinality(Raisers) - 1
            /\ Cardinality(Raisers') \in Nat /\ Cardinality(Raisers) \in Nat
        BY <4>1, <2>0, OneLess
      <4>3. \A o \in Owners : sess'[o].gen = sess[o].gen \/ sess'[o].gen = sess[o].gen + 1
        BY <1>m, <1>w DEF HolderEffect
      <4> QED
        BY <4>2, <4>3, <2>0, <2>t
    <3>2. CASE ~(a \in Ops /\ pc'[a] = "release")
      <4>1. Raisers' = Raisers
        BY <3>2, <1>b, <1>k DEF Raisers, Busy, Actors
      <4>2. \A o \in Owners : sess'[o].gen = sess[o].gen
        BY <3>2, <1>m, <1>w DEF HolderEffect
      <4> QED
        BY <4>1, <4>2, <2>0
    <3> QED
      BY <3>1, <3>2
  <2>2. IsFiniteSet(Starters') /\ \A o \in Owners : proc'[o].serial + Cardinality(Starters') <= calls
    <3>0. Starters' \ {a} = Starters \ {a} /\ (a \in Starters' => a \in Starters)
      BY <1>b, <1>m DEF Starters, HolderEffect, Actors
    <3>1. CASE a \in Starters /\ a \notin Starters'
      <4>1. Starters' = Starters \ {a}
        BY <3>0, <3>1
      <4>2. /\ IsFiniteSet(Starters') /\ Cardinality(Starters') = Cardinality(Starters) - 1
            /\ Cardinality(Starters') \in Nat /\ Cardinality(Starters) \in Nat
        BY <3>1, <4>1, <2>0, OneLess
      <4>3. \A o \in Owners : proc'[o].serial = proc[o].serial \/ proc'[o].serial = proc[o].serial + 1
        BY <1>m, <1>w DEF HolderEffect
      <4> QED
        BY <4>2, <4>3, <2>0, <2>t
    <3>2. CASE ~(a \in Starters /\ a \notin Starters')
      <4>1. Starters' = Starters
        BY <3>0, <3>2
      <4>2. ~(a \in Ops /\ pc[a] = "start" /\ pc'[a] = "ready")
        BY <3>2 DEF Starters, Removal
      <4>3. \A o \in Owners : proc'[o].serial = proc[o].serial
        BY <4>2, <1>m, <1>w DEF HolderEffect
      <4> QED
        BY <4>1, <4>3, <2>0
    <3> QED
      BY <3>1, <3>2
  <2> QED
    BY <2>1, <2>2, <1>u DEF CountInv
<1> QED
    BY <1>1, <1>2, <1>3, <1>4, <1>5, <1>6 DEF IInv

\* Steps that leave the owners' state and every holder where they are.
LEMMA ResFrame ==
    ASSUME IInv, UNCHANGED <<worldVars, told>>, sessions \subseteq sessions', lifeDone \subseteq lifeDone',
           \A b \in Actors : (pc'[b] \in Held \/ pc[b] \in Held) =>
              pc'[b] = pc[b] /\ own'[b] = own[b] /\ kind'[b] = kind[b] /\ local'[b] = local[b]
    PROVE  ResInv'
<1>1. ASSUME NEW o \in Owners PROVE OwnerOK(o)'
  <2>1. OwnerOK(o)
    BY DEF IInv, ResInv
  <2> QED
    BY <2>1 DEF OwnerOK, ResourceOK, ReportOK, NothingLeft, Alive, Recorded, Reported, Unrecorded, worldVars
<1>2. ASSUME NEW b \in Actors, pc'[b] \in Held PROVE HolderOK(b, own[b])'
  <2>1. PICK o : o = own[b]
    OBVIOUS
  <2>2. HolderOK(b, o)
    BY <1>2, <2>1 DEF IInv, ResInv
  <2>3. HolderOK(b, o)'
    BY <1>2, <2>2 DEF HolderOK, ProcOwned, EnvOwned, Pending, Reported, Alive, Unrecorded, Making, Removing,
         worldVars
  <2> QED
    BY <1>2, <2>1, <2>3
<1>3. ASSUME NEW o \in Owners, \A b \in Actors : own'[b] = o => pc'[b] \notin Held PROVE Quiet(o)'
  <2>1. Quiet(o)
    BY <1>3 DEF IInv, ResInv
  <2> QED
    BY <2>1 DEF Quiet, ProcOwned, EnvOwned, Pending, Reported, Alive, worldVars
<1> QED
    BY <1>1, <1>2, <1>3 DEF ResInv

\* Steps that leave the gates alone, and everyone at them.
LEMMA GateFrame ==
    ASSUME IInv, UNCHANGED gateVars,
           \A b \in Actors : /\ pc'[b] \in Held <=> pc[b] \in Held
                             /\ pc'[b] = "waiting" <=> pc[b] = "waiting"
                             /\ (pc[b] \in Held \/ pc[b] = "waiting") => own'[b] = own[b]
    PROVE  GateInv'
<1>1. \A b \in granted : b \in Actors /\ pc[b] = "waiting"
    BY DEF IInv, GateInv, Types, GateTypeOK
<1>2. \A b \in Actors, o \in Owners : (Holds(b, o)' <=> Holds(b, o)) /\ (Waits(b, o)' <=> Waits(b, o))
    BY <1>1 DEF Holds, Waits, gateVars
<1>3. ASSUME NEW o \in Owners PROVE GateOK(o)'
  <2>1. GateOK(o) /\ gate[o].waiters \in Seq(Actors)
    BY DEF IInv, GateInv, Types, GateTypeOK, GateTypes
  <2>2. \A i \in 1 .. Len(gate[o].waiters) : gate[o].waiters[i] \in Actors
    BY <2>1
  <2> QED
    BY <2>1, <2>2, <1>2 DEF GateOK, gateVars
<1> QED
    BY <1>1, <1>3 DEF GateInv, gateVars

\* A call keeps the invariant: it gets a known owner or none.
LEMMA EnterKeeps ==
    ASSUME IInv, NEW a \in Ops, Enter(a)
    PROVE  IInv'
<1>a. a \in Actors /\ a \notin Closers
    BY ActorsAssumption DEF Actors
<1>t. /\ MgrTypeOK /\ GateTypeOK /\ WorldTypeOK /\ ActorTypeOK
      /\ LabelOK(a)
    BY <1>a DEF IInv, Types, LabelInv
<1>0. /\ pc[a] \in {"idle", "returned"} /\ calls < MaxCalls /\ calls' = calls + 1 /\ ended' = ended \ {a}
      /\ UNCHANGED <<closing, closed, lifeDone, gate, granted, sess, env, proc, todo, told, local, failed>>
    BY DEF Enter, ownerForExecute, ownerForClear, Refused, Admitted, Continue, gateVars, worldVars
<1>1. \/ pc' = [pc EXCEPT ![a] = "returned"] /\ UNCHANGED <<sessions, own, kind>>
      \/ /\ ~closing /\ pc' = [pc EXCEPT ![a] = "acquire"]
         /\ \E o \in Owners, what \in {"execute", "clear"} :
               /\ own' = [own EXCEPT ![a] = o] /\ kind' = [kind EXCEPT ![a] = what]
               /\ \/ o \in sessions /\ sessions' = sessions
                  \/ /\ o \notin sessions /\ Cardinality(sessions) < MaxSessions
                     /\ sessions' = sessions \cup {o}
    BY DEF Enter, ownerForExecute, ownerForClear, Refused, Admitted, Continue, Goto
<1>2. /\ pc'[a] \in {"returned", "acquire"} /\ pc' \in [Actors -> Labels]
      /\ \A b \in Actors : b # a => pc'[b] = pc[b] /\ own'[b] = own[b] /\ kind'[b] = kind[b]
      /\ own' \in [Actors -> Owners \cup {"none"}] /\ kind' \in [Actors -> {"execute", "clear", "close"}]
      /\ kind'[a] \in {"execute", "clear"} /\ (pc'[a] = "acquire" => own'[a] \in sessions')
    BY <1>1, <1>t, <1>a DEF ActorTypeOK, Labels, LabelOK
<1>3. /\ sessions \subseteq sessions' /\ sessions' \subseteq Owners /\ IsFiniteSet(sessions')
      /\ Cardinality(sessions') <= MaxSessions
      /\ closing => sessions' = sessions
  <2>1. CASE sessions' = sessions
    BY <2>1, <1>t DEF MgrTypeOK
  <2>2. ASSUME NEW o \in Owners, o \notin sessions, Cardinality(sessions) < MaxSessions,
               sessions' = sessions \cup {o}, ~closing
        PROVE  /\ sessions \subseteq sessions' /\ sessions' \subseteq Owners /\ IsFiniteSet(sessions')
               /\ Cardinality(sessions') <= MaxSessions
               /\ closing => sessions' = sessions
    <3>1. /\ IsFiniteSet(sessions') /\ Cardinality(sessions') = Cardinality(sessions) + 1
          /\ Cardinality(sessions) \in Nat
      BY <1>t, <2>2, OneMore DEF MgrTypeOK
    <3> QED
      BY <2>2, <3>1, <1>t, LimitsAssumption DEF MgrTypeOK
  <2> QED
    BY <1>1, <2>1, <2>2
<1>4. Types'
  <2>1. MgrTypeOK' /\ GateTypeOK' /\ WorldTypeOK'
    BY <1>0, <1>3, <1>t DEF MgrTypeOK, GateTypeOK, WorldTypeOK
  <2>2. ActorTypeOK'
    BY <1>0, <1>2, <1>t, LimitsAssumption DEF ActorTypeOK
  <2> QED
    BY <2>1, <2>2 DEF Types
<1>5. LabelInv'
  <2> SUFFICES ASSUME NEW b \in Actors PROVE LabelOK(b)'
    BY DEF LabelInv
  <2>1. CASE b = a
    BY <1>2, <1>a, <2>1 DEF LabelOK, Busy, Held
  <2>2. CASE b # a
    BY <1>0, <1>2, <1>3, <2>2 DEF IInv, LabelInv, LabelOK
  <2> QED
    BY <2>1, <2>2
<1>6. GateInv'
    BY <1>0, <1>2, GateFrame DEF gateVars, Held
<1>7. ResInv'
    BY <1>0, <1>2, <1>3, ResFrame DEF worldVars, Held
<1>8. CloseInv'
  <2>1. \A k \in Closers : CloserOK(k) /\ k # a /\ k \in Actors
    BY <1>a DEF IInv, CloseInv, Actors
  <2>2. \A k \in Closers : CloserOK(k)'
    BY <2>1, <1>0, <1>2, <1>3 DEF CloserOK
  <2> QED
    BY <2>2, <1>0, <1>3 DEF IInv, CloseInv
<1>9. CountInv'
  <2>0. /\ IsFiniteSet(Raisers) /\ IsFiniteSet(Starters)
        /\ \A o \in Owners : /\ sess[o].gen + Cardinality(Raisers) <= calls
                             /\ proc[o].serial + Cardinality(Starters) <= calls
    BY DEF IInv, CountInv
  <2>t. /\ \A o \in Owners : sess[o].gen \in Nat /\ proc[o].serial \in Nat
        /\ calls \in Nat /\ Cardinality(Raisers) \in Nat /\ Cardinality(Starters) \in Nat
    BY <1>t, <2>0, FS_CardinalityType DEF WorldTypeOK, SessTypes, ProcTypes, ActorTypeOK
  <2>1. CASE pc'[a] = "acquire"
    <3>1. a \notin Raisers /\ Raisers' = Raisers \cup {a}
      BY <1>0, <1>2, <1>a, <2>1 DEF Raisers, Busy, Held, Actors
    <3>2. a \notin Starters /\ Starters' = Starters \cup {a}
      BY <1>0, <1>2, <1>a, <2>1 DEF Starters, Removal, Actors
    <3>3. IsFiniteSet(Raisers') /\ Cardinality(Raisers') = Cardinality(Raisers) + 1
      BY <2>0, <3>1, OneMore
    <3>4. IsFiniteSet(Starters') /\ Cardinality(Starters') = Cardinality(Starters) + 1
      BY <2>0, <3>2, OneMore
    <3> QED
      BY <1>0, <2>0, <2>t, <3>3, <3>4 DEF CountInv
  <2>2. CASE pc'[a] = "returned"
    <3>1. Raisers' = Raisers /\ Starters' = Starters
      BY <1>0, <1>2, <1>a, <2>2 DEF Raisers, Starters, Removal, Busy, Held, Actors
    <3> QED
      BY <1>0, <2>0, <2>t, <3>1 DEF CountInv
  <2> QED
    BY <1>2, <2>1, <2>2
<1> QED
    BY <1>4, <1>5, <1>6, <1>7, <1>8, <1>9 DEF IInv

\* The counted calls are those of operations: steps of others leave them alone.
LEMMA CountFrame ==
    ASSUME IInv, calls' = calls,
           \A o \in Owners : sess'[o].gen = sess[o].gen /\ proc'[o].serial = proc[o].serial,
           \A b \in Ops : pc'[b] = pc[b] /\ local'[b] = local[b]
    PROVE  CountInv'
<1>1. Raisers' = Raisers /\ Starters' = Starters
    BY DEF Raisers, Starters
<1> QED
    BY <1>1 DEF IInv, CountInv

\* The entry of Close keeps the invariant.
LEMMA CloseEnterKeeps ==
    ASSUME IInv, NEW k \in Closers, CloseEnter(k)
    PROVE  IInv'
<1>k. k \in Actors /\ k \notin Ops
    BY ActorsAssumption DEF Actors
<1>t. /\ MgrTypeOK /\ GateTypeOK /\ WorldTypeOK /\ ActorTypeOK /\ LabelOK(k) /\ CloserOK(k)
    BY <1>k DEF IInv, Types, LabelInv, CloseInv
<1>0. /\ pc[k] \in {"idle", "error"} /\ ended' = ended \ {k}
      /\ UNCHANGED <<closed, sessions, gate, granted, sess, env, proc, calls, own, kind, local, told>>
      /\ \/ closed /\ pc' = [pc EXCEPT ![k] = "nil"] /\ UNCHANGED <<closing, lifeDone, todo, failed>>
         \/ /\ ~closed /\ closing' = TRUE /\ lifeDone' = sessions
            /\ todo' = [todo EXCEPT ![k] = sessions] /\ failed' = failed \ {k}
            /\ pc' = [pc EXCEPT ![k] = "next"]
    BY DEF CloseEnter, Goto, gateVars, worldVars, callVars
<1>1. /\ pc' \in [Actors -> Labels] /\ pc'[k] \in {"nil", "next"}
      /\ \A b \in Actors : b # k => pc'[b] = pc[b]
    BY <1>0, <1>t, <1>k DEF ActorTypeOK, Labels
<1>2. /\ lifeDone \subseteq lifeDone' /\ lifeDone' \subseteq sessions'
      /\ todo' \in [Closers -> SUBSET Owners] /\ failed' \subseteq failed
      /\ \A j \in Closers : j # k => todo'[j] = todo[j] /\ (j \in failed' <=> j \in failed)
      /\ todo'[k] \subseteq lifeDone'
    BY <1>0, <1>t DEF MgrTypeOK, ActorTypeOK, CloserOK
<1>3. closing' \in BOOLEAN /\ (closing => closing') /\ (closed => closing) /\ (pc'[k] = "next" => closing')
  <2>1. closing \in BOOLEAN /\ (closed => closing)
    BY <1>t DEF IInv, CloseInv, MgrTypeOK
  <2>2. \/ closing' = closing /\ pc'[k] = "nil"
        \/ closing' = TRUE
    BY <1>0, <1>k, <1>t DEF ActorTypeOK
  <2>3. closing' = TRUE \/ closing' = closing
    BY <2>2
  <2>4. closing' \in BOOLEAN
    BY <2>1, <2>3, Zenon
  <2>5. closing => closing'
    BY <2>3, Zenon
  <2>6. pc'[k] = "next" => closing'
    BY <2>2
  <2> QED
    BY <2>1, <2>4, <2>5, <2>6
<1>4. Types'
  <2>1. MgrTypeOK'
    BY <1>0, <1>2, <1>3, <1>t DEF MgrTypeOK
  <2>2. GateTypeOK' /\ WorldTypeOK'
    BY <1>0, <1>t DEF GateTypeOK, WorldTypeOK
  <2>3. ActorTypeOK'
    BY <1>0, <1>1, <1>2, <1>t DEF ActorTypeOK
  <2> QED
    BY <2>1, <2>2, <2>3 DEF Types
<1>5. LabelInv'
  <2> SUFFICES ASSUME NEW b \in Actors PROVE LabelOK(b)'
    BY DEF LabelInv
  <2>1. CASE b = k
    BY <1>0, <1>1, <1>k, <1>t, <2>1 DEF LabelOK, CloserLabels, Removal, Busy, Held
  <2>2. CASE b # k
    BY <1>0, <1>1, <1>2, <2>2 DEF IInv, LabelInv, LabelOK
  <2> QED
    BY <2>1, <2>2
<1>6. GateInv'
    BY <1>0, <1>1, GateFrame DEF gateVars, Held
<1>7. ResInv'
    BY <1>0, <1>1, <1>2, ResFrame DEF worldVars, Held
<1>8. CloseInv'
  <2>1. ASSUME NEW j \in Closers PROVE CloserOK(j)'
    <3>1. CloserOK(j) /\ j \in Actors
      BY DEF IInv, CloseInv, Actors
    <3>2. CASE j # k
      BY <1>0, <1>1, <1>2, <1>3, <3>1, <3>2 DEF CloserOK
    <3>3. CASE j = k
      <4>1. pc'[k] = "next" => todo'[k] = sessions
        BY <1>0, <1>k, <1>t DEF ActorTypeOK
      <4> QED
        BY <1>0, <1>1, <1>2, <1>3, <3>3, <4>1 DEF CloserOK, AtRest
    <3> QED
      BY <3>2, <3>3
  <2> QED
    BY <2>1, <1>0, <1>3 DEF IInv, CloseInv
<1>9. CountInv'
    BY <1>0, <1>1, <1>k, CountFrame DEF Actors
<1> QED
    BY <1>4, <1>5, <1>6, <1>7, <1>8, <1>9 DEF IInv

\* Close's loop keeps the invariant: nil only after every session was seen closed.
LEMMA CloseNextKeeps ==
    ASSUME IInv, NEW k \in Closers, CloseNext(k)
    PROVE  IInv'
<1>k. k \in Actors /\ k \notin Ops
    BY ActorsAssumption DEF Actors
<1>t. /\ MgrTypeOK /\ GateTypeOK /\ WorldTypeOK /\ ActorTypeOK /\ LabelOK(k) /\ CloserOK(k)
    BY <1>k DEF IInv, Types, LabelInv, CloseInv
<1>0. /\ pc[k] = "next"
      /\ UNCHANGED <<closing, sessions, lifeDone, gate, granted, sess, env, proc, calls, kind, ended,
                     local, failed, told>>
      /\ \/ \E o \in todo[k] :
               /\ own' = [own EXCEPT ![k] = o] /\ todo' = [todo EXCEPT ![k] = @ \ {o}]
               /\ pc' = [pc EXCEPT ![k] = "acquire"] /\ closed' = closed
         \/ /\ todo[k] = {} /\ k \in failed /\ pc' = [pc EXCEPT ![k] = "error"]
            /\ UNCHANGED <<closed, own, todo>>
         \/ /\ todo[k] = {} /\ k \notin failed /\ closed' = TRUE /\ pc' = [pc EXCEPT ![k] = "nil"]
            /\ UNCHANGED <<own, todo>>
    BY DEF CloseNext, Goto, gateVars, worldVars
<1>1. /\ pc' \in [Actors -> Labels] /\ pc'[k] \in {"acquire", "error", "nil"}
      /\ own' \in [Actors -> Owners \cup {"none"}] /\ todo' \in [Closers -> SUBSET Owners]
      /\ \A b \in Actors : b # k => pc'[b] = pc[b] /\ own'[b] = own[b]
      /\ \A j \in Closers : j # k => todo'[j] = todo[j]
      /\ todo'[k] \subseteq todo[k]
      /\ pc'[k] = "acquire" => own'[k] \in todo[k] /\ todo[k] \subseteq todo'[k] \cup {own'[k]}
    BY <1>0, <1>t, <1>k DEF ActorTypeOK, Labels
<1>2. closing /\ todo[k] \subseteq lifeDone
    BY <1>0, <1>t DEF CloserOK, AtRest
<1>3. closed' = closed \/ (closed' = TRUE /\ \A o \in sessions : sess[o].closed)
    BY <1>0, <1>t DEF CloserOK, AtRest, Busy, Held
<1>4. Types'
  <2>0. closed' \in BOOLEAN
    <3>1. closed \in BOOLEAN
      BY <1>t DEF MgrTypeOK
    <3>2. closed' = closed \/ closed' = TRUE
      BY <1>3
    <3> QED
      BY <3>1, <3>2, Zenon
  <2>1. MgrTypeOK'
    BY <1>0, <2>0, <1>t DEF MgrTypeOK
  <2>2. GateTypeOK' /\ WorldTypeOK'
    BY <1>0, <1>t DEF GateTypeOK, WorldTypeOK
  <2>3. ActorTypeOK'
    BY <1>0, <1>1, <1>t DEF ActorTypeOK
  <2> QED
    BY <2>1, <2>2, <2>3 DEF Types
<1>5. LabelInv'
  <2> SUFFICES ASSUME NEW b \in Actors PROVE LabelOK(b)'
    BY DEF LabelInv
  <2>1. CASE b = k
    BY <1>0, <1>1, <1>2, <1>k, <1>t, <2>1 DEF LabelOK, CloserLabels, Removal, Busy, Held, MgrTypeOK
  <2>2. CASE b # k
    BY <1>0, <1>1, <2>2 DEF IInv, LabelInv, LabelOK
  <2> QED
    BY <2>1, <2>2
<1>6. GateInv'
    BY <1>0, <1>1, GateFrame DEF gateVars, Held
<1>7. ResInv'
    BY <1>0, <1>1, ResFrame DEF worldVars, Held
<1>8. CloseInv'
  <2>1. ASSUME NEW j \in Closers PROVE CloserOK(j)'
    <3>1. CloserOK(j) /\ j \in Actors
      BY DEF IInv, CloseInv, Actors
    <3>2. CASE j # k
      BY <1>0, <1>1, <3>1, <3>2 DEF CloserOK
    <3>3. CASE j = k
      BY <1>0, <1>1, <1>2, <1>t, <3>3 DEF CloserOK, AtRest, Busy, Held
    <3> QED
      BY <3>2, <3>3
  <2>2. closed' => closing' /\ \A o \in sessions' : sess'[o].closed
    BY <1>0, <1>2, <1>3 DEF IInv, CloseInv
  <2> QED
    BY <2>1, <2>2 DEF CloseInv
<1>9. CountInv'
    BY <1>0, <1>1, <1>k, CountFrame DEF Actors
<1> QED
    BY <1>4, <1>5, <1>6, <1>7, <1>8, <1>9 DEF IInv

\* The end of a context keeps the invariant.
LEMMA ContextKeeps ==
    ASSUME IInv, NEW a \in Actors, EndContext(a)
    PROVE  IInv'
<1>0. /\ UNCHANGED <<closing, closed, sessions, lifeDone, gate, granted, sess, env, proc, pc, calls, own,
                     kind, local, todo, failed, told>>
      /\ ended' = ended \cup {a}
    BY DEF EndContext, mgrVars, gateVars, worldVars, callVars, closeVars
<1>1. Types'
    BY <1>0 DEF IInv, Types, MgrTypeOK, GateTypeOK, WorldTypeOK, ActorTypeOK
<1>2. LabelInv'
    BY <1>0 DEF IInv, LabelInv, LabelOK
<1>3. GateInv'
    BY <1>0, GateFrame DEF gateVars
<1>4. ResInv'
    BY <1>0, ResFrame DEF worldVars
<1>5. CloseInv'
    BY <1>0 DEF IInv, CloseInv, CloserOK
<1>6. CountInv'
    BY <1>0, CountFrame
<1> QED
    BY <1>1, <1>2, <1>3, <1>4, <1>5, <1>6 DEF IInv

\* Steps of an owner's processes: nothing comes to life.
LEMMA WorldKeeps ==
    ASSUME IInv, NEW h \in Owners, WorldUnchanged, UNCHANGED sess, ProcStep(h), EnvStep(h),
           ResourceOK(h)', Alive(h)' => Alive(h), proc'[h].serial = proc[h].serial,
           env'[h].dir = env[h].dir, env'[h].finishing = env[h].finishing,
           env'[h].creator # "none" <=> env[h].creator # "none"
    PROVE  IInv'
<1>u. /\ UNCHANGED <<closing, closed, sessions, lifeDone, gate, granted, sess, pc, calls, own, kind, ended,
                     local, todo, failed, told>>
    BY DEF WorldUnchanged, mgrVars, gateVars, callVars, closeVars
<1>w. \A o \in Owners : o # h => proc'[o] = proc[o] /\ env'[o] = env[o]
    BY DEF ProcStep, EnvStep
<1>1. Types'
    BY <1>u DEF IInv, Types, MgrTypeOK, GateTypeOK, WorldTypeOK, ActorTypeOK, ProcStep, EnvStep
<1>2. LabelInv'
    BY <1>u DEF IInv, LabelInv, LabelOK
<1>3. GateInv'
    BY <1>u, GateFrame DEF gateVars
<1>4. ResInv'
  <2>1. ASSUME NEW o \in Owners PROVE OwnerOK(o)'
    <3>0. OwnerOK(o)
      BY DEF IInv, ResInv
    <3>1. CASE o # h
      BY <1>u, <1>w, <3>0, <3>1, OwnerKept
    <3>2. CASE o = h
      <4>1. ReportOK(o)'
        BY <1>u, <3>0, <3>2 DEF OwnerOK, ReportOK, Recorded, Reported, Unrecorded
      <4> QED
        BY <4>1, <3>2 DEF OwnerOK
    <3> QED
      BY <3>1, <3>2
  <2>p. \A o \in Owners : /\ Alive(o)' => Alive(o)
                          /\ EnvOwned(o) => EnvOwned(o)'
                          /\ Pending(o) => Pending(o)'
                          /\ Unrecorded(o) => Unrecorded(o)'
                          /\ env[o].creator = "none" => env'[o].creator = "none"
    <3> SUFFICES ASSUME NEW o \in Owners
                 PROVE  /\ Alive(o)' => Alive(o)
                        /\ EnvOwned(o) => EnvOwned(o)'
                        /\ Pending(o) => Pending(o)'
                        /\ Unrecorded(o) => Unrecorded(o)'
                        /\ env[o].creator = "none" => env'[o].creator = "none"
      OBVIOUS
    <3>1. (Pending(o) => Pending(o)') /\ (Unrecorded(o) => Unrecorded(o)')
      BY <1>u DEF Pending, Reported, Unrecorded
    <3>2. CASE o # h
      BY <1>u, <1>w, <3>1, <3>2 DEF Alive, EnvOwned
    <3>3. CASE o = h
      BY <1>u, <3>1, <3>3 DEF EnvOwned
    <3> QED
      BY <3>2, <3>3
  <2>2. ASSUME NEW b \in Actors, pc'[b] \in Held PROVE HolderOK(b, own[b])'
    <3>1. PICK o : o = own[b]
      OBVIOUS
    <3>2. HolderOK(b, o) /\ o \in Owners
      BY <1>u, <2>2, <3>1, HolderKnows
    <3>3. HolderOK(b, o)'
      BY <1>u, <2>p, <3>2 DEF HolderOK, ProcOwned, Making, Removing
    <3> QED
      BY <1>u, <3>1, <3>3
  <2>3. ASSUME NEW o \in Owners, \A b \in Actors : own'[b] = o => pc'[b] \notin Held PROVE Quiet(o)'
    <3>1. Quiet(o)
      BY <1>u, <2>3 DEF IInv, ResInv
    <3> QED
      BY <1>u, <2>p, <3>1 DEF Quiet, ProcOwned
  <2> QED
    BY <2>1, <2>2, <2>3 DEF ResInv
<1>5. CloseInv'
    BY <1>u DEF IInv, CloseInv, CloserOK
<1>6. CountInv'
    BY <1>u, <1>w, CountFrame
<1> QED
    BY <1>1, <1>2, <1>3, <1>4, <1>5, <1>6 DEF IInv

\* What the termination goroutine and the reaping write of a process.
LEMMA ProcOutcomes ==
    ASSUME WorldTypeOK, NEW o \in Owners, NEW x \in BOOLEAN, NEW y \in BOOLEAN
    PROVE  /\ proc' = [proc EXCEPT ![o].term = "await", ![o].child = x, ![o].termErr = y] =>
                /\ ProcStep(o) /\ proc'[o].sup = proc[o].sup /\ proc'[o].child = x
                /\ proc'[o].term = "await" /\ proc'[o].termErr = y
                /\ proc'[o].status = proc[o].status /\ proc'[o].serial = proc[o].serial
           /\ proc' = [proc EXCEPT ![o].term = "done", ![o].termErr = y] =>
                /\ ProcStep(o) /\ proc'[o].sup = proc[o].sup /\ proc'[o].child = proc[o].child
                /\ proc'[o].term = "done" /\ proc'[o].termErr = y
                /\ proc'[o].status = proc[o].status /\ proc'[o].serial = proc[o].serial
           /\ proc' = [proc EXCEPT ![o].status = "reaped", ![o].sup = "exited"] => ProcStep(o)
<1>0. proc \in [Owners -> ProcTypes]
    BY DEF WorldTypeOK
<1>1. ASSUME proc' = [proc EXCEPT ![o].term = "await", ![o].child = x, ![o].termErr = y]
      PROVE  ProcStep(o) /\ proc'[o].sup = proc[o].sup /\ proc'[o].child = x
             /\ proc'[o].term = "await" /\ proc'[o].termErr = y
             /\ proc'[o].status = proc[o].status /\ proc'[o].serial = proc[o].serial
  <2> DEFINE q == [proc[o] EXCEPT !.term = "await", !.child = x, !.termErr = y]
  <2>1. q \in ProcTypes
    BY <1>0, ZenonT(30) DEF ProcTypes
  <2>2. proc' = [proc EXCEPT ![o] = q]
    BY <1>0, <1>1 DEF ProcTypes
  <2>3. /\ proc'[o].sup = proc[o].sup /\ proc'[o].child = x
             /\ proc'[o].term = "await" /\ proc'[o].termErr = y
             /\ proc'[o].status = proc[o].status /\ proc'[o].serial = proc[o].serial
    BY <1>0, <1>1 DEF ProcTypes
  <2> HIDE DEF q
  <2>4. ProcStep(o)
    BY <1>0, <2>1, <2>2 DEF ProcStep
  <2> QED
    BY <2>3, <2>4
<1>2. ASSUME proc' = [proc EXCEPT ![o].term = "done", ![o].termErr = y]
      PROVE  ProcStep(o) /\ proc'[o].sup = proc[o].sup /\ proc'[o].child = proc[o].child
             /\ proc'[o].term = "done" /\ proc'[o].termErr = y
             /\ proc'[o].status = proc[o].status /\ proc'[o].serial = proc[o].serial
  <2> DEFINE q == [proc[o] EXCEPT !.term = "done", !.termErr = y]
  <2>1. q \in ProcTypes
    BY <1>0, ZenonT(30) DEF ProcTypes
  <2>2. proc' = [proc EXCEPT ![o] = q]
    BY <1>0, <1>2 DEF ProcTypes
  <2>3. /\ proc'[o].sup = proc[o].sup /\ proc'[o].child = proc[o].child
             /\ proc'[o].term = "done" /\ proc'[o].termErr = y
             /\ proc'[o].status = proc[o].status /\ proc'[o].serial = proc[o].serial
    BY <1>0, <1>2 DEF ProcTypes
  <2> HIDE DEF q
  <2>4. ProcStep(o)
    BY <1>0, <2>1, <2>2 DEF ProcStep
  <2> QED
    BY <2>3, <2>4
<1>3. ASSUME proc' = [proc EXCEPT ![o].status = "reaped", ![o].sup = "exited"]
      PROVE  ProcStep(o)
  <2> DEFINE q == [proc[o] EXCEPT !.status = "reaped", !.sup = "exited"]
  <2>1. q \in ProcTypes
    BY <1>0, ZenonT(30) DEF ProcTypes
  <2>2. proc' = [proc EXCEPT ![o] = q]
    BY <1>0, <1>3 DEF ProcTypes
  <2> HIDE DEF q
  <2>4. ProcStep(o)
    BY <1>0, <2>1, <2>2 DEF ProcStep
  <2> QED
    BY <2>4
<1> QED
    BY <1>1, <1>2, <1>3

\* Supervisor, termination goroutine and creator keep the invariant.
LEMMA ProcessesKeep ==
    ASSUME IInv, NEW o \in Owners,
           SupervisorReady(o) \/ SupervisorDies(o) \/ SupervisorReaps(o) \/ coordinateTermination(o)
             \/ CreatorExits(o)
    PROVE  IInv'
<1>t. /\ WorldTypeOK /\ proc \in [Owners -> ProcTypes] /\ env \in [Owners -> EnvTypes]
      /\ sess \in [Owners -> SessTypes]
    BY DEF IInv, Types, WorldTypeOK
<1>k. ResourceOK(o)
    BY DEF IInv, ResInv, OwnerOK
<1>still. (UNCHANGED env => EnvStep(o)) /\ (UNCHANGED proc => ProcStep(o))
    BY <1>t, StillPieces
<1>1. CASE SupervisorReady(o)
  <2>0. WorldUnchanged /\ UNCHANGED <<sess, env>>
    BY <1>1 DEF SupervisorReady
  <2>1. PICK frame \in {"good", "incompatible", "bad"} : proc' = [proc EXCEPT ![o].ready = frame]
    BY <1>1 DEF SupervisorReady
  <2>2. ProcStep(o)
    BY <1>t, <2>1 DEF ProcTypes, ProcStep
  <2>3. /\ proc'[o].sup = proc[o].sup /\ proc'[o].child = proc[o].child /\ proc'[o].term = proc[o].term
        /\ proc'[o].termErr = proc[o].termErr /\ proc'[o].status = proc[o].status
        /\ proc'[o].serial = proc[o].serial
    BY <1>t, <2>1 DEF ProcTypes
  <2>4. ResourceOK(o)' /\ (Alive(o)' => Alive(o))
    BY <1>k, <2>0, <2>3 DEF ResourceOK, NothingLeft, Alive, WorldUnchanged, mgrVars
  <2> QED
    BY <1>still, <2>0, <2>2, <2>3, <2>4, WorldKeeps
<1>2. CASE SupervisorDies(o)
  <2>0. WorldUnchanged /\ UNCHANGED <<sess, env>> /\ proc' = [proc EXCEPT ![o].sup = "exited"]
        /\ proc[o].sup = "up"
    BY <1>2 DEF SupervisorDies
  <2>2. ProcStep(o)
    BY <1>t, <2>0 DEF ProcTypes, ProcStep
  <2>3. /\ proc'[o].sup = "exited" /\ proc'[o].child = proc[o].child /\ proc'[o].term = proc[o].term
        /\ proc'[o].termErr = proc[o].termErr /\ proc'[o].status = proc[o].status
        /\ proc'[o].serial = proc[o].serial
    BY <1>t, <2>0 DEF ProcTypes
  <2>4. ResourceOK(o)' /\ (Alive(o)' => Alive(o))
    BY <1>k, <2>0, <2>3 DEF ResourceOK, NothingLeft, Alive, WorldUnchanged, mgrVars
  <2> QED
    BY <1>still, <2>0, <2>2, <2>3, <2>4, WorldKeeps
<1>3. CASE SupervisorReaps(o)
  <2>0. /\ WorldUnchanged /\ UNCHANGED <<sess, env>> /\ ~proc[o].child
        /\ proc' = [proc EXCEPT ![o].status = "reaped", ![o].sup = "exited"]
    BY <1>3 DEF SupervisorReaps
  <2>2. ProcStep(o)
    BY <1>t, <2>0, ProcOutcomes
  <2>3. /\ proc'[o].sup = "exited" /\ proc'[o].child = proc[o].child /\ proc'[o].term = proc[o].term
        /\ proc'[o].termErr = proc[o].termErr /\ proc'[o].status = "reaped"
        /\ proc'[o].serial = proc[o].serial
    BY <1>t, <2>0 DEF ProcTypes
  <2>4. ResourceOK(o)' /\ (Alive(o)' => Alive(o))
    BY <1>k, <2>0, <2>3 DEF ResourceOK, NothingLeft, Alive, WorldUnchanged, mgrVars
  <2> QED
    BY <1>still, <2>0, <2>2, <2>3, <2>4, WorldKeeps
<1>4. CASE TermSignal(o)
  <2>0. WorldUnchanged /\ UNCHANGED <<sess, env>>
    BY <1>4 DEF TermSignal
  <2>1. PICK killed \in BOOLEAN :
           proc' = [proc EXCEPT ![o].term = "await", ![o].child = @ /\ ~killed,
                                ![o].termErr = ~killed \/ proc[o].sup = "exited"]
    BY <1>4 DEF TermSignal
  <2> DEFINE c == proc[o].child /\ ~killed
             e == ~killed \/ proc[o].sup = "exited"
  <2>2. c \in BOOLEAN /\ e \in BOOLEAN
    BY Zenon
  <2>3. proc' = [proc EXCEPT ![o].term = "await", ![o].child = c, ![o].termErr = e]
    BY <1>t, <2>1 DEF ProcTypes
  <2>x. /\ c = (proc[o].child /\ ~killed)
        /\ e = (~killed \/ proc[o].sup = "exited")
    OBVIOUS
  <2> HIDE DEF c, e
  <2>4. /\ ProcStep(o) /\ proc'[o].sup = proc[o].sup /\ proc'[o].child = c
        /\ proc'[o].term = "await" /\ proc'[o].termErr = e
        /\ proc'[o].status = proc[o].status /\ proc'[o].serial = proc[o].serial
    BY <1>t, <2>2, <2>3, ProcOutcomes
  <2>5. (~proc'[o].termErr => ~proc'[o].child) /\ (proc'[o].child => proc[o].child)
    BY <2>x, <2>4, Zenon
  <2>6. ResourceOK(o)' /\ (Alive(o)' => Alive(o))
    BY <1>k, <2>0, <2>4, <2>5 DEF ResourceOK, NothingLeft, Alive, WorldUnchanged, mgrVars
  <2> QED
    BY <1>still, <2>0, <2>4, <2>6, WorldKeeps DEF ProcStep
<1>5. CASE TermAwait(o)
  <2>0. WorldUnchanged /\ UNCHANGED <<sess, env>> /\ proc[o].term = "await"
    BY <1>5 DEF TermAwait
  <2>1. PICK intime \in BOOLEAN :
           proc' = [proc EXCEPT ![o].term = "done",
                                ![o].termErr = @ \/ proc[o].status # "reaped" \/ ~intime]
    BY <1>5 DEF TermAwait
  <2> DEFINE e == proc[o].termErr \/ proc[o].status # "reaped" \/ ~intime
  <2>2. e \in BOOLEAN
    BY Zenon
  <2>3. proc' = [proc EXCEPT ![o].term = "done", ![o].termErr = e]
    BY <1>t, <2>1 DEF ProcTypes
  <2>x. e = (proc[o].termErr \/ proc[o].status # "reaped" \/ ~intime)
    OBVIOUS
  <2> HIDE DEF e
  <2>4. /\ ProcStep(o) /\ proc'[o].sup = proc[o].sup /\ proc'[o].child = proc[o].child
        /\ proc'[o].term = "done" /\ proc'[o].termErr = e
        /\ proc'[o].status = proc[o].status /\ proc'[o].serial = proc[o].serial
    BY <1>t, <2>2, <2>3, ProcOutcomes
  <2>5. ~proc'[o].termErr => ~proc[o].termErr /\ proc[o].status = "reaped"
    BY <2>x, <2>4, Zenon
  <2>6. ResourceOK(o)' /\ (Alive(o)' => Alive(o))
    BY <1>k, <2>0, <2>4, <2>5 DEF ResourceOK, NothingLeft, Alive, WorldUnchanged, mgrVars
  <2> QED
    BY <1>still, <2>0, <2>4, <2>6, WorldKeeps DEF ProcStep
<1>6. CASE CreatorExits(o)
  <2>0. /\ WorldUnchanged /\ UNCHANGED <<sess, proc>> /\ env[o].creator = "dying"
        /\ env' = [env EXCEPT ![o].creator = "gone"]
    BY <1>6 DEF CreatorExits
  <2>2. EnvStep(o)
    BY <1>t, <2>0, EnvUpdates
  <2>3. env'[o].dir = env[o].dir /\ env'[o].finishing = env[o].finishing /\ env'[o].creator = "gone"
    BY <1>t, <2>0 DEF EnvTypes
  <2>4. ResourceOK(o)' /\ (Alive(o)' => Alive(o))
    BY <1>k, <2>0, <2>3 DEF ResourceOK, NothingLeft, Alive, WorldUnchanged, mgrVars
  <2> QED
    BY <1>still, <2>0, <2>2, <2>3, <2>4, WorldKeeps
<1> QED
    BY <1>1, <1>2, <1>3, <1>4, <1>5, <1>6 DEF coordinateTermination

\* Where a step of an actor at the gate leads: to the gate or its queue, past a
\* gate it was granted too late, or away.
GateLeave(a) ==
    /\ pc'[a] = (IF a \in Ops THEN "returned" ELSE "next")
    /\ own'[a] = "none" /\ kind'[a] = Idle(a) /\ local'[a] = local[a]
    /\ a \in Closers => a \in failed' \/ pc[a] = "release"
GateStay(a) ==
    /\ own'[a] = own[a] /\ kind'[a] = kind[a] /\ pc[a] # "release"
    /\ \/ pc'[a] \in {"check", "waiting"} /\ local'[a] = local[a]
       \/ pc'[a] = "release" /\ (a \in Closers => a \in failed')
GateMove(a) ==
    /\ pc[a] \in {"acquire", "waiting", "release"}
    /\ UNCHANGED <<closing, closed, sessions, lifeDone, sess, env, proc, told, calls, ended, todo>>
    /\ pc' \in [Actors -> Labels] /\ own' \in [Actors -> Owners \cup {"none"}]
    /\ kind' \in [Actors -> {"execute", "clear", "close"}] /\ local' \in [Actors -> LocalTypes]
    /\ \A b \in Actors : b # a =>
          pc'[b] = pc[b] /\ own'[b] = own[b] /\ kind'[b] = kind[b] /\ local'[b] = local[b]
    /\ failed' \subseteq Closers /\ failed \subseteq failed' /\ failed' \subseteq failed \cup {a}
    /\ GateLeave(a) \/ GateStay(a)

\* acquire, wait and release touch the actor's own locals and no owner's state.
LEMMA GateMoves ==
    ASSUME ActorTypeOK, NEW a \in Actors, acquire(a) \/ wait(a) \/ release(a)
    PROVE  GateMove(a)
<1>0. /\ noLocals \in LocalTypes /\ Idle(a) \in {"execute", "clear", "close"}
      /\ (IF a \in Ops THEN "returned" ELSE "next") \in Labels
    BY DEF noLocals, LocalTypes, Idle, Labels
<1>u. /\ pc[a] \in {"acquire", "waiting", "release"}
      /\ UNCHANGED <<closing, closed, sessions, lifeDone, sess, env, proc, told, calls, ended, todo>>
    BY DEF acquire, wait, release, mgrVars, worldVars
<1>l. ASSUME LeaveGate(a)
      PROVE  /\ pc' \in [Actors -> Labels] /\ own' \in [Actors -> Owners \cup {"none"}]
             /\ kind' \in [Actors -> {"execute", "clear", "close"}] /\ local' \in [Actors -> LocalTypes]
             /\ \A b \in Actors : b # a =>
                   pc'[b] = pc[b] /\ own'[b] = own[b] /\ kind'[b] = kind[b] /\ local'[b] = local[b]
             /\ pc'[a] = (IF a \in Ops THEN "returned" ELSE "next")
             /\ own'[a] = "none" /\ kind'[a] = Idle(a) /\ local'[a] = local[a]
    BY <1>0, <1>l DEF LeaveGate, Goto, ActorTypeOK
<1>c. ASSUME NEW l \in {"check", "waiting"}, Continue(a, l), UNCHANGED <<own, kind>>, pc[a] # "release"
      PROVE  GateMove(a)
    BY <1>c, <1>u DEF GateMove, GateStay, Continue, Goto, ActorTypeOK, Labels, Held
<1>f. ASSUME Fail(a), UNCHANGED <<own, kind>>, pc[a] # "release"
      PROVE  GateMove(a)
    BY <1>0, <1>f, <1>u DEF GateMove, GateStay, Fail, Goto, ActorTypeOK, Labels, Held
<1>g. ASSUME LeaveGate(a), failed' = failed \cup (Closers \cap {a})
      PROVE  GateMove(a)
    BY <1>l, <1>g, <1>u DEF GateMove, GateLeave, ActorTypeOK
<1>h. ASSUME LeaveGate(a), UNCHANGED failed, pc[a] = "release"
      PROVE  GateMove(a)
    BY <1>l, <1>h, <1>u DEF GateMove, GateLeave, ActorTypeOK
<1>1. CASE acquire(a)
    BY <1>1, <1>c, <1>g DEF acquire
<1>2. CASE wait(a)
    BY <1>2, <1>c, <1>f, <1>g DEF wait
<1>3. CASE release(a)
    BY <1>3, <1>h DEF release
<1> QED
    BY <1>1, <1>2, <1>3

\* What such a step keeps of everything but the gate.
LEMMA GateMoveKeeps ==
    ASSUME IInv, NEW a \in Actors, NEW o, o = own[a], GateMove(a), pc'[a] \in Held => Quiet(o)
    PROVE  /\ MgrTypeOK' /\ WorldTypeOK' /\ ActorTypeOK' /\ LabelInv' /\ ResInv' /\ CloseInv' /\ CountInv'
           /\ o \in Owners
<1>t. MgrTypeOK /\ WorldTypeOK /\ ActorTypeOK /\ LabelOK(a)
    BY DEF IInv, Types, LabelInv
<1>d. a \in Ops <=> a \notin Closers
    BY ActorsAssumption DEF Actors
<1>o. o \in Owners /\ o \in sessions
    BY <1>t DEF LabelOK, GateMove, Busy, Held, MgrTypeOK
<1>1. MgrTypeOK' /\ WorldTypeOK' /\ ActorTypeOK'
    BY <1>t DEF GateMove, MgrTypeOK, WorldTypeOK, ActorTypeOK
<1>2. LabelInv'
  <2> SUFFICES ASSUME NEW b \in Actors PROVE LabelOK(b)'
    BY DEF LabelInv
  <2>1. CASE b # a
    BY <2>1 DEF IInv, LabelInv, LabelOK, GateMove
  <2>2. CASE b = a
    <3>1. CASE GateLeave(a)
      BY <1>d, <2>2, <3>1 DEF GateLeave, LabelOK, Idle, Busy, Held, CloserLabels, Removal
    <3>2. CASE GateStay(a)
      BY <1>d, <1>t, <2>2, <3>2 DEF GateStay, GateMove, LabelOK, Busy, Held, CloserLabels, Removal
    <3> QED
      BY <3>1, <3>2 DEF GateMove
  <2> QED
    BY <2>1, <2>2
<1>3. ResInv'
  <2>f. /\ \A p \in Owners : OwnerOK(p)' /\ (Quiet(p) => Quiet(p)')
        /\ \A b \in Actors \ {a} : \A p \in Owners : HolderOK(b, p) => HolderOK(b, p)'
    <3>1. \A p \in Owners : OwnerOK(p)
      BY DEF IInv, ResInv
    <3> QED
      BY <3>1, OwnerKept DEF GateMove
  <2>1. ASSUME NEW b \in Actors, pc'[b] \in Held PROVE HolderOK(b, own[b])'
    <3>1. CASE b # a
      <4>1. PICK p : p = own[b]
        OBVIOUS
      <4>2. HolderOK(b, p) /\ p \in Owners
        BY <2>1, <3>1, <4>1, HolderKnows DEF GateMove
      <4> QED
        BY <3>1, <4>1, <4>2, <2>f DEF GateMove
    <3>2. CASE b = a
      <4>1. pc'[a] \in {"check", "release"} /\ own'[a] = o
        BY <2>1, <3>2 DEF GateMove, GateLeave, GateStay, Held
      <4>2. Quiet(o)'
        BY <1>o, <2>1, <2>f, <3>2
      <4>3. HolderOK(a, o)'
        BY <4>1, <4>2 DEF HolderOK, Quiet, Making, Removing, Removal, Resetting
      <4> QED
        BY <3>2, <4>1, <4>3
    <3> QED
      BY <3>1, <3>2
  <2>2. ASSUME NEW p \in Owners, \A b \in Actors : own'[b] = p => pc'[b] \notin Held PROVE Quiet(p)'
    <3>1. CASE pc[a] = "release" /\ p = o
      <4>1. HolderOK(a, o)
        BY <3>1, HolderKnows DEF Held
      <4>2. Quiet(p)
        BY <3>1, <4>1 DEF HolderOK, Quiet, Making, Removal, Resetting
      <4> QED
        BY <2>f, <4>2
    <3>2. CASE ~(pc[a] = "release" /\ p = o)
      <4>1. \A b \in Actors : own[b] = p => pc[b] \notin Held
        BY <2>2, <3>2 DEF GateMove, Held
      <4> QED
        BY <2>f, <4>1 DEF IInv, ResInv
    <3> QED
      BY <3>1, <3>2
  <2> QED
    BY <2>f, <2>1, <2>2 DEF ResInv
<1>4. CloseInv'
  <2>1. ASSUME NEW k \in Closers PROVE CloserOK(k)'
    <3>1. CloserOK(k) /\ k \in Actors
      BY DEF IInv, CloseInv, Actors
    <3>2. CASE k # a
      BY <3>1, <3>2 DEF CloserOK, GateMove
    <3>3. CASE k = a
      <4>1. CASE GateLeave(a)
        BY <3>1, <3>3, <4>1 DEF GateLeave, CloserOK, GateMove, AtRest, Busy, Held
      <4>2. CASE GateStay(a)
        BY <3>1, <3>3, <4>2 DEF GateStay, CloserOK, GateMove, AtRest, Busy, Held
      <4> QED
        BY <4>1, <4>2 DEF GateMove
    <3> QED
      BY <3>2, <3>3
  <2> QED
    BY <2>1 DEF IInv, CloseInv, GateMove
<1>5. CountInv'
  <2>0. /\ IsFiniteSet(Raisers) /\ IsFiniteSet(Starters)
        /\ \A p \in Owners : /\ sess[p].gen + Cardinality(Raisers) <= calls
                             /\ proc[p].serial + Cardinality(Starters) <= calls
    BY DEF IInv, CountInv
  <2>1. Raisers' \subseteq Raisers
    BY DEF Raisers, GateMove, GateLeave, GateStay, Busy, Held, Actors
  <2>2. Starters' \subseteq Starters
    BY DEF Starters, GateMove, GateLeave, GateStay, Removal, Actors
  <2>3. IsFiniteSet(Raisers') /\ Cardinality(Raisers') <= Cardinality(Raisers)
    BY <2>0, <2>1, FS_Subset
  <2>4. IsFiniteSet(Starters') /\ Cardinality(Starters') <= Cardinality(Starters)
    BY <2>0, <2>2, FS_Subset
  <2>5. /\ \A p \in Owners : sess[p].gen \in Nat /\ proc[p].serial \in Nat
        /\ calls \in Nat /\ Cardinality(Raisers) \in Nat /\ Cardinality(Starters) \in Nat
        /\ Cardinality(Raisers') \in Nat /\ Cardinality(Starters') \in Nat
    BY <1>t, <2>0, <2>3, <2>4, FS_CardinalityType DEF WorldTypeOK, SessTypes, ProcTypes, ActorTypeOK
  <2>6. UNCHANGED <<sess, proc, calls>>
    BY DEF GateMove
  <2> QED
    BY <2>0, <2>3, <2>4, <2>5, <2>6 DEF CountInv
<1> QED
    BY <1>o, <1>1, <1>2, <1>3, <1>4, <1>5

\* Nobody is twice in a queue.
Distinct(q) == \A i, j \in 1 .. Len(q) : q[i] = q[j] => i = j

\* r is q without its k-th place.
Cut(r, q, k) ==
    /\ r \in Seq(Actors) /\ Len(r) = Len(q) - 1
    /\ \A i \in 1 .. Len(r) : r[i] = q[IF i < k THEN i ELSE i + 1]

\* removeWaiter takes out the one place of the waiter and keeps the order.
LEMMA RemovedWaiter ==
    ASSUME NEW q \in Seq(Actors), NEW a \in Actors, NEW k \in 1 .. Len(q), q[k] = a, Distinct(q),
           NEW r, r = removeWaiter(q, a)
    PROVE  Cut(r, q, k)
<1> DEFINE at == {i \in 1 .. Len(q) : q[i] = a}
           index == CHOOSE i \in at : \A j \in at : i <= j
<1>0. Len(q) \in Nat
    BY LenProperties
<1>1. at = {k}
    BY DEF Distinct
<1>2. index = k
    BY <1>0, <1>1
<1>3. r = [i \in 1 .. Len(q) - 1 |-> q[IF i < index THEN i ELSE i + 1]]
    BY <1>1 DEF removeWaiter
<1> HIDE DEF at, index
<1>4. r = [i \in 1 .. Len(q) - 1 |-> q[IF i < k THEN i ELSE i + 1]]
    BY <1>2, <1>3
<1>5. \A i \in 1 .. Len(q) - 1 : q[IF i < k THEN i ELSE i + 1] \in Actors
  <2> SUFFICES ASSUME NEW i \in 1 .. Len(q) - 1
               PROVE  q[IF i < k THEN i ELSE i + 1] \in Actors
    OBVIOUS
  <2>1. (IF i < k THEN i ELSE i + 1) \in 1 .. Len(q)
    BY <1>0
  <2> QED
    BY <2>1, ElementOfSeq
<1>6. Len(q) - 1 \in Nat
    BY <1>0
<1>7. r \in [1 .. Len(q) - 1 -> Actors]
    BY <1>4, <1>5
<1>8. r \in Seq(Actors) /\ Len(r) = Len(q) - 1
    BY <1>6, <1>7, SeqDef, LenProperties
<1> QED
    BY <1>4, <1>8 DEF Cut

\* r has the members of q but x, once.
SameBut(r, q, x) ==
    /\ Distinct(r)
    /\ \A i \in 1 .. Len(r) : r[i] # x /\ \E j \in 1 .. Len(q) : r[i] = q[j]
    /\ \A j \in 1 .. Len(q) : q[j] # x => \E i \in 1 .. Len(r) : r[i] = q[j]

\* A queue from which one place is cut out still has its other members, once.
LEMMA QueueWithout ==
    ASSUME NEW q \in Seq(Actors), NEW r, NEW k \in 1 .. Len(q), Distinct(q), Cut(r, q, k)
    PROVE  SameBut(r, q, q[k])
<1>c. /\ r \in Seq(Actors) /\ Len(r) = Len(q) - 1
      /\ \A i \in 1 .. Len(r) : r[i] = q[IF i < k THEN i ELSE i + 1]
    BY DEF Cut
<1>0. Len(q) \in Nat /\ Len(r) \in Nat
    BY <1>c, LenProperties
<1> DEFINE at(i) == IF i < k THEN i ELSE i + 1
<1>1. \A i \in 1 .. Len(r) : at(i) \in 1 .. Len(q) /\ at(i) # k /\ r[i] = q[at(i)]
    BY <1>0, <1>c
<1>2. \A i, j \in 1 .. Len(r) : at(i) = at(j) => i = j
    BY <1>0
<1>3. \A j \in 1 .. Len(q) : j # k => \E i \in 1 .. Len(r) : at(i) = j
  <2> SUFFICES ASSUME NEW j \in 1 .. Len(q), j # k PROVE \E i \in 1 .. Len(r) : at(i) = j
    OBVIOUS
  <2>1. CASE j < k
    BY <2>1, <1>0, <1>c
  <2>2. CASE j > k
    <3>1. j - 1 \in 1 .. Len(r) /\ at(j - 1) = j
      BY <2>2, <1>0, <1>c
    <3> QED
      BY <3>1
  <2> QED
    BY <2>1, <2>2, <1>0
<1> HIDE DEF at
<1>4. Distinct(r)
    BY <1>1, <1>2 DEF Distinct
<1>5. \A i \in 1 .. Len(r) : r[i] # q[k] /\ \E j \in 1 .. Len(q) : r[i] = q[j]
    BY <1>1 DEF Distinct
<1>6. \A j \in 1 .. Len(q) : q[j] # q[k] => \E i \in 1 .. Len(r) : r[i] = q[j]
    BY <1>1, <1>3
<1> QED
    BY <1>4, <1>5, <1>6 DEF SameBut

\* The gate of the owner after a step of an actor at it, from who holds it and
\* who waits for it.
LEMMA GateSettles ==
    ASSUME IInv, NEW a \in Actors, NEW o, o = own[a], GateMove(a), pc'[a] \in Held => Quiet(o),
           gate' \in [Owners -> GateTypes], \A p \in Owners : p # o => gate'[p] = gate[p],
           Len(gate'[o].waiters) <= MaxQueued,
           granted' \subseteq Actors, \A b \in granted' : pc'[b] = "waiting",
           \A b \in granted' : b \notin granted => own[b] = o,
           \A b \in granted : b \notin granted' => own[b] = o,
           GateOK(o)'
    PROVE  IInv'
<1>1. /\ MgrTypeOK' /\ WorldTypeOK' /\ ActorTypeOK' /\ LabelInv' /\ ResInv' /\ CloseInv' /\ CountInv'
      /\ o \in Owners
    BY GateMoveKeeps
<1>2. GateTypeOK'
    BY DEF IInv, Types, GateTypeOK
<1>3. ASSUME NEW p \in Owners, p # o PROVE GateOK(p)'
  <2>0. GateOK(p) /\ gate'[p] = gate[p] /\ gate[p].waiters \in Seq(Actors)
    BY <1>3 DEF IInv, GateInv, Types, GateTypeOK, GateTypes
  <2>1. \A b \in Actors : (Holds(b, p)' <=> Holds(b, p)) /\ (Waits(b, p)' <=> Waits(b, p))
    <3> SUFFICES ASSUME NEW b \in Actors
                 PROVE (Holds(b, p)' <=> Holds(b, p)) /\ (Waits(b, p)' <=> Waits(b, p))
      OBVIOUS
    <3>1. CASE b # a
      BY <1>3, <3>1 DEF Holds, Waits, GateMove
    <3>2. CASE b = a
      <4>1. ~Holds(a, p) /\ ~Waits(a, p)
        BY <1>3 DEF Holds, Waits
      <4>2. ~Holds(a, p)' /\ ~Waits(a, p)'
        <5>1. CASE GateStay(a)
          BY <1>3, <5>1 DEF Holds, Waits, GateStay
        <5>2. CASE GateLeave(a)
          BY <5>2 DEF Holds, Waits, GateLeave, Held
        <5> QED
          BY <5>1, <5>2 DEF GateMove
      <4> QED
        BY <3>2, <4>1, <4>2
    <3> QED
      BY <3>1, <3>2
  <2>2. \A i \in 1 .. Len(gate[p].waiters) : gate[p].waiters[i] \in Actors
    BY <2>0, ElementOfSeq
  <2> QED
    BY <2>0, <2>1, <2>2 DEF GateOK
<1>4. GateInv'
    BY <1>3 DEF GateInv
<1> QED
    BY <1>1, <1>2, <1>4 DEF IInv, Types

\* The two ways a gate is written.
LEMMA GateUpdates ==
    ASSUME gate \in [Owners -> GateTypes], NEW o \in Owners
    PROVE  /\ \A b \in BOOLEAN : gate' = [gate EXCEPT ![o].active = b] =>
                /\ gate' \in [Owners -> GateTypes] /\ \A p \in Owners : p # o => gate'[p] = gate[p]
                /\ gate'[o].active = b /\ gate'[o].waiters = gate[o].waiters
           /\ \A r \in Seq(Actors) : gate' = [gate EXCEPT ![o].waiters = r] =>
                /\ gate' \in [Owners -> GateTypes] /\ \A p \in Owners : p # o => gate'[p] = gate[p]
                /\ gate'[o].active = gate[o].active /\ gate'[o].waiters = r
<1>1. ASSUME NEW b \in BOOLEAN, gate' = [gate EXCEPT ![o].active = b]
      PROVE  /\ gate' \in [Owners -> GateTypes] /\ \A p \in Owners : p # o => gate'[p] = gate[p]
             /\ gate'[o].active = b /\ gate'[o].waiters = gate[o].waiters
    BY <1>1 DEF GateTypes
<1>2. ASSUME NEW r \in Seq(Actors), gate' = [gate EXCEPT ![o].waiters = r]
      PROVE  /\ gate' \in [Owners -> GateTypes] /\ \A p \in Owners : p # o => gate'[p] = gate[p]
             /\ gate'[o].active = gate[o].active /\ gate'[o].waiters = r
    BY <1>2 DEF GateTypes
<1> QED
    BY <1>1, <1>2

\* What is known of the gate of an actor at it.
LEMMA GateKnows ==
    ASSUME IInv, NEW a \in Actors, NEW o, o = own[a], GateMove(a)
    PROVE  /\ o \in Owners /\ GateOK(o) /\ gate \in [Owners -> GateTypes] /\ granted \subseteq Actors
           /\ gate[o].waiters \in Seq(Actors) /\ Len(gate[o].waiters) \in Nat
           /\ Len(gate[o].waiters) <= MaxQueued /\ Distinct(gate[o].waiters)
           /\ \A i \in 1 .. Len(gate[o].waiters) : gate[o].waiters[i] \in Actors
           /\ \A b \in granted : pc[b] = "waiting"
           /\ (\A b \in Actors : own[b] = o => pc[b] \notin Held) => Quiet(o)
<1>1. o \in Owners
    BY DEF IInv, Types, LabelInv, LabelOK, GateMove, Busy, Held, MgrTypeOK
<1>2. /\ GateOK(o) /\ gate \in [Owners -> GateTypes] /\ granted \subseteq Actors
      /\ \A b \in granted : pc[b] = "waiting"
      /\ Len(gate[o].waiters) <= MaxQueued
    BY <1>1 DEF IInv, Types, GateInv, GateTypeOK
<1>3. gate[o].waiters \in Seq(Actors)
    BY <1>1, <1>2 DEF GateTypes
<1>4. Len(gate[o].waiters) \in Nat /\ \A i \in 1 .. Len(gate[o].waiters) : gate[o].waiters[i] \in Actors
    BY <1>3, LenProperties, ElementOfSeq
<1>5. Distinct(gate[o].waiters)
    BY <1>2 DEF GateOK, Distinct
<1>6. (\A b \in Actors : own[b] = o => pc[b] \notin Held) => Quiet(o)
    BY <1>1 DEF IInv, ResInv
<1> QED
    BY <1>1, <1>2, <1>3, <1>4, <1>5, <1>6

\* A gate that is free is taken, a busy one queues the actor or sends it away.
LEMMA AcquireKeeps ==
    ASSUME IInv, NEW a \in Actors, acquire(a)
    PROVE  IInv'
<1>o. PICK o : o = own[a]
    OBVIOUS
<1> USE <1>o
<1>m. GateMove(a)
    BY GateMoves DEF IInv, Types
<1>k. /\ o \in Owners /\ GateOK(o) /\ gate \in [Owners -> GateTypes] /\ granted \subseteq Actors
      /\ gate[o].waiters \in Seq(Actors) /\ Len(gate[o].waiters) \in Nat
      /\ Len(gate[o].waiters) <= MaxQueued /\ Distinct(gate[o].waiters)
      /\ \A i \in 1 .. Len(gate[o].waiters) : gate[o].waiters[i] \in Actors
      /\ \A b \in granted : pc[b] = "waiting"
      /\ (\A b \in Actors : own[b] = o => pc[b] \notin Held) => Quiet(o)
    BY <1>m, GateKnows
<1>0. /\ pc[a] = "acquire" /\ UNCHANGED granted /\ a \notin granted /\ pc \in [Actors -> Labels]
      /\ \A b \in granted : pc'[b] = "waiting"
    BY <1>k, <1>m DEF acquire, GateMove, IInv, Types, ActorTypeOK
<1>n. ~Holds(a, o) /\ ~Waits(a, o)
    BY <1>0 DEF Holds, Waits, Held
<1>r. \A b \in Actors : b # a => (Holds(b, o)' <=> Holds(b, o)) /\ (Waits(b, o)' <=> Waits(b, o))
    BY <1>0, <1>m DEF Holds, Waits, GateMove
<1>1. CASE ~gate[o].active /\ gate' = [gate EXCEPT ![o].active = TRUE] /\ Continue(a, "check") /\ UNCHANGED own
  <2>1. /\ gate' \in [Owners -> GateTypes] /\ \A p \in Owners : p # o => gate'[p] = gate[p]
        /\ gate'[o].active = TRUE /\ gate'[o].waiters = gate[o].waiters
    BY <1>1, <1>k, GateUpdates
  <2>2. pc'[a] = "check" /\ own'[a] = o
    BY <1>0, <1>1 DEF Continue, Goto
  <2>3. gate[o].waiters = <<>> /\ \A b \in Actors : ~Holds(b, o)
    BY <1>1, <1>k DEF GateOK
  <2>4. Quiet(o)
    BY <1>k, <2>3 DEF Holds
  <2>5. Holds(a, o)' /\ ~Waits(a, o)'
    BY <2>2 DEF Holds, Waits, Held
  <2>6. GateOK(o)'
    BY <1>k, <1>r, <2>1, <2>3, <2>5 DEF GateOK
  <2> QED
    BY <1>0, <1>k, <1>m, <2>1, <2>4, <2>6, GateSettles
<1>2. CASE /\ gate[o].active /\ Len(gate[o].waiters) < MaxQueued
           /\ gate' = [gate EXCEPT ![o].waiters = Append(@, a)]
           /\ Continue(a, "waiting") /\ UNCHANGED own
  <2>q1. PICK q : q = gate[o].waiters
    OBVIOUS
  <2>r1. PICK r : r = Append(q, a)
    OBVIOUS
  <2> USE <2>q1
  <2>0. /\ r \in Seq(Actors) /\ Len(r) = Len(q) + 1 /\ r[Len(q) + 1] = a
        /\ \A i \in 1 .. Len(q) : r[i] = q[i]
    BY <1>k, <2>r1, AppendProperties
  <2>u. gate' = [gate EXCEPT ![o].waiters = r]
    BY <1>2, <1>k, <2>r1
  <2>2s. r \in Seq(Actors) /\ gate \in [Owners -> GateTypes] /\ o \in Owners
    BY <2>0, <1>k
  <2>1. /\ gate' \in [Owners -> GateTypes] /\ \A p \in Owners : p # o => gate'[p] = gate[p]
        /\ gate'[o].active = gate[o].active /\ gate'[o].waiters = r
    BY <2>2s, <2>u, GateUpdates
  <2>2. pc'[a] = "waiting" /\ own'[a] = o
    BY <1>0, <1>2 DEF Continue, Goto
  <2>5. ~Holds(a, o)' /\ Waits(a, o)'
    BY <1>0, <2>2 DEF Holds, Waits, Held
  <2>q. \A i \in 1 .. Len(q) : q[i] # a /\ Waits(q[i], o)' /\ q[i] \in Actors
    BY <1>k, <1>n, <1>r DEF GateOK
  <2>6. GateOK(o)'
    <3>1. \A i \in 1 .. Len(r) : i \in 1 .. Len(q) \/ i = Len(q) + 1
      BY <1>k, <2>0
    <3>2. \A i \in 1 .. Len(r) : Waits(r[i], o)'
      BY <2>0, <2>5, <2>q, <3>1
    <3>3. \A i, j \in 1 .. Len(r) : r[i] = r[j] => i = j
      BY <1>k, <2>0, <2>q, <3>1 DEF Distinct
    <3>4. \A b \in Actors : Waits(b, o)' => \E i \in 1 .. Len(r) : r[i] = b
      <4> SUFFICES ASSUME NEW b \in Actors, Waits(b, o)' PROVE \E i \in 1 .. Len(r) : r[i] = b
        OBVIOUS
      <4>1. CASE b = a
        BY <4>1, <1>k, <2>0
      <4>2. CASE b # a
        <5>1. PICK i \in 1 .. Len(q) : q[i] = b
          BY <4>2, <1>k, <1>r DEF GateOK
        <5> QED
          BY <5>1, <1>k, <2>0
      <4> QED
        BY <4>1, <4>2
    <3>5. \A b \in Actors : Holds(b, o)' <=> Holds(b, o)
      BY <1>n, <1>r, <2>5
    <3>6. (\A b, c \in Actors : Holds(b, o)' /\ Holds(c, o)' => b = c) /\ \E b \in Actors : Holds(b, o)'
      BY <1>2, <1>k, <3>5 DEF GateOK
    <3>7. gate'[o].active
      BY <1>2, <2>1, Zenon
    <3> QED
      BY <2>1, <3>2, <3>3, <3>4, <3>6, <3>7 DEF GateOK
  <2>7. Len(gate'[o].waiters) <= MaxQueued
    BY <1>2, <1>k, <2>0, <2>1, LimitsAssumption
  <2> QED
    BY <1>0, <1>k, <1>m, <2>1, <2>2, <2>6, <2>7, GateSettles DEF Held
<1>3. CASE LeaveGate(a) /\ UNCHANGED gate
  <2>1. pc'[a] \notin Held /\ pc'[a] # "waiting"
    BY <1>0, <1>3 DEF LeaveGate, Goto, Held
  <2>2. ~Holds(a, o)' /\ ~Waits(a, o)'
    BY <1>0, <2>1 DEF Holds, Waits
  <2>6. GateOK(o)'
    BY <1>3, <1>k, <1>n, <1>r, <2>2 DEF GateOK
  <2> QED
    BY <1>3, <1>0, <1>k, <1>m, <2>1, <2>6, GateSettles
<1> QED
    BY <1>1, <1>2, <1>3 DEF acquire

\* A granted actor holds on to the gate or passes it on; one that gives up is
\* taken out of the queue.
LEMMA WaitKeeps ==
    ASSUME IInv, NEW a \in Actors, wait(a)
    PROVE  IInv'
<1>o. PICK o : o = own[a]
    OBVIOUS
<1> USE <1>o
<1>m. GateMove(a)
    BY GateMoves DEF IInv, Types
<1>k. /\ o \in Owners /\ GateOK(o) /\ gate \in [Owners -> GateTypes] /\ granted \subseteq Actors
      /\ gate[o].waiters \in Seq(Actors) /\ Len(gate[o].waiters) \in Nat
      /\ Len(gate[o].waiters) <= MaxQueued /\ Distinct(gate[o].waiters)
      /\ \A i \in 1 .. Len(gate[o].waiters) : gate[o].waiters[i] \in Actors
      /\ \A b \in granted : pc[b] = "waiting"
      /\ (\A b \in Actors : own[b] = o => pc[b] \notin Held) => Quiet(o)
    BY <1>m, GateKnows
<1>0. pc[a] = "waiting" /\ pc \in [Actors -> Labels]
    BY DEF wait, IInv, Types, ActorTypeOK
<1>1. CASE /\ a \in granted /\ granted' = granted \ {a}
           /\ (IF a \notin ended THEN Continue(a, "check") ELSE Fail(a)) /\ UNCHANGED <<gate, own>>
  <2>1. pc'[a] \in Held /\ pc'[a] # "waiting" /\ own'[a] = o
    BY <1>0, <1>1 DEF Continue, Fail, Goto, Held
  <2>2. \A b \in Actors : b # a => (Holds(b, o)' <=> Holds(b, o)) /\ (Waits(b, o)' <=> Waits(b, o))
    BY <1>1, <1>m DEF Holds, Waits, GateMove
  <2>3. Holds(a, o) /\ Holds(a, o)' /\ ~Waits(a, o) /\ ~Waits(a, o)'
    BY <1>1, <2>1 DEF Holds, Waits
  <2>4. Quiet(o)
    <3>1. \A b \in Actors : Holds(b, o) => b = a
      BY <1>k, <2>3 DEF GateOK
    <3>2. \A b \in Actors : own[b] = o => pc[b] \notin Held
      BY <1>0, <3>1 DEF Holds, Held
    <3> QED
      BY <1>k, <3>2
  <2>5. GateOK(o)'
    BY <1>1, <1>k, <2>2, <2>3 DEF GateOK
  <2>6. /\ granted' \subseteq Actors /\ \A b \in granted' : pc'[b] = "waiting" /\ b \in granted
        /\ \A b \in granted : b \notin granted' => own[b] = o
    BY <1>1, <1>k, <1>m DEF GateMove
  <2> QED
    BY <1>1, <1>k, <1>m, <2>4, <2>5, <2>6, GateSettles
<1>2. CASE /\ a \notin granted /\ UNCHANGED granted /\ LeaveGate(a)
           /\ gate' = [gate EXCEPT ![o].waiters = removeWaiter(@, a)]
  <2>q1. PICK q : q = gate[o].waiters
    OBVIOUS
  <2> USE <2>q1
  <2>w. Waits(a, o)
    BY <1>0, <1>2 DEF Waits
  <2>i. PICK k \in 1 .. Len(q) : q[k] = a
    BY <1>k, <2>w DEF GateOK
  <2>r1. PICK r : r = removeWaiter(q, a)
    OBVIOUS
  <2>d. q \in Seq(Actors) /\ Distinct(q)
    BY <1>k
  <2>c. Cut(r, q, k)
    BY <2>d, <2>i, <2>r1, RemovedWaiter
  <2>0. r \in Seq(Actors) /\ Len(r) = Len(q) - 1
    BY <2>c DEF Cut
  <2>z. SameBut(r, q, q[k])
    BY <2>c, <2>d, QueueWithout
  <2>s. /\ Distinct(r)
        /\ \A i \in 1 .. Len(r) : r[i] # a /\ \E j \in 1 .. Len(q) : r[i] = q[j]
        /\ \A j \in 1 .. Len(q) : q[j] # a => \E i \in 1 .. Len(r) : r[i] = q[j]
    BY <2>i, <2>z DEF SameBut
  <2>u. gate' = [gate EXCEPT ![o].waiters = r]
    BY <1>2, <1>k, <2>r1
  <2>1. /\ gate' \in [Owners -> GateTypes] /\ \A p \in Owners : p # o => gate'[p] = gate[p]
        /\ gate'[o].active = gate[o].active /\ gate'[o].waiters = r
    BY <2>0, <2>u, <1>k, GateUpdates, ZenonT(30)
  <2>2. pc'[a] \notin Held /\ pc'[a] # "waiting"
    BY <1>0, <1>2 DEF LeaveGate, Goto, Held
  <2>3. \A b \in Actors : b # a => (Holds(b, o)' <=> Holds(b, o)) /\ (Waits(b, o)' <=> Waits(b, o))
    BY <1>2, <1>m DEF Holds, Waits, GateMove
  <2>4. ~Holds(a, o) /\ ~Holds(a, o)' /\ ~Waits(a, o)'
    BY <1>0, <1>2, <2>2 DEF Holds, Waits, Held
  <2>5. GateOK(o)'
    <3>2. \A i \in 1 .. Len(r) : Waits(r[i], o)'
      <4> SUFFICES ASSUME NEW i \in 1 .. Len(r) PROVE Waits(r[i], o)'
        OBVIOUS
      <4>0. PICK j \in 1 .. Len(q) : r[i] = q[j]
        BY <2>s
      <4>1. r[i] = q[j] /\ q[j] # a
        BY <2>i, <2>s, <4>0
      <4>2. PICK b \in Actors : b = q[j]
        BY <1>k
      <4>3. Waits(b, o) /\ b # a
        BY <1>k, <4>1, <4>2 DEF GateOK
      <4> QED
        BY <2>3, <4>1, <4>2, <4>3
    <3>3. \A i, j \in 1 .. Len(r) : r[i] = r[j] => i = j
      BY <2>s DEF Distinct
    <3>4. \A b \in Actors : Waits(b, o)' => \E i \in 1 .. Len(r) : r[i] = b
      <4> SUFFICES ASSUME NEW b \in Actors, Waits(b, o)' PROVE \E i \in 1 .. Len(r) : r[i] = b
        OBVIOUS
      <4>1. b # a
        BY <2>4
      <4>2. PICK j \in 1 .. Len(q) : q[j] = b
        BY <1>k, <2>3, <4>1 DEF GateOK
      <4> QED
        BY <2>i, <2>s, <4>1, <4>2
    <3>5. \A b \in Actors : Holds(b, o)' <=> Holds(b, o)
      BY <2>3, <2>4
    <3>6. gate[o].active
      BY <1>k, <2>i DEF GateOK
    <3>7. gate'[o].active
      BY <3>6, <2>1, Zenon
    <3>8. (\A b, c \in Actors : Holds(b, o)' /\ Holds(c, o)' => b = c) /\ \E b \in Actors : Holds(b, o)'
      BY <1>k, <3>5, <3>6 DEF GateOK
    <3> QED
      BY <2>1, <3>2, <3>3, <3>4, <3>7, <3>8 DEF GateOK
  <2>6. /\ granted' \subseteq Actors /\ \A b \in granted' : pc'[b] = "waiting" /\ b \in granted
        /\ \A b \in granted : b \in granted'
    BY <1>2, <1>k, <1>m DEF GateMove
  <2>7. Len(gate'[o].waiters) <= MaxQueued
    BY <1>k, <2>0, <2>1, LimitsAssumption
  <2> QED
    BY <1>k, <1>m, <2>1, <2>2, <2>5, <2>6, <2>7, GateSettles
<1> QED
    BY <1>1, <1>2 DEF wait

\* The gate is given to the head of its queue, or becomes free.
LEMMA ReleaseKeeps ==
    ASSUME IInv, NEW a \in Actors, release(a)
    PROVE  IInv'
<1>o. PICK o : o = own[a]
    OBVIOUS
<1> USE <1>o
<1>m. GateMove(a)
    BY GateMoves DEF IInv, Types
<1>k. /\ o \in Owners /\ GateOK(o) /\ gate \in [Owners -> GateTypes] /\ granted \subseteq Actors
      /\ gate[o].waiters \in Seq(Actors) /\ Len(gate[o].waiters) \in Nat
      /\ Len(gate[o].waiters) <= MaxQueued /\ Distinct(gate[o].waiters)
      /\ \A i \in 1 .. Len(gate[o].waiters) : gate[o].waiters[i] \in Actors
      /\ \A b \in granted : pc[b] = "waiting"
      /\ (\A b \in Actors : own[b] = o => pc[b] \notin Held) => Quiet(o)
    BY <1>m, GateKnows
<1>0. /\ pc[a] = "release" /\ LeaveGate(a) /\ pc \in [Actors -> Labels] /\ a \notin granted
    BY <1>k DEF release, IInv, Types, ActorTypeOK
<1>p. pc'[a] \notin Held /\ pc'[a] # "waiting"
    BY <1>0 DEF LeaveGate, Goto, Held
<1>h. Holds(a, o) /\ ~Waits(a, o)
    BY <1>0 DEF Holds, Waits, Held
<1>e. \A b \in Actors : b # a => ~Holds(b, o)
    BY <1>k, <1>h DEF GateOK
<1>1. CASE gate[o].waiters = <<>> /\ gate' = [gate EXCEPT ![o].active = FALSE] /\ UNCHANGED granted
  <2>1. /\ gate' \in [Owners -> GateTypes] /\ \A p \in Owners : p # o => gate'[p] = gate[p]
        /\ gate'[o].active = FALSE /\ gate'[o].waiters = gate[o].waiters
    BY <1>1, <1>k, GateUpdates
  <2>2. \A b \in Actors : ~Holds(b, o)' /\ ~Waits(b, o)'
    <3>1. \A b \in Actors : ~Waits(b, o)
      BY <1>1, <1>k, EmptySeq DEF GateOK
    <3>2. ASSUME NEW b \in Actors, b # a PROVE ~Holds(b, o)' /\ ~Waits(b, o)'
      BY <1>1, <1>e, <1>m, <3>1, <3>2 DEF Holds, Waits, GateMove
    <3>3. ~Holds(a, o)' /\ ~Waits(a, o)'
      BY <1>0, <1>1, <1>p DEF Holds, Waits
    <3> QED
      BY <3>2, <3>3
  <2>5. GateOK(o)'
    BY <1>1, <2>1, <2>2, EmptySeq DEF GateOK
  <2>6. granted' \subseteq Actors /\ \A b \in granted' : pc'[b] = "waiting" /\ b \in granted
    BY <1>0, <1>1, <1>k, <1>m DEF GateMove
  <2> QED
    BY <1>1, <1>k, <1>m, <1>p, <2>1, <2>5, <2>6, GateSettles
<1>2. CASE /\ gate[o].waiters # <<>> /\ gate' = [gate EXCEPT ![o].waiters = Tail(@)]
           /\ granted' = granted \cup {Head(gate[o].waiters)}
  <2>q1. PICK q : q = gate[o].waiters
    OBVIOUS
  <2> USE <2>q1
  <2>r1. PICK r : r = Tail(q)
    OBVIOUS
  <2>0. /\ r \in Seq(Actors) /\ Len(r) = Len(q) - 1 /\ Len(q) \in Nat \ {0}
        /\ \A i \in 1 .. Len(r) : r[i] = q[i + 1]
        /\ Head(q) = q[1]
    BY <1>2, <1>k, <2>r1, HeadTailProperties, EmptySeq
  <2>i. 1 \in 1 .. Len(q) /\ \A i \in 1 .. Len(r) : r[i] = q[IF i < 1 THEN i ELSE i + 1]
    BY <2>0
  <2>h. PICK h \in Actors : h = q[1]
    BY <1>k, <2>i
  <2>w. Waits(h, o) /\ h # a /\ granted' = granted \cup {h}
    BY <1>2, <1>h, <1>k, <2>0, <2>h, <2>i DEF GateOK
  <2>c. q \in Seq(Actors) /\ Distinct(q) /\ Cut(r, q, 1)
    BY <1>k, <2>0, <2>i DEF Cut
  <2>z. SameBut(r, q, q[1])
    BY <2>c, <2>i, QueueWithout
  <2>s. /\ Distinct(r)
        /\ \A i \in 1 .. Len(r) : r[i] # h /\ \E j \in 1 .. Len(q) : r[i] = q[j]
        /\ \A j \in 1 .. Len(q) : q[j] # h => \E i \in 1 .. Len(r) : r[i] = q[j]
    BY <2>h, <2>z DEF SameBut
  <2>u. gate' = [gate EXCEPT ![o].waiters = r]
    BY <1>2, <1>k, <2>r1
  <2>1. /\ gate' \in [Owners -> GateTypes] /\ \A p \in Owners : p # o => gate'[p] = gate[p]
        /\ gate'[o].active = gate[o].active /\ gate'[o].waiters = r
    <3>1. r \in Seq(Actors) /\ o \in Owners /\ gate \in [Owners -> GateTypes]
      BY <1>k, <2>0
    <3> QED
      BY <3>1, <2>u, GateUpdates
  <2>3. \A b \in Actors : b # a /\ b # h => (Holds(b, o)' <=> Holds(b, o)) /\ (Waits(b, o)' <=> Waits(b, o))
    BY <2>w, <1>m DEF Holds, Waits, GateMove
  <2>4. ~Holds(a, o)' /\ ~Waits(a, o)' /\ Holds(h, o)' /\ ~Waits(h, o)'
    BY <1>0, <1>p, <1>m, <2>w DEF Holds, Waits, GateMove
  <2>5. GateOK(o)'
    <3>2. \A i \in 1 .. Len(r) : Waits(r[i], o)'
      <4> SUFFICES ASSUME NEW i \in 1 .. Len(r) PROVE Waits(r[i], o)'
        OBVIOUS
      <4>1. PICK j \in 1 .. Len(q) : r[i] = q[j] /\ q[j] # h
        BY <2>s
      <4>2. PICK b \in Actors : b = q[j]
        BY <1>k
      <4>3. Waits(b, o) /\ b # h /\ b # a
        BY <1>h, <1>k, <4>1, <4>2 DEF GateOK
      <4> QED
        BY <2>3, <4>1, <4>2, <4>3
    <3>3. \A i, j \in 1 .. Len(r) : r[i] = r[j] => i = j
      BY <2>s DEF Distinct
    <3>4. \A b \in Actors : Waits(b, o)' => \E i \in 1 .. Len(r) : r[i] = b
      <4> SUFFICES ASSUME NEW b \in Actors, Waits(b, o)' PROVE \E i \in 1 .. Len(r) : r[i] = b
        OBVIOUS
      <4>1. b # a /\ b # h
        BY <2>4
      <4>2. PICK j \in 1 .. Len(q) : q[j] = b
        BY <1>k, <2>3, <4>1 DEF GateOK
      <4> QED
        BY <2>s, <4>1, <4>2
    <3>5. \A b \in Actors : Holds(b, o)' <=> b = h
      BY <1>e, <2>3, <2>4, <2>w
    <3>6. gate[o].active
      BY <1>h, <1>k DEF GateOK
    <3>7. gate'[o].active
      BY <3>6, <2>1, Zenon
    <3> QED
      BY <2>1, <3>2, <3>3, <3>4, <3>5, <3>7 DEF GateOK
  <2>6. /\ granted' \subseteq Actors /\ \A b \in granted' : pc'[b] = "waiting"
        /\ \A b \in granted' : b \notin granted => own[b] = o
        /\ \A b \in granted : b \in granted'
    BY <1>0, <1>k, <1>m, <2>w DEF GateMove, Waits
  <2>7. Len(gate'[o].waiters) <= MaxQueued
    BY <1>k, <2>0, <2>1, LimitsAssumption
  <2> QED
    BY <1>k, <1>m, <1>p, <2>1, <2>5, <2>6, <2>7, GateSettles
<1> QED
    BY <1>1, <1>2 DEF release

\* The initial states.
LEMMA InitIInv == Init => IInv
<1> SUFFICES ASSUME Init PROVE IInv
    OBVIOUS
<1>i. /\ closing = FALSE /\ closed = FALSE /\ sessions = {} /\ lifeDone = {} /\ granted = {}
      /\ gate = [o \in Owners |-> [active |-> FALSE, waiters |-> <<>>]]
      /\ sess = [o \in Owners |-> [venv |-> FALSE, invalid |-> FALSE, runner |-> FALSE, gen |-> 0,
                                   pending |-> FALSE, quarantined |-> FALSE, closed |-> FALSE]]
      /\ env = [o \in Owners |-> [dir |-> FALSE, creator |-> "none", finishing |-> FALSE,
                                  signalErr |-> FALSE]]
      /\ proc = [o \in Owners |-> noProcess] /\ told = [o \in Owners |-> [gen |-> 0, serial |-> 0]]
      /\ calls = 0 /\ pc = [a \in Actors |-> "idle"] /\ own = [a \in Actors |-> "none"]
      /\ kind = [a \in Actors |-> Idle(a)] /\ ended = {} /\ local = [a \in Actors |-> noLocals]
      /\ todo = [k \in Closers |-> {}] /\ failed = {}
    BY DEF Init
<1>d. Ops \subseteq Actors /\ Closers \subseteq Actors /\ \A a \in Ops : a \notin Closers
    BY ActorsAssumption DEF Actors
<1>1. Types
  <2>1. MgrTypeOK
    <3>1. closing \in BOOLEAN /\ closed \in BOOLEAN
      BY <1>i
    <3>2. IsFiniteSet(sessions) /\ Cardinality(sessions) = 0
      BY <1>i, FS_EmptySet
    <3>3. sessions \subseteq Owners /\ lifeDone \subseteq sessions
      BY <1>i
    <3> QED
      BY <3>1, <3>2, <3>3, LimitsAssumption DEF MgrTypeOK
  <2>2. GateTypeOK
    <3>1. <<>> \in Seq(Actors) /\ Len(<<>>) = 0
      BY EmptySeq
    <3>2. [active |-> FALSE, waiters |-> <<>>] \in GateTypes
      BY <3>1 DEF GateTypes
    <3> QED
      BY <1>i, <3>1, <3>2, LimitsAssumption DEF GateTypeOK
  <2>3. WorldTypeOK
    BY <1>i DEF WorldTypeOK, SessTypes, EnvTypes, ProcTypes, noProcess
  <2>4. ActorTypeOK
    <3>1. calls \in 0 .. MaxCalls /\ pc \in [Actors -> Labels] /\ own \in [Actors -> Owners \cup {"none"}]
      BY <1>i, LimitsAssumption DEF Labels
    <3>2. kind \in [Actors -> {"execute", "clear", "close"}]
      BY <1>i DEF Idle
    <3>3. noLocals \in LocalTypes
      BY DEF LocalTypes, noLocals
    <3>4. local \in [Actors -> LocalTypes]
      BY <1>i, <3>3
    <3>5. todo \in [Closers -> SUBSET Owners] /\ failed \subseteq Closers /\ ended \subseteq Actors
      BY <1>i
    <3> QED
      BY <3>1, <3>2, <3>4, <3>5 DEF ActorTypeOK
  <2> QED
    BY <2>1, <2>2, <2>3, <2>4 DEF Types
<1>2. LabelInv
    BY <1>i, <1>d DEF LabelInv, LabelOK, Idle, CloserLabels, Removal, Busy, Held
<1>3. GateInv
  <2>1. \A a \in Actors, o \in Owners : ~Holds(a, o) /\ ~Waits(a, o)
    BY <1>i DEF Holds, Waits, Held
  <2>2. \A o \in Owners : gate[o].waiters = <<>> /\ Len(gate[o].waiters) = 0 /\ ~gate[o].active
    BY <1>i, EmptySeq
  <2> QED
    BY <1>i, <2>1, <2>2 DEF GateInv, GateOK
<1>4. ResInv
  <2>1. \A o \in Owners : OwnerOK(o)
    BY <1>i DEF OwnerOK, ResourceOK, ReportOK, Recorded, Unrecorded, NothingLeft, Alive, noProcess
  <2>2. \A o \in Owners : Quiet(o)
    BY <1>i DEF Quiet, ProcOwned, EnvOwned, Pending, Alive, noProcess
  <2>3. \A a \in Actors : pc[a] \notin Held
    BY <1>i DEF Held
  <2> QED
    BY <2>1, <2>2, <2>3 DEF ResInv
<1>5. CloseInv
    BY <1>i, <1>d DEF CloseInv, CloserOK, AtRest
<1>6. CountInv
  <2>1. Raisers = {} /\ Starters = {}
    BY <1>i, <1>d DEF Raisers, Starters, Busy, Held, Removal
  <2>2. IsFiniteSet(Raisers) /\ IsFiniteSet(Starters) /\ Cardinality(Raisers) = 0 /\ Cardinality(Starters) = 0
    BY <2>1, FS_EmptySet
  <2>3. \A o \in Owners : sess[o].gen = 0 /\ proc[o].serial = 0
    BY <1>i DEF noProcess
  <2> QED
    BY <1>i, <2>2, <2>3 DEF CountInv
<1> QED
    BY <1>1, <1>2, <1>3, <1>4, <1>5, <1>6 DEF IInv

\* A step in which nothing changes.
LEMMA Stutter ==
    ASSUME IInv, UNCHANGED vars
    PROVE  IInv'
<1>0. UNCHANGED <<closing, closed, sessions, lifeDone, gate, granted, sess, env, proc, pc, calls, own,
                  kind, ended, local, todo, failed, told>>
    BY DEF vars, mgrVars, gateVars, worldVars, callVars, closeVars
<1>1. Types'
    BY <1>0 DEF IInv, Types, MgrTypeOK, GateTypeOK, WorldTypeOK, ActorTypeOK
<1>2. LabelInv'
    BY <1>0 DEF IInv, LabelInv, LabelOK
<1>3. GateInv'
    BY <1>0, GateFrame DEF gateVars
<1>4. ResInv'
    BY <1>0, ResFrame DEF worldVars
<1>5. CloseInv'
    BY <1>0 DEF IInv, CloseInv, CloserOK
<1>6. CountInv'
    BY <1>0, CountFrame
<1> QED
    BY <1>1, <1>2, <1>3, <1>4, <1>5, <1>6 DEF IInv

\* Every step keeps the invariant.
LEMMA NextIInv == IInv /\ [Next]_vars => IInv'
<1> SUFFICES ASSUME IInv, [Next]_vars PROVE IInv'
    OBVIOUS
<1>d. Ops \subseteq Actors /\ Closers \subseteq Actors
    BY DEF Actors
<1>1. ASSUME NEW a \in Ops, Enter(a) PROVE IInv'
    BY <1>1, EnterKeeps
<1>2. ASSUME NEW a \in Actors, Response(a) \/ HolderStep(a) PROVE IInv'
    BY <1>2, HolderKeeps
<1>3. ASSUME NEW a \in Actors, LifecycleEnds(a) \/ ContextEnds(a) PROVE IInv'
    BY <1>3, ContextKeeps DEF LifecycleEnds, ContextEnds
<1>4. ASSUME NEW a \in Actors, acquire(a) \/ wait(a) \/ release(a) PROVE IInv'
    BY <1>4, AcquireKeeps, WaitKeeps, ReleaseKeeps
<1>5. ASSUME NEW k \in Closers, CloseEnter(k) \/ CloseNext(k) PROVE IInv'
    BY <1>5, CloseEnterKeeps, CloseNextKeeps
<1>6. ASSUME NEW o \in Owners,
             SupervisorReady(o) \/ SupervisorDies(o) \/ SupervisorReaps(o) \/ coordinateTermination(o)
               \/ CreatorExits(o)
      PROVE  IInv'
    BY <1>6, ProcessesKeep
<1>7. CASE UNCHANGED vars
    BY <1>7, Stutter
<1> QED
    BY <1>d, <1>1, <1>2, <1>3, <1>4, <1>5, <1>6, <1>7 DEF Next, Proceed

\* The inductive invariant holds in every reachable state.
THEOREM Invariance == Spec => []IInv
BY InitIInv, NextIInv, PTL DEF Spec

\* The gate of an owner has one holder exactly when it is active, and its queue
\* holds those that wait, once and at most MaxQueued of them (session.go:29-80);
\* the types are part of the claim.
THEOREM GateHasOneHolder == Spec => []GateIsExclusive
<1>1. ASSUME IInv PROVE TypeOK
  <2>1. \A o \in Owners : sess[o].gen \in 0 .. MaxCalls /\ proc[o].serial \in 0 .. MaxCalls
    <3>1. /\ \A o \in Owners : sess[o].gen \in Nat /\ proc[o].serial \in Nat
          /\ calls \in 0 .. MaxCalls
      BY <1>1 DEF IInv, Types, WorldTypeOK, SessTypes, ProcTypes, ActorTypeOK
    <3>2. Cardinality(Raisers) \in Nat /\ Cardinality(Starters) \in Nat
      BY <1>1, FS_CardinalityType DEF IInv, CountInv
    <3> QED
      BY <1>1, <3>1, <3>2, LimitsAssumption DEF IInv, CountInv
  <2>2. sess \in [Owners -> [venv : BOOLEAN, invalid : BOOLEAN, runner : BOOLEAN,
                             gen : 0 .. MaxCalls, pending : BOOLEAN,
                             quarantined : BOOLEAN, closed : BOOLEAN]]
    BY <1>1, <2>1 DEF IInv, Types, WorldTypeOK, SessTypes
  <2>3. proc \in [Owners -> [sup : {"none", "up", "exited"}, child : BOOLEAN,
                             ready : {"none", "good", "incompatible", "bad"},
                             status : {"none", "reaped"},
                             term : {"none", "signal", "await", "done"},
                             termErr : BOOLEAN, serial : 0 .. MaxCalls]]
    BY <1>1, <2>1 DEF IInv, Types, WorldTypeOK, ProcTypes
  <2> QED
    BY <1>1, <2>2, <2>3 DEF TypeOK, IInv, Types, MgrTypeOK, GateTypeOK, WorldTypeOK, ActorTypeOK,
         GateTypes, EnvTypes, LocalTypes, Labels
<1>2. ASSUME IInv, NEW o \in Owners
      PROVE  Cardinality(Holders(o)) = (IF gate[o].active THEN 1 ELSE 0)
  <2>0. GateOK(o)
    BY <1>2 DEF IInv, GateInv
  <2>1. CASE gate[o].active
    <3>1. PICK a \in Actors : Holds(a, o)
      BY <2>0, <2>1 DEF GateOK
    <3>2. Holders(o) = {a}
      BY <2>0, <3>1 DEF Holders, Holds, GateOK
    <3> QED
      BY <2>1, <3>2, FS_Singleton
  <2>2. CASE ~gate[o].active
    <3>1. Holders(o) = {}
      BY <2>0, <2>2 DEF Holders, Holds, GateOK
    <3> QED
      BY <2>2, <3>1, FS_EmptySet
  <2> QED
    BY <2>1, <2>2
<1>3. ASSUME IInv, NEW o \in Owners, NEW a \in Actors
      PROVE  Cardinality({i \in DOMAIN gate[o].waiters : gate[o].waiters[i] = a})
               = (IF pc[a] = "waiting" /\ own[a] = o /\ a \notin granted THEN 1 ELSE 0)
  <2>0. /\ GateOK(o) /\ DOMAIN gate[o].waiters = 1 .. Len(gate[o].waiters)
    BY <1>3, LenProperties DEF IInv, GateInv, Types, GateTypeOK, GateTypes
  <2> DEFINE places == {i \in DOMAIN gate[o].waiters : gate[o].waiters[i] = a}
  <2>1. CASE Waits(a, o)
    <3>1. PICK i \in 1 .. Len(gate[o].waiters) : gate[o].waiters[i] = a
      BY <2>0, <2>1 DEF GateOK
    <3>2. places = {i}
      BY <2>0, <3>1 DEF GateOK
    <3> QED
      BY <2>1, <3>2, FS_Singleton DEF Waits
  <2>2. CASE ~Waits(a, o)
    <3>1. places = {}
      BY <2>0, <2>2 DEF GateOK
    <3> QED
      BY <2>2, <3>1, FS_EmptySet DEF Waits
  <2> QED
    BY <2>1, <2>2
<1>4. IInv => GateIsExclusive
    BY <1>1, <1>2, <1>3 DEF GateIsExclusive
<1> QED
    BY <1>4, Invariance, PTL

\* Between operations a live process is the session's runner, a directory its
\* environment, and a creator that was not waited for belongs to an environment
\* marked invalid (session.go, venv_unix.go, runner_unix.go).
THEOREM NothingIsLostSightOf == Spec => []ResourcesAreOwned
<1>1. ASSUME IInv PROVE ResourcesAreOwned
  <2>1. ASSUME NEW o \in Owners, Holders(o) = {} PROVE Quiet(o)
    BY <1>1, <2>1 DEF IInv, ResInv, Holders
  <2> QED
    BY <2>1 DEF ResourcesAreOwned, Quiet, ProcOwned, EnvOwned
<1> QED
    BY <1>1, Invariance, PTL

\* Close returns nil only when every process is gone and every directory removed,
\* whatever failed and was retried on the way (manager.go: Close).
THEOREM CloseLeavesNothing == Spec => []ClosedMeansNothingLeft
<1>1. ASSUME IInv PROVE ClosedMeansNothingLeft
  <2>1. closed => \A o \in Owners : sess[o].closed \/ o \notin sessions
    BY <1>1 DEF IInv, CloseInv
  <2>2. \A o \in Owners : sess[o].closed \/ o \notin sessions => NothingLeft(o)
    BY <1>1 DEF IInv, ResInv, OwnerOK, ResourceOK
  <2> QED
    BY <2>1, <2>2 DEF ClosedMeansNothingLeft, NothingLeft
<1> QED
    BY <1>1, Invariance, PTL

\* Only Start makes a runner.
LEMMA OnlyStart ==
    ASSUME NEW a \in Actors, HolderStep(a) \/ Response(a), pc[a] = "start"
    PROVE  Start(a)
BY DEF HolderStep, Response, Check, CheckContext, Mkdir, Creating, finish, finishWait, removeVenv, Publish,
       Ready, cancelStartup, terminateAndWait, Request, Write, Interrupted, Reset, ResetWait

\* Which steps change the serial number of an owner's runner, and when.
LEMMA SerialStep ==
    ASSUME IInv, [Next]_vars, NEW o \in Owners, proc'[o].serial # proc[o].serial
    PROVE  ~Alive(o)
<1>d. Ops \subseteq Actors
    BY DEF Actors
<1>1. ASSUME NEW a \in Actors, HolderStep(a) \/ Response(a) PROVE ~Alive(o)
  <2>h. PICK h : h = own[a]
    OBVIOUS
  <2>1. HolderMove(a) /\ HolderEffect(a, h)
    BY <1>1, <2>h, HolderMoves, HolderEffects
  <2>2. o = h
    BY <2>1, <2>h DEF HolderMove, ProcStep
  <2>3. pc[a] = "start" /\ pc'[a] = "ready"
    BY <2>1, <2>2 DEF HolderEffect
  <2>4. Start(a) /\ HolderOK(a, o)
    BY <1>1, <2>2, <2>h, <2>3, OnlyStart, HolderKnows DEF Held
  <2>5. ~sess[o].runner
    BY <2>2, <2>h, <2>4 DEF Start
  <2> QED
    BY <2>3, <2>4, <2>5 DEF HolderOK, ProcOwned
<1>2. ASSUME UNCHANGED proc PROVE FALSE
    BY <1>2
<1>3. ASSUME NEW a \in Actors, acquire(a) \/ wait(a) \/ release(a) PROVE FALSE
    BY <1>3, <1>2 DEF acquire, wait, release, worldVars
<1>4. ASSUME NEW a \in Actors, LifecycleEnds(a) \/ ContextEnds(a) PROVE FALSE
    BY <1>4, <1>2 DEF LifecycleEnds, ContextEnds, EndContext, worldVars
<1>5. ASSUME NEW a \in Ops, Enter(a) PROVE FALSE
    BY <1>5, <1>2 DEF Enter, worldVars
<1>6. ASSUME NEW k \in Closers, CloseEnter(k) \/ CloseNext(k) PROVE FALSE
    BY <1>6, <1>2 DEF CloseEnter, CloseNext, worldVars
<1>7. ASSUME NEW p \in Owners,
             SupervisorReady(p) \/ SupervisorDies(p) \/ SupervisorReaps(p) \/ coordinateTermination(p)
               \/ CreatorExits(p)
      PROVE  FALSE
  <2>t. proc \in [Owners -> ProcTypes]
    BY DEF IInv, Types, WorldTypeOK
  <2>1. CASE SupervisorReady(p)
    BY <2>1, <2>t DEF SupervisorReady, ProcTypes
  <2>2. CASE SupervisorDies(p)
    BY <2>2, <2>t DEF SupervisorDies, ProcTypes
  <2>3. CASE SupervisorReaps(p)
    BY <2>3, <2>t DEF SupervisorReaps, ProcTypes
  <2>4. CASE TermSignal(p)
    BY <2>4, <2>t DEF TermSignal, ProcTypes
  <2>5. CASE TermAwait(p)
    BY <2>5, <2>t DEF TermAwait, ProcTypes
  <2>6. CASE CreatorExits(p)
    BY <2>6, <1>2 DEF CreatorExits
  <2> QED
    BY <1>7, <2>1, <2>2, <2>3, <2>4, <2>5, <2>6 DEF coordinateTermination
<1>8. CASE UNCHANGED vars
    BY <1>8, <1>2 DEF vars, worldVars
<1> QED
    BY <1>d, <1>1, <1>3, <1>4, <1>5, <1>6, <1>7, <1>8 DEF Next, Proceed

\* startRunner: a runner is started only when nothing of the owner's previous one
\* is alive, neither the supervisor nor its child (runner_unix.go, manager.go).
THEOREM OneRunner == Spec => OneRunnerAtATime
<1>1. ASSUME IInv, [Next]_vars
      PROVE  [\A o \in Owners : proc'[o].serial # proc[o].serial => ~Alive(o)]_vars
    BY <1>1, SerialStep
<1> QED
    BY <1>1, Invariance, PTL DEF Spec, OneRunnerAtATime

\* manager.execute: a result says state_reset exactly when the generation is not the
\* one last reported, and under one generation all results come from one runner
\* (manager.go, resetRunner).
THEOREM LostStateIsReported == Spec => StateLossIsReported
<1>1. ASSUME IInv, [Next]_vars
      PROVE  [\A a \in Ops : LET o == own[a] IN
                (pc[a] = "reply" /\ pc'[a] = "release" /\ o \notin lifeDone) =>
                    /\ sess[o].pending <=> sess[o].gen # told[o].gen
                    /\ sess[o].gen = told[o].gen => told[o].serial \in {0, proc[o].serial}]_vars
  <2>1. ASSUME NEW a \in Ops, NEW o, o = own[a], pc[a] = "reply", o \notin lifeDone
        PROVE  /\ sess[o].pending <=> sess[o].gen # told[o].gen
               /\ sess[o].gen = told[o].gen => told[o].serial \in {0, proc[o].serial}
    <3>1. a \in Actors
      BY DEF Actors
    <3>2. HolderOK(a, o) /\ OwnerOK(o)
      BY <1>1, <2>1, <3>1, HolderKnows DEF Held
    <3>3. Pending(o) /\ ~sess[o].quarantined /\ Recorded(o)
      BY <2>1, <3>2 DEF HolderOK, Resetting, OwnerOK, ReportOK
    <3> QED
      BY <2>1, <3>3 DEF Pending, Recorded, Reported
  <2> QED
    BY <2>1
<1> QED
    BY <1>1, Invariance, PTL DEF Spec, StateLossIsReported
=============================================================================
