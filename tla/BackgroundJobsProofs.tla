------------------------ MODULE BackgroundJobsProofs ------------------------
(***************************************************************************)
(* For any number of starts, kills and Close calls, every MaxRunning and   *)
(* MaxTracked, signals that may fail and supervisors that may die on their *)
(* own: a job gets one verdict and keeps it, a terminal job is reaped, the *)
(* supervisor anchors its group until the final signal, the capacity is    *)
(* kept, and a Close that succeeded left nothing behind.                   *)
(*                                                                         *)
(* The invariant has a part for what each goroutine of a job relies on     *)
(* (LifeOK, TermOK, VerdictOK), one for the counters and the registries    *)
(* (CountInv, KnownOK), one for the callers of kill and one for Close: a   *)
(* snapshot taken with no start in progress covers every job that is not   *)
(* terminal, and stays so while the loops of Close work it off.            *)
(***************************************************************************)
EXTENDS BackgroundJobs, FiniteSetTheorems, SequenceTheorems, TLAPS

StartingSet == {j \in Jobs : startPC[j] \in Starting}
EndedSet == {j \in Jobs : completedAt[j] > 0}
Unspawned == {"idle", "reserved", "refused", "failed"}

\* The start path: what has happened at each of its steps.
LifeOK(j) ==
    /\ startPC[j] \in Unspawned <=> proc[j] = "none"
    /\ proc[j] = "none" <=> state[j] = "none"
    /\ proc[j] = "none" => reader[j] = "none" /\ waiter[j] = "none" /\ cause[j] = "none"
    /\ proc[j] # "none" => reader[j] # "none" /\ waiter[j] # "none"
    /\ state[j] \in Terminal <=> fin[j] # "none"
    /\ ready[j] => proc[j] \notin {"none", "booting", "stillborn"}
    /\ startPC[j] \in Unspawned \cup {"spawned", "checkGate", "release", "withhold"}
          => gate[j] = "shut"
    /\ startPC[j] \notin {"returned"} => timer[j] = "none"
    /\ proc[j] = "running" => gate[j] = "released"
    /\ proc[j] \in {"none", "booting", "gated", "running"} => code[j] = "none"
    /\ code[j] # "none" => gate[j] = "released"

\* Termination: one coordinator at a time, and signals in order.
TermOK(j) ==
    /\ fin[j] = "none" => (coordinatorRunning[j] <=> coord[j] # "none")
    /\ fin[j] = "none" => (attemptOpen[j] <=> coord[j] # "none")
    /\ cause[j] = "none" => coord[j] = "none" /\ fin[j] = "none" /\ waiter[j] # "finish"
    /\ coord[j] = "term" => phase[j] = "initial" /\ ready[j]
    /\ coord[j] \in {"grace", "kill"} => phase[j] # "final"
    /\ coord[j] \in {"await", "finish"} => phase[j] = "final"
    /\ coord[j] = "finish" => reaped[j]
    /\ waiter[j] = "finish" => phase[j] = "final"
    /\ waiter[j] \in {"finish", "exited"} <=> reaped[j]
    /\ reaped[j] => Gone(j)
    /\ fin[j] # "none" => reaped[j] /\ phase[j] = "final"
    /\ j \notin Fragile /\ proc[j] \in {"dying", "stillborn", "dead"} => phase[j] = "final"

\* The verdict: what each state and each cause stand for.
VerdictOK(j) ==
    /\ status[j] # "unread" => reader[j] = "exited"
    /\ status[j] = "zero" => code[j] = "zero"
    /\ cause[j] = "timeout" => timer[j] = "closed"
    /\ state[j] \in Terminal /\ cause[j] = "kill" => state[j] = "killed"
    /\ state[j] = "timed_out" => cause[j] = "timeout"
    /\ state[j] = "succeeded" => status[j] = "zero"

\* The registries: a job that is not completed is in one of them and counted.
KnownOK(j) ==
    /\ j \in jobs \cup hidden \cup counted => startPC[j] \notin Starting \cup Unspawned
    /\ startPC[j] \notin Starting \cup Unspawned /\ fin[j] \in {"none", "marked"} =>
          j \in jobs \cup hidden /\ j \in counted

JobsInv == \A j \in Jobs : LifeOK(j) /\ TermOK(j) /\ VerdictOK(j) /\ KnownOK(j)

\* The counters are the sets they count.
CountInv ==
    /\ IsFiniteSet(jobs) /\ IsFiniteSet(hidden) /\ IsFiniteSet(counted)
    /\ IsFiniteSet(StartingSet) /\ IsFiniteSet(EndedSet)
    /\ starting = Cardinality(StartingSet) /\ running = Cardinality(counted)
    /\ starting + running <= MaxRunning
    /\ Tracked <= MaxTracked

\* The callers of kill.
KillOK(k) ==
    /\ killPC[k] = "idle" => ~killNewly[k]
    /\ killPC[k] \in {"found", "waiting", "done", "incomplete"} => killJob[k] \in Jobs
    /\ killPC[k] = "done" => Done(killJob[k])
    /\ killNewly[k] => killJob[k] \in Jobs /\ cause[killJob[k]] = "kill"

KillInv == \A k \in Killers : KillOK(k)

\* A job that Close has nothing left to do for.
Over(j) == Spawned(j) => fin[j] \in {"released", "done"}

\* The callers of Close, and what closed stands for.
CloseOK(k) ==
    /\ closePC[k] \in {"starts", "begin", "wait"} => closing
    /\ closePC[k] \in {"begin", "wait"} =>
          /\ StartingSet = {}
          /\ \A j \in Jobs : \/ j \in closeBegin[k]
                             \/ \E i \in 1 .. Len(closeWait[k]) : closeWait[k][i].job = j
                             \/ Over(j)
    /\ closePC[k] = "wait" => closeBegin[k] = {}
    /\ closePC[k] = "nil" => closed

CloseInv ==
    /\ closed => closing /\ StartingSet = {} /\ \A j \in Jobs : Over(j)
    /\ \A k \in Closers : CloseOK(k)

\* The inductive invariant.
IInv == TypeOK /\ JobsInv /\ CountInv /\ KillInv /\ CloseInv

\* One element more, one less.
LEMMA OneMore ==
    ASSUME NEW S, NEW T, NEW x, IsFiniteSet(S), x \notin S, T = S \cup {x}
    PROVE  IsFiniteSet(T) /\ Cardinality(T) = Cardinality(S) + 1 /\ Cardinality(S) \in Nat
BY FS_AddElement, FS_CardinalityType

\* A finite set less one of its elements.
LEMMA OneLess ==
    ASSUME NEW S, NEW T, NEW x, IsFiniteSet(S), x \in S, T = S \ {x}
    PROVE  /\ IsFiniteSet(T) /\ Cardinality(T) = Cardinality(S) - 1
           /\ Cardinality(T) \in Nat /\ Cardinality(S) \in Nat
BY FS_RemoveElement, FS_CardinalityType

\* The initial states.
LEMMA InitIInv == Init => IInv
<1> SUFFICES ASSUME Init PROVE IInv
    OBVIOUS
<1>1. TypeOK
  <2>1. FALSE \in BOOLEAN
    OBVIOUS
  <2>2. closing \in BOOLEAN /\ closed \in BOOLEAN
    BY Zenon DEF Init
  <2>3. <<>> \in Seq([job : Jobs, attempt : Nat])
    OBVIOUS
  <2>4. closeWait \in [Closers -> Seq([job : Jobs, attempt : Nat])]
    BY <2>3 DEF Init
  <2> QED
    BY <2>1, <2>2, <2>4, MaxRunningAssumption DEF Init, TypeOK, StartPCs
<1>2. JobsInv
    BY DEF Init, JobsInv, LifeOK, TermOK, VerdictOK, KnownOK, Unspawned, Starting, Terminal, Gone
<1>3. StartingSet = {} /\ EndedSet = {}
    BY DEF Init, StartingSet, EndedSet, Starting
<1>4. CountInv
    BY <1>3, FS_EmptySet, MaxRunningAssumption, MaxTrackedAssumption DEF Init, CountInv, Tracked
<1>5. KillInv
    BY DEF Init, KillInv, KillOK
<1>6. CloseInv
    BY DEF Init, CloseInv, CloseOK
<1> QED
    BY <1>1, <1>2, <1>4, <1>5, <1>6 DEF IInv

\* The steps of one job's goroutines and of its supervisor.
JobStep(j) ==
    \/ start(j) \/ Supervisor(j) \/ readStatus(j) \/ Reap(j) \/ coordinate(j) \/ finishTerminal(j)
    \/ TimerFires(j) \/ TimeoutCallback(j)

\* What kill and Close change of a job is what beginTermination changes.
LEMMA CallersOnlyBegin ==
    ASSUME IInv, (\E k \in Killers : kill(k)) \/ (\E k \in Closers : Close(k))
    PROVE  /\ UNCHANGED <<startVars, procVars, ioVars, doneVars, phase, ready, timer, counted, starting,
                          running>>
           /\ UNCHANGED termVars \/ \E j \in Jobs, why \in {"kill", "close"} : beginTermination(j, why)
<1>1. ASSUME NEW k \in Killers, kill(k)
      PROVE  /\ UNCHANGED <<startVars, procVars, ioVars, doneVars, phase, ready, timer, counted, starting,
                          running>>
             /\ UNCHANGED termVars \/ \E j \in Jobs : beginTermination(j, "kill")
  <2>1. CASE KillLookup(k) \/ KillWait(k)
    BY <2>1 DEF KillLookup, KillWait, mgrVars
  <2>2. CASE KillBegin(k)
    BY <2>2 DEF KillBegin, mgrVars, IInv, KillInv, KillOK
  <2> QED
    BY <1>1, <2>1, <2>2 DEF kill
<1>2. ASSUME NEW k \in Closers, Close(k)
      PROVE  /\ UNCHANGED <<startVars, procVars, ioVars, doneVars, phase, ready, timer, counted, starting,
                          running>>
             /\ UNCHANGED termVars \/ \E j \in Jobs : beginTermination(j, "close")
  <2>1. CASE CloseEnter(k) \/ CloseSnapshot(k)
    BY <2>1 DEF CloseEnter, CloseSnapshot, CloseUnchanged, mgrVars
  <2>2. CASE CloseBegin(k)
    <3>1. closeBegin[k] \subseteq Jobs
      BY DEF IInv, TypeOK
    <3> QED
      BY <2>2, <3>1 DEF CloseBegin, CloseUnchanged, mgrVars
  <2>3. CASE CloseBegun(k) \/ CloseWait(k) \/ CloseGivesUp(k) \/ CloseFinish(k)
    BY <2>3 DEF CloseBegun, CloseWait, CloseGivesUp, CloseFinish, CloseUnchanged, mgrVars
  <2> QED
    BY <1>2, <2>1, <2>2, <2>3 DEF Close
<1> QED
    BY <1>1, <1>2

\* Every step keeps every start path in order.
LEMMA LifeStep ==
    ASSUME IInv, Next, NEW d \in Jobs
    PROVE  LifeOK(d)'
<1>0. LifeOK(d) /\ TermOK(d)
    BY DEF IInv, JobsInv
<1> USE DEF LifeOK, Unspawned, Starting, Terminal, Set, startVars, procVars, ioVars, doneVars, termVars
<1>1. ASSUME NEW j \in Jobs, JobStep(j) PROVE LifeOK(d)'
  <2>0. LifeOK(j) /\ TermOK(j)
    BY DEF IInv, JobsInv
  <2>t. TypeOK
    BY DEF IInv
  <2> USE <1>0, <2>0, <2>t DEF TypeOK
  <2>1. CASE reserveStart(j) \/ RefuseClosing(j) \/ releaseReservation(j)
    BY <2>1 DEF reserveStart, RefuseClosing, releaseReservation
  <2>2. CASE Spawn(j)
    BY <2>2 DEF Spawn
  <2>3. CASE waitSupervisorReady(j)
    BY <2>3 DEF waitSupervisorReady
  <2>4. CASE CheckGate(j)
    BY <2>4 DEF CheckGate
  <2>5. CASE releaseCommand(j)
    BY <2>5 DEF releaseCommand
  <2>6. CASE Publish(j)
    BY <2>6 DEF Publish
  <2>7. CASE ArmTimer(j)
    BY <2>7 DEF ArmTimer
  <2>8. CASE CleanupBegin(j)
    BY <2>8 DEF CleanupBegin, beginTermination, startCoordinatorLocked
  <2>9. CASE CleanupWait(j)
    BY <2>9 DEF CleanupWait
  <2>10. CASE Supervisor(j)
    BY <2>10 DEF Supervisor, SupervisorReady, SupervisorGate, CommandEnds, SupervisorDies, Alive, ProcUnchanged
  <2>11. CASE readStatus(j)
    BY <2>11 DEF readStatus, startCoordinatorLocked
  <2>12. CASE Reap(j)
    BY <2>12 DEF Reap
  <2>13. CASE coordinate(j)
    BY <2>13 DEF coordinate, CoordBegin, advanceTerm, CoordGrace, advanceKill, CoordAwait, completeAttempt,
                 CoordUnchanged, Alive, TermOK
  <2>14. CASE FinishMark(j)
    BY <2>14 DEF FinishMark, TerminalState, TermOK
  <2>15. CASE jobCompleted(j) \/ FinishDone(j) \/ FinishReturn(j)
    BY <2>15 DEF jobCompleted, FinishDone, FinishReturn, Done
  <2>16. CASE TimerFires(j)
    BY <2>16 DEF TimerFires
  <2>17. CASE TimeoutCallback(j)
    BY <2>17 DEF TimeoutCallback, beginTermination, startCoordinatorLocked
  <2> QED
    BY <1>1, <2>1, <2>2, <2>3, <2>4, <2>5, <2>6, <2>7, <2>8, <2>9, <2>10, <2>11, <2>12, <2>13, <2>14,
       <2>15, <2>16, <2>17
    DEF JobStep, start, finishTerminal
<1>2. CASE (\E k \in Killers : kill(k)) \/ (\E k \in Closers : Close(k))
  <2>1. UNCHANGED <<startVars, procVars, ioVars, doneVars, phase, ready, timer>>
    BY <1>2, CallersOnlyBegin
  <2>2. state[d] = "none" => cause'[d] = cause[d]
    <3>1. CASE UNCHANGED termVars
      BY <3>1
    <3>2. ASSUME NEW j \in Jobs, NEW why \in {"kill", "close"}, beginTermination(j, why)
          PROVE  state[d] = "none" => cause'[d] = cause[d]
      <4>1. cause \in [Jobs -> {"none", "natural", "kill", "timeout", "close"}]
        BY DEF IInv, TypeOK
      <4> QED
        BY <3>2, <4>1 DEF beginTermination
    <3> QED
      BY <1>2, <3>1, <3>2, CallersOnlyBegin
  <2> QED
    BY <1>0, <2>1, <2>2
<1> QED
    BY <1>1, <1>2 DEF Next, JobStep

\* Where the first critical section of coordinate leads.
LEMMA CoordBeginLeads ==
    ASSUME NEW j \in Jobs, CoordBegin(j), phase[j] \in {"initial", "term", "final"}
    PROVE  \E l \in {"term", "grace", "await", "kill"} :
              /\ coord' = Set(coord, j, l)
              /\ l = "term" => phase[j] = "initial" /\ ready[j]
              /\ l = "grace" => phase[j] = "term"
              /\ l = "await" => phase[j] = "final"
              /\ l = "kill" => phase[j] # "final"
<1> DEFINE l == CASE cause[j] # "natural" /\ phase[j] = "initial" /\ ready[j] -> "term"
                  [] cause[j] # "natural" /\ phase[j] = "term" -> "grace"
                  [] phase[j] = "final" -> "await"
                  [] OTHER -> "kill"
<1>1. coord' = Set(coord, j, l)
    BY DEF CoordBegin, CoordGoto
<1>2. \/ l = "term" /\ phase[j] = "initial" /\ ready[j]
      \/ l = "grace" /\ phase[j] = "term"
      \/ l = "await" /\ phase[j] = "final"
      \/ l = "kill" /\ phase[j] # "final"
    BY Zenon
<1> HIDE DEF l
<1> QED
    BY <1>1, <1>2

\* The state finishTerminal fixes.
LEMMA TerminalStateIs ==
    ASSUME NEW j \in Jobs
    PROVE  /\ TerminalState(j) \in Terminal
           /\ cause[j] = "kill" => TerminalState(j) = "killed"
           /\ TerminalState(j) = "timed_out" => cause[j] = "timeout"
           /\ TerminalState(j) = "succeeded" => status[j] = "zero"
<1>1. \/ TerminalState(j) = "killed" /\ cause[j] \in {"kill", "close"}
      \/ TerminalState(j) = "timed_out" /\ cause[j] = "timeout"
      \/ TerminalState(j) = "succeeded" /\ cause[j] = "natural" /\ status[j] = "zero"
      \/ TerminalState(j) = "failed" /\ cause[j] \notin {"kill", "close"}
    BY Zenon DEF TerminalState
<1> QED
    BY <1>1 DEF Terminal

\* Every step keeps the termination of every job in order.
LEMMA TermStep ==
    ASSUME IInv, Next, NEW d \in Jobs
    PROVE  TermOK(d)'
<1>0. LifeOK(d) /\ TermOK(d)
    BY DEF IInv, JobsInv
<1> USE DEF TermOK, Gone, Set, startVars, procVars, ioVars, doneVars, termVars
<1>1. ASSUME NEW j \in Jobs, JobStep(j) PROVE TermOK(d)'
  <2>0. LifeOK(j) /\ TermOK(j)
    BY DEF IInv, JobsInv
  <2>t. TypeOK
    BY DEF IInv
  <2> USE <1>0, <2>0, <2>t DEF TypeOK
  <2>1. CASE \/ reserveStart(j) \/ RefuseClosing(j) \/ releaseReservation(j) \/ CheckGate(j)
             \/ releaseCommand(j) \/ Publish(j) \/ ArmTimer(j) \/ CleanupWait(j) \/ TimerFires(j)
    BY <2>1 DEF reserveStart, RefuseClosing, releaseReservation, CheckGate, releaseCommand, Publish,
                ArmTimer, CleanupWait, TimerFires
  <2>2. CASE Spawn(j)
    BY <2>2 DEF Spawn, LifeOK, Unspawned, Terminal
  <2>3. CASE waitSupervisorReady(j)
    <3>1. /\ UNCHANGED <<proc, coord, coordinatorRunning, attemptOpen, cause, fin, phase, waiter, reaped>>
          /\ ready' = [ready EXCEPT ![j] = TRUE] \/ ready' = ready
      BY <2>3 DEF waitSupervisorReady
    <3>2. ready'[d] = TRUE \/ ready'[d] = ready[d]
      BY <3>1
    <3>3. ready[d] => ready'[d]
      BY <3>2, Zenon
    <3> QED
      BY <3>1, <3>3
  <2>8. CASE CleanupBegin(j)
    BY <2>8 DEF CleanupBegin, beginTermination, startCoordinatorLocked, LifeOK, Terminal
  <2>10. CASE Supervisor(j)
    BY <2>10 DEF Supervisor, SupervisorReady, SupervisorGate, CommandEnds, SupervisorDies, Alive, ProcUnchanged
  <2>11. CASE readStatus(j)
    BY <2>11 DEF readStatus, startCoordinatorLocked, LifeOK, Terminal
  <2>12. CASE Reap(j)
    BY <2>12 DEF Reap
  <2>13. CASE CoordBegin(j)
    <3>1. PICK l \in {"term", "grace", "await", "kill"} :
             /\ coord' = Set(coord, j, l)
             /\ l = "term" => phase[j] = "initial" /\ ready[j]
             /\ l = "grace" => phase[j] = "term"
             /\ l = "await" => phase[j] = "final"
             /\ l = "kill" => phase[j] # "final"
      BY <2>13, CoordBeginLeads
    <3>2. /\ coord[j] = "begin"
          /\ UNCHANGED <<proc, phase, coordinatorRunning, attemptOpen, cause, fin, waiter, reaped, ready>>
      BY <2>13 DEF CoordBegin, CoordUnchanged
    <3> QED
      BY <3>1, <3>2
  <2>14. CASE advanceTerm(j)
    BY <2>14 DEF advanceTerm, CoordGoto, CoordUnchanged, LifeOK
  <2>15. CASE CoordGrace(j)
    BY <2>15 DEF CoordGrace, CoordGoto, CoordUnchanged
  <2>16. CASE advanceKill(j)
    BY <2>16 DEF advanceKill, CoordGoto, CoordUnchanged, Alive
  <2>17. CASE CoordAwait(j)
    BY <2>17 DEF CoordAwait, CoordGoto, CoordUnchanged
  <2>18. CASE completeAttempt(j)
    BY <2>18 DEF completeAttempt, CoordGoto, CoordUnchanged
  <2>19. CASE FinishMark(j)
    BY <2>19 DEF FinishMark
  <2>20. CASE jobCompleted(j) \/ FinishDone(j)
    BY <2>20 DEF jobCompleted, FinishDone
  <2>21. CASE FinishReturn(j)
    BY <2>21 DEF FinishReturn, CoordGoto, Done
  <2>22. CASE TimeoutCallback(j)
    BY <2>22 DEF TimeoutCallback, beginTermination, startCoordinatorLocked, LifeOK, Terminal
  <2> QED
    BY <1>1, <2>1, <2>2, <2>3, <2>8, <2>10, <2>11, <2>12, <2>13, <2>14, <2>15, <2>16, <2>17, <2>18,
       <2>19, <2>20, <2>21, <2>22
    DEF JobStep, start, coordinate, finishTerminal
<1>2. CASE (\E k \in Killers : kill(k)) \/ (\E k \in Closers : Close(k))
  <2>1. UNCHANGED <<startVars, procVars, ioVars, doneVars, phase, ready, timer>>
    BY <1>2, CallersOnlyBegin
  <2>2. CASE UNCHANGED termVars
    BY <1>0, <2>1, <2>2
  <2>3. ASSUME NEW j \in Jobs, NEW why \in {"kill", "close"}, beginTermination(j, why)
        PROVE  TermOK(d)'
    <3>1. LifeOK(j) /\ TermOK(j) /\ TypeOK
      BY DEF IInv, JobsInv
    <3> QED
      BY <1>0, <2>1, <2>3, <3>1 DEF TypeOK, beginTermination, startCoordinatorLocked, LifeOK, Terminal
  <2> QED
    BY <1>2, <2>2, <2>3, CallersOnlyBegin
<1> QED
    BY <1>1, <1>2 DEF Next, JobStep

\* Every step keeps what the states and causes stand for.
LEMMA VerdictStep ==
    ASSUME IInv, Next, NEW d \in Jobs
    PROVE  VerdictOK(d)'
<1>0. LifeOK(d) /\ VerdictOK(d) /\ TermOK(d)
    BY DEF IInv, JobsInv
<1> USE DEF VerdictOK, Terminal, Set, startVars, procVars, ioVars, doneVars, termVars
<1>1. ASSUME NEW j \in Jobs, JobStep(j) PROVE VerdictOK(d)'
  <2>0. LifeOK(j) /\ TermOK(j) /\ VerdictOK(j)
    BY DEF IInv, JobsInv
  <2>t. TypeOK
    BY DEF IInv
  <2> USE <1>0, <2>0, <2>t DEF TypeOK
  <2>1. CASE \/ reserveStart(j) \/ RefuseClosing(j) \/ releaseReservation(j) \/ CheckGate(j)
             \/ releaseCommand(j) \/ Publish(j) \/ CleanupWait(j) \/ waitSupervisorReady(j)
    BY <2>1 DEF reserveStart, RefuseClosing, releaseReservation, CheckGate, releaseCommand, Publish,
                CleanupWait, waitSupervisorReady
  <2>2. CASE Spawn(j)
    BY <2>2 DEF Spawn, LifeOK, Unspawned
  <2>3. CASE ArmTimer(j)
    BY <2>3 DEF ArmTimer, LifeOK
  <2>8. CASE CleanupBegin(j)
    BY <2>8 DEF CleanupBegin, beginTermination
  <2>10. CASE Supervisor(j)
    BY <2>10 DEF Supervisor, SupervisorReady, SupervisorGate, CommandEnds, SupervisorDies, ProcUnchanged,
                 LifeOK
  <2>11. CASE readStatus(j)
    BY <2>11 DEF readStatus, TermOK, LifeOK
  <2>12. CASE Reap(j)
    BY <2>12 DEF Reap
  <2>13. CASE coordinate(j)
    <3>1. UNCHANGED <<status, reader, code, cause, timer, state>>
      BY <2>13 DEF coordinate, CoordBegin, advanceTerm, CoordGrace, advanceKill, CoordAwait,
                   completeAttempt, CoordUnchanged
    <3> QED
      BY <3>1
  <2>19. CASE FinishMark(j)
    <3>1. state' = Set(state, j, TerminalState(j))
      BY <2>19 DEF FinishMark
    <3>2. /\ UNCHANGED <<status, reader, code, cause>>
          /\ timer' = IF timer[j] = "armed" THEN Set(timer, j, "closed") ELSE timer
      BY <2>19 DEF FinishMark
    <3> QED
      BY <3>1, <3>2, TerminalStateIs
  <2>20. CASE jobCompleted(j) \/ FinishDone(j) \/ FinishReturn(j)
    BY <2>20 DEF jobCompleted, FinishDone, FinishReturn
  <2>21. CASE TimerFires(j)
    BY <2>21 DEF TimerFires
  <2>22. CASE TimeoutCallback(j)
    BY <2>22 DEF TimeoutCallback, beginTermination
  <2> QED
    BY <1>1, <2>1, <2>2, <2>3, <2>8, <2>10, <2>11, <2>12, <2>13, <2>19, <2>20, <2>21, <2>22
    DEF JobStep, start, finishTerminal
<1>2. CASE (\E k \in Killers : kill(k)) \/ (\E k \in Closers : Close(k))
  <2>1. UNCHANGED <<startVars, procVars, ioVars, doneVars, phase, ready, timer>>
    BY <1>2, CallersOnlyBegin
  <2>2. CASE UNCHANGED termVars
    BY <1>0, <2>1, <2>2
  <2>3. ASSUME NEW j \in Jobs, NEW why \in {"kill", "close"}, beginTermination(j, why)
        PROVE  VerdictOK(d)'
    BY <1>0, <2>1, <2>3 DEF IInv, TypeOK, beginTermination
  <2> QED
    BY <1>2, <2>2, <2>3, CallersOnlyBegin
<1> QED
    BY <1>1, <1>2 DEF Next, JobStep

\* What no step does: change a cause or a verdict, start a second coordinator, or
\* step back from the final signal.
StepIsStable(j) ==
    /\ cause[j] # "none" => cause'[j] = cause[j]
    /\ state[j] \in Terminal => state'[j] = state[j]
    /\ attempts'[j] # attempts[j] => coord[j] = "none" /\ ~attemptOpen[j] /\ state[j] = "running"
    /\ <<phase[j], phase'[j]>> \in Escalations

\* No step changes an accepted cause or a verdict.
LEMMA StableStep ==
    ASSUME IInv, Next, NEW d \in Jobs
    PROVE  StepIsStable(d)
<1>0. LifeOK(d) /\ TermOK(d)
    BY DEF IInv, JobsInv
<1> USE DEF StepIsStable, Escalations, Terminal, Set, doneVars, termVars
<1>1. ASSUME NEW j \in Jobs, JobStep(j) PROVE StepIsStable(d)
  <2>0. LifeOK(j) /\ TermOK(j)
    BY DEF IInv, JobsInv
  <2>t. TypeOK
    BY DEF IInv
  <2> USE <1>0, <2>0, <2>t DEF TypeOK
  <2>1. CASE \/ reserveStart(j) \/ RefuseClosing(j) \/ releaseReservation(j) \/ CheckGate(j)
             \/ releaseCommand(j) \/ Publish(j) \/ CleanupWait(j) \/ waitSupervisorReady(j) \/ ArmTimer(j)
    BY <2>1 DEF reserveStart, RefuseClosing, releaseReservation, CheckGate, releaseCommand, Publish,
                CleanupWait, waitSupervisorReady, ArmTimer
  <2>2. CASE Spawn(j)
    BY <2>2 DEF Spawn, LifeOK, Unspawned
  <2>3. CASE Supervisor(j)
    BY <2>3 DEF Supervisor, SupervisorReady, SupervisorGate, CommandEnds, SupervisorDies, ProcUnchanged
  <2>4. CASE CleanupBegin(j)
    BY <2>4 DEF CleanupBegin, beginTermination, startCoordinatorLocked, LifeOK, TermOK
  <2>5. CASE readStatus(j)
    BY <2>5 DEF readStatus, startCoordinatorLocked, LifeOK, TermOK
  <2>6. CASE Reap(j)
    BY <2>6 DEF Reap
  <2>7. CASE coordinate(j)
    <3>1. UNCHANGED <<cause, state, attempts>>
      BY <2>7 DEF coordinate, CoordBegin, advanceTerm, CoordGrace, advanceKill, CoordAwait,
                   completeAttempt, CoordUnchanged
    <3>2. <<phase[d], phase'[d]>> \in Escalations
      BY <2>7 DEF coordinate, CoordBegin, advanceTerm, CoordGrace, advanceKill, CoordAwait,
                   completeAttempt, TermOK
    <3> QED
      BY <3>1, <3>2
  <2>8. CASE FinishMark(j)
    <3>1. fin[j] = "none" /\ state' = Set(state, j, TerminalState(j)) /\ UNCHANGED <<cause, attempts, phase>>
      BY <2>8 DEF FinishMark
    <3> QED
      BY <3>1 DEF LifeOK
  <2>9. CASE jobCompleted(j) \/ FinishDone(j) \/ FinishReturn(j) \/ TimerFires(j)
    BY <2>9 DEF jobCompleted, FinishDone, FinishReturn, TimerFires
  <2>10. CASE TimeoutCallback(j)
    BY <2>10 DEF TimeoutCallback, beginTermination, startCoordinatorLocked, LifeOK, TermOK
  <2> QED
    BY <1>1, <2>1, <2>2, <2>3, <2>4, <2>5, <2>6, <2>7, <2>8, <2>9, <2>10
    DEF JobStep, start, finishTerminal
<1>2. CASE (\E k \in Killers : kill(k)) \/ (\E k \in Closers : Close(k))
  <2>1. UNCHANGED <<startVars, procVars, ioVars, doneVars, phase, ready, timer>>
    BY <1>2, CallersOnlyBegin
  <2>0. phase[d] \in {"initial", "term", "final"}
    BY DEF IInv, TypeOK
  <2>2. CASE UNCHANGED termVars
    BY <2>0, <2>1, <2>2
  <2>3. ASSUME NEW j \in Jobs, NEW why \in {"kill", "close"}, beginTermination(j, why)
        PROVE  StepIsStable(d)
    BY <1>0, <2>1, <2>3 DEF IInv, TypeOK, beginTermination, startCoordinatorLocked, LifeOK, TermOK
  <2> QED
    BY <1>2, <2>2, <2>3, CallersOnlyBegin
<1> QED
    BY <1>1, <1>2 DEF Next, JobStep

\* pruneLocked drops only jobs whose done channel is closed.
LEMMA PrunedAreDone == \A j \in pruneLocked : Done(j)
BY DEF pruneLocked, Evictable

\* Every step keeps the registries complete.
LEMMA KnownStep ==
    ASSUME IInv, Next, NEW d \in Jobs
    PROVE  KnownOK(d)'
<1>0. LifeOK(d) /\ KnownOK(d)
    BY DEF IInv, JobsInv
<1>t. /\ startPC \in [Jobs -> StartPCs]
      /\ fin \in [Jobs -> {"none", "marked", "released", "done"}]
    BY DEF IInv, TypeOK
<1> USE <1>0, <1>t DEF KnownOK, Starting, Unspawned, Set, mgrVars, startVars, doneVars
<1>1. ASSUME NEW j \in Jobs, JobStep(j) PROVE KnownOK(d)'
  <2>0. LifeOK(j) /\ KnownOK(j)
    BY DEF IInv, JobsInv
  <2> USE <2>0
  <2>1. CASE reserveStart(j)
    BY <2>1, PrunedAreDone DEF reserveStart, Done
  <2>2. CASE \/ RefuseClosing(j) \/ releaseReservation(j) \/ Spawn(j) \/ waitSupervisorReady(j)
             \/ CheckGate(j)
    BY <2>2 DEF RefuseClosing, releaseReservation, Spawn, waitSupervisorReady, CheckGate
  <2>3. CASE releaseCommand(j) \/ ArmTimer(j) \/ CleanupBegin(j) \/ CleanupWait(j)
    BY <2>3 DEF releaseCommand, ArmTimer, CleanupBegin, CleanupWait
  <2>4. CASE Publish(j)
    BY <2>4 DEF Publish, Done
  <2>5. CASE Supervisor(j) \/ readStatus(j) \/ Reap(j) \/ TimerFires(j) \/ TimeoutCallback(j)
    BY <2>5 DEF Supervisor, SupervisorReady, SupervisorGate, CommandEnds, SupervisorDies, ProcUnchanged,
                readStatus, Reap, TimerFires, TimeoutCallback
  <2>6. CASE coordinate(j)
    <3>1. UNCHANGED <<mgrVars, startVars, doneVars>>
      BY <2>6 DEF coordinate, CoordBegin, advanceTerm, CoordGrace, advanceKill, CoordAwait,
                  completeAttempt, CoordUnchanged
    <3> QED
      BY <3>1
  <2>7. CASE FinishMark(j)
    <3>1. fin[j] = "none" /\ fin' = Set(fin, j, "marked") /\ UNCHANGED <<mgrVars, startVars>>
      BY <2>7 DEF FinishMark
    <3> QED
      BY <3>1
  <2>8. CASE jobCompleted(j)
    BY <2>8 DEF jobCompleted
  <2>9. CASE FinishDone(j) \/ FinishReturn(j)
    BY <2>9 DEF FinishDone, FinishReturn
  <2> QED
    BY <1>1, <2>1, <2>2, <2>3, <2>4, <2>5, <2>6, <2>7, <2>8, <2>9 DEF JobStep, start, finishTerminal
<1>2. ASSUME NEW k \in Closers, CloseFinish(k) PROVE KnownOK(d)'
  <2>1. UNCHANGED <<startVars, doneVars, counted>> /\ jobs' = {} /\ hidden' = {}
    BY <1>2 DEF CloseFinish, CloseUnchanged
  <2>2. Over(d)
    <3>1. closePC[k] = "wait" /\ closeWait[k] = <<>>
      BY <1>2 DEF CloseFinish
    <3>2. CloseOK(k)
      BY DEF IInv, CloseInv
    <3> QED
      BY <3>1, <3>2 DEF CloseOK
  <2> QED
    BY <2>1, <2>2 DEF Over, Spawned, LifeOK
<1>3. CASE \/ \E k \in Killers : kill(k)
           \/ \E k \in Closers : Close(k) /\ ~CloseFinish(k)
  <2>1. UNCHANGED <<startVars, doneVars, counted>>
    BY <1>3, CallersOnlyBegin
  <2>2. UNCHANGED <<jobs, hidden>>
    BY <1>3 DEF kill, KillLookup, KillBegin, KillWait, Close, CloseEnter, CloseSnapshot, CloseBegin,
                CloseBegun, CloseWait, CloseGivesUp
  <2> QED
    BY <2>1, <2>2
<1> QED
    BY <1>1, <1>2, <1>3 DEF Next, JobStep, Close

\* What a step of a job does to the counters and the sets they count: a start takes
\* a reservation, gives it back or turns it into a running job; a completion takes
\* the job off; nothing else touches them.
LEMMA Counted ==
    ASSUME NEW j \in Jobs, IInv, JobStep(j)
    PROVE  \/ /\ UNCHANGED <<starting, running, counted, hidden, jobs>>
              /\ StartingSet' = StartingSet
           \/ /\ UNCHANGED <<starting, running, counted, hidden>> /\ jobs' \subseteq jobs
              /\ StartingSet' = StartingSet
           \/ /\ starting' = starting + 1 /\ j \notin StartingSet /\ StartingSet' = StartingSet \cup {j}
              /\ ~closing
              /\ ~(starting + running >= MaxRunning)
              /\ ~(Cardinality(jobs') + Cardinality(hidden) + starting >= MaxTracked)
              /\ UNCHANGED <<running, counted, hidden>> /\ jobs' \subseteq jobs
           \/ /\ starting' = starting - 1 /\ j \in StartingSet /\ StartingSet' = StartingSet \ {j}
              /\ UNCHANGED <<running, counted, hidden, jobs>>
           \/ /\ starting' = starting - 1 /\ j \in StartingSet /\ StartingSet' = StartingSet \ {j}
              /\ \/ UNCHANGED <<running, counted>>
                 \/ j \notin counted /\ counted' = counted \cup {j} /\ running' = running + 1
              /\ j \notin jobs \cup hidden
              /\ \/ jobs' = jobs \cup {j} /\ hidden' = hidden
                 \/ hidden' \in {hidden, hidden \cup {j}} /\ jobs' = jobs
           \/ /\ UNCHANGED <<starting, jobs>> /\ StartingSet' = StartingSet
              /\ hidden' \subseteq hidden
              /\ \/ UNCHANGED <<running, counted>>
                 \/ j \in counted /\ counted' = counted \ {j} /\ running' = running - 1
<1>0. KnownOK(j)
    BY DEF IInv, JobsInv
<1>t. startPC \in [Jobs -> StartPCs]
    BY DEF IInv, TypeOK
<1> USE <1>0, <1>t DEF KnownOK, StartingSet, Starting, Unspawned, Set, mgrVars, startVars
<1>1. CASE reserveStart(j)
    BY <1>1 DEF reserveStart
<1>2. CASE RefuseClosing(j) \/ Spawn(j) \/ waitSupervisorReady(j) \/ CheckGate(j)
    BY <1>2 DEF RefuseClosing, Spawn, waitSupervisorReady, CheckGate
<1>3. CASE releaseReservation(j)
    BY <1>3 DEF releaseReservation
<1>4. CASE releaseCommand(j) \/ ArmTimer(j) \/ CleanupBegin(j) \/ CleanupWait(j)
    BY <1>4 DEF releaseCommand, ArmTimer, CleanupBegin, CleanupWait
<1>5. CASE Publish(j)
    BY <1>5 DEF Publish
<1>6. CASE Supervisor(j) \/ readStatus(j) \/ Reap(j) \/ TimerFires(j) \/ TimeoutCallback(j)
    BY <1>6 DEF Supervisor, SupervisorReady, SupervisorGate, CommandEnds, SupervisorDies, ProcUnchanged,
                readStatus, Reap, TimerFires, TimeoutCallback
<1>7. CASE coordinate(j)
    BY <1>7 DEF coordinate, CoordBegin, advanceTerm, CoordGrace, advanceKill, CoordAwait,
                completeAttempt, CoordUnchanged
<1>8. CASE FinishMark(j)
  <2>1. UNCHANGED <<mgrVars, startVars>>
    BY <1>8 DEF FinishMark
  <2> QED
    BY <2>1
<1>9. CASE jobCompleted(j)
    BY <1>9 DEF jobCompleted
<1>10. CASE FinishDone(j) \/ FinishReturn(j)
    BY <1>10 DEF FinishDone, FinishReturn
<1> QED
    BY <1>1, <1>2, <1>3, <1>4, <1>5, <1>6, <1>7, <1>8, <1>9, <1>10 DEF JobStep, start, finishTerminal

\* The end times: only FinishMark gives one, the next number.
LEMMA EndedStep ==
    ASSUME IInv, Next
    PROVE  IsFiniteSet(EndedSet') /\ completedAt' \in [Jobs -> Nat]
<1>0. completedAt \in [Jobs -> Nat] /\ IsFiniteSet(EndedSet)
    BY DEF IInv, TypeOK, CountInv
<1>1. ASSUME NEW j \in Jobs, FinishMark(j)
      PROVE  IsFiniteSet(EndedSet') /\ completedAt' \in [Jobs -> Nat]
  <2>1. PICK n : n = Cardinality(EndedSet) /\ n \in Nat
    BY <1>0, FS_CardinalityType
  <2>2. completedAt' = [completedAt EXCEPT ![j] = n + 1]
    BY <1>1, <2>1 DEF FinishMark, Set, EndedSet
  <2>3. EndedSet' = EndedSet \cup {j}
    BY <1>0, <2>1, <2>2 DEF EndedSet
  <2> QED
    BY <1>0, <2>1, <2>2, <2>3, FS_AddElement
<1>2. ASSUME ~(\E j \in Jobs : FinishMark(j))
      PROVE  completedAt' = completedAt
  <2>1. ASSUME NEW j \in Jobs, JobStep(j) PROVE completedAt' = completedAt
    <3> USE DEF doneVars
    <3>1. CASE start(j)
      BY <3>1 DEF start, reserveStart, RefuseClosing, releaseReservation, Spawn, waitSupervisorReady,
                  CheckGate, releaseCommand, Publish, ArmTimer, CleanupBegin, CleanupWait
    <3>2. CASE Supervisor(j) \/ readStatus(j) \/ Reap(j) \/ TimerFires(j) \/ TimeoutCallback(j)
      BY <3>2 DEF Supervisor, SupervisorReady, SupervisorGate, CommandEnds, SupervisorDies, ProcUnchanged,
                  readStatus, Reap, TimerFires, TimeoutCallback
    <3>3. CASE coordinate(j)
      BY <3>3 DEF coordinate, CoordBegin, advanceTerm, CoordGrace, advanceKill, CoordAwait,
                  completeAttempt, CoordUnchanged
    <3>4. CASE finishTerminal(j)
      BY <1>2, <3>4 DEF finishTerminal, jobCompleted, FinishDone, FinishReturn
    <3> QED
      BY <2>1, <3>1, <3>2, <3>3, <3>4 DEF JobStep
  <2>2. CASE (\E k \in Killers : kill(k)) \/ (\E k \in Closers : Close(k))
    BY <2>2, CallersOnlyBegin DEF doneVars
  <2> QED
    BY <2>1, <2>2 DEF Next, JobStep
<1> QED
    BY <1>0, <1>1, <1>2 DEF EndedSet

\* kill and Close only shrink the registries.
LEMMA CallersKeepCounts ==
    ASSUME IInv, (\E k \in Killers : kill(k)) \/ (\E k \in Closers : Close(k))
    PROVE  /\ UNCHANGED <<starting, running, counted>> /\ StartingSet' = StartingSet
           /\ jobs' \subseteq jobs /\ hidden' \subseteq hidden
<1>1. UNCHANGED <<starting, running, counted>> /\ StartingSet' = StartingSet
    BY CallersOnlyBegin DEF StartingSet, startVars
<1>2. jobs' \subseteq jobs /\ hidden' \subseteq hidden
  <2>1. CASE \E k \in Killers : kill(k)
    BY <2>1 DEF kill, KillLookup, KillBegin, KillWait, mgrVars
  <2>2. CASE \E k \in Closers : Close(k)
    BY <2>2 DEF Close, CloseEnter, CloseSnapshot, CloseBegin, CloseBegun, CloseWait, CloseGivesUp,
                CloseFinish, mgrVars
  <2> QED
    BY <2>1, <2>2
<1> QED
    BY <1>1, <1>2

\* The counters stay the sizes of their sets, and the limits are kept.
LEMMA CountStep ==
    ASSUME IInv, Next
    PROVE  /\ CountInv' /\ starting' \in 0 .. MaxRunning /\ running' \in 0 .. MaxRunning
<1>0. /\ IsFiniteSet(jobs) /\ IsFiniteSet(hidden) /\ IsFiniteSet(counted) /\ IsFiniteSet(StartingSet)
      /\ starting = Cardinality(StartingSet) /\ running = Cardinality(counted)
      /\ starting + running <= MaxRunning
      /\ Cardinality(jobs) + Cardinality(hidden) + starting <= MaxTracked
    BY DEF IInv, CountInv, Tracked
<1>n. /\ Cardinality(jobs) \in Nat /\ Cardinality(hidden) \in Nat /\ starting \in Nat /\ running \in Nat
      /\ MaxRunning \in Nat /\ MaxTracked \in Nat
    BY <1>0, FS_CardinalityType, MaxRunningAssumption, MaxTrackedAssumption
<1>s. \A S, T : IsFiniteSet(S) /\ T \subseteq S =>
         IsFiniteSet(T) /\ Cardinality(T) <= Cardinality(S) /\ Cardinality(T) \in Nat
    BY FS_Subset, FS_CardinalityType
<1> DEFINE Kept ==
        /\ IsFiniteSet(jobs') /\ IsFiniteSet(hidden') /\ IsFiniteSet(counted') /\ IsFiniteSet(StartingSet')
        /\ starting' = Cardinality(StartingSet') /\ running' = Cardinality(counted')
        /\ starting' + running' <= MaxRunning
        /\ Cardinality(jobs') + Cardinality(hidden') + starting' <= MaxTracked
        /\ starting' \in Nat /\ running' \in Nat
<1>1. ASSUME UNCHANGED <<starting, running, counted>>, StartingSet' = StartingSet,
             jobs' \subseteq jobs, hidden' \subseteq hidden
      PROVE  Kept
    BY <1>0, <1>n, <1>1, <1>s
<1>2. ASSUME NEW j \in Jobs, JobStep(j) PROVE Kept
  <2>1. CASE /\ starting' = starting + 1 /\ j \notin StartingSet /\ StartingSet' = StartingSet \cup {j}
             /\ ~(starting + running >= MaxRunning)
             /\ ~(Cardinality(jobs') + Cardinality(hidden) + starting >= MaxTracked)
             /\ UNCHANGED <<running, counted, hidden>> /\ jobs' \subseteq jobs
    <3>1. IsFiniteSet(jobs') /\ Cardinality(jobs') \in Nat
      BY <1>0, <1>s, <2>1
    <3> QED
      BY <1>0, <1>n, <2>1, <3>1, OneMore
  <2>2. CASE /\ starting' = starting - 1 /\ j \in StartingSet /\ StartingSet' = StartingSet \ {j}
             /\ UNCHANGED <<running, counted, hidden, jobs>>
    <3>1. /\ IsFiniteSet(StartingSet') /\ Cardinality(StartingSet') = Cardinality(StartingSet) - 1
          /\ Cardinality(StartingSet') \in Nat
      BY <1>0, <2>2, OneLess
    <3> QED
      BY <1>0, <1>n, <2>2, <3>1
  <2>3. CASE /\ starting' = starting - 1 /\ j \in StartingSet /\ StartingSet' = StartingSet \ {j}
             /\ \/ UNCHANGED <<running, counted>>
                \/ j \notin counted /\ counted' = counted \cup {j} /\ running' = running + 1
             /\ j \notin jobs \cup hidden
             /\ \/ jobs' = jobs \cup {j} /\ hidden' = hidden
                \/ hidden' \in {hidden, hidden \cup {j}} /\ jobs' = jobs
    <3>1. IsFiniteSet(StartingSet') /\ starting' = Cardinality(StartingSet') /\ starting' \in Nat
      <4>1. /\ IsFiniteSet(StartingSet') /\ Cardinality(StartingSet') = Cardinality(StartingSet) - 1
            /\ Cardinality(StartingSet') \in Nat
        BY <1>0, <2>3, OneLess
      <4> QED
        BY <1>0, <2>3, <4>1
    <3>2. /\ IsFiniteSet(counted') /\ running' = Cardinality(counted') /\ running' \in Nat
          /\ running' <= running + 1
      BY <1>0, <1>n, <2>3, OneMore
    <3>3. /\ IsFiniteSet(jobs') /\ IsFiniteSet(hidden')
          /\ Cardinality(jobs') + Cardinality(hidden') <= Cardinality(jobs) + Cardinality(hidden) + 1
          /\ Cardinality(jobs') \in Nat /\ Cardinality(hidden') \in Nat
      <4>1. CASE jobs' = jobs /\ hidden' = hidden
        BY <1>0, <1>n, <4>1
      <4>2. CASE jobs' = jobs \cup {j} /\ hidden' = hidden
        <5>1. IsFiniteSet(jobs') /\ Cardinality(jobs') = Cardinality(jobs) + 1
          BY <1>0, <2>3, <4>2, OneMore
        <5> QED
          BY <1>0, <1>n, <4>2, <5>1
      <4>3. CASE jobs' = jobs /\ hidden' = hidden \cup {j}
        <5>1. IsFiniteSet(hidden') /\ Cardinality(hidden') = Cardinality(hidden) + 1
          BY <1>0, <2>3, <4>3, OneMore
        <5> QED
          BY <1>0, <1>n, <4>3, <5>1
      <4> QED
        BY <2>3, <4>1, <4>2, <4>3
    <3> QED
      BY <1>0, <1>n, <2>3, <3>1, <3>2, <3>3
  <2>4. CASE /\ UNCHANGED <<starting, jobs>> /\ StartingSet' = StartingSet
             /\ hidden' \subseteq hidden
             /\ j \in counted /\ counted' = counted \ {j} /\ running' = running - 1
    <3>1. IsFiniteSet(hidden') /\ Cardinality(hidden') <= Cardinality(hidden) /\ Cardinality(hidden') \in Nat
      BY <1>0, <1>s, <2>4
    <3>2. IsFiniteSet(counted') /\ running' = Cardinality(counted') /\ running' \in Nat
      BY <1>0, <2>4, OneLess, ZenonT(30)
    <3> QED
      BY <1>0, <1>n, <2>4, <3>1, <3>2
  <2> HIDE DEF Kept
  <2> QED
    BY <1>1, <1>2, <2>1, <2>2, <2>3, <2>4, Counted
<1>3. Kept
  <2> HIDE DEF Kept
  <2> QED
    BY <1>1, <1>2, CallersKeepCounts DEF Next, JobStep
<1>4. IsFiniteSet(EndedSet')
    BY EndedStep
<1> QED
    BY <1>3, <1>4, <1>n DEF CountInv, Tracked

\* A step of a job leaves closing, closed and the callers alone.
LEMMA JobStepKeeps ==
    ASSUME NEW j \in Jobs, JobStep(j)
    PROVE  UNCHANGED <<closing, closed, killVars, closeVars>>
<1> USE DEF mgrVars
<1>1. CASE start(j)
    BY <1>1 DEF start, reserveStart, RefuseClosing, releaseReservation, Spawn, waitSupervisorReady,
                CheckGate, releaseCommand, Publish, ArmTimer, CleanupBegin, CleanupWait
<1>2. CASE Supervisor(j) \/ readStatus(j) \/ Reap(j) \/ TimerFires(j) \/ TimeoutCallback(j)
    BY <1>2 DEF Supervisor, SupervisorReady, SupervisorGate, CommandEnds, SupervisorDies, ProcUnchanged,
                readStatus, Reap, TimerFires, TimeoutCallback
<1>3. CASE coordinate(j)
    BY <1>3 DEF coordinate, CoordBegin, advanceTerm, CoordGrace, advanceKill, CoordAwait,
                completeAttempt, CoordUnchanged
<1>4. CASE finishTerminal(j)
    BY <1>4 DEF finishTerminal, FinishMark, jobCompleted, FinishDone, FinishReturn
<1> QED
    BY <1>1, <1>2, <1>3, <1>4 DEF JobStep

\* TypeOK in the groups of variables that change together.
StartTypes ==
    /\ startPC \in [Jobs -> StartPCs] /\ published \in [Jobs -> BOOLEAN]
    /\ ready \in [Jobs -> BOOLEAN] /\ timer \in [Jobs -> {"none", "armed", "fired", "closed"}]
ProcTypes ==
    /\ proc \in [Jobs -> {"none", "booting", "gated", "running", "parked", "dying", "stillborn", "dead"}]
    /\ gate \in [Jobs -> {"shut", "released", "withheld"}]
    /\ code \in [Jobs -> {"none", "zero", "nonzero"}]
IoTypes ==
    /\ reader \in [Jobs -> {"none", "reading", "exited"}]
    /\ waiter \in [Jobs -> {"none", "waiting", "finish", "exited"}]
    /\ status \in [Jobs -> {"unread", "invalid", "zero", "nonzero"}]
    /\ reaped \in [Jobs -> BOOLEAN] /\ forced \in [Jobs -> BOOLEAN]
TermTypes ==
    /\ cause \in [Jobs -> {"none", "natural", "kill", "timeout", "close"}]
    /\ phase \in [Jobs -> {"initial", "term", "final"}]
    /\ coord \in [Jobs -> {"none", "begin", "term", "grace", "kill", "await", "finish", "incomplete"}]
    /\ coordinatorRunning \in [Jobs -> BOOLEAN]
    /\ attempts \in [Jobs -> Nat] /\ attemptOpen \in [Jobs -> BOOLEAN]
DoneTypes ==
    /\ state \in [Jobs -> {"none", "running"} \cup Terminal]
    /\ fin \in [Jobs -> {"none", "marked", "released", "done"}]
CallerTypes ==
    /\ killPC \in [Killers -> {"idle", "found", "waiting", "done", "notFound", "incomplete"}]
    /\ killJob \in [Killers -> Jobs \cup {"none"}]
    /\ killAttempt \in [Killers -> Nat] /\ killNewly \in [Killers -> BOOLEAN]
    /\ closePC \in [Closers -> {"idle", "starts", "begin", "wait", "nil", "incomplete"}]
    /\ closeBegin \in [Closers -> SUBSET Jobs]
    /\ closeWait \in [Closers -> Seq([job : Jobs, attempt : Nat])]
ManagerTypes ==
    /\ jobs \subseteq Jobs /\ hidden \subseteq Jobs /\ counted \subseteq Jobs
    /\ starting \in 0 .. MaxRunning /\ running \in 0 .. MaxRunning
    /\ closing \in BOOLEAN /\ closed \in BOOLEAN

\* The types, by who changes them.
LEMMA TypesByGroup ==
    TypeOK <=> /\ StartTypes /\ ProcTypes /\ IoTypes /\ TermTypes /\ DoneTypes /\ CallerTypes /\ ManagerTypes
               /\ completedAt \in [Jobs -> Nat]
BY DEF TypeOK, StartTypes, ProcTypes, IoTypes, TermTypes, DoneTypes, CallerTypes, ManagerTypes

\* What a termination coordinator writes is well typed.
LEMMA CoordinatorTypes ==
    ASSUME TermTypes, NEW j \in Jobs, startCoordinatorLocked(j)
    PROVE  /\ coord' \in [Jobs -> {"none", "begin", "term", "grace", "kill", "await", "finish", "incomplete"}]
           /\ coordinatorRunning' \in [Jobs -> BOOLEAN]
           /\ attempts' \in [Jobs -> Nat] /\ attemptOpen' \in [Jobs -> BOOLEAN]
<1>1. TRUE \in BOOLEAN
    OBVIOUS
<1>2. attempts[j] + 1 \in Nat
    BY DEF TermTypes
<1> QED
    BY <1>1, <1>2 DEF TermTypes, startCoordinatorLocked, Set

\* What the acceptance of a cause writes is well typed.
LEMMA BeginTypes ==
    ASSUME TermTypes, NEW j \in Jobs, NEW why \in {"kill", "timeout", "close"}, beginTermination(j, why),
           phase' = phase
    PROVE  TermTypes'
<1>1. cause' \in [Jobs -> {"none", "natural", "kill", "timeout", "close"}]
    BY DEF TermTypes, beginTermination, termVars, Set
<1>2. \/ UNCHANGED <<coord, coordinatorRunning, attempts, attemptOpen>>
      \/ startCoordinatorLocked(j)
    BY DEF beginTermination, termVars
<1> QED
    BY <1>1, <1>2, CoordinatorTypes DEF TermTypes

\* The steps of jobs keep the types.
LEMMA TypesOfJobs ==
    ASSUME IInv, NEW j \in Jobs, JobStep(j), Next
    PROVE  TypeOK'
<1>0. /\ StartTypes /\ ProcTypes /\ IoTypes /\ TermTypes /\ DoneTypes /\ CallerTypes /\ ManagerTypes
    BY TypesByGroup DEF IInv
<1>b. TRUE \in BOOLEAN /\ FALSE \in BOOLEAN
    OBVIOUS
<1> USE <1>b DEF JobStep, Set
<1>1. StartTypes'
  <2> USE <1>0 DEF StartTypes, StartPCs, Starting, startVars
  <2>1. CASE reserveStart(j) \/ RefuseClosing(j) \/ releaseReservation(j) \/ Spawn(j) \/ CheckGate(j)
    BY <2>1 DEF reserveStart, RefuseClosing, releaseReservation, Spawn, CheckGate
  <2>2. CASE waitSupervisorReady(j) \/ releaseCommand(j) \/ Publish(j) \/ ArmTimer(j)
    BY <2>2 DEF waitSupervisorReady, releaseCommand, Publish, ArmTimer
  <2>3. CASE CleanupBegin(j) \/ CleanupWait(j) \/ TimerFires(j) \/ TimeoutCallback(j)
    BY <2>3 DEF CleanupBegin, CleanupWait, TimerFires, TimeoutCallback
  <2>4. CASE Supervisor(j) \/ readStatus(j) \/ Reap(j)
    BY <2>4 DEF Supervisor, SupervisorReady, SupervisorGate, CommandEnds, SupervisorDies, ProcUnchanged,
                readStatus, Reap
  <2>5. CASE coordinate(j)
    <3>1. UNCHANGED <<startVars, ready, timer>>
      BY <2>5 DEF coordinate, CoordBegin, advanceTerm, CoordGrace, advanceKill, CoordAwait,
                  completeAttempt, CoordUnchanged
    <3> QED
      BY <3>1
  <2>6. CASE FinishMark(j)
    <3>1. /\ timer' = IF timer[j] = "armed" THEN Set(timer, j, "closed") ELSE timer
          /\ UNCHANGED <<startVars, ready>>
      BY <2>6 DEF FinishMark
    <3> QED
      BY <3>1
  <2>7. CASE jobCompleted(j) \/ FinishDone(j) \/ FinishReturn(j)
    BY <2>7 DEF jobCompleted, FinishDone, FinishReturn
  <2> QED
    BY <2>1, <2>2, <2>3, <2>4, <2>5, <2>6, <2>7 DEF start, finishTerminal
<1>2. ProcTypes'
  <2> USE <1>0 DEF ProcTypes, procVars
  <2>1. CASE start(j)
    BY <2>1 DEF start, reserveStart, RefuseClosing, releaseReservation, Spawn, waitSupervisorReady,
                CheckGate, releaseCommand, Publish, ArmTimer, CleanupBegin, CleanupWait
  <2>2. CASE Supervisor(j)
    BY <2>2 DEF Supervisor, SupervisorReady, SupervisorGate, CommandEnds, SupervisorDies, ProcUnchanged
  <2>3. CASE readStatus(j) \/ Reap(j) \/ TimerFires(j) \/ TimeoutCallback(j)
    BY <2>3 DEF readStatus, Reap, TimerFires, TimeoutCallback
  <2>4. CASE advanceTerm(j) \/ advanceKill(j)
    BY <2>4 DEF advanceTerm, advanceKill, CoordUnchanged
  <2>5. CASE CoordBegin(j) \/ CoordGrace(j) \/ CoordAwait(j) \/ completeAttempt(j)
    BY <2>5 DEF CoordBegin, CoordGrace, CoordAwait, completeAttempt, CoordUnchanged
  <2>6. CASE finishTerminal(j)
    BY <2>6 DEF finishTerminal, FinishMark, jobCompleted, FinishDone, FinishReturn
  <2> QED
    BY <2>1, <2>2, <2>3, <2>4, <2>5, <2>6 DEF coordinate
<1>3. IoTypes'
  <2> USE <1>0 DEF IoTypes, ioVars
  <2>1. CASE Spawn(j)
    BY <2>1 DEF Spawn
  <2>2. CASE start(j) /\ ~Spawn(j)
    BY <2>2 DEF start, reserveStart, RefuseClosing, releaseReservation, waitSupervisorReady,
                CheckGate, releaseCommand, Publish, ArmTimer, CleanupBegin, CleanupWait
  <2>3. CASE readStatus(j)
    BY <2>3 DEF readStatus, ProcTypes
  <2>4. CASE Reap(j)
    BY <2>4 DEF Reap
  <2>5. CASE Supervisor(j) \/ TimerFires(j) \/ TimeoutCallback(j)
    BY <2>5 DEF Supervisor, SupervisorReady, SupervisorGate, CommandEnds, SupervisorDies, ProcUnchanged,
                TimerFires, TimeoutCallback
  <2>6. CASE coordinate(j)
    <3>1. UNCHANGED ioVars
      BY <2>6 DEF coordinate, CoordBegin, advanceTerm, CoordGrace, advanceKill, CoordAwait,
                  completeAttempt, CoordUnchanged
    <3> QED
      BY <3>1
  <2>7. CASE FinishMark(j) \/ jobCompleted(j) \/ FinishDone(j)
    <3>1. UNCHANGED ioVars
      BY <2>7 DEF FinishMark, jobCompleted, FinishDone
    <3> QED
      BY <3>1
  <2>8. CASE FinishReturn(j)
    BY <2>8 DEF FinishReturn
  <2> QED
    BY <2>1, <2>2, <2>3, <2>4, <2>5, <2>6, <2>7, <2>8 DEF finishTerminal
<1>4. TermTypes'
  <2> USE <1>0
  <2>1. CASE start(j) /\ ~CleanupBegin(j)
    BY <2>1 DEF TermTypes, termVars, start, reserveStart, RefuseClosing, releaseReservation, Spawn,
                waitSupervisorReady, CheckGate, releaseCommand, Publish, ArmTimer, CleanupWait
  <2>2. CASE CleanupBegin(j)
    BY <2>2, BeginTypes DEF CleanupBegin
  <2>3. CASE TimeoutCallback(j)
    BY <2>3, BeginTypes DEF TimeoutCallback
  <2>4. CASE readStatus(j)
    <3>1. cause' \in [Jobs -> {"none", "natural", "kill", "timeout", "close"}] /\ phase' = phase
      BY <2>4 DEF TermTypes, readStatus, termVars
    <3>2. \/ UNCHANGED <<coord, coordinatorRunning, attempts, attemptOpen>>
          \/ startCoordinatorLocked(j)
      BY <2>4 DEF readStatus, termVars
    <3> QED
      BY <3>1, <3>2, CoordinatorTypes DEF TermTypes
  <2>5. CASE Supervisor(j) \/ Reap(j) \/ TimerFires(j) \/ jobCompleted(j) \/ FinishDone(j)
    BY <2>5 DEF Supervisor, SupervisorReady, SupervisorGate, CommandEnds, SupervisorDies, ProcUnchanged,
                TimerFires, Reap, jobCompleted, FinishDone, TermTypes, termVars
  <2>6. CASE CoordBegin(j)
    <3>1. PICK l \in {"term", "grace", "await", "kill"} : coord' = Set(coord, j, l)
      BY <2>6, CoordBeginLeads DEF TermTypes
    <3>2. UNCHANGED <<phase, coordinatorRunning, attemptOpen, cause, attempts>>
      BY <2>6 DEF CoordBegin, CoordUnchanged
    <3> QED
      BY <3>1, <3>2 DEF TermTypes
  <2>7. CASE advanceTerm(j) \/ advanceKill(j)
    BY <2>7 DEF TermTypes, advanceTerm, advanceKill, CoordGoto, CoordUnchanged
  <2>8. CASE CoordGrace(j) \/ CoordAwait(j) \/ completeAttempt(j)
    BY <2>8 DEF TermTypes, CoordGrace, CoordAwait, completeAttempt, CoordGoto, CoordUnchanged
  <2>9. CASE FinishMark(j)
    <3>1. UNCHANGED <<cause, coord, attempts, attemptOpen, phase>>
          /\ coordinatorRunning' = Set(coordinatorRunning, j, FALSE)
      BY <2>9 DEF FinishMark
    <3> QED
      BY <3>1 DEF TermTypes
  <2>10. CASE FinishReturn(j)
    BY <2>10 DEF FinishReturn, CoordGoto, TermTypes
  <2> QED
    BY <2>1, <2>2, <2>3, <2>4, <2>5, <2>6, <2>7, <2>8, <2>9, <2>10 DEF start, finishTerminal, coordinate
<1>5. DoneTypes'
  <2> USE <1>0 DEF DoneTypes, doneVars
  <2>1. CASE start(j)
    BY <2>1 DEF start, reserveStart, RefuseClosing, releaseReservation, Spawn, waitSupervisorReady,
                CheckGate, releaseCommand, Publish, ArmTimer, CleanupBegin, CleanupWait
  <2>2. CASE FinishMark(j)
    <3>1. state' = Set(state, j, TerminalState(j)) /\ fin' = Set(fin, j, "marked")
      BY <2>2 DEF FinishMark
    <3> QED
      BY <3>1, TerminalStateIs
  <2>3. CASE jobCompleted(j) \/ FinishDone(j) \/ FinishReturn(j)
    BY <2>3 DEF jobCompleted, FinishDone, FinishReturn
  <2>4. CASE Supervisor(j) \/ readStatus(j) \/ Reap(j) \/ TimerFires(j) \/ TimeoutCallback(j)
    BY <2>4 DEF Supervisor, SupervisorReady, SupervisorGate, CommandEnds, SupervisorDies, ProcUnchanged,
                readStatus, Reap, TimerFires, TimeoutCallback
  <2>5. CASE coordinate(j)
    <3>1. UNCHANGED doneVars
      BY <2>5 DEF coordinate, CoordBegin, advanceTerm, CoordGrace, advanceKill, CoordAwait,
                  completeAttempt, CoordUnchanged
    <3> QED
      BY <3>1
  <2> QED
    BY <2>1, <2>2, <2>3, <2>4, <2>5 DEF finishTerminal
<1>6. UNCHANGED <<closing, closed, killVars, closeVars>>
    BY JobStepKeeps
<1>7. CallerTypes'
    BY <1>0, <1>6 DEF CallerTypes, killVars, closeVars
<1>8. ManagerTypes'
  <2>1. jobs' \subseteq Jobs /\ hidden' \subseteq Jobs /\ counted' \subseteq Jobs
    BY <1>0, Counted DEF ManagerTypes
  <2>2. closing' \in BOOLEAN /\ closed' \in BOOLEAN
    BY <1>0, <1>6 DEF ManagerTypes
  <2> QED
    BY <2>1, <2>2, CountStep DEF ManagerTypes
<1>9. completedAt' \in [Jobs -> Nat]
    BY EndedStep
<1> QED
    BY <1>1, <1>2, <1>3, <1>4, <1>5, <1>7, <1>8, <1>9
    DEF TypeOK, StartTypes, ProcTypes, IoTypes, TermTypes, DoneTypes, CallerTypes, ManagerTypes

\* The number of an attempt is a natural number.
LEMMA AttemptIsNat ==
    ASSUME TermTypes, NEW j \in Jobs
    PROVE  Attempt(j) \in Nat
BY DEF TermTypes, Attempt

\* The types, for the callers of kill and Close.
LEMMA TypesOfKill ==
    ASSUME IInv, NEW k \in Killers, kill(k)
    PROVE  CallerTypes'
<1>0. CallerTypes /\ TermTypes /\ jobs \subseteq Jobs
    BY TypesByGroup DEF IInv, ManagerTypes
<1>1. UNCHANGED closeVars
    BY DEF kill, KillLookup, KillBegin, KillWait
<1>2. CASE KillLookup(k)
    BY <1>0, <1>1, <1>2, ZenonT(30) DEF KillLookup, CallerTypes, closeVars, Set
<1>3. CASE KillWait(k)
    BY <1>0, <1>1, <1>3 DEF KillWait, CallerTypes, closeVars, Set
<1>4. CASE KillBegin(k)
  <2> DEFINE j == killJob[k]
  <2>1. j \in Jobs
    BY <1>4 DEF IInv, KillInv, KillOK, KillBegin
  <2>2. NewlyAccepted(j) \in BOOLEAN
    BY Zenon DEF NewlyAccepted
  <2>3. \A b \in BOOLEAN : [killNewly EXCEPT ![k] = b] \in [Killers -> BOOLEAN]
    BY <1>0 DEF CallerTypes
  <2>4. killNewly' = [killNewly EXCEPT ![k] = NewlyAccepted(j)]
    BY <1>4 DEF KillBegin, Set
  <2>5. killNewly' \in [Killers -> BOOLEAN]
    BY <2>2, <2>3, <2>4, Zenon
  <2>6. killAttempt' \in [Killers -> Nat]
    <3>1. killAttempt' = [killAttempt EXCEPT ![k] = Attempt(j)] /\ Attempt(j) \in Nat
      BY <1>0, <1>4, <2>1, AttemptIsNat DEF KillBegin, Set
    <3> QED
      BY <1>0, <3>1 DEF CallerTypes
  <2>7. killPC' = Set(killPC, k, "waiting") /\ killJob' = killJob
    BY <1>4 DEF KillBegin
  <2> QED
    BY <1>0, <1>1, <2>5, <2>6, <2>7 DEF CallerTypes, closeVars, Set
<1> QED
    BY <1>2, <1>3, <1>4 DEF kill

\* The steps of Close keep the types.
LEMMA TypesOfClose ==
    ASSUME IInv, NEW k \in Closers, Close(k)
    PROVE  CallerTypes' /\ closing' \in BOOLEAN /\ closed' \in BOOLEAN
<1>0. CallerTypes /\ TermTypes /\ ManagerTypes
    BY TypesByGroup DEF IInv
<1>1. UNCHANGED killVars
    BY DEF Close, CloseEnter, CloseSnapshot, CloseBegin, CloseBegun, CloseWait, CloseGivesUp, CloseFinish,
           CloseUnchanged
<1>2. closing' \in BOOLEAN /\ closed' \in BOOLEAN
  <2>1. /\ closing' = TRUE \/ closing' = closing
        /\ closed' = TRUE \/ closed' = closed
    BY DEF Close, CloseEnter, CloseSnapshot, CloseBegin, CloseBegun, CloseWait, CloseGivesUp, CloseFinish,
           mgrVars
  <2>2. closing \in BOOLEAN /\ closed \in BOOLEAN
    BY <1>0 DEF ManagerTypes
  <2> QED
    BY <2>1, <2>2, Zenon
<1>3. closePC' \in [Closers -> {"idle", "starts", "begin", "wait", "nil", "incomplete"}]
    BY <1>0, ZenonT(30) DEF CallerTypes, Close, CloseEnter, CloseSnapshot, CloseBegin, CloseBegun, CloseWait,
           CloseGivesUp, CloseFinish, CloseGoto, Set
<1>4. closeBegin' \in [Closers -> SUBSET Jobs]
  <2>1. \/ closeBegin' = closeBegin
        \/ \E S \in SUBSET Jobs : closeBegin' = [closeBegin EXCEPT ![k] = S]
    <3>1. CASE CloseSnapshot(k)
      BY <1>0, <3>1 DEF CloseSnapshot, ManagerTypes, Set
    <3>2. CASE CloseBegin(k)
      BY <1>0, <3>2 DEF CloseBegin, CallerTypes
    <3> QED
      BY <3>1, <3>2 DEF Close, CloseEnter, CloseBegun, CloseWait, CloseGivesUp, CloseFinish
  <2> QED
    BY <1>0, <2>1 DEF CallerTypes
<1>5. closeWait' \in [Closers -> Seq([job : Jobs, attempt : Nat])]
  <2> DEFINE Entries == [job : Jobs, attempt : Nat]
  <2>0. closeWait \in [Closers -> Seq(Entries)] /\ closeBegin[k] \subseteq Jobs
    BY <1>0 DEF CallerTypes
  <2>1. \/ closeWait' = closeWait
        \/ \E s \in Seq(Entries) : closeWait' = [closeWait EXCEPT ![k] = s]
    <3>1. CASE CloseSnapshot(k)
      <4>1. <<>> \in Seq(Entries)
        OBVIOUS
      <4> QED
        BY <3>1, <4>1 DEF CloseSnapshot, Set
    <3>2. CASE CloseBegin(k)
      <4>1. PICK j \in closeBegin[k] :
               closeWait' = [closeWait EXCEPT ![k] = Append(@, [job |-> j, attempt |-> Attempt(j)])]
        BY <3>2 DEF CloseBegin
      <4>2. [job |-> j, attempt |-> Attempt(j)] \in Entries
        BY <1>0, <2>0, AttemptIsNat
      <4>3. Append(closeWait[k], [job |-> j, attempt |-> Attempt(j)]) \in Seq(Entries)
        BY <2>0, <4>2, AppendProperties
      <4>4. closeWait' = [closeWait EXCEPT ![k] = Append(closeWait[k], [job |-> j, attempt |-> Attempt(j)])]
        BY <4>1
      <4> QED
        BY <4>3, <4>4
    <3>3. CASE CloseWait(k)
      <4>1. closeWait[k] # <<>> /\ closeWait[k] \in Seq(Entries)
        BY <2>0, <3>3 DEF CloseWait
      <4>2. Tail(closeWait[k]) \in Seq(Entries)
        BY <4>1, HeadTailProperties
      <4>3. closeWait' = closeWait \/ closeWait' = [closeWait EXCEPT ![k] = Tail(closeWait[k])]
        BY <3>3 DEF CloseWait
      <4> QED
        BY <4>2, <4>3
    <3> QED
      BY <3>1, <3>2, <3>3 DEF Close, CloseEnter, CloseBegun, CloseGivesUp, CloseFinish
  <2> QED
    BY <2>0, <2>1
<1> QED
    BY <1>0, <1>1, <1>2, <1>3, <1>4, <1>5 DEF CallerTypes, killVars

\* Every step keeps the types.
LEMMA TypesStep ==
    ASSUME IInv, Next
    PROVE  TypeOK'
<1>1. ASSUME NEW j \in Jobs, JobStep(j) PROVE TypeOK'
    BY <1>1, TypesOfJobs
<1>2. CASE (\E k \in Killers : kill(k)) \/ (\E k \in Closers : Close(k))
  <2>0. /\ StartTypes /\ ProcTypes /\ IoTypes /\ TermTypes /\ DoneTypes /\ CallerTypes /\ ManagerTypes
    BY TypesByGroup DEF IInv
  <2>1. UNCHANGED <<startVars, procVars, ioVars, doneVars, phase, ready, timer>>
    BY <1>2, CallersOnlyBegin
  <2>2. StartTypes' /\ ProcTypes' /\ IoTypes' /\ DoneTypes'
    BY <2>0, <2>1 DEF StartTypes, ProcTypes, IoTypes, DoneTypes, startVars, procVars, ioVars, doneVars
  <2>3. TermTypes'
    <3>1. CASE UNCHANGED termVars
      BY <2>0, <2>1, <3>1 DEF TermTypes, termVars
    <3> QED
      BY <1>2, <2>0, <2>1, <3>1, CallersOnlyBegin, BeginTypes
  <2>4. CallerTypes' /\ closing' \in BOOLEAN /\ closed' \in BOOLEAN
    <3>1. ASSUME NEW k \in Killers, kill(k) PROVE closing' = closing /\ closed' = closed
      BY <3>1 DEF kill, KillLookup, KillBegin, KillWait, mgrVars
    <3>2. closing \in BOOLEAN /\ closed \in BOOLEAN
      BY <2>0 DEF ManagerTypes
    <3> QED
      BY <1>2, <3>1, <3>2, TypesOfKill, TypesOfClose
  <2>5. ManagerTypes'
    <3>1. jobs' \subseteq Jobs /\ hidden' \subseteq Jobs /\ counted' \subseteq Jobs
      BY <1>2, <2>0, CallersKeepCounts DEF ManagerTypes
    <3> QED
      BY <2>4, <3>1, CountStep DEF ManagerTypes
  <2>6. completedAt' \in [Jobs -> Nat]
    BY EndedStep
  <2> QED
    BY <2>2, <2>3, <2>4, <2>5, <2>6
    DEF TypeOK, StartTypes, ProcTypes, IoTypes, TermTypes, DoneTypes, CallerTypes, ManagerTypes
<1> QED
    BY <1>1, <1>2 DEF Next, JobStep

\* finishTerminal only goes forward, and only a reserved start spawns.
LEMMA ForwardStep ==
    ASSUME IInv, Next, NEW d \in Jobs
    PROVE  /\ fin[d] = "done" => fin'[d] = "done"
           /\ fin[d] \in {"released", "done"} => fin'[d] \in {"released", "done"}
           /\ Spawned(d)' => Spawned(d) \/ d \in StartingSet
<1>t. fin \in [Jobs -> {"none", "marked", "released", "done"}] /\ proc \in [Jobs -> {"none", "booting",
         "gated", "running", "parked", "dying", "stillborn", "dead"}]
    BY DEF IInv, TypeOK
<1> USE <1>t DEF Spawned, doneVars, procVars, Set
<1>1. ASSUME NEW j \in Jobs, JobStep(j)
      PROVE  /\ fin[d] = "done" => fin'[d] = "done"
             /\ fin[d] \in {"released", "done"} => fin'[d] \in {"released", "done"}
             /\ Spawned(d)' => Spawned(d) \/ d \in StartingSet
  <2>1. CASE Spawn(j)
    BY <2>1 DEF Spawn, StartingSet, Starting
  <2>2. CASE start(j) /\ ~Spawn(j)
    BY <2>2 DEF start, reserveStart, RefuseClosing, releaseReservation, waitSupervisorReady,
                CheckGate, releaseCommand, Publish, ArmTimer, CleanupBegin, CleanupWait
  <2>3. CASE Supervisor(j)
    BY <2>3 DEF Supervisor, SupervisorReady, SupervisorGate, CommandEnds, SupervisorDies, ProcUnchanged,
                Alive
  <2>4. CASE readStatus(j) \/ Reap(j) \/ TimerFires(j) \/ TimeoutCallback(j)
    BY <2>4 DEF readStatus, Reap, TimerFires, TimeoutCallback
  <2>5. CASE advanceTerm(j) \/ advanceKill(j)
    BY <2>5 DEF advanceTerm, advanceKill, CoordUnchanged, Alive
  <2>6. CASE CoordBegin(j) \/ CoordGrace(j) \/ CoordAwait(j) \/ completeAttempt(j)
    <3>1. UNCHANGED <<proc, fin>>
      BY <2>6 DEF CoordBegin, CoordGrace, CoordAwait, completeAttempt, CoordUnchanged
    <3> QED
      BY <3>1
  <2>7. CASE FinishMark(j)
    <3>1. fin[j] = "none" /\ fin' = Set(fin, j, "marked") /\ proc' = proc
      BY <2>7 DEF FinishMark
    <3> QED
      BY <3>1
  <2>8. CASE jobCompleted(j) \/ FinishDone(j) \/ FinishReturn(j)
    BY <2>8 DEF jobCompleted, FinishDone, FinishReturn
  <2> QED
    BY <1>1, <2>1, <2>2, <2>3, <2>4, <2>5, <2>6, <2>7, <2>8 DEF JobStep, coordinate, finishTerminal
<1>2. CASE (\E k \in Killers : kill(k)) \/ (\E k \in Closers : Close(k))
    BY <1>2, CallersOnlyBegin
<1> QED
    BY <1>1, <1>2 DEF Next, JobStep

\* Once no start is in progress and the manager is closing, what is over stays over.
LEMMA OverStep ==
    ASSUME IInv, Next, closing, StartingSet = {}
    PROVE  StartingSet' = {} /\ \A d \in Jobs : Over(d) => Over(d)'
<1>1. StartingSet' = {}
  <2>1. ASSUME NEW j \in Jobs, JobStep(j) PROVE StartingSet' = {}
    BY <2>1, Counted
  <2>2. CASE (\E k \in Killers : kill(k)) \/ (\E k \in Closers : Close(k))
    BY <2>2, CallersKeepCounts
  <2> QED
    BY <2>1, <2>2 DEF Next, JobStep
<1> QED
    BY <1>1, ForwardStep DEF Over

\* Every step keeps what the callers of kill know.
LEMMA KillStep ==
    ASSUME IInv, Next
    PROVE  KillInv'
<1> SUFFICES ASSUME NEW q \in Killers PROVE KillOK(q)'
    BY DEF KillInv
<1>0. KillOK(q) /\ CallerTypes
    BY TypesByGroup DEF IInv, KillInv
<1>1. \A d \in Jobs : /\ cause[d] = "kill" => cause'[d] = "kill"
                      /\ fin[d] = "done" => fin'[d] = "done"
    BY StableStep, ForwardStep DEF StepIsStable
<1>2. CASE UNCHANGED killVars
    BY <1>0, <1>1, <1>2 DEF KillOK, killVars, Done
<1>3. ASSUME NEW k \in Killers, kill(k) PROVE KillOK(q)'
  <2>1. CASE q # k
    <3>1. killPC'[q] = killPC[q] /\ killJob'[q] = killJob[q] /\ killNewly'[q] = killNewly[q]
      <4>1. CASE KillLookup(k)
        BY <1>0, <2>1, <4>1 DEF KillLookup, Set, CallerTypes
      <4>2. CASE KillWait(k)
        BY <1>0, <2>1, <4>2 DEF KillWait, Set, CallerTypes
      <4>3. CASE KillBegin(k)
        <5>1. \A b : [killNewly EXCEPT ![k] = b][q] = killNewly[q]
          BY <1>0, <2>1 DEF CallerTypes
        <5>2. killNewly' = [killNewly EXCEPT ![k] = NewlyAccepted(killJob[k])]
          BY <4>3 DEF KillBegin, Set
        <5>3. killNewly'[q] = killNewly[q]
          BY <5>1, <5>2, Zenon
        <5>4. killPC' = Set(killPC, k, "waiting") /\ killJob' = killJob
          BY <4>3 DEF KillBegin
        <5> QED
          BY <1>0, <2>1, <5>3, <5>4 DEF Set, CallerTypes
      <4> QED
        BY <1>3, <4>1, <4>2, <4>3 DEF kill
    <3> QED
      BY <1>0, <1>1, <3>1 DEF KillOK, Done
  <2>2. CASE q = k
    <3>1. CASE KillLookup(k)
      <4>1. jobs \subseteq Jobs
        BY DEF IInv, TypeOK
      <4> QED
        BY <1>0, <2>2, <3>1, <4>1 DEF KillLookup, Set, CallerTypes, KillOK
    <3>2. CASE KillWait(k)
      <4>1. fin' = fin
        BY <3>2 DEF KillWait, doneVars
      <4> QED
        BY <1>0, <1>1, <2>2, <3>2, <4>1 DEF KillWait, Set, CallerTypes, KillOK, Done
    <3>3. CASE KillBegin(k)
      <4> DEFINE j == killJob[k]
      <4>1. j \in Jobs /\ killJob' = killJob /\ killPC' = Set(killPC, k, "waiting")
        BY <1>0, <2>2, <3>3 DEF KillBegin, KillOK
      <4>2. killNewly' = [killNewly EXCEPT ![k] = NewlyAccepted(j)]
        BY <3>3 DEF KillBegin, Set
      <4>3. \A b : [killNewly EXCEPT ![k] = b][k] = b
        BY <1>0 DEF CallerTypes
      <4>4. killNewly'[k] = NewlyAccepted(j)
        BY <4>2, <4>3, Zenon
      <4>5. NewlyAccepted(j) => cause'[j] = "kill"
        <5>1. beginTermination(j, "kill")
          BY <3>3 DEF KillBegin
        <5>2. cause \in [Jobs -> {"none", "natural", "kill", "timeout", "close"}]
          BY DEF IInv, TypeOK
        <5> QED
          BY <4>1, <5>1, <5>2 DEF beginTermination, NewlyAccepted, Set
      <4>6. killNewly'[k] => cause'[j] = "kill"
        BY <4>4, <4>5, Zenon
      <4>7. killPC'[k] = "waiting" /\ killJob'[k] \in Jobs
        BY <1>0, <4>1 DEF Set, CallerTypes
      <4> QED
        BY <2>2, <4>1, <4>6, <4>7 DEF KillOK
    <3> QED
      BY <1>3, <3>1, <3>2, <3>3 DEF kill
  <2> QED
    BY <2>1, <2>2
<1>4. ASSUME NEW k \in Closers, Close(k) PROVE UNCHANGED killVars
    BY <1>4 DEF Close, CloseEnter, CloseSnapshot, CloseBegin, CloseBegun, CloseWait, CloseGivesUp,
                CloseFinish, CloseUnchanged
<1> QED
    BY <1>2, <1>3, <1>4, JobStepKeeps DEF Next, JobStep

\* With starts.Wait() over, every job is in a registry or over.
LEMMA NothingStarting ==
    ASSUME IInv, starting = 0
    PROVE  StartingSet = {} /\ \A j \in Jobs : j \in jobs \cup hidden \/ Over(j)
<1>1. StartingSet = {}
    BY FS_EmptySet DEF IInv, CountInv
<1>2. ASSUME NEW j \in Jobs, ~Over(j) PROVE j \in jobs \cup hidden
  <2>1. LifeOK(j) /\ KnownOK(j) /\ fin[j] \in {"none", "marked", "released", "done"}
    BY DEF IInv, JobsInv, TypeOK
  <2>2. startPC[j] \notin Starting
    BY <1>1 DEF StartingSet
  <2> QED
    BY <1>2, <2>1, <2>2 DEF Over, Spawned, LifeOK, KnownOK
<1> QED
    BY <1>1, <1>2

\* The first loop of Close moves a job from the snapshot to the list it waits for, the
\* second takes it off only when the job is done.
LEMMA CoverStep ==
    ASSUME IInv, NEW k \in Closers, Close(k), closePC'[k] \in {"begin", "wait"},
           NEW d \in Jobs
    PROVE  \/ d \in closeBegin'[k]
           \/ \E i \in 1 .. Len(closeWait'[k]) : closeWait'[k][i].job = d
           \/ Over(d)
<1>0. CallerTypes /\ CloseOK(k)
    BY TypesByGroup DEF IInv, CloseInv
<1> DEFINE Entries == [job : Jobs, attempt : Nat]
<1>s. closeWait[k] \in Seq(Entries)
    BY <1>0 DEF CallerTypes
<1>1. CASE CloseEnter(k)
  <2>1. closePC'[k] \in {"nil", "starts"}
    BY <1>0, <1>1 DEF CloseEnter, CloseGoto, Set, CallerTypes
  <2> QED
    BY <2>1
<1>2. CASE CloseSnapshot(k)
    BY <1>0, <1>2, NothingStarting DEF CloseSnapshot, Set, CallerTypes
<1>3. CASE CloseBegin(k)
  <2>1. PICK j \in closeBegin[k] :
           /\ closeWait' = [closeWait EXCEPT ![k] = Append(@, [job |-> j, attempt |-> Attempt(j)])]
           /\ closeBegin' = [closeBegin EXCEPT ![k] = @ \ {j}]
    BY <1>3 DEF CloseBegin
  <2>2. j \in Jobs /\ Attempt(j) \in Nat
    BY <1>0, TypesByGroup, AttemptIsNat DEF IInv, CallerTypes
  <2> DEFINE e == [job |-> j, attempt |-> Attempt(j)]
             s == Append(closeWait[k], e)
  <2>3. e \in Entries
    BY <2>2
  <2>4. closeWait'[k] = s /\ closeBegin'[k] = closeBegin[k] \ {j}
    BY <1>0, <2>1 DEF CallerTypes
  <2>5. /\ Len(s) = Len(closeWait[k]) + 1 /\ Len(closeWait[k]) \in Nat
        /\ s[Len(closeWait[k]) + 1] = e
        /\ \A i \in 1 .. Len(closeWait[k]) : s[i] = closeWait[k][i]
    BY <1>s, <2>3, AppendProperties, LenProperties
  <2>6. closePC[k] = "begin"
    BY <1>3 DEF CloseBegin
  <2>7. \/ d \in closeBegin[k]
        \/ \E i \in 1 .. Len(closeWait[k]) : closeWait[k][i].job = d
        \/ Over(d)
    BY <1>0, <2>6 DEF CloseOK
  <2>8. CASE d = j
    <3>1. e.job = j /\ Len(closeWait[k]) + 1 \in 1 .. Len(s)
      BY <2>5
    <3> HIDE DEF s, e
    <3> QED
      BY <2>4, <2>5, <2>8, <3>1
  <2>9. CASE \E i \in 1 .. Len(closeWait[k]) : closeWait[k][i].job = d
    <3> HIDE DEF s, e
    <3>1. PICK i \in 1 .. Len(closeWait[k]) : closeWait[k][i].job = d
      BY <2>9
    <3>2. i \in 1 .. Len(s) /\ s[i].job = d
      BY <2>5, <3>1
    <3> QED
      BY <2>4, <3>2
  <2> HIDE DEF s, e
  <2> QED
    BY <2>4, <2>7, <2>8, <2>9
<1>4. CASE CloseBegun(k)
  <2>1. closePC[k] = "begin" /\ closeBegin' = closeBegin /\ closeWait' = closeWait
    BY <1>4 DEF CloseBegun
  <2> QED
    BY <1>0, <2>1 DEF CloseOK
<1>5. CASE CloseWait(k)
  <2>1. closePC[k] = "wait" /\ closeBegin' = closeBegin /\ closeWait[k] # <<>>
    BY <1>5 DEF CloseWait
  <2>2. PICK i \in 1 .. Len(closeWait[k]) : closeWait[k][i].job = d \/ Over(d)
    BY <1>0, <1>s, <2>1, EmptySeq, LenProperties DEF CloseOK
  <2>3. CASE closeWait' = closeWait
    BY <2>2, <2>3
  <2>4. CASE closeWait' # closeWait
    <3>1. Done(Head(closeWait[k]).job) /\ closeWait' = [closeWait EXCEPT ![k] = Tail(closeWait[k])]
      BY <1>5, <2>4 DEF CloseWait
    <3>2. closeWait'[k] = Tail(closeWait[k])
      BY <1>0, <3>1 DEF CallerTypes
    <3>3. /\ Head(closeWait[k]) = closeWait[k][1]
          /\ Len(Tail(closeWait[k])) = Len(closeWait[k]) - 1
          /\ \A n \in 1 .. Len(Tail(closeWait[k])) : Tail(closeWait[k])[n] = closeWait[k][n + 1]
          /\ Len(closeWait[k]) \in Nat
      BY <1>s, <2>1, HeadTailProperties, LenProperties
    <3>4. CASE i = 1
      BY <2>2, <3>1, <3>3, <3>4 DEF Over, Done
    <3>5. CASE i # 1
      <4>1. i - 1 \in 1 .. Len(Tail(closeWait[k])) /\ (i - 1) + 1 = i
        BY <3>3, <3>5
      <4>2. Tail(closeWait[k])[i - 1] = closeWait[k][i]
        BY <3>3, <4>1
      <4> QED
        BY <2>2, <3>2, <4>1, <4>2
    <3> QED
      BY <3>4, <3>5
  <2> QED
    BY <2>3, <2>4
<1>6. CASE CloseGivesUp(k) \/ CloseFinish(k)
  <2>1. closePC'[k] \in {"incomplete", "nil"}
    BY <1>0, <1>6 DEF CloseGivesUp, CloseFinish, CloseGoto, Set, CallerTypes
  <2> QED
    BY <2>1
<1> QED
    BY <1>1, <1>2, <1>3, <1>4, <1>5, <1>6 DEF Close

\* Every step keeps what the callers of Close rely on.
LEMMA CloseStep ==
    ASSUME IInv, Next
    PROVE  CloseInv'
<1>0. CallerTypes /\ CloseInv
    BY TypesByGroup DEF IInv
<1>o. closing /\ StartingSet = {} => StartingSet' = {} /\ \A d \in Jobs : Over(d) => Over(d)'
    BY OverStep
<1>1. ASSUME UNCHANGED <<closing, closed, closeVars>> PROVE CloseInv'
  <2>1. closed' => closing' /\ StartingSet' = {} /\ \A j \in Jobs : Over(j)'
    BY <1>0, <1>o, <1>1 DEF CloseInv
  <2>2. ASSUME NEW q \in Closers PROVE CloseOK(q)'
    <3>1. CloseOK(q)
      BY <1>0 DEF CloseInv
    <3> QED
      BY <1>o, <1>1, <3>1 DEF CloseOK, closeVars
  <2> QED
    BY <2>1, <2>2 DEF CloseInv
<1>2. ASSUME NEW k \in Killers, kill(k) PROVE UNCHANGED <<closing, closed, closeVars>>
    BY <1>2 DEF kill, KillLookup, KillBegin, KillWait, mgrVars
<1>3. ASSUME NEW k \in Closers, Close(k) PROVE CloseInv'
  <2>0. CloseOK(k)
    BY <1>0 DEF CloseInv
  <2>1. (closing => closing') /\ (closed => closed')
    <3>1. /\ closing' = TRUE \/ closing' = closing
          /\ closed' = TRUE \/ closed' = closed
      BY <1>3 DEF Close, CloseEnter, CloseSnapshot, CloseBegin, CloseBegun, CloseWait, CloseGivesUp,
                  CloseFinish, mgrVars
    <3>2. closing => closing'
      BY <3>1, Zenon
    <3>3. closed => closed'
      BY <3>1, Zenon
    <3> QED
      BY <3>2, <3>3
  <2>2. closed' => closing' /\ StartingSet' = {} /\ \A j \in Jobs : Over(j)'
    <3>1. CASE closed
      BY <1>0, <1>o, <2>1, <3>1 DEF CloseInv
    <3>2. CASE CloseFinish(k)
      <4>1. closePC[k] = "wait" /\ closeWait[k] = <<>>
        BY <3>2 DEF CloseFinish
      <4>2. closing /\ StartingSet = {} /\ \A j \in Jobs : Over(j)
        BY <2>0, <4>1 DEF CloseOK
      <4> QED
        BY <1>o, <2>1, <4>2
    <3>3. CASE ~CloseFinish(k)
      <4>1. closed' = closed
        BY <1>3, <3>3 DEF Close, CloseEnter, CloseSnapshot, CloseBegin, CloseBegun, CloseWait,
                    CloseGivesUp, mgrVars
      <4> QED
        BY <3>1, <4>1
    <3> QED
      BY <3>2, <3>3
  <2>3. CloseOK(k)'
    <3>1. closePC'[k] \in {"begin", "wait"} => closing /\ StartingSet = {}
      <4>1. CASE CloseSnapshot(k)
        BY <2>0, <4>1, NothingStarting DEF CloseSnapshot, CloseOK
      <4>2. CASE CloseBegin(k) \/ CloseBegun(k) \/ CloseWait(k)
        BY <2>0, <4>2 DEF CloseBegin, CloseBegun, CloseWait, CloseOK
      <4>3. CASE CloseEnter(k)
        BY <1>0, <4>3 DEF CloseEnter, CloseGoto, Set, CallerTypes
      <4>4. CASE CloseGivesUp(k) \/ CloseFinish(k)
        BY <1>0, <4>4 DEF CloseGivesUp, CloseFinish, CloseGoto, Set, CallerTypes
      <4> QED
        BY <1>3, <4>1, <4>2, <4>3, <4>4 DEF Close
    <3>2. closePC'[k] \in {"begin", "wait"} =>
             /\ StartingSet' = {}
             /\ \A j \in Jobs : \/ j \in closeBegin'[k]
                                \/ \E i \in 1 .. Len(closeWait'[k]) : closeWait'[k][i].job = j
                                \/ Over(j)'
      BY <1>3, <1>o, <3>1, CoverStep
    <3>3. closePC'[k] = "starts" => closing'
      <4>1. CASE CloseEnter(k)
        <5>1. CASE closed
          BY <1>0, <4>1, <5>1 DEF CloseEnter, CloseGoto, Set, CallerTypes
        <5>2. CASE ~closed
          BY <4>1, <5>2 DEF CloseEnter
        <5> QED
          BY <5>1, <5>2
      <4>2. CASE ~CloseEnter(k)
        <5>1. closePC'[k] = "starts" => closePC[k] = "starts"
          BY <1>0, <1>3, <4>2 DEF CallerTypes, Close, CloseSnapshot, CloseBegin, CloseBegun, CloseWait,
                      CloseGivesUp, CloseFinish, CloseGoto, Set
        <5> QED
          BY <2>0, <2>1, <5>1 DEF CloseOK
      <4> QED
        BY <4>1, <4>2
    <3>4. closePC'[k] = "wait" => closeBegin'[k] = {}
      BY <1>0, <1>3, <2>0 DEF CallerTypes, Close, CloseEnter, CloseSnapshot, CloseBegin, CloseBegun,
                  CloseWait, CloseGivesUp, CloseFinish, CloseGoto, Set, CloseOK
    <3>5. closePC'[k] = "nil" => closed'
      <4>1. CASE CloseFinish(k)
        BY <4>1 DEF CloseFinish
      <4>2. CASE CloseEnter(k)
        BY <1>0, <2>1, <4>2 DEF CloseEnter, CloseGoto, Set, CallerTypes
      <4>3. CASE ~CloseFinish(k) /\ ~CloseEnter(k)
        <5>1. closePC'[k] = "nil" => closePC[k] = "nil"
          BY <1>0, <1>3, <4>3 DEF CallerTypes, Close, CloseSnapshot, CloseBegin, CloseBegun, CloseWait,
                      CloseGivesUp, CloseGoto, Set
        <5> QED
          BY <2>0, <2>1, <5>1 DEF CloseOK
      <4> QED
        BY <4>1, <4>2, <4>3
    <3> QED
      BY <2>1, <3>1, <3>2, <3>3, <3>4, <3>5 DEF CloseOK
  <2>4. ASSUME NEW q \in Closers, q # k PROVE CloseOK(q)'
    <3>1. /\ closePC'[q] = closePC[q] /\ closeBegin'[q] = closeBegin[q] /\ closeWait'[q] = closeWait[q]
      BY <1>0, <1>3, <2>4 DEF CallerTypes, Close, CloseEnter, CloseSnapshot, CloseBegin, CloseBegun,
                  CloseWait, CloseGivesUp, CloseFinish, CloseGoto, Set
    <3>2. CloseOK(q)
      BY <1>0 DEF CloseInv
    <3> QED
      BY <1>o, <2>1, <3>1, <3>2 DEF CloseOK
  <2> QED
    BY <2>2, <2>3, <2>4 DEF CloseInv
<1> QED
    BY <1>1, <1>2, <1>3, JobStepKeeps DEF Next, JobStep

\* The invariant is kept by every step.
LEMMA NextIInv == IInv /\ [Next]_vars => IInv'
<1> SUFFICES ASSUME IInv, [Next]_vars PROVE IInv'
    OBVIOUS
<1>1. CASE Next
    BY <1>1, TypesStep, LifeStep, TermStep, VerdictStep, KnownStep, CountStep, KillStep, CloseStep
    DEF IInv, JobsInv
<1>2. CASE UNCHANGED vars
  <2> USE <1>2 DEF vars, mgrVars, startVars, procVars, ioVars, termVars, doneVars, killVars, closeVars
  <2>1. TypeOK'
    BY DEF IInv, TypeOK
  <2>2. JobsInv'
    BY DEF IInv, JobsInv, LifeOK, TermOK, VerdictOK, KnownOK, Gone
  <2>3. CountInv'
    BY DEF IInv, CountInv, StartingSet, EndedSet, Tracked
  <2>4. KillInv'
    BY DEF IInv, KillInv, KillOK, Done
  <2>5. CloseInv'
    BY DEF IInv, CloseInv, CloseOK, StartingSet, Over, Spawned
  <2> QED
    BY <2>1, <2>2, <2>3, <2>4, <2>5 DEF IInv
<1> QED
    BY <1>1, <1>2

\* The inductive invariant holds in every reachable state.
THEOREM Invariance == Spec => []IInv
BY InitIInv, NextIInv, PTL DEF Spec

\* reserveStart, the publishing critical section and jobCompleted: the counters
\* are what they count and neither limit is exceeded (manager.go:165-202, 337-347).
THEOREM CapacityIsKept == Spec => []CapacityHolds
<1>1. ASSUME IInv PROVE CapacityHolds
  <2>1. /\ starting = Cardinality({j \in Jobs : startPC[j] \in Starting})
        /\ running = Cardinality(counted) /\ starting + running <= MaxRunning /\ Tracked <= MaxTracked
    BY <1>1 DEF IInv, CountInv, StartingSet
  <2>2. ASSUME NEW j \in Jobs, Spawned(j), startPC[j] \notin Starting
        PROVE  /\ fin[j] \in {"none", "marked"} => j \in jobs \cup hidden /\ j \in counted
               /\ fin[j] \in {"none", "marked", "released", "done"}
               /\ fin[j] # "none" => reaped[j] /\ state[j] \in Terminal
    BY <1>1, <2>2 DEF IInv, JobsInv, LifeOK, TermOK, KnownOK, Spawned, TypeOK
  <2>3. {j \in Jobs : Spawned(j) /\ ~reaped[j]} \subseteq counted \cup {j \in Jobs : startPC[j] \in Starting}
    BY <2>2
  <2>4. \A j \in Jobs : Spawned(j) /\ startPC[j] \notin Starting /\ j \notin jobs \cup hidden =>
          fin[j] \in {"released", "done"} /\ state[j] \in Terminal
    BY <2>2
  <2> QED
    BY <2>1, <2>3, <2>4 DEF CapacityHolds
<1> QED
    BY <1>1, Invariance, PTL

\* advanceSignal and cmd.Wait: a supervisor that does not die on its own outlives the
\* final signal to its group (job.go:132, 179).
THEOREM SupervisorIsTheAnchor == Spec => []SupervisorAnchorsGroup
<1>1. IInv => SupervisorAnchorsGroup
    BY DEF IInv, JobsInv, TermOK, Gone, SupervisorAnchorsGroup
<1> QED
    BY <1>1, Invariance, PTL

\* finishTerminal: no verdict before the final signal and the reaping, and a kill
\* that succeeded left no supervisor behind (job.go:193-227).
THEOREM TerminalIsReaped == Spec => []TerminalMeansReaped
<1>1. ASSUME IInv PROVE TerminalMeansReaped
  <2>1. \A j \in Jobs : /\ state[j] \in Terminal => reaped[j] /\ phase[j] = "final"
                        /\ Done(j) => state[j] \in Terminal
    BY <1>1 DEF IInv, JobsInv, TermOK, LifeOK, Done
  <2>2. \A k \in Killers : killPC[k] = "done" => killJob[k] \in Jobs /\ Done(killJob[k])
    BY <1>1 DEF IInv, KillInv, KillOK
  <2> QED
    BY <2>1, <2>2 DEF TerminalMeansReaped
<1> QED
    BY <1>1, Invariance, PTL

\* Close: nil means that every supervisor ever spawned is reaped and every job
\* terminal, whatever starts raced with it (manager.go:251-309).
THEOREM CloseLeavesNothing == Spec => []ClosedMeansNothingLeft
<1>1. ASSUME IInv PROVE ClosedMeansNothingLeft
  <2>1. (closed \/ \E k \in Closers : closePC[k] = "nil") =>
           closing /\ StartingSet = {} /\ \A j \in Jobs : Over(j)
    BY <1>1 DEF IInv, CloseInv, CloseOK
  <2>2. \A j \in Jobs : Over(j) /\ Spawned(j) => reaped[j] /\ state[j] \in Terminal
    BY <1>1 DEF IInv, JobsInv, TermOK, LifeOK, Over
  <2> QED
    BY <2>1, <2>2 DEF ClosedMeansNothingLeft, StartingSet
<1> QED
    BY <1>1, Invariance, PTL

\* beginTermination and finishTerminal: kill, timeout, Close and the natural end race
\* for the verdict, and the one whose cause was accepted gets it (job.go:99-125).
THEOREM VerdictIsOne == Spec => []OneVerdict
<1>1. ASSUME IInv PROVE OneVerdict
  <2>1. ASSUME NEW k \in Killers, killNewly[k]
        PROVE  cause[killJob[k]] = "kill" /\ state[killJob[k]] \in {"running", "killed"}
    <3>1. killJob[k] \in Jobs /\ cause[killJob[k]] = "kill"
      BY <1>1, <2>1 DEF IInv, KillInv, KillOK
    <3>2. /\ LifeOK(killJob[k]) /\ VerdictOK(killJob[k])
          /\ state[killJob[k]] \in {"none", "running"} \cup Terminal
      BY <1>1, <3>1 DEF IInv, JobsInv, TypeOK
    <3> QED
      BY <3>1, <3>2 DEF LifeOK, VerdictOK
  <2>2. ASSUME NEW j \in Jobs
        PROVE  /\ state[j] = "succeeded" => code[j] = "zero" /\ gate[j] = "released"
               /\ state[j] = "timed_out" => timer[j] \in {"fired", "closed"}
    BY <1>1 DEF IInv, JobsInv, VerdictOK, LifeOK
  <2> QED
    BY <1>1, <2>1, <2>2 DEF OneVerdict, IInv
<1> QED
    BY <1>1, Invariance, PTL

\* No step changes a cause or a verdict, starts a second coordinator for a job or
\* takes a signal phase back (job.go:99-125, 176-220).
THEOREM VerdictStays == Spec => VerdictIsStable
<1>1. ASSUME IInv, [Next]_vars
      PROVE  [\A j \in Jobs :
                /\ cause[j] # "none" => cause'[j] = cause[j]
                /\ state[j] \in Terminal => state'[j] = state[j]
                /\ attempts'[j] # attempts[j] =>
                      coord[j] = "none" /\ ~attemptOpen[j] /\ state[j] = "running"
                /\ <<phase[j], phase'[j]>> \in Escalations]_vars
    BY <1>1, StableStep DEF StepIsStable
<1> QED
    BY <1>1, Invariance, PTL DEF Spec, VerdictIsStable
=============================================================================
