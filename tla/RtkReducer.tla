----------------------------- MODULE RtkReducer -----------------------------
(***************************************************************************)
(* rtkreducer/process.go with the callback of transform.go that drives it. *)
(* A transform callback takes a slot without waiting, turns it into a      *)
(* lease, and reduces its fields one after the other.  Each field has an   *)
(* owner goroutine that makes a private directory, runs the reducer in it, *)
(* removes it and reports; the callback stops waiting when its context is  *)
(* done and KillWait has passed, and the owner then keeps the lease.  Slot *)
(* and active count are given back by whichever of the two is last.        *)
(*                                                                         *)
(* An action is one critical section of coordinator.mu or lease.mu, one    *)
(* channel operation, or one file-system or process call.  At most one     *)
(* owner of a lease lives at a time, so owners are named by their callback.*)
(***************************************************************************)
EXTENDS Integers, FiniteSets

CONSTANTS Callbacks,      \* calls of transform
          Closers,        \* calls of Close
          Patient,        \* closers whose context is never done
          MaxConcurrent,  \* Limits.MaxConcurrent, the capacity of c.slots
          MaxFields,      \* bound: fields a binding may name
          DiskMayFail     \* whether making and removing directories may fail

ASSUME MaxConcurrentAssumption == MaxConcurrent \in Nat \ {0}
ASSUME MaxFieldsAssumption == MaxFields \in Nat \ {0}
ASSUME DiskMayFailAssumption == DiskMayFail \in BOOLEAN

VARIABLES
    slots, active,              \* len(c.slots), c.active
    closing, closed, quarantined,
    root,                       \* c.root is set
    paths,                      \* c.paths: owners whose directory is left, or the root
    rootDir, dirs,              \* on disk: the root, the owners' directories
    changes,                    \* how many c.change channels were closed
    pc, fields,                 \* each callback, and the fields it has still to reduce
    ended,                      \* callbacks whose lease context is done
    pending, released,          \* lease.pending, lease.released
    owner, ok, sent,            \* each owner, its processResult, owner.done is full
    outcome,                    \* what transform returned
    closePC, seenChange, closePaths, closeRoot, closeFailed

coordVars == <<slots, active, closing, closed, quarantined, root, paths, changes>>
diskVars == <<rootDir, dirs>>
leaseVars == <<pending, released>>
callVars == <<pc, fields, ended, outcome>>
ownerVars == <<owner, ok, sent>>
closeVars == <<closePC, seenChange, closePaths, closeRoot, closeFailed>>
vars == <<coordVars, diskVars, leaseVars, callVars, ownerVars, closeVars>>

TypeOK ==
    /\ slots \in 0 .. MaxConcurrent /\ active \in 0 .. MaxConcurrent
    /\ closing \in BOOLEAN /\ closed \in BOOLEAN /\ quarantined \in BOOLEAN
    /\ root \in BOOLEAN /\ rootDir \in BOOLEAN
    /\ paths \subseteq Callbacks \cup {"root"} /\ dirs \subseteq Callbacks
    /\ changes \in Nat
    /\ pc \in [Callbacks -> {"idle", "slot", "refused", "leased", "reduce", "killWait",
                             "release", "finish", "giveSlot", "returned"}]
    /\ fields \in [Callbacks -> 0 .. MaxFields]
    /\ ended \subseteq Callbacks
    /\ pending \in [Callbacks -> 0 .. 1] /\ released \in [Callbacks -> BOOLEAN]
    /\ owner \in [Callbacks -> {"none", "root", "make", "process", "remove", "done",
                                "finish", "giveSlot", "send"}]
    /\ ok \in [Callbacks -> BOOLEAN] /\ sent \in [Callbacks -> BOOLEAN]
    /\ outcome \in [Callbacks -> {"none", "original", "reduced"}]
    /\ closePC \in [Closers -> {"idle", "loop", "waiting", "remove", "root", "verdict",
                                "nil", "ctxErr", "cleanupError"}]
    /\ seenChange \in [Closers -> Nat]
    /\ closePaths \in [Closers -> SUBSET (Callbacks \cup {"root"})]
    /\ closeRoot \in [Closers -> BOOLEAN] /\ closeFailed \in [Closers -> BOOLEAN]

Init ==
    /\ slots = 0 /\ active = 0
    /\ closing = FALSE /\ closed = FALSE /\ quarantined = FALSE
    /\ root = FALSE /\ rootDir = FALSE /\ paths = {} /\ dirs = {}
    /\ changes = 0
    /\ pc = [c \in Callbacks |-> "idle"] /\ fields = [c \in Callbacks |-> 0]
    /\ ended = {}
    /\ pending = [c \in Callbacks |-> 0] /\ released = [c \in Callbacks |-> FALSE]
    /\ owner = [c \in Callbacks |-> "none"] /\ ok = [c \in Callbacks |-> FALSE]
    /\ sent = [c \in Callbacks |-> FALSE]
    /\ outcome = [c \in Callbacks |-> "none"]
    /\ closePC = [k \in Closers |-> "idle"] /\ seenChange = [k \in Closers |-> 0]
    /\ closePaths = [k \in Closers |-> {}]
    /\ closeRoot = [k \in Closers |-> FALSE] /\ closeFailed = [k \in Closers |-> FALSE]

Set(f, x, v) == [f EXCEPT ![x] = v]
Shut == closing \/ closed \/ quarantined
-----------------------------------------------------------------------------
(* coordinator.acquire, called by transform                                 *)

\* The callback does not apply to the result, its context is done, or the slot
\* channel is full: the result stays as it is.
TakeSlot(c) ==
    /\ pc[c] = "idle"
    /\ \/ /\ c \notin ended /\ slots < MaxConcurrent
          /\ slots' = slots + 1
          /\ pc' = Set(pc, c, "slot")
          /\ UNCHANGED outcome
       \/ /\ pc' = Set(pc, c, "returned")
          /\ outcome' = Set(outcome, c, "original")
          /\ UNCHANGED slots
    /\ UNCHANGED <<active, closing, closed, quarantined, root, paths, changes, diskVars,
                   leaseVars, fields, ended, ownerVars, closeVars>>

\* Under the mutex: the lease, or the slot goes back.
Admit(c) ==
    /\ pc[c] = "slot"
    /\ IF Shut
         THEN pc' = Set(pc, c, "refused") /\ UNCHANGED <<active, fields>>
         ELSE /\ active' = active + 1
              /\ pc' = Set(pc, c, "leased")
              /\ \E n \in 1 .. MaxFields : fields' = Set(fields, c, n)
    /\ UNCHANGED <<slots, closing, closed, quarantined, root, paths, changes, diskVars,
                   leaseVars, ended, outcome, ownerVars, closeVars>>

GiveSlotBack(c) ==
    /\ pc[c] = "refused"
    /\ slots' = slots - 1
    /\ pc' = Set(pc, c, "returned")
    /\ outcome' = Set(outcome, c, "original")
    /\ UNCHANGED <<active, closing, closed, quarantined, root, paths, changes, diskVars,
                   leaseVars, fields, ended, ownerVars, closeVars>>
-----------------------------------------------------------------------------
(* lease.reduce, one field, and transform around it                         *)

\* The result of the callback; its deferred release comes next.
Conclude(c, what) ==
    pc' = Set(pc, c, "release") /\ outcome' = Set(outcome, c, what)

\* Either the callback gives up before a field (size checks, a context that is
\* done), or it holds the lease and starts the field's owner.
StartField(c) ==
    /\ pc[c] = "leased"
    /\ \/ /\ Conclude(c, "original")
          /\ UNCHANGED <<pending, ownerVars>>
       \/ /\ c \notin ended
          /\ pending' = Set(pending, c, pending[c] + 1)
          /\ owner' = Set(owner, c, "root")
          /\ ok' = Set(ok, c, FALSE) /\ sent' = Set(sent, c, FALSE)
          /\ pc' = Set(pc, c, "reduce")
          /\ UNCHANGED outcome
    /\ UNCHANGED <<coordVars, diskVars, released, fields, ended, closeVars>>

\* case result := <-owner.done, in either select.  A failed field ends the
\* callback with the original result; the last one with the reduced result, or
\* with the original when nothing became smaller.
ReceiveResult(c) ==
    /\ pc[c] \in {"reduce", "killWait"}
    /\ sent[c]
    /\ sent' = Set(sent, c, FALSE)
    /\ fields' = Set(fields, c, fields[c] - 1)
    /\ \/ ~ok[c] /\ Conclude(c, "original")
       \/ ok[c] /\ fields[c] = 1 /\ \E what \in {"original", "reduced"} : Conclude(c, what)
       \/ ok[c] /\ fields[c] > 1 /\ pc' = Set(pc, c, "leased") /\ UNCHANGED outcome
    /\ UNCHANGED <<coordVars, diskVars, leaseVars, ended, owner, ok, closeVars>>

\* case <-runContext.Done(): the process is cancelled, KillWait starts.
LeaseEnds(c) ==
    /\ pc[c] = "reduce"
    /\ c \in ended
    /\ pc' = Set(pc, c, "killWait")
    /\ UNCHANGED <<coordVars, diskVars, leaseVars, fields, ended, outcome, ownerVars, closeVars>>

\* Mutation: no timer bounds the wait for a cancelled owner.
AbandonOwnerNever(c) ==
    /\ pc[c] = "killWait"
    /\ sent[c]
    /\ Conclude(c, "original")
    /\ UNCHANGED <<coordVars, diskVars, leaseVars, fields, ended, ownerVars, closeVars>>

\* KillWait passes: the owner is left to itself.
AbandonOwner(c) ==
    /\ pc[c] = "killWait"
    /\ Conclude(c, "original")
    /\ UNCHANGED <<coordVars, diskVars, leaseVars, fields, ended, ownerVars, closeVars>>

\* Mutation: the owner that is still pending is not looked at.
releaseAtOnce(c) ==
    /\ pc[c] = "release"
    /\ released' = Set(released, c, TRUE)
    /\ ended' = ended \cup {c}
    /\ pc' = Set(pc, c, "finish")
    /\ UNCHANGED <<coordVars, diskVars, pending, fields, outcome, ownerVars, closeVars>>

\* lease.release: the lease's context is cancelled; the slot is given back here
\* only if no owner is pending.
release(c) ==
    /\ pc[c] = "release"
    /\ released' = Set(released, c, TRUE)
    /\ ended' = ended \cup {c}
    /\ pc' = Set(pc, c, IF pending[c] = 0 THEN "finish" ELSE "returned")
    /\ UNCHANGED <<coordVars, diskVars, pending, fields, outcome, ownerVars, closeVars>>

\* Mutation: finishOwner does not wake Close.
finishSilently == active' = active - 1 /\ UNCHANGED changes

\* coordinator.finishOwner: active goes down and c.change is replaced.
finishOwner == active' = active - 1 /\ changes' = changes + 1

FinishUnchanged == UNCHANGED <<slots, closing, closed, quarantined, root, paths, diskVars,
                               leaseVars, fields, ended, outcome, ok, sent, closeVars>>

Finish(c) ==
    /\ finishOwner
    /\ \/ pc[c] = "finish" /\ pc' = Set(pc, c, "giveSlot") /\ UNCHANGED owner
       \/ owner[c] = "finish" /\ owner' = Set(owner, c, "giveSlot") /\ UNCHANGED pc
    /\ FinishUnchanged

\* coordinator.releaseSlot
releaseSlot(c) ==
    /\ slots' = slots - 1
    /\ \/ pc[c] = "giveSlot" /\ pc' = Set(pc, c, "returned") /\ UNCHANGED owner
       \/ owner[c] = "giveSlot" /\ owner' = Set(owner, c, "send") /\ UNCHANGED pc
    /\ UNCHANGED <<active, closing, closed, quarantined, root, paths, changes, diskVars,
                   leaseVars, fields, ended, outcome, ok, sent, closeVars>>
-----------------------------------------------------------------------------
(* processOwner.run                                                         *)

OwnerUnchanged == UNCHANGED <<slots, active, closing, closed, changes, leaseVars, callVars,
                              sent, closeVars>>

\* lazyRoot: nothing new once closing or quarantined; making the root may fail,
\* or its chmod, after which the root is removed again or remembered.
lazyRoot(c) ==
    /\ owner[c] = "root"
    /\ \/ Shut /\ owner' = Set(owner, c, "done") /\ UNCHANGED <<root, rootDir, paths, quarantined>>
       \/ /\ ~Shut
          /\ owner' = Set(owner, c, "make")
          /\ root' = TRUE /\ rootDir' = TRUE
          /\ UNCHANGED <<paths, quarantined>>
       \/ /\ ~Shut /\ ~root /\ DiskMayFail
          /\ owner' = Set(owner, c, "done")
          /\ quarantined' = TRUE
          /\ \/ UNCHANGED <<root, rootDir, paths>>
             \/ root' = TRUE /\ UNCHANGED <<rootDir, paths>>
             \/ root' = TRUE /\ rootDir' = TRUE /\ paths' = paths \cup {"root"}
    /\ UNCHANGED <<dirs, ok>> /\ OwnerUnchanged

\* makeInvocation: MkdirTemp may fail, or a directory inside it.
makeInvocation(c) ==
    /\ owner[c] = "make"
    /\ \/ dirs' = dirs \cup {c} /\ owner' = Set(owner, c, "process")
       \/ DiskMayFail /\ UNCHANGED dirs /\ owner' = Set(owner, c, "done")
       \/ DiskMayFail /\ dirs' = dirs \cup {c} /\ owner' = Set(owner, c, "remove")
    /\ UNCHANGED <<root, paths, quarantined, rootDir, ok>> /\ OwnerUnchanged

\* runProcess: the reducer ends, or is killed when the context is done; output
\* counts only if the context is still alive then.
runProcess(c) ==
    /\ owner[c] = "process"
    /\ \E good \in BOOLEAN : ok' = Set(ok, c, good /\ c \notin ended)
    /\ owner' = Set(owner, c, "remove")
    /\ UNCHANGED <<root, paths, quarantined, diskVars>> /\ OwnerUnchanged

\* Mutation: a directory that could not be removed is not remembered.
RemoveForgets(c) ==
    /\ owner[c] = "remove"
    /\ \/ dirs' = dirs \ {c} /\ UNCHANGED <<quarantined, ok>>
       \/ DiskMayFail /\ quarantined' = TRUE /\ ok' = Set(ok, c, FALSE) /\ UNCHANGED dirs
    /\ owner' = Set(owner, c, "done")
    /\ UNCHANGED <<root, rootDir, paths>> /\ OwnerUnchanged

\* The deferred RemoveAll of the invocation's directory.
Remove(c) ==
    /\ owner[c] = "remove"
    /\ \/ dirs' = dirs \ {c} /\ UNCHANGED <<paths, quarantined, ok>>
       \/ /\ DiskMayFail
          /\ paths' = paths \cup {c}
          /\ quarantined' = TRUE
          /\ ok' = Set(ok, c, FALSE)
          /\ UNCHANGED dirs
    /\ owner' = Set(owner, c, "done")
    /\ UNCHANGED <<root, rootDir>> /\ OwnerUnchanged

\* lease.ownerDone: the last one gives the lease back.
ownerDone(c) ==
    /\ owner[c] = "done"
    /\ pending' = Set(pending, c, pending[c] - 1)
    /\ owner' = Set(owner, c, IF released[c] /\ pending'[c] = 0 THEN "finish" ELSE "send")
    /\ UNCHANGED <<coordVars, diskVars, released, callVars, ok, sent, closeVars>>

\* o.done <- result: never blocks.
Send(c) ==
    /\ owner[c] = "send"
    /\ sent' = Set(sent, c, TRUE)
    /\ owner' = Set(owner, c, "none")
    /\ UNCHANGED <<coordVars, diskVars, leaseVars, callVars, ok, closeVars>>

\* The lease's timeout passes or the caller's context ends.
ContextEnds(c) ==
    /\ c \notin ended
    /\ pc[c] # "returned"
    /\ ended' = ended \cup {c}
    /\ UNCHANGED <<coordVars, diskVars, leaseVars, pc, fields, outcome, ownerVars, closeVars>>
-----------------------------------------------------------------------------
(* coordinator.Close; after an error it may be called again                 *)

CloseGoto(k, label) == closePC' = Set(closePC, k, label)

CloseCall(k) ==
    /\ closePC[k] \in {"idle", "ctxErr", "cleanupError"}
    /\ CloseGoto(k, "loop")
    /\ UNCHANGED <<coordVars, diskVars, leaseVars, callVars, ownerVars, seenChange, closePaths,
                   closeRoot, closeFailed>>

\* Mutation: Close does not wait for owners that are still active.
CloseLoopEager(k) ==
    /\ closePC[k] = "loop"
    /\ closing' = TRUE
    /\ CloseGoto(k, "remove")
    /\ closePaths' = Set(closePaths, k, paths)
    /\ closeRoot' = Set(closeRoot, k, root)
    /\ closeFailed' = Set(closeFailed, k, FALSE)
    /\ UNCHANGED <<slots, active, closed, quarantined, root, paths, changes, diskVars,
                   leaseVars, callVars, ownerVars, seenChange>>

\* The head of the loop, under the mutex.
CloseLoop(k) ==
    /\ closePC[k] = "loop"
    /\ IF closed
         THEN CloseGoto(k, "nil") /\ UNCHANGED <<closing, seenChange, closePaths, closeRoot, closeFailed>>
         ELSE /\ closing' = TRUE
              /\ IF active # 0
                   THEN /\ seenChange' = Set(seenChange, k, changes)
                        /\ CloseGoto(k, "waiting")
                        /\ UNCHANGED <<closePaths, closeRoot, closeFailed>>
                   ELSE /\ closePaths' = Set(closePaths, k, paths)
                        /\ closeRoot' = Set(closeRoot, k, root)
                        /\ closeFailed' = Set(closeFailed, k, FALSE)
                        /\ CloseGoto(k, "remove")
                        /\ UNCHANGED seenChange
    /\ UNCHANGED <<slots, active, closed, quarantined, root, paths, changes, diskVars,
                   leaseVars, callVars, ownerVars>>

\* The select on the change channel seen at the head of the loop.
CloseWait(k) ==
    /\ closePC[k] = "waiting"
    /\ \/ changes > seenChange[k] /\ CloseGoto(k, "loop")
       \/ k \notin Patient /\ CloseGoto(k, "ctxErr")
    /\ UNCHANGED <<coordVars, diskVars, leaseVars, callVars, ownerVars, seenChange, closePaths,
                   closeRoot, closeFailed>>

\* One iteration over the paths that were left behind.
CloseRemove(k) ==
    /\ closePC[k] = "remove"
    /\ \E c \in closePaths[k] :
          /\ \/ /\ dirs' = dirs \ {c} /\ paths' = paths \ {c}
                /\ rootDir' = (rootDir /\ c # "root")
                /\ UNCHANGED closeFailed
             \/ /\ DiskMayFail
                /\ closeFailed' = Set(closeFailed, k, TRUE)
                /\ UNCHANGED <<dirs, paths, rootDir>>
          /\ closePaths' = Set(closePaths, k, closePaths[k] \ {c})
    /\ UNCHANGED <<slots, active, closing, closed, quarantined, root, changes, leaseVars, callVars, ownerVars, closePC, seenChange, closeRoot>>

\* os.Remove of the root, which fails while anything is left in it.
CloseRemoveRoot(k) ==
    /\ closePC[k] = "remove"
    /\ closePaths[k] = {}
    /\ \/ ~closeRoot[k] /\ UNCHANGED <<root, rootDir, closeFailed>>
       \/ closeRoot[k] /\ dirs = {} /\ root' = FALSE /\ rootDir' = FALSE /\ UNCHANGED closeFailed
       \/ /\ closeRoot[k] /\ rootDir /\ (dirs # {} \/ DiskMayFail)
          /\ closeFailed' = Set(closeFailed, k, TRUE)
          /\ UNCHANGED <<root, rootDir>>
    /\ CloseGoto(k, "verdict")
    /\ UNCHANGED <<slots, active, closing, closed, quarantined, paths, changes, dirs,
                   leaseVars, callVars, ownerVars, seenChange, closePaths, closeRoot>>

\* The last critical section: closed, or quarantined with an error.
CloseVerdict(k) ==
    /\ closePC[k] = "verdict"
    /\ IF closed
         THEN CloseGoto(k, "nil") /\ UNCHANGED <<closed, changes, quarantined>>
         ELSE IF paths = {} /\ ~root /\ ~closeFailed[k]
                THEN /\ closed' = TRUE /\ changes' = changes + 1
                     /\ CloseGoto(k, "nil")
                     /\ UNCHANGED quarantined
                ELSE /\ quarantined' = TRUE
                     /\ \/ CloseGoto(k, "cleanupError")
                        \/ k \notin Patient /\ CloseGoto(k, "ctxErr")
                     /\ UNCHANGED <<closed, changes>>
    /\ UNCHANGED <<slots, active, closing, root, paths, diskVars, leaseVars, callVars,
                   ownerVars, seenChange, closePaths, closeRoot, closeFailed>>
-----------------------------------------------------------------------------
transform(c) ==
    \/ TakeSlot(c) \/ Admit(c) \/ GiveSlotBack(c) \/ StartField(c) \/ ReceiveResult(c)
    \/ LeaseEnds(c) \/ AbandonOwner(c) \/ release(c)

run(c) ==
    \/ lazyRoot(c) \/ makeInvocation(c) \/ Remove(c) \/ ownerDone(c) \/ Send(c)

Close(k) ==
    \/ CloseCall(k) \/ CloseLoop(k) \/ CloseWait(k) \/ CloseRemove(k) \/ CloseRemoveRoot(k)
    \/ CloseVerdict(k)

Next ==
    \/ \E c \in Callbacks : transform(c) \/ Finish(c) \/ releaseSlot(c) \/ run(c)
                            \/ runProcess(c) \/ ContextEnds(c)
    \/ \E k \in Closers : Close(k)

Spec == Init /\ [][Next]_vars

\* Goroutines and timers make progress; nothing is assumed of the reducer.
Fairness ==
    /\ \A c \in Callbacks :
          /\ WF_vars(pc[c] # "idle" /\ transform(c))
          /\ WF_vars(Finish(c)) /\ WF_vars(releaseSlot(c)) /\ WF_vars(run(c))
          /\ WF_vars(pc[c] # "idle" /\ ContextEnds(c))
    /\ \A k \in Closers :
          WF_vars(closePC[k] \notin {"idle", "ctxErr", "cleanupError"} /\ Close(k))

FairSpec == Spec /\ Fairness
-----------------------------------------------------------------------------
\* A callback or the owner it abandoned that has not given its slot back.
HoldsSlot(c) ==
    \/ pc[c] \in {"slot", "refused", "leased", "reduce", "killWait", "release", "finish", "giveSlot"}
    \/ pc[c] = "returned" /\ (pending[c] > 0 \/ owner[c] \in {"finish", "giveSlot"})

\* The same for the active count.
HoldsLease(c) ==
    \/ pc[c] \in {"leased", "reduce", "killWait", "release", "finish"}
    \/ pc[c] = "returned" /\ (pending[c] > 0 \/ owner[c] = "finish")

\* Capacity: slots and active are exactly the leases not given back, whoever of
\* callback and owner was last, so an abandoned reducer keeps its slot and no
\* more than MaxConcurrent reducers run ("Its lease hold keeps capacity
\* reserved"); every owner at work is covered by a pending hold.  With the types,
\* which bound the slots.
SlotsCoverOwners ==
    /\ TypeOK
    /\ slots = Cardinality({c \in Callbacks : HoldsSlot(c)})
    /\ active = Cardinality({c \in Callbacks : HoldsLease(c)})
    /\ \A c \in Callbacks :
          owner[c] \in {"root", "make", "process", "remove", "done"} <=> pending[c] = 1

\* Close reports success only when nothing is left: no owner at work and no
\* directory on disk, also those whose removal failed before; until then every
\* directory is somebody's, a live owner's or remembered in c.paths with the
\* coordinator quarantined (process.go:176-245, 364-378).
ClosedMeansClean ==
    /\ (closed \/ \E k \in Closers : closePC[k] = "nil") =>
          /\ closed /\ active = 0
          /\ dirs = {} /\ ~rootDir
          /\ \A c \in Callbacks : owner[c] \notin {"root", "make", "process", "remove"}
    /\ \A c \in dirs : owner[c] \in {"process", "remove"} \/ (c \in paths /\ quarantined)

\* Every callback returns, also when its reducer cannot be killed.
EveryCallbackReturns == \A c \in Callbacks : pc[c] = "slot" ~> pc[c] = "returned"

\* No wake-up is lost: a patient Close that waits for owners gets its answer,
\* provided a reducer whose context is done ends (it is killed, and WaitDelay
\* bounds what is left of Run).
CloseReturns ==
    (\A c \in Callbacks : []<>~(owner[c] = "process" /\ c \in ended))
    => \A k \in Patient : closePC[k] = "loop" ~> closePC[k] \in {"nil", "cleanupError"}
=============================================================================
