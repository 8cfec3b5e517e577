----------------------- MODULE WorkerPoolStoresProofs -----------------------
(***************************************************************************)
(* Theorems about what a WorkerPool tells of its workers: the session      *)
(* files, the ledger, the client and the dispatcher, for any number of     *)
(* tasks and of slots, and whatever completions, failures, cancellations   *)
(* and stop() do to each other.                                            *)
(***************************************************************************)
EXTENDS WorkerPoolProofs

-----------------------------------------------------------------------------
(* The inductive invariant.                                                *)

\* What the stores, the client and the dispatcher have of a worker nobody
\* cancelled, at each await of _execute_event.
Undisturbed(t) ==
    /\ pc[t] # "cancelling"
    /\ pc[t] \in OnBus \cup {"created", "planning"} =>
          wss[t] = "none" /\ ledger[t] = "none"
    /\ pc[t] = "registering" => wss[t] = "running" /\ ledger[t] = "none"
    /\ pc[t] \in {"starting", "running", "settling", "settlingError", "closing"} =>
          wss[t] = "running" /\ ledger[t] = "running"
    /\ pc[t] = "recording" => wss[t] = "completed" /\ ledger[t] = "running"
    /\ pc[t] = "publishing" => wss[t] = "completed" /\ ledger[t] = "done"
    /\ pc[t] = "failing" =>
          \/ wss[t] = "none" /\ ledger[t] = "none"
          \/ wss[t] = "failed" /\ ledger[t] = "running"
    /\ pc[t] = "reporting" =>
          \/ wss[t] = "none" /\ ledger[t] = "none"
          \/ wss[t] = "failed" /\ ledger[t] = "failed"
    /\ Over(t) => RanToItsEnd(t) \/ BrokeOff(t)
    /\ ~Over(t) => sent[t] = {} /\ reports[t] = {}

UndisturbedInv ==
    \A t \in Tasks : cancel[t] = "none" /\ t \notin abandoned => Undisturbed(t)

\* Only a worker somebody is cancelling has a CancelledError to come.
PendingInv ==
    \A t \in pending : Live(t) /\ t \in Popped \cup abandoned

\* A task is registered in its session file before it has a ledger row.
Registered == {"registering", "starting", "running", "settling", "settlingError",
               "closing", "recording", "publishing", "cancelling"}

FileFirst ==
    \A t \in Tasks : ledger[t] # "none" \/ pc[t] \in Registered => wss[t] # "none"

\* stop() owns the tasks it found active, and none but those.  They cannot
\* register any more: each is interrupted, where it is, before it runs on.
Early == {"created", "planning", "registering", "starting", "running"}

StopInv ==
    /\ stop \in {"no", "closing", "signalled"} => abandoned = {}
    /\ stop = "signalled" => stopIds = active
    /\ stop # "ledger" => stopAt = {}
    /\ stop \in {"killed", "ledger", "stopped"} =>
          active = {} /\ stopIds \cup stopAt \subseteq abandoned
    /\ \A t \in abandoned :
          /\ cancel[t] = "none"
          /\ pc[t] \in Early => t \in pending
          /\ t \in stopIds \/ wss[t] # "running"
    /\ stop = "killed" => stopIds = abandoned \/ pending \cap abandoned = {}
    /\ stop = "stopped" =>
          /\ stopIds = {} /\ pending \cap abandoned = {}
          /\ \A t \in abandoned : ledger[t] # "running"

StoresInv == UndisturbedInv /\ PendingInv /\ FileFirst /\ StopInv

LEMMA StoresInit == Init => StoresInv
<1> SUFFICES ASSUME Init PROVE StoresInv
  OBVIOUS
<1>1. UndisturbedInv
  BY DEF Init, UndisturbedInv, Undisturbed, OnBus, Over
<1>2. PendingInv /\ FileFirst /\ StopInv
  BY DEF Init, PendingInv, FileFirst, Registered, StopInv
<1>. QED
  BY <1>1, <1>2 DEF StoresInv

-----------------------------------------------------------------------------
(* The worker's own steps.                                                 *)

\* A worker that runs on undisturbed writes what its next await expects.
LEMMA WorkerUndisturbed ==
    ASSUME TypeInv, NEW t \in Tasks, WorkerStep(t) \/ WorkerEvent(t),
           t \notin pending, Undisturbed(t)
    PROVE  Undisturbed(t)'
<1> USE DEF TypeInv, TypeOK, Undisturbed,
       RanToItsEnd, BrokeOff, Over, OnBus, storeVars, outVars, taskVars,
            Goto, At, Finish, WssUpdate, LedgerUpdate
<1>1. CASE Start(t) \/ Register(t) \/ LedgerInsert(t) \/ Supervise(t)
  BY <1>1 DEF Start, Register, LedgerInsert, Supervise
<1>2. CASE CallReturns(t) \/ ResolveResult(t)
  BY <1>2 DEF CallReturns, ResolveResult
<1>3. CASE Finalize(t) \/ RecordDone(t)
  BY <1>3 DEF Finalize, RecordDone
<1>4. CASE Publish(t)
  <2>1. sup[t].outcome \in Outcomes
    BY <1>4 DEF Publish, CompletionKnown, SupRecords
  <2>2. /\ pc[t] = "publishing" /\ sent[t] = {} /\ reports[t] = {}
        /\ wss[t] = "completed" /\ ledger[t] = "done"
    BY <1>4 DEF Publish
  <2>3. /\ pc'[t] = "ended" /\ wss'[t] = wss[t] /\ ledger'[t] = ledger[t]
        /\ sent'[t] = {"completed"} /\ reports'[t] = {sup[t].outcome}
    BY <1>4, <2>2 DEF Publish
  <2>4. reports'[t] \in {{o} : o \in Outcomes}
    BY <2>1, <2>3
  <2>. QED
    BY <2>2, <2>3, <2>4
<1>5. CASE RecordFailed(t) \/ ReportFailure(t)
  BY <1>5 DEF RecordFailed, ReportFailure
<1>6. CASE RecordCancelled(t) \/ InterruptCall(t) \/ SwallowCancel(t) \/ InterruptElsewhere(t)
  BY <1>6 DEF RecordCancelled, InterruptCall, SwallowCancel, InterruptElsewhere
<1>7. CASE WorkerEvent(t)
  BY <1>7 DEF WorkerEvent, WorkerComplete, LoopDetected, StallTimeout, Fail
<1>. QED
  BY <1>1, <1>2, <1>3, <1>4, <1>5, <1>6, <1>7 DEF WorkerStep

\* No step of a worker is about another, or about who is cancelling it.
LEMMA WorkerLocal ==
    ASSUME TypeOK, NEW t \in Tasks, WorkerStep(t) \/ WorkerEvent(t)
    PROVE  /\ UNCHANGED <<active, abandoned, cancel, stop, stopIds, stopAt>>
           /\ \A u \in Tasks \ {t} :
                 /\ pc'[u] = pc[u] /\ wss'[u] = wss[u] /\ ledger'[u] = ledger[u]
                 /\ sent'[u] = sent[u] /\ reports'[u] = reports[u]
<1> USE DEF TypeOK, slotVars, storeVars, outVars, taskVars, stopVars, Goto, Finish,
            WssUpdate, LedgerUpdate
<1>1. CASE Start(t) \/ Register(t) \/ LedgerInsert(t) \/ Supervise(t)
  BY <1>1 DEF Start, Register, LedgerInsert, Supervise
<1>2. CASE CallReturns(t) \/ ResolveResult(t) \/ Finalize(t) \/ RecordDone(t)
  BY <1>2 DEF CallReturns, ResolveResult, Finalize, RecordDone
<1>3. CASE Publish(t) \/ RecordFailed(t) \/ ReportFailure(t) \/ RecordCancelled(t)
  BY <1>3 DEF Publish, RecordFailed, ReportFailure, RecordCancelled
<1>4. CASE InterruptCall(t) \/ SwallowCancel(t)
  BY <1>4 DEF InterruptCall, SwallowCancel
<1>5. CASE InterruptElsewhere(t)
  BY <1>5 DEF InterruptElsewhere
<1>6. CASE WorkerEvent(t)
  BY <1>6 DEF WorkerEvent, WorkerComplete, LoopDetected, StallTimeout, Fail
<1>. QED
  BY <1>1, <1>2, <1>3, <1>4, <1>5, <1>6 DEF WorkerStep

\* What a worker step makes of its own task, cancelled or not: a CancelledError
\* that waits for it is delivered first, and takes it out of the early awaits;
\* only a worker that registers becomes "running" again.
LEMMA WorkerOwn ==
    ASSUME TypeOK, FileFirst, NEW t \in Tasks, WorkerStep(t) \/ WorkerEvent(t)
    PROVE  /\ t \in pending => pending' = pending \ {t} /\ pc'[t] \notin Early
           /\ t \notin pending => pending' = pending
           /\ pc'[t] \in Early => pc[t] \in Early
           /\ wss'[t] = "running" => wss[t] = "running" \/ (pc[t] = "planning" /\ t \notin pending)
           /\ ledger'[t] = "running" => ledger[t] = "running" \/ pc[t] = "registering"
           /\ ledger'[t] # "none" \/ pc'[t] \in Registered => wss'[t] # "none"
<1> USE DEF TypeOK, storeVars, outVars, taskVars, Goto, At, Finish, WssUpdate,
            LedgerUpdate, Early, Registered, FileFirst
<1>1. CASE Start(t) \/ Register(t) \/ LedgerInsert(t) \/ Supervise(t)
  BY <1>1 DEF Start, Register, LedgerInsert, Supervise
<1>2. CASE CallReturns(t) \/ ResolveResult(t) \/ Finalize(t) \/ RecordDone(t)
  BY <1>2 DEF CallReturns, ResolveResult, Finalize, RecordDone
<1>3. CASE Publish(t) \/ RecordFailed(t) \/ ReportFailure(t) \/ RecordCancelled(t)
  BY <1>3 DEF Publish, RecordFailed, ReportFailure, RecordCancelled
<1>4. CASE InterruptCall(t) \/ SwallowCancel(t)
  BY <1>4 DEF InterruptCall, SwallowCancel
<1>5. CASE InterruptElsewhere(t)
  BY <1>5 DEF InterruptElsewhere
<1>6. CASE WorkerEvent(t)
  BY <1>6 DEF WorkerEvent, WorkerComplete, LoopDetected, StallTimeout, Fail
<1>. QED
  BY <1>1, <1>2, <1>3, <1>4, <1>5, <1>6 DEF WorkerStep

LEMMA WorkerKeepsStores ==
    ASSUME TypeInv, SlotInv, StoresInv, NEW t \in Tasks, WorkerStep(t) \/ WorkerEvent(t)
    PROVE  StoresInv'
<1>0. TypeOK /\ FileFirst
  BY DEF TypeInv, StoresInv
<1>1. /\ UNCHANGED <<active, abandoned, cancel, stop, stopIds, stopAt>>
      /\ \A u \in Tasks \ {t} :
            /\ pc'[u] = pc[u] /\ wss'[u] = wss[u] /\ ledger'[u] = ledger[u]
            /\ sent'[u] = sent[u] /\ reports'[u] = reports[u]
  BY <1>0, WorkerLocal
<1>2. /\ t \in pending => pending' = pending \ {t} /\ pc'[t] \notin Early
      /\ t \notin pending => pending' = pending
      /\ pc'[t] \in Early => pc[t] \in Early
      /\ wss'[t] = "running" => wss[t] = "running" \/ (pc[t] = "planning" /\ t \notin pending)
      /\ ledger'[t] = "running" => ledger[t] = "running" \/ pc[t] = "registering"
      /\ ledger'[t] # "none" \/ pc'[t] \in Registered => wss'[t] # "none"
  BY <1>0, WorkerOwn
<1>3. pc[t] \in Awaits /\ \E a \in Awaits \cup {"ended"} : pc' = [pc EXCEPT ![t] = a]
  BY <1>0, WorkerMoves
<1>4. UndisturbedInv'
  <2> SUFFICES ASSUME NEW u \in Tasks, cancel'[u] = "none", u \notin abandoned'
               PROVE  Undisturbed(u)'
    BY DEF UndisturbedInv
  <2>1. cancel[u] = "none" /\ u \notin abandoned
    BY <1>1
  <2>2. Undisturbed(u)
    BY <2>1 DEF StoresInv, UndisturbedInv
  <2>3. CASE u = t
    <3>1. t \notin pending
      BY <2>1, <2>3 DEF StoresInv, PendingInv, Popped
    <3>. QED
      BY <2>2, <2>3, <3>1, WorkerUndisturbed
  <2>4. CASE u # t
    BY <1>1, <2>2, <2>4 DEF Undisturbed, RanToItsEnd, BrokeOff, Over
  <2>. QED
    BY <2>3, <2>4
<1>5. PendingInv'
  <2> SUFFICES ASSUME NEW u \in pending' PROVE Live(u)' /\ u \in (Popped \cup abandoned)'
    BY DEF PendingInv
  <2>1. u \in pending /\ u # t /\ u \in Tasks
    BY <1>0, <1>2 DEF TypeOK
  <2>. QED
    BY <1>1, <2>1 DEF StoresInv, PendingInv, Live, Popped
<1>6. FileFirst'
  BY <1>0, <1>1, <1>2 DEF FileFirst
<1>7. StopInv'
  <2>1. \A u \in abandoned : u \in Tasks /\ cancel[u] = "none"
                             /\ (pc[u] \in Early => u \in pending)
                             /\ (u \in stopIds \/ wss[u] # "running")
    BY <1>0 DEF TypeOK, StoresInv, StopInv
  <2>2. \A u \in abandoned : /\ pc'[u] \in Early => u \in pending'
                             /\ u \in stopIds \/ wss'[u] # "running"
    BY <1>1, <1>2, <2>1 DEF Early
  <2>3. pending' \subseteq pending
    BY <1>2
  <2>4. stop = "stopped" => \A u \in abandoned : ledger'[u] # "running"
    BY <1>1, <1>2, <2>1 DEF StoresInv, StopInv, Early
  <2>. QED
    BY <1>1, <2>1, <2>2, <2>3, <2>4 DEF StoresInv, StopInv
<1>. QED
  BY <1>4, <1>5, <1>6, <1>7 DEF StoresInv

-----------------------------------------------------------------------------
(* The bus, the listener and the done callback.                            *)

\* Steps that move tasks on the bus, or off it, and write nothing.
LEMMA BusKeepsStores ==
    ASSUME TypeInv, SlotInv, StoresInv,
           UNCHANGED <<pending, wss, ledger, sent, reports, cancel, abandoned, stopIds, stopAt>>,
           \A u \in Tasks : \/ pc'[u] = pc[u]
                            \/ pc[u] \in OnBus /\ pc'[u] \in OnBus \cup {"created"},
           \/ stop' = stop /\ (active' = active \/ stop = "no")
           \/ stop = "no" /\ stop' = "closing"
    PROVE  StoresInv'
<1>1. \A u \in abandoned : u \in Tasks /\ Spawned(u)
  BY DEF TypeInv, TypeOK, SlotInv, HoldersSpawned, Held
<1>2. \A u \in Tasks : Live(u) => pc'[u] = pc[u]
  BY DEF Live, OnBus, Awaits
<1>3. UndisturbedInv'
  <2> SUFFICES ASSUME NEW u \in Tasks, cancel'[u] = "none", u \notin abandoned'
               PROVE  Undisturbed(u)'
    BY DEF UndisturbedInv
  <2>1. Undisturbed(u)
    BY DEF StoresInv, UndisturbedInv
  <2>2. CASE pc'[u] = pc[u]
    BY <2>1, <2>2 DEF Undisturbed, RanToItsEnd, BrokeOff, Over
  <2>3. CASE pc[u] \in OnBus /\ pc'[u] \in OnBus \cup {"created"}
    BY <2>1, <2>3 DEF Undisturbed, RanToItsEnd, BrokeOff, Over, OnBus
  <2>. QED
    BY <2>2, <2>3
<1>4. PendingInv'
  <2>1. pending \subseteq Tasks
    BY DEF TypeInv, TypeOK
  <2>. QED
    BY <1>2, <2>1 DEF StoresInv, PendingInv, Live, Popped
<1>5. FileFirst'
  BY DEF StoresInv, FileFirst, OnBus, Registered
<1>6. StopInv'
  <2>1. \A u \in abandoned : pc'[u] = pc[u]
    BY <1>1 DEF Spawned, Live, Over, OnBus, Awaits
  <2>. QED
    BY <2>1 DEF StoresInv, StopInv
<1>. QED
  BY <1>3, <1>4, <1>5, <1>6 DEF StoresInv

LEMMA ListenKeepsStores ==
    ASSUME TypeInv, SlotInv, StoresInv,
           \/ \E t \in Tasks : Emit(t) \/ ListenerSpawn(t)
           \/ ListenerTake \/ StopListener
    PROVE  StoresInv'
<1> USE DEF slotVars, storeVars, outVars, stopVars, Goto, OnBus
<1>1. ASSUME NEW t \in Tasks, Emit(t) PROVE StoresInv'
  <2>1. UNCHANGED <<pending, wss, ledger, sent, reports, cancel, active, abandoned,
                    stop, stopIds, stopAt>>
    BY <1>1 DEF Emit
  <2>2. \/ pc' = [pc EXCEPT ![t] = "dropped"]
        \/ pc' = [pc EXCEPT ![t] = "queued"]
        \/ /\ Len(queue) = QueueSize
           /\ pc' = [pc EXCEPT ![t] = "queued", ![Head(queue)] = "dropped"]
    BY <1>1 DEF Emit
  <2>3. Len(queue) = QueueSize => Head(queue) \in Tasks /\ pc[Head(queue)] = "queued"
    BY PoolAssumption DEF TypeInv, TypeOK, SlotInv, QueuedOnce
  <2>4. \A u \in Tasks : pc'[u] = pc[u] \/ (pc[u] \in OnBus /\ pc'[u] \in OnBus)
    BY <1>1, <2>2, <2>3 DEF Emit, TypeInv, TypeOK
  <2>. QED
    BY <2>1, <2>4, BusKeepsStores
<1>2. ASSUME NEW t \in Tasks, ListenerSpawn(t) PROVE StoresInv'
  <2>1. UNCHANGED <<pending, wss, ledger, sent, reports, cancel, abandoned, stop,
                    stopIds, stopAt>>
    BY <1>2 DEF ListenerSpawn
  <2>2. /\ stop = "no"
        /\ \A u \in Tasks : pc'[u] = pc[u] \/ (pc[u] \in OnBus /\ pc'[u] = "created")
    BY <1>2 DEF ListenerSpawn, Stopped, TypeInv, TypeOK
  <2>. QED
    BY <2>1, <2>2, BusKeepsStores
<1>3. CASE ListenerTake
  <2>1. UNCHANGED <<pending, wss, ledger, sent, reports, cancel, active, abandoned,
                    stop, stopIds, stopAt>>
    BY <1>3 DEF ListenerTake
  <2>2. Head(queue) \in Tasks /\ pc[Head(queue)] = "queued"
    BY <1>3 DEF ListenerTake, TypeInv, TypeOK, SlotInv, QueuedOnce
  <2>3. \A u \in Tasks : pc'[u] = pc[u] \/ (pc[u] \in OnBus /\ pc'[u] \in OnBus)
    BY <1>3, <2>2 DEF ListenerTake, TypeInv, TypeOK
  <2>. QED
    BY <2>1, <2>3, BusKeepsStores
<1>4. CASE StopListener
  <2>1. /\ UNCHANGED <<pending, wss, ledger, sent, reports, cancel, active, abandoned,
                       stopIds, stopAt>>
        /\ stop = "no" /\ stop' = "closing"
        /\ \A u \in Tasks : pc'[u] = pc[u] \/ (pc[u] \in OnBus /\ pc'[u] \in OnBus)
    BY <1>4 DEF StopListener, TypeInv, TypeOK
  <2>. QED
    BY <2>1, BusKeepsStores
<1>. QED
  BY <1>1, <1>2, <1>3, <1>4

LEMMA DoneKeepsStores ==
    ASSUME TypeInv, SlotInv, StoresInv, NEW t \in Tasks, OnTaskDone(t)
    PROVE  StoresInv'
<1>1. /\ UNCHANGED <<pending, wss, ledger, sent, reports, cancel, abandoned, stop,
                     stopIds, stopAt>>
      /\ active' \subseteq active /\ (Stopped => active' = active)
      /\ pc[t] = "ended"
      /\ \A u \in Tasks : pc'[u] = IF u = t THEN "gone" ELSE pc[u]
  BY DEF OnTaskDone, slotVars, storeVars, outVars, stopVars, Goto, TypeInv, TypeOK
<1>2. UndisturbedInv'
  <2> SUFFICES ASSUME NEW u \in Tasks, cancel'[u] = "none", u \notin abandoned'
               PROVE  Undisturbed(u)'
    BY DEF UndisturbedInv
  <2>1. Undisturbed(u)
    BY <1>1 DEF StoresInv, UndisturbedInv
  <2>. QED
    BY <1>1, <2>1 DEF Undisturbed, RanToItsEnd, BrokeOff, Over, OnBus
<1>3. PendingInv'
  <2>1. pending \subseteq Tasks
    BY DEF TypeInv, TypeOK
  <2>. QED
    BY <1>1, <2>1 DEF StoresInv, PendingInv, Live, Awaits, Popped
<1>4. FileFirst'
  BY <1>1 DEF StoresInv, FileFirst, Registered
<1>5. StopInv'
  <2>1. abandoned \subseteq Tasks
    BY DEF TypeInv, TypeOK
  <2>. QED
    BY <1>1, <2>1 DEF StoresInv, StopInv, Early, Stopped
<1>. QED
  BY <1>2, <1>3, <1>4, <1>5 DEF StoresInv

-----------------------------------------------------------------------------
(* The user's cancellation.                                                *)

LEMMA CancelTaskKeepsStores ==
    ASSUME TypeInv, SlotInv, StoresInv, NEW t \in Tasks, CancelTask(t)
    PROVE  StoresInv'
<1>1. /\ UNCHANGED <<pc, wss, ledger, sent, reports, abandoned, stop, stopIds, stopAt>>
      /\ stop = "no"
      /\ cancel'[t] \in {"shield", "wait"} /\ \A u \in Tasks \ {t} : cancel'[u] = cancel[u]
      /\ pending' \subseteq pending \cup {t} /\ (t \in pending' => t \in pending \/ Live(t))
  BY DEF CancelTask, AsyncCancel, Stopped, storeVars, outVars, stopVars, TypeInv, TypeOK
<1>2. abandoned = {}
  BY <1>1 DEF StoresInv, StopInv
<1>3. UndisturbedInv'
  BY <1>1 DEF StoresInv, UndisturbedInv, Undisturbed, RanToItsEnd, BrokeOff, Over
<1>4. PendingInv'
  <2>1. pending \subseteq Tasks
    BY DEF TypeInv, TypeOK
  <2>. QED
    BY <1>1, <2>1 DEF StoresInv, PendingInv, Live, Popped
<1>5. FileFirst'
  BY <1>1 DEF StoresInv, FileFirst
<1>6. StopInv'
  BY <1>1, <1>2 DEF StoresInv, StopInv
<1>. QED
  BY <1>3, <1>4, <1>5, <1>6 DEF StoresInv

\* A canceller works on a task that stop() does not own.
LEMMA CancellerOwn ==
    ASSUME StoresInv, NEW t \in Tasks, cancel[t] # "none"
    PROVE  t \notin abandoned
BY DEF StoresInv, StopInv

LEMMA CancelKeepsStores ==
    ASSUME TypeInv, SlotInv, StoresInv, NEW t \in Tasks, CancelStep(t)
    PROVE  StoresInv'
<1> USE DEF taskVars, slotVars, storeVars, outVars, stopVars
<1>1. /\ UNCHANGED <<pc, abandoned, active, stop, stopIds, stopAt>>
      /\ cancel[t] # "none" /\ cancel'[t] # "none"
      /\ \A u \in Tasks \ {t} : /\ cancel'[u] = cancel[u] /\ wss'[u] = wss[u]
                                /\ ledger'[u] = ledger[u] /\ sent'[u] = sent[u]
                                /\ reports'[u] = reports[u]
      /\ wss[t] # "none" => wss'[t] # "none"
      /\ wss[t] = "none" /\ ledger[t] = "none" => ledger'[t] = "none"
  BY DEF CancelStep, CancelHard, CancelAgain, CancelRelease, CancelLedger, CancelEvent,
         WssUpdate, LedgerUpdate, TypeInv, TypeOK
<1>2. \/ /\ pending' \subseteq pending \cup {t} /\ (t \in pending' => t \in pending \/ Live(t))
         /\ cancel'[t] \in {"wait", "rewait"}
      \/ pending' = pending /\ ~Live(t)
      \/ pending' = pending /\ t \notin Popped
  BY DEF CancelStep, CancelHard, CancelAgain, CancelRelease, CancelLedger, CancelEvent,
         AsyncCancel, Live, Over, Awaits, Popped, TypeInv, TypeOK
<1>3. t \notin abandoned
  BY <1>1, CancellerOwn
<1>4. UndisturbedInv'
  BY <1>1 DEF StoresInv, UndisturbedInv, Undisturbed, RanToItsEnd, BrokeOff, Over
<1>5. PendingInv'
  <2>1. pending \subseteq Tasks
    BY DEF TypeInv, TypeOK
  <2> SUFFICES ASSUME NEW u \in pending' PROVE Live(u)' /\ u \in (Popped \cup abandoned)'
    BY DEF PendingInv
  <2>2. CASE u = t
    BY <1>1, <1>2, <1>3, <2>2 DEF StoresInv, PendingInv, Live, Popped
  <2>3. CASE u # t
    BY <1>1, <1>2, <2>1, <2>3 DEF StoresInv, PendingInv, Live, Popped
  <2>. QED
    BY <2>2, <2>3
<1>6. FileFirst'
  BY <1>1 DEF StoresInv, FileFirst
<1>7. StopInv'
  <2>1. abandoned \subseteq Tasks
    BY DEF TypeInv, TypeOK
  <2>2. pending \subseteq pending' \/ pending' = pending
    BY DEF CancelStep, CancelHard, CancelAgain, CancelRelease, CancelLedger, CancelEvent,
           AsyncCancel
  <2>3. pending' \subseteq pending \cup {t}
    BY <1>2
  <2>. QED
    BY <1>1, <1>3, <2>1, <2>2, <2>3 DEF StoresInv, StopInv
<1>. QED
  BY <1>4, <1>5, <1>6, <1>7 DEF StoresInv

-----------------------------------------------------------------------------
(* stop().                                                                 *)

LEMMA StopKillKeepsStores ==
    ASSUME TypeInv, SlotInv, CancelFinal, StoresInv, StopKill
    PROVE  StoresInv'
<1>1. /\ UNCHANGED <<pc, wss, ledger, sent, reports, cancel, stopAt>>
      /\ stop \in {"closing", "signalled"} /\ stop' = "killed"
      /\ stopIds' = active /\ active' = {}
      /\ abandoned' = abandoned \cup active
      /\ pending' = pending \cup {t \in active : Live(t)}
  BY DEF StopKill, AsyncCancel, storeVars, outVars, StoresInv, StopInv
<1>2. abandoned = {} /\ stopAt = {}
  BY <1>1 DEF StoresInv, StopInv
<1>3. active \subseteq Tasks /\ pending \subseteq Tasks
  BY DEF TypeInv, TypeOK
<1>4. UndisturbedInv'
  BY <1>1 DEF StoresInv, UndisturbedInv, Undisturbed, RanToItsEnd, BrokeOff, Over
<1>5. PendingInv'
  BY <1>1, <1>3 DEF StoresInv, PendingInv, Live, Popped
<1>6. FileFirst'
  BY <1>1 DEF StoresInv, FileFirst
<1>7. StopInv'
  <2>1. \A u \in active : cancel[u] = "none"
    BY <1>3 DEF CancelFinal
  <2>2. \A u \in active : pc[u] \in Early => u \in pending'
    BY <1>1 DEF Early, Live, Awaits
  <2>. QED
    BY <1>1, <1>2, <2>1, <2>2 DEF StopInv
<1>. QED
  BY <1>4, <1>5, <1>6, <1>7 DEF StoresInv

\* What is left when the tasks of stop() have been marked: the rows it finds
\* running are those of tasks others are cancelling.
LEMMA StopFinishKeepsStores ==
    ASSUME TypeInv, SlotInv, StoresInv, StopFinish
    PROVE  StoresInv'
<1>1. /\ UNCHANGED <<pc, pending, active, abandoned, wss, sent, reports, cancel,
                     stopIds, stopAt>>
      /\ stop = "killed" /\ stop' = "stopped" /\ stopIds = {}
      /\ \A u \in Tasks : ledger'[u] = IF ledger[u] = "running" THEN "cancelled"
                                                                ELSE ledger[u]
  BY DEF StopFinish, taskVars, slotVars, outVars
<1>2. active = {} /\ pending \cap abandoned = {} /\ abandoned \subseteq Tasks
  BY <1>1 DEF StoresInv, StopInv, TypeInv, TypeOK
<1>3. UndisturbedInv'
  <2> SUFFICES ASSUME NEW u \in Tasks, cancel'[u] = "none", u \notin abandoned'
               PROVE  Undisturbed(u)'
    BY DEF UndisturbedInv
  <2>1. Undisturbed(u)
    BY <1>1 DEF StoresInv, UndisturbedInv
  <2>2. ~Live(u)
    BY <1>1, <1>2 DEF SlotInv, LiveHold, Held, Popped
  <2>3. pc[u] \in OnBus \/ Over(u)
    BY <2>2 DEF TypeInv, TypeOK, Live, Over
  <2>4. ledger'[u] = ledger[u]
    BY <1>1, <2>1, <2>3 DEF Undisturbed, RanToItsEnd, BrokeOff
  <2>. QED
    BY <1>1, <2>1, <2>4 DEF Undisturbed, RanToItsEnd, BrokeOff, Over
<1>4. PendingInv'
  BY <1>1 DEF StoresInv, PendingInv, Live, Popped
<1>5. FileFirst'
  BY <1>1 DEF StoresInv, FileFirst
<1>6. StopInv'
  BY <1>1, <1>2 DEF StoresInv, StopInv
<1>. QED
  BY <1>3, <1>4, <1>5, <1>6 DEF StoresInv

LEMMA StopKeepsStores ==
    ASSUME TypeInv, SlotInv, CancelFinal, StoresInv, StopStep
    PROVE  StoresInv'
<1> USE DEF taskVars, slotVars, storeVars, outVars, WssUpdate, LedgerUpdate
<1>1. CASE StopSignal
  <2>1. /\ UNCHANGED <<pc, pending, active, abandoned, wss, ledger, sent, reports, cancel,
                       stopAt>>
        /\ stop = "closing" /\ stop' = "signalled" /\ stopIds' = active
    BY <1>1 DEF StopSignal
  <2>2. abandoned = {}
    BY <2>1 DEF StoresInv, StopInv
  <2>3. UndisturbedInv' /\ FileFirst'
    BY <2>1 DEF StoresInv, UndisturbedInv, Undisturbed,
        RanToItsEnd, BrokeOff, Over, FileFirst
  <2>4. PendingInv' /\ StopInv'
    BY <2>1, <2>2 DEF StoresInv, PendingInv, Live, Popped, StopInv
  <2>. QED
    BY <2>3, <2>4 DEF StoresInv
<1>2. ASSUME NEW t \in Tasks, StopSession(t) PROVE StoresInv'
  <2>1. /\ UNCHANGED <<pc, pending, active, abandoned, ledger, sent, reports, cancel>>
        /\ stop = "killed" /\ t \in stopIds /\ stop' = "ledger"
        /\ stopAt' = {t} /\ stopIds' = stopIds \ {t}
        /\ \A u \in Tasks : wss'[u] = IF u = t /\ wss[u] # "none" THEN "cancelled"
                                                                 ELSE wss[u]
    BY <1>2 DEF StopSession, TypeInv, TypeOK
  <2>2. t \in abandoned /\ abandoned \subseteq Tasks
    BY <2>1 DEF StoresInv, StopInv, TypeInv, TypeOK
  <2>3. UndisturbedInv'
    BY <2>1, <2>2 DEF StoresInv, UndisturbedInv, Undisturbed,
        RanToItsEnd, BrokeOff, Over
  <2>4. PendingInv' /\ FileFirst'
    BY <2>1 DEF StoresInv, PendingInv, Live, Popped, FileFirst
  <2>5. StopInv'
    BY <2>1, <2>2 DEF StoresInv, StopInv
  <2>. QED
    BY <2>3, <2>4, <2>5 DEF StoresInv
<1>3. CASE StopLedger
  <2>1. PICK t \in stopAt : LedgerUpdate(t, "cancelled")
    BY <1>3 DEF StopLedger
  <2>2. /\ UNCHANGED <<pc, pending, active, abandoned, wss, sent, reports, cancel, stopIds>>
        /\ stop = "ledger" /\ stop' = "killed" /\ stopAt' = {}
        /\ pending \cap abandoned = {}
    BY <1>3 DEF StopLedger
  <2>3. t \in abandoned /\ abandoned \subseteq Tasks
    BY <2>2 DEF StoresInv, StopInv, TypeInv, TypeOK
  <2>4. \A u \in Tasks : ledger'[u] = IF u = t /\ ledger[u] # "none" THEN "cancelled"
                                                                    ELSE ledger[u]
    BY <2>1, <2>3 DEF TypeInv, TypeOK
  <2>5. UndisturbedInv'
    BY <2>2, <2>3, <2>4 DEF StoresInv, UndisturbedInv, Undisturbed,
        RanToItsEnd, BrokeOff, Over
  <2>6. PendingInv' /\ FileFirst'
    BY <2>2, <2>4 DEF StoresInv, PendingInv, Live, Popped, FileFirst
  <2>7. StopInv'
    BY <2>2, <2>3, <2>4 DEF StoresInv, StopInv
  <2>. QED
    BY <2>5, <2>6, <2>7 DEF StoresInv
<1>. QED
  BY <1>1, <1>2, <1>3, StopKillKeepsStores, StopFinishKeepsStores DEF StopStep

LEMMA StoresNext ==
    ASSUME TypeInv, SlotInv, CancelFinal, StoresInv, [Next]_vars
    PROVE  StoresInv'
<1>1. CASE UNCHANGED vars
  BY <1>1 DEF vars, taskVars, slotVars, storeVars, outVars, stopVars, StoresInv,
     UndisturbedInv, Undisturbed,
         RanToItsEnd, BrokeOff, Over, PendingInv, Live, Popped, FileFirst, StopInv
<1>. QED
  BY <1>1, WorkerKeepsStores, ListenKeepsStores, DoneKeepsStores, CancelTaskKeepsStores,
     CancelKeepsStores, StopKeepsStores
     DEF Next, Listen

\* The invariants of a pool, together, at every await of its workers, its
\* cancellers and stop() (worker_pool.py).
THEOREM PoolKept == Spec => [](TypeInv /\ SlotInv /\ CancelFinal /\ StoresInv)
<1>1. Init => TypeInv /\ SlotInv /\ CancelFinal /\ StoresInv
  BY TypeInit, SlotInit, CancelInit, StoresInit
<1>2. TypeInv /\ SlotInv /\ CancelFinal /\ StoresInv /\ [Next]_vars
         => (TypeInv /\ SlotInv /\ CancelFinal /\ StoresInv)'
  BY TypeNext, SlotNext, CancelNext, StoresNext DEF TypeInv
<1>. QED
  BY <1>1, <1>2, PTL DEF Spec

-----------------------------------------------------------------------------
(* Theorems.                                                               *)

\* A worker nobody interrupted has left the session file, the ledger, the
\* client and the dispatcher with one story, that it ran to its end or that it
\* broke off, whatever happens to other workers beside it (worker_pool.py,
\* _execute_event; worker_completion.py).
THEOREM OutcomeIsTold == Spec => []OutcomeTold
<1>1. TypeInv /\ StoresInv => OutcomeTold
  <2> SUFFICES ASSUME TypeInv, StoresInv,
                      NEW t \in Tasks, Over(t), cancel[t] = "none", ~Stopped
               PROVE  RanToItsEnd(t) \/ BrokeOff(t)
    BY DEF OutcomeTold
  <2>1. abandoned = {}
    BY DEF StoresInv, StopInv, Stopped
  <2>. QED
    BY <2>1 DEF StoresInv, UndisturbedInv, Undisturbed
<1>. QED
  BY <1>1, PoolKept, PTL

\* Once a worker is over and its cancellation, if any, has returned, the two
\* stores never tell different stories of it (worker_pool.py: the session file
\* and the ledger row are written separately).
THEOREM StoresTellTheSame == Spec => []StoresAgree
<1>1. TypeInv /\ CancelFinal /\ StoresInv => StoresAgree
  <2> SUFFICES ASSUME TypeInv, CancelFinal, StoresInv,
                      NEW t \in Tasks, Over(t), cancel[t] \in {"none", "done"}, ~Stopped
               PROVE  <<wss[t], ledger[t]>> \in
                        {<<"none", "none">>, <<"completed", "done">>,
                         <<"failed", "failed">>, <<"failed", "none">>,
                         <<"cancelled", "none">>, <<"cancelled", "cancelled">>}
    BY DEF StoresAgree
  <2>1. abandoned = {}
    BY DEF StoresInv, StopInv, Stopped
  <2>2. CASE cancel[t] = "none"
    BY <2>1, <2>2 DEF StoresInv, UndisturbedInv, Undisturbed, RanToItsEnd, BrokeOff
  <2>3. CASE cancel[t] = "done"
    BY <2>3 DEF CancelFinal, StoresInv, FileFirst
  <2>. QED
    BY <2>2, <2>3
<1>. QED
  BY <1>1, PoolKept, PTL

\* After stop() no file and no row says running, but those of tasks a user's
\* cancellation still has in hand: neither the tasks stop() killed, of which a
\* CancelledError may arrive late, nor those that were over before.
THEOREM NothingLeftRunning == Spec => []StopLeavesNothingRunning
<1>1. TypeInv /\ SlotInv /\ CancelFinal /\ StoresInv => StopLeavesNothingRunning
  <2> SUFFICES ASSUME TypeInv, SlotInv, CancelFinal, StoresInv, stop = "stopped",
                      NEW t \in Tasks, "running" \in {wss[t], ledger[t]},
                      cancel[t] \notin {"shield", "wait", "rewait", "ledger"}
               PROVE  FALSE
    BY DEF StopLeavesNothingRunning
  <2>1. active = {} /\ stopIds = {}
    BY DEF StoresInv, StopInv
  <2>2. CASE t \in abandoned
    BY <2>1, <2>2 DEF StoresInv, StopInv
  <2>3. CASE t \notin abandoned /\ cancel[t] = "none"
    <3>1. ~Live(t)
      BY <2>1, <2>3 DEF SlotInv, LiveHold, Held, Popped
    <3>2. pc[t] \in OnBus \/ Over(t)
      BY <3>1 DEF TypeInv, TypeOK, Live, Over
    <3>. QED
      BY <2>3, <3>2 DEF StoresInv, UndisturbedInv, Undisturbed, RanToItsEnd, BrokeOff
  <2>4. CASE cancel[t] \in {"event", "done"}
    BY <2>4 DEF CancelFinal
  <2>. QED
    BY <2>2, <2>3, <2>4 DEF TypeInv, TypeOK
<1>. QED
  BY <1>1, PoolKept, PTL

=============================================================================
