-------------------------- MODULE WorkerPoolProofs --------------------------
(***************************************************************************)
(* Theorems about WorkerPool, for any number of tasks and of slots.        *)
(***************************************************************************)
EXTENDS WorkerPool, TLAPS, FiniteSetTheorems

-----------------------------------------------------------------------------
(* Type correctness.  What Publish reports is typed because a worker gets  *)
(* that far only once its completion is known: the strengthening.          *)

CompletionKnown ==
    \A t \in Tasks :
        /\ sup[t].status = "completed" => sup[t].source # "none"
        /\ sup[t].source # "none" => sup[t].outcome # "none"
        /\ pc[t] \in {"closing", "recording", "publishing"} =>
              sup[t].source # "none"

TypeInv == TypeOK /\ CompletionKnown

\* What mark_completed and mark_problem leave in an entry.
LEMMA MarkedCompleted ==
    ASSUME sup \in [Tasks -> SupRecords],
           NEW t \in Tasks, NEW src \in {"tool", "auto"}, NEW o \in Outcomes,
           MarkCompleted(t, src, o)
    PROVE  /\ sup' \in [Tasks -> SupRecords]
           /\ sup'[t].status = "completed"
           /\ sup'[t].source = src
           /\ sup'[t].outcome = o
           /\ \A u \in Tasks \ {t} : sup'[u] = sup[u]
<1>1. sup[t].problem \in {"none", "stalled", "loop"}
  BY DEF SupRecords
<1>. QED
  BY <1>1 DEF MarkCompleted, SupRecords, Outcomes

LEMMA MarkedProblem ==
    ASSUME sup \in [Tasks -> SupRecords],
           NEW t \in Tasks, NEW p \in {"stalled", "loop"}, MarkProblem(t, p)
    PROVE  /\ sup' \in [Tasks -> SupRecords]
           /\ sup'[t].status = "problem"
           /\ sup'[t].source = sup[t].source
           /\ sup'[t].outcome = sup[t].outcome
           /\ \A u \in Tasks \ {t} : sup'[u] = sup[u]
<1>1. sup[t] \in SupRecords
  OBVIOUS
<1>2. /\ sup[t].source \in {"none", "tool", "auto"}
      /\ sup[t].outcome \in {"none"} \cup Outcomes
  BY <1>1 DEF SupRecords
<1>. QED
  BY <1>2 DEF MarkProblem, SupRecords

\* Entries that are created or forgotten.
LEMMA FreshSup ==
    /\ NoSup \in SupRecords /\ ActiveSup \in SupRecords
    /\ NoSup.status = "none" /\ ActiveSup.status = "active"
    /\ NoSup.source = "none" /\ ActiveSup.source = "none"
BY DEF NoSup, ActiveSup, SupRecords

LEMMA TypeInit == Init => TypeInv
BY PoolAssumption, FreshSup
   DEF Init, TypeInv, TypeOK, CompletionKnown, OnBus, Awaits, WssStatuses,
       LedgerStatuses

LEMMA TypeNext == TypeInv /\ [Next]_vars => TypeInv'
<1> SUFFICES ASSUME TypeInv, [Next]_vars PROVE TypeInv'
  OBVIOUS
<1> USE PoolAssumption, FreshSup
    DEF TypeInv, TypeOK, CompletionKnown, busVars, slotVars, taskVars,
        storeVars, outVars, stopVars, OnBus, Awaits, Goto, At, Finish,
        WssUpdate, LedgerUpdate, AsyncCancel, WssStatuses, LedgerStatuses, Live
<1>1. ASSUME NEW t \in Tasks, Emit(t) PROVE TypeInv'
  <2>1. CASE pc' = [pc EXCEPT ![t] = "dropped"] /\ UNCHANGED queue
    BY <1>1, <2>1 DEF Emit
  <2>2. CASE /\ queue' = Append(queue, t)
             /\ pc' = [pc EXCEPT ![t] = "queued"]
    BY <1>1, <2>2 DEF Emit
  <2>3. CASE /\ Len(queue) = QueueSize
             /\ queue' = Append(Tail(queue), t)
             /\ pc' = [pc EXCEPT ![t] = "queued", ![Head(queue)] = "dropped"]
    <3>1. queue # <<>> /\ Head(queue) \in Tasks /\ Tail(queue) \in Seq(Tasks)
      BY <2>3
    <3>. QED
      BY <1>1, <2>3, <3>1 DEF Emit
  <2>. QED
    BY <1>1, <2>1, <2>2, <2>3 DEF Emit
<1>2. CASE ListenerTake
  BY <1>2 DEF ListenerTake
<1>3. ASSUME NEW t \in Tasks, ListenerSpawn(t) PROVE TypeInv'
  BY <1>3 DEF ListenerSpawn
<1>4. ASSUME NEW t \in Tasks, WorkerStep(t) PROVE TypeInv'
  <2>1. CASE Start(t) \/ Register(t) \/ LedgerInsert(t) \/ CallReturns(t)
    BY <2>1 DEF Start, Register, LedgerInsert, CallReturns
  <2>2. CASE Supervise(t)
    BY <2>2 DEF Supervise
  <2>3. CASE ResolveResult(t)
    <3>1. CASE sup[t].status = "completed"
      BY <2>3, <3>1 DEF ResolveResult
    <3>2. CASE MarkCompleted(t, "auto", "success")
      BY <2>3, <3>2, MarkedCompleted DEF ResolveResult, Outcomes
    <3>. QED
      BY <2>3, <3>1, <3>2 DEF ResolveResult
  <2>4. CASE Finalize(t)
    <3>1. CASE sup[t].source = "tool" /\ UNCHANGED sup
      BY <2>4, <3>1 DEF Finalize
    <3>2. ASSUME NEW src \in {"tool", "auto"}, NEW o \in Outcomes,
                 MarkCompleted(t, src, o)
          PROVE  TypeInv'
      BY <2>4, <3>2, MarkedCompleted DEF Finalize, Outcomes
    <3>. QED
      BY <2>4, <3>1, <3>2 DEF Finalize, Outcomes
  <2>5. CASE RecordDone(t) \/ RecordFailed(t)
    <3>1. CASE RecordDone(t)
      BY <3>1 DEF RecordDone
    <3>2. CASE RecordFailed(t)
      BY <3>2 DEF RecordFailed
    <3>. QED
      BY <2>5, <3>1, <3>2
  <2>6. CASE Publish(t)
    <3>1. sup[t].outcome \in Outcomes
      BY <2>6 DEF Publish, SupRecords
    <3>. QED
      BY <2>6, <3>1 DEF Publish, Outcomes, Reports
  <2>7. CASE ReportFailure(t)
    BY <2>7 DEF ReportFailure, Reports
  <2>8. CASE RecordCancelled(t)
    BY <2>8 DEF RecordCancelled, CancellationStatus, Reports
  <2>9. CASE InterruptCall(t) \/ SwallowCancel(t)
    <3>1. CASE InterruptCall(t)
      BY <3>1 DEF InterruptCall
    <3>2. CASE SwallowCancel(t)
      BY <3>2 DEF SwallowCancel
    <3>. QED
      BY <2>9, <3>1, <3>2
  <2>10. CASE InterruptElsewhere(t)
    <3>1. ledger' \in [Tasks -> LedgerStatuses]
      BY <2>10 DEF InterruptElsewhere
    <3>2. sent' \in [Tasks -> SUBSET {"completed", "failed", "cancelled"}]
      BY <2>10 DEF InterruptElsewhere
    <3>3. /\ Finish(t)
          /\ pending' = pending \ {t}
          /\ UNCHANGED <<busVars, slotVars, wss, reports, log, cancel, stopVars>>
      BY <2>10 DEF InterruptElsewhere
    <3>. QED
      BY <3>1, <3>2, <3>3
  <2>. QED
    BY <1>4, <2>1, <2>2, <2>3, <2>4, <2>5, <2>6, <2>7, <2>8, <2>9, <2>10
       DEF WorkerStep
<1>5. ASSUME NEW t \in Tasks, WorkerEvent(t) PROVE TypeInv'
  <2>1. ASSUME NEW o \in Outcomes, WorkerComplete(t, o) PROVE TypeInv'
    <3>1. MarkCompleted(t, "tool", o)
      BY <2>1 DEF WorkerComplete
    <3>. QED
      BY <2>1, <3>1, MarkedCompleted DEF WorkerComplete, Outcomes
  <2>2. CASE LoopDetected(t)
    <3>1. MarkProblem(t, "loop")
      BY <2>2 DEF LoopDetected
    <3>. QED
      BY <2>2, <3>1, MarkedProblem DEF LoopDetected
  <2>3. CASE StallTimeout(t)
    <3>1. MarkProblem(t, "stalled")
      BY <2>3 DEF StallTimeout
    <3>. QED
      BY <2>3, <3>1, MarkedProblem DEF StallTimeout
  <2>4. CASE Fail(t)
    BY <2>4 DEF Fail
  <2>. QED
    BY <1>5, <2>1, <2>2, <2>3, <2>4 DEF WorkerEvent
<1>6. ASSUME NEW t \in Tasks, OnTaskDone(t) PROVE TypeInv'
  BY <1>6 DEF OnTaskDone
<1>7. ASSUME NEW t \in Tasks, CancelTask(t) PROVE TypeInv'
  BY <1>7 DEF CancelTask
<1>8. ASSUME NEW t \in Tasks, CancelStep(t) PROVE TypeInv'
  <2>1. CASE CancelHard(t) \/ CancelAgain(t)
    BY <2>1 DEF CancelHard, CancelAgain
  <2>2. CASE CancelRelease(t)
    BY <2>2 DEF CancelRelease
  <2>3. CASE CancelLedger(t) \/ CancelEvent(t)
    BY <2>3 DEF CancelLedger, CancelEvent
  <2>. QED
    BY <1>8, <2>1, <2>2, <2>3 DEF CancelStep
<1>9. CASE StopListener
  BY <1>9 DEF StopListener
<1>10. CASE StopStep
  <2>1. CASE StopSignal
    BY <2>1 DEF StopSignal
  <2>2. CASE StopKill
    BY <2>2 DEF StopKill
  <2>3. ASSUME NEW t \in Tasks, StopSession(t) PROVE TypeInv'
    BY <2>3 DEF StopSession
  <2>4. CASE StopLedger
    BY <2>4 DEF StopLedger
  <2>5. CASE StopFinish
    BY <2>5 DEF StopFinish
  <2>. QED
    BY <1>10, <2>1, <2>2, <2>3, <2>4, <2>5 DEF StopStep
<1>11. CASE UNCHANGED vars
  BY <1>11 DEF vars
<1>. QED
  BY <1>1, <1>2, <1>3, <1>4, <1>5, <1>6, <1>7, <1>8, <1>9, <1>10, <1>11
     DEF Next, Listen

\* Every variable keeps its type, for any tasks, slots and bus size; a worker
\* that publishes its completion always has one to publish.
THEOREM TypeCorrect == Spec => []TypeOK
<1>1. Spec => []TypeInv
  BY TypeInit, TypeNext, PTL DEF Spec
<1>. QED
  BY <1>1, PTL DEF TypeInv

-----------------------------------------------------------------------------
(* Slots.  The accounting is not inductive alone: a slot may only be taken *)
(* for a task that holds none, so the invariant also says that holders have*)
(* been spawned, and that a queued intent is queued once and not spawned.  *)

Held == active \cup Popped \cup abandoned

QueuedOnce ==
    /\ \A i \in 1..Len(queue) : pc[queue[i]] = "queued"
    /\ \A i, j \in 1..Len(queue) : queue[i] = queue[j] => i = j

HoldersSpawned == \A t \in Held : Spawned(t)

LiveHold == \A t \in Tasks : Live(t) => t \in Held

SlotInv == QueuedOnce /\ SlotAccounting /\ HoldersSpawned /\ LiveHold

\* Every step of _execute_event moves its own task only, from an await to
\* another or to its end, and touches neither the bus nor the slots.
LEMMA WorkerMoves ==
    ASSUME TypeOK, NEW t \in Tasks, WorkerStep(t) \/ WorkerEvent(t)
    PROVE  /\ UNCHANGED <<queue, free, active, abandoned, cancel>>
           /\ pc[t] \in Awaits
           /\ \E a \in Awaits \cup {"ended"} : pc' = [pc EXCEPT ![t] = a]
<1> USE DEF TypeOK, busVars, slotVars, taskVars, storeVars, outVars, stopVars,
            Awaits, Goto, At, Finish
<1>1. CASE Start(t) \/ Register(t) \/ LedgerInsert(t) \/ Supervise(t)
  BY <1>1 DEF Start, Register, LedgerInsert, Supervise
<1>2. CASE CallReturns(t) \/ ResolveResult(t) \/ Finalize(t)
  BY <1>2 DEF CallReturns, ResolveResult, Finalize
<1>3. CASE RecordDone(t) \/ Publish(t) \/ RecordFailed(t) \/ ReportFailure(t)
  BY <1>3 DEF RecordDone, Publish, RecordFailed, ReportFailure
<1>4. CASE RecordCancelled(t) \/ InterruptCall(t)
  BY <1>4 DEF RecordCancelled, InterruptCall
<1>5. CASE SwallowCancel(t)
  <2>1. CASE pc[t] \in {"settling", "settlingError"} /\ UNCHANGED pc
    <3>1. pc' = [pc EXCEPT ![t] = pc[t]]
      BY <2>1
    <3>. QED
      BY <1>5, <2>1, <3>1 DEF SwallowCancel
  <2>2. CASE pc[t] = "running" /\ Goto(t, "settling")
    BY <1>5, <2>2 DEF SwallowCancel
  <2>. QED
    BY <1>5, <2>1, <2>2 DEF SwallowCancel
<1>6. CASE InterruptElsewhere(t)
  BY <1>6 DEF InterruptElsewhere
<1>7. CASE WorkerEvent(t)
  <2>1. CASE Fail(t)
    BY <2>1 DEF Fail
  <2>2. CASE \/ \E o \in Outcomes : WorkerComplete(t, o)
             \/ LoopDetected(t) \/ StallTimeout(t)
    <3>1. pc' = [pc EXCEPT ![t] = pc[t]]
      BY <2>2 DEF WorkerComplete, LoopDetected, StallTimeout
    <3>2. /\ pc[t] = "running"
          /\ UNCHANGED <<queue, free, active, abandoned, cancel>>
      BY <2>2 DEF WorkerComplete, LoopDetected, StallTimeout
    <3>. QED
      BY <3>1, <3>2
  <2>. QED
    BY <1>7, <2>1, <2>2 DEF WorkerEvent
<1>. QED
  BY <1>1, <1>2, <1>3, <1>4, <1>5, <1>6, <1>7 DEF WorkerStep

\* A step that leaves bus and holders alone, wakes no task that was not alive
\* and sends none back to the bus keeps the invariant.
LEMMA HoldersKept ==
    ASSUME TypeOK, SlotInv,
           UNCHANGED <<queue, free, active, abandoned>>, Popped' = Popped,
           \A t \in Tasks : /\ Live(t)' => Live(t)
                            /\ Spawned(t) => Spawned(t)'
                            /\ pc[t] = "queued" => pc'[t] = "queued"
    PROVE  SlotInv'
<1>1. Held' = Held
  BY DEF Held
<1>2. QueuedOnce'
  <2>1. \A i \in 1..Len(queue) : queue[i] \in Tasks
    BY DEF TypeOK
  <2>. QED
    BY <2>1 DEF SlotInv, QueuedOnce
<1>3. SlotAccounting'
  BY <1>1 DEF SlotInv, SlotAccounting, Held
<1>4. HoldersSpawned' /\ LiveHold'
  <2>1. Held \subseteq Tasks
    BY DEF Held, Popped, TypeOK
  <2>. QED
    BY <1>1, <2>1 DEF SlotInv, HoldersSpawned, LiveHold
<1>. QED
  BY <1>2, <1>3, <1>4 DEF SlotInv

LEMMA HeldFinite == TypeOK => Held \subseteq Tasks /\ IsFiniteSet(Held)
BY PoolAssumption, FS_Subset DEF TypeOK, Held, Popped

LEMMA SlotInit == Init => SlotInv
<1> SUFFICES ASSUME Init PROVE SlotInv
  OBVIOUS
<1>1. Held = {} /\ Popped = {}
  BY DEF Init, Held, Popped
<1>2. free + Cardinality(Held) = MaxWorkers
  BY <1>1, FS_EmptySet, PoolAssumption DEF Init
<1>. QED
  BY <1>1, <1>2 DEF Init, SlotInv, QueuedOnce, SlotAccounting, Held,
                    HoldersSpawned, LiveHold, Live, Awaits

LEMMA SlotNext == TypeInv /\ TypeOK' /\ SlotInv /\ [Next]_vars => SlotInv'
<1> SUFFICES ASSUME TypeOK, TypeOK', SlotInv, [Next]_vars PROVE SlotInv'
  BY DEF TypeInv
<1> USE DEF busVars, slotVars, taskVars, storeVars, outVars, stopVars, Goto
<1>q. /\ \A i \in 1..Len(queue) : queue[i] \in Tasks /\ pc[queue[i]] = "queued"
      /\ \A i, j \in 1..Len(queue) : queue[i] = queue[j] => i = j
  BY DEF TypeOK, SlotInv, QueuedOnce
<1>h. /\ \A t \in Held : t \in Tasks /\ Spawned(t)
      /\ IsFiniteSet(Held) /\ Cardinality(Held) \in Nat
      /\ free \in Nat /\ free + Cardinality(Held) = MaxWorkers
      /\ active \cap Popped = {}
      /\ active \cap abandoned = {}
      /\ Popped \cap abandoned = {}
  BY HeldFinite, FS_CardinalityType
     DEF TypeOK, SlotInv, HoldersSpawned, SlotAccounting, Held
<1>1. ASSUME NEW t \in Tasks, Emit(t) PROVE SlotInv'
  <2>1. UNCHANGED <<free, active, abandoned, Popped>>
    BY <1>1 DEF Emit, Popped
  <2>2. \A u \in Tasks : (Live(u)' <=> Live(u)) /\ (Spawned(u)' <=> Spawned(u))
    <3>1. CASE pc' = [pc EXCEPT ![t] = "dropped"]
      BY <1>1, <3>1 DEF Emit, Live, Spawned, Over, Awaits, TypeOK
    <3>2. CASE pc' = [pc EXCEPT ![t] = "queued"]
      BY <1>1, <3>2 DEF Emit, Live, Spawned, Over, Awaits, TypeOK
    <3>3. CASE /\ Len(queue) = QueueSize
               /\ pc' = [pc EXCEPT ![t] = "queued", ![Head(queue)] = "dropped"]
      <4>1. Head(queue) \in Tasks /\ pc[Head(queue)] = "queued"
        BY <1>q, <3>3, PoolAssumption DEF TypeOK
      <4>. QED
        BY <1>1, <3>3, <4>1 DEF Emit, Live, Spawned, Over, Awaits, TypeOK
    <3>. QED
      BY <1>1, <3>1, <3>2, <3>3 DEF Emit
  <2>3. QueuedOnce'
    <3>1. CASE pc' = [pc EXCEPT ![t] = "dropped"] /\ UNCHANGED queue
      BY <1>1, <1>q, <3>1 DEF Emit, QueuedOnce, TypeOK
    <3>2. CASE /\ queue' = Append(queue, t)
               /\ pc' = [pc EXCEPT ![t] = "queued"]
      BY <1>1, <1>q, <3>2 DEF Emit, QueuedOnce, TypeOK
    <3>3. CASE /\ Len(queue) = QueueSize
               /\ queue' = Append(Tail(queue), t)
               /\ pc' = [pc EXCEPT ![t] = "queued", ![Head(queue)] = "dropped"]
      <4>1. /\ queue # <<>> /\ Len(queue) >= 1 /\ queue[1] = Head(queue)
            /\ Len(queue) \in Nat
        BY <3>3, PoolAssumption DEF TypeOK
      <4>2. /\ Len(queue') = Len(queue)
            /\ \A i \in 1..Len(queue) :
                  queue'[i] = IF i = Len(queue) THEN t ELSE queue[i + 1]
        BY <3>3, <4>1 DEF TypeOK
      <4>3. \A i \in 1..Len(queue) : i # Len(queue) =>
               i + 1 \in 1..Len(queue) /\ queue[i + 1] # Head(queue)
        BY <1>q, <4>1
      <4>4. t # Head(queue) /\ \A i \in 1..Len(queue) : queue[i] # t
        BY <1>1, <1>q, <4>1 DEF Emit
      <4>5. \A i \in 1..Len(queue) : pc'[queue'[i]] = "queued"
        BY <1>q, <3>3, <4>1, <4>2, <4>3, <4>4 DEF TypeOK
      <4>6. \A i, j \in 1..Len(queue) : queue'[i] = queue'[j] => i = j
        BY <1>q, <4>1, <4>2, <4>3, <4>4
      <4>. QED
        BY <4>2, <4>5, <4>6 DEF QueuedOnce
    <3>. QED
      BY <1>1, <3>1, <3>2, <3>3 DEF Emit
  <2>. QED
    BY <1>h, <2>1, <2>2, <2>3
       DEF SlotInv, SlotAccounting, HoldersSpawned, LiveHold, Held
<1>2. CASE ListenerTake
  <2>1. /\ UNCHANGED <<free, active, abandoned, Popped>>
        /\ queue # <<>> /\ Len(queue) >= 1 /\ Len(queue) \in Nat
        /\ Head(queue) = queue[1] /\ pc[Head(queue)] = "queued"
        /\ Head(queue) \in Tasks
        /\ pc' = [pc EXCEPT ![Head(queue)] = "inHand"]
        /\ queue' = Tail(queue)
    BY <1>2, <1>q DEF ListenerTake, Popped, TypeOK
  <2>2. \A u \in Tasks : (Live(u)' <=> Live(u)) /\ (Spawned(u)' <=> Spawned(u))
    BY <2>1 DEF Live, Spawned, Over, Awaits, TypeOK
  <2>3. QueuedOnce'
    <3>1. /\ Len(queue') = Len(queue) - 1
          /\ \A i \in 1..Len(queue') : queue'[i] = queue[i + 1]
      BY <2>1 DEF TypeOK
    <3>2. \A i \in 1..Len(queue') :
             i + 1 \in 1..Len(queue) /\ queue[i + 1] # Head(queue)
      BY <1>q, <2>1, <3>1
    <3>3. \A i \in 1..Len(queue') : pc'[queue'[i]] = "queued"
      BY <1>q, <2>1, <3>1, <3>2 DEF TypeOK
    <3>4. \A i, j \in 1..Len(queue') : queue'[i] = queue'[j] => i = j
      BY <1>q, <2>1, <3>1, <3>2
    <3>. QED
      BY <3>3, <3>4 DEF QueuedOnce
  <2>. QED
    BY <1>h, <2>1, <2>2, <2>3
       DEF SlotInv, SlotAccounting, HoldersSpawned, LiveHold, Held
<1>3. ASSUME NEW t \in Tasks, ListenerSpawn(t) PROVE SlotInv'
  <2>1. /\ UNCHANGED <<queue, abandoned, Popped>>
        /\ free' = free - 1
        /\ active' = active \cup {t}
        /\ pc[t] = "inHand"
        /\ pc' = [pc EXCEPT ![t] = "created"]
    BY <1>3 DEF ListenerSpawn, Popped
  <2>2. t \notin Held
    BY <1>h, <2>1 DEF Spawned, Live, Over, Awaits
  <2>3. Held' = Held \cup {t}
    BY <2>1 DEF Held
  <2>4. Cardinality(Held') = Cardinality(Held) + 1
    BY <1>h, <2>2, <2>3, FS_AddElement
  <2>5. free' + Cardinality(Held') = MaxWorkers
    BY <1>h, <2>1, <2>4
  <2>6. QueuedOnce'
    BY <1>q, <2>1 DEF QueuedOnce, TypeOK
  <2>7. HoldersSpawned' /\ LiveHold'
    BY <1>h, <2>1, <2>3
       DEF SlotInv, HoldersSpawned, LiveHold, Spawned, Live, Over, Awaits,
           TypeOK
  <2>. QED
    BY <1>h, <2>1, <2>2, <2>5, <2>6, <2>7 DEF SlotInv, SlotAccounting, Held
<1>4. ASSUME NEW t \in Tasks, WorkerStep(t) \/ WorkerEvent(t) PROVE SlotInv'
  <2>1. PICK a \in Awaits \cup {"ended"} :
          /\ UNCHANGED <<queue, free, active, abandoned, cancel>>
          /\ pc[t] \in Awaits
          /\ pc' = [pc EXCEPT ![t] = a]
    BY <1>4, WorkerMoves
  <2>2. \A u \in Tasks : /\ Live(u)' => Live(u)
                         /\ Spawned(u) => Spawned(u)'
                         /\ pc[u] = "queued" => pc'[u] = "queued"
    BY <2>1 DEF TypeOK, Live, Spawned, Over, Awaits
  <2>3. Popped' = Popped
    BY <2>1 DEF Popped
  <2>. QED
    BY <2>1, <2>2, <2>3, HoldersKept
<1>5. ASSUME NEW t \in Tasks, OnTaskDone(t) PROVE SlotInv'
  <2>1. /\ UNCHANGED <<queue, abandoned, Popped>>
        /\ pc[t] = "ended"
        /\ pc' = [pc EXCEPT ![t] = "gone"]
    BY <1>5 DEF OnTaskDone, Popped
  <2>2. \A u \in Tasks : /\ Live(u)' <=> Live(u)
                         /\ Spawned(u)' <=> Spawned(u)
                         /\ pc[u] = "queued" => pc'[u] = "queued"
    BY <2>1 DEF TypeOK, Live, Spawned, Over, Awaits
  <2>3. CASE UNCHANGED <<free, active>>
    BY <2>1, <2>2, <2>3, HoldersKept
  <2>4. CASE /\ t \in active
             /\ active' = active \ {t}
             /\ free' = free + 1
    <3>1. Held' = Held \ {t} /\ t \in Held
      BY <1>h, <2>1, <2>4 DEF Held
    <3>2. Cardinality(Held') = Cardinality(Held) - 1
      BY <1>h, <3>1, FS_RemoveElement
    <3>3. free' + Cardinality(Held') = MaxWorkers
      BY <1>h, <2>4, <3>2
    <3>4. QueuedOnce'
      BY <1>q, <2>1, <2>2 DEF QueuedOnce
    <3>5. HoldersSpawned' /\ LiveHold'
      BY <1>h, <2>1, <2>2, <3>1
         DEF SlotInv, HoldersSpawned, LiveHold, Live, Awaits, TypeOK
    <3>. QED
      BY <1>h, <2>1, <2>4, <3>3, <3>4, <3>5 DEF SlotInv, SlotAccounting, Held
  <2>5. \/ UNCHANGED <<free, active>>
        \/ t \in active /\ active' = active \ {t} /\ free' = free + 1
    BY <1>5 DEF OnTaskDone
  <2>. QED
    BY <2>3, <2>4, <2>5
<1>6. ASSUME NEW t \in Tasks, CancelTask(t) PROVE SlotInv'
  <2>1. /\ UNCHANGED <<queue, free, abandoned, pc>>
        /\ t \in active
        /\ active' = active \ {t}
        /\ Popped' = Popped \cup {t}
    <3>1. \/ cancel' = [cancel EXCEPT ![t] = "shield"]
          \/ cancel' = [cancel EXCEPT ![t] = "wait"]
      BY <1>6 DEF CancelTask
    <3>. QED
      BY <1>6, <3>1 DEF CancelTask, Popped, TypeOK
  <2>2. Held' = Held
    BY <2>1 DEF Held
  <2>3. QueuedOnce' /\ HoldersSpawned' /\ LiveHold'
    BY <2>1, <2>2 DEF SlotInv, QueuedOnce, HoldersSpawned, LiveHold, Spawned,
                      Live, Over
  <2>. QED
    BY <1>h, <2>1, <2>2, <2>3 DEF SlotInv, SlotAccounting, Held
<1>7. ASSUME NEW t \in Tasks,
             CancelHard(t) \/ CancelAgain(t) \/ CancelLedger(t) \/ CancelEvent(t)
      PROVE  SlotInv'
  <2>1. UNCHANGED <<queue, free, active, abandoned, pc>>
    BY <1>7 DEF CancelHard, CancelAgain, CancelLedger, CancelEvent
  <2>2. Popped' = Popped
    BY <1>7 DEF CancelHard, CancelAgain, CancelLedger, CancelEvent, Popped,
                TypeOK
  <2>. QED
    BY <2>1, <2>2, HoldersKept DEF Live, Spawned, Over
<1>8. ASSUME NEW t \in Tasks, CancelRelease(t) PROVE SlotInv'
  <2>1. /\ UNCHANGED <<queue, active, abandoned, pc>>
        /\ t \in Popped /\ Over(t)
        /\ free' = free + 1
        /\ Popped' = Popped \ {t}
    BY <1>8 DEF CancelRelease, Popped, TypeOK
  <2>2. Held' = Held \ {t} /\ t \in Held
    BY <1>h, <2>1 DEF Held
  <2>3. Cardinality(Held') = Cardinality(Held) - 1
    BY <1>h, <2>2, FS_RemoveElement
  <2>4. free' + Cardinality(Held') = MaxWorkers
    BY <1>h, <2>1, <2>3
  <2>5. QueuedOnce' /\ HoldersSpawned' /\ LiveHold'
    BY <1>h, <2>1, <2>2
       DEF SlotInv, QueuedOnce, HoldersSpawned, LiveHold, Spawned, Live, Over,
           Awaits
  <2>. QED
    BY <1>h, <2>1, <2>4, <2>5 DEF SlotInv, SlotAccounting, Held
<1>9. CASE StopListener
  <2>1. /\ UNCHANGED <<free, active, abandoned, Popped>>
        /\ queue' = <<>>
    BY <1>9 DEF StopListener, Popped
  <2>2. \A u \in Tasks : (Live(u)' <=> Live(u)) /\ (Spawned(u)' <=> Spawned(u))
    BY <1>9 DEF StopListener, Live, Spawned, Over, Awaits, TypeOK
  <2>3. QueuedOnce'
    BY <2>1 DEF QueuedOnce
  <2>. QED
    BY <1>h, <2>1, <2>2, <2>3
       DEF SlotInv, SlotAccounting, HoldersSpawned, LiveHold, Held
<1>10. CASE StopKill
  <2>1. /\ UNCHANGED <<queue, free, pc, Popped>>
        /\ abandoned' = abandoned \cup active
        /\ active' = {}
    BY <1>10 DEF StopKill, Popped
  <2>2. Held' = Held
    BY <2>1 DEF Held
  <2>3. QueuedOnce' /\ HoldersSpawned' /\ LiveHold'
    BY <2>1, <2>2 DEF SlotInv, QueuedOnce, HoldersSpawned, LiveHold, Spawned,
                      Live, Over
  <2>. QED
    BY <1>h, <2>1, <2>2, <2>3 DEF SlotInv, SlotAccounting, Held
<1>11. ASSUME \/ StopSignal \/ StopLedger \/ StopFinish
              \/ \E t \in Tasks : StopSession(t)
              \/ UNCHANGED vars
       PROVE  SlotInv'
  <2>1. UNCHANGED <<queue, free, active, abandoned, pc, cancel>>
    BY <1>11 DEF StopSignal, StopLedger, StopFinish, StopSession, vars
  <2>. QED
    BY <2>1, HoldersKept DEF Popped, Live, Spawned, Over
<1>. QED
  BY <1>1, <1>2, <1>3, <1>4, <1>5, <1>6, <1>7, <1>8, <1>9, <1>10, <1>11
     DEF Next, Listen, CancelStep, StopStep

LEMMA SlotsKept == Spec => [](TypeInv /\ SlotInv)
<1>1. Init => TypeInv /\ SlotInv
  BY TypeInit, SlotInit
<1>2. TypeInv /\ SlotInv /\ [Next]_vars => TypeInv' /\ SlotInv'
  BY TypeNext, SlotNext DEF TypeInv
<1>. QED
  BY <1>1, <1>2, PTL DEF Spec

\* Whatever the number of tasks and slots, a slot is free or held exactly once:
\* completion, cancellation and stop() never release one twice.
THEOREM SlotsAccounted == Spec => []SlotAccounting
BY SlotsKept, PTL DEF SlotInv

\* At most MaxWorkers workers are alive, however cancellations, completions
\* and stop() interleave: every live worker holds a slot of its own.
THEOREM WorkersCapped == Spec => []ConcurrencyCap
<1>1. TypeOK /\ SlotInv => ConcurrencyCap
  <2> SUFFICES ASSUME TypeOK, SlotInv PROVE ConcurrencyCap
    OBVIOUS
  <2>1. /\ IsFiniteSet(Held)
        /\ free + Cardinality(Held) = MaxWorkers
        /\ {t \in Tasks : Live(t)} \subseteq Held
    BY HeldFinite DEF SlotInv, SlotAccounting, LiveHold, Held
  <2>2. /\ Cardinality({t \in Tasks : Live(t)}) <= Cardinality(Held)
        /\ Cardinality({t \in Tasks : Live(t)}) \in Nat
        /\ Cardinality(Held) \in Nat
    BY <2>1, FS_Subset, FS_CardinalityType
  <2>. QED
    BY <2>1, <2>2, PoolAssumption DEF ConcurrencyCap, TypeOK
<1>. QED
  BY <1>1, SlotsKept, PTL DEF TypeInv

-----------------------------------------------------------------------------
(* Cancellation.  What makes it stick is that cancel_task writes the stores *)
(* only once the worker is over, and that a task that was popped never     *)
(* returns to _active_tasks, where a done callback could log it as done.   *)

CancelFinal ==
    \A t \in Tasks :
        /\ cancel[t] # "none" => t \notin active /\ Spawned(t)
        /\ log[t] = "success" =>
              cancel[t] = "none" /\ t \notin active /\ Over(t)
        /\ cancel[t] \in {"ledger", "event", "done"} =>
              Over(t) /\ wss[t] \in {"none", "cancelled"}
        /\ cancel[t] \in {"event", "done"} => ledger[t] \in {"none", "cancelled"}

LEMMA CancelInit == Init => CancelFinal
BY DEF Init, CancelFinal

LEMMA CancelNext == TypeOK /\ SlotInv /\ CancelFinal /\ [Next]_vars => CancelFinal'
<1> SUFFICES ASSUME TypeOK, SlotInv, CancelFinal, [Next]_vars
             PROVE  CancelFinal'
  OBVIOUS
<1> USE DEF CancelFinal, busVars, slotVars, taskVars, storeVars, outVars,
            stopVars, Goto, WssUpdate, LedgerUpdate
<1>1. ASSUME NEW t \in Tasks, Emit(t) PROVE CancelFinal'
  <2>1. UNCHANGED <<active, storeVars, log, cancel>>
    BY <1>1 DEF Emit
  <2>2. \A u \in Tasks : (Over(u) => Over(u)') /\ (Spawned(u) => Spawned(u)')
    <3>1. \/ pc' = [pc EXCEPT ![t] = "dropped"]
          \/ pc' = [pc EXCEPT ![t] = "queued"]
          \/ /\ Len(queue) = QueueSize
             /\ pc' = [pc EXCEPT ![t] = "queued", ![Head(queue)] = "dropped"]
      BY <1>1 DEF Emit
    <3>2. Len(queue) = QueueSize =>
             Head(queue) \in Tasks /\ pc[Head(queue)] = "queued"
      BY PoolAssumption DEF TypeOK, SlotInv, QueuedOnce
    <3>. QED
      BY <1>1, <3>1, <3>2 DEF Emit, Over, Spawned, Live, Awaits, TypeOK
  <2>. QED
    BY <2>1, <2>2
<1>2. CASE ListenerTake
  <2>1. UNCHANGED <<active, storeVars, log, cancel>>
    BY <1>2 DEF ListenerTake
  <2>2. Head(queue) \in Tasks /\ pc[Head(queue)] = "queued"
    BY <1>2 DEF ListenerTake, TypeOK, SlotInv, QueuedOnce
  <2>3. \A u \in Tasks : (Over(u) => Over(u)') /\ (Spawned(u) => Spawned(u)')
    BY <1>2, <2>2 DEF ListenerTake, Over, Spawned, Live, Awaits, TypeOK
  <2>. QED
    BY <2>1, <2>3
<1>3. ASSUME NEW t \in Tasks, ListenerSpawn(t) PROVE CancelFinal'
  <2>1. cancel[t] = "none" /\ log[t] # "success"
    BY <1>3 DEF ListenerSpawn, Spawned, Live, Over, Awaits
  <2>. QED
    BY <1>3, <2>1 DEF ListenerSpawn, Spawned, Live, Over, Awaits, TypeOK
<1>4. ASSUME NEW t \in Tasks, WorkerStep(t) \/ WorkerEvent(t)
      PROVE  CancelFinal'
  <2>1. PICK a \in Awaits \cup {"ended"} :
          /\ UNCHANGED <<active, cancel>>
          /\ pc[t] \in Awaits
          /\ pc' = [pc EXCEPT ![t] = a]
    BY <1>4, WorkerMoves
  <2>2. /\ UNCHANGED log
        /\ \A u \in Tasks \ {t} : wss'[u] = wss[u] /\ ledger'[u] = ledger[u]
    <3>1. CASE WorkerStep(t)
      BY <3>1
         DEF WorkerStep, Start, Register, LedgerInsert, Supervise, CallReturns,
             ResolveResult, Finalize, RecordDone, Publish, RecordFailed,
             ReportFailure, RecordCancelled, InterruptCall, SwallowCancel,
             InterruptElsewhere, TypeOK
    <3>2. CASE WorkerEvent(t)
      BY <3>2 DEF WorkerEvent, WorkerComplete, LoopDetected, StallTimeout,
                  Fail, TypeOK
    <3>. QED
      BY <1>4, <3>1, <3>2
  <2>3. ~Over(t)
    BY <2>1 DEF Over, Awaits
  <2>4. \A u \in Tasks : (Over(u) => Over(u)') /\ (Spawned(u) => Spawned(u)')
    BY <2>1 DEF Over, Spawned, Live, Awaits, TypeOK
  <2>. QED
    BY <2>1, <2>2, <2>3, <2>4
<1>5. ASSUME NEW t \in Tasks, OnTaskDone(t) PROVE CancelFinal'
  <2>1. /\ UNCHANGED <<storeVars, cancel>>
        /\ active' \in {active, active \ {t}}
        /\ \A u \in Tasks : log'[u] = "success" =>
              \/ log[u] = "success"
              \/ u = t /\ t \in active /\ t \notin active'
    BY <1>5 DEF OnTaskDone, TypeOK
  <2>2. /\ Over(t)'
        /\ \A u \in Tasks : (Over(u) => Over(u)') /\ (Spawned(u) => Spawned(u)')
    BY <1>5 DEF OnTaskDone, Over, Spawned, Live, Awaits, TypeOK
  <2>. QED
    BY <2>1, <2>2
<1>6. ASSUME NEW t \in Tasks, CancelTask(t) PROVE CancelFinal'
  <2>1. Spawned(t)
    BY <1>6 DEF CancelTask, SlotInv, HoldersSpawned, Held
  <2>2. /\ UNCHANGED <<pc, storeVars, log>>
        /\ t \in active
        /\ active' = active \ {t}
        /\ cancel'[t] \in {"shield", "wait"}
        /\ \A u \in Tasks \ {t} : cancel'[u] = cancel[u]
    BY <1>6 DEF CancelTask, TypeOK
  <2>. QED
    BY <2>1, <2>2 DEF Spawned, Live, Over
<1>7. ASSUME NEW t \in Tasks, CancelStep(t) PROVE CancelFinal'
  <2>1. CASE CancelHard(t) \/ CancelAgain(t)
    BY <2>1 DEF CancelHard, CancelAgain, Spawned, Live, Over, TypeOK
  <2>2. CASE CancelRelease(t)
    BY <2>2 DEF CancelRelease, Spawned, Live, Over, TypeOK
  <2>3. CASE CancelLedger(t) \/ CancelEvent(t)
    BY <2>3 DEF CancelLedger, CancelEvent, Spawned, Live, Over, TypeOK
  <2>. QED
    BY <1>7, <2>1, <2>2, <2>3 DEF CancelStep
<1>8. CASE StopListener
  <2>1. UNCHANGED <<active, storeVars, log, cancel>>
    BY <1>8 DEF StopListener
  <2>2. \A u \in Tasks : (Over(u) => Over(u)') /\ (Spawned(u) => Spawned(u)')
    BY <1>8 DEF StopListener, Over, Spawned, Live, Awaits, TypeOK
  <2>. QED
    BY <2>1, <2>2
<1>9. CASE StopStep
  <2>1. /\ UNCHANGED <<pc, log, cancel>>
        /\ active' \subseteq active
    BY <1>9 DEF StopStep, StopSignal, StopKill, StopSession, StopLedger,
                StopFinish
  <2>2. \A u \in Tasks : /\ wss'[u] \in {wss[u], "cancelled"}
                         /\ ledger'[u] \in {ledger[u], "cancelled"}
    BY <1>9 DEF StopStep, StopSignal, StopKill, StopSession, StopLedger,
                StopFinish, TypeOK
  <2>. QED
    BY <2>1, <2>2 DEF Spawned, Live, Over
<1>10. CASE UNCHANGED vars
  BY <1>10 DEF vars, Spawned, Live, Over
<1>. QED
  BY <1>1, <1>2, <1>3, <1>4, <1>5, <1>6, <1>7, <1>8, <1>9, <1>10
     DEF Next, Listen

\* What a user's cancellation leaves in the session file, the ledger and the
\* pool's list of recent tasks is never overturned by the worker's last steps.
THEOREM CancellationSticks == Spec => []CancelSticks
<1>1. Init => CancelFinal
  BY CancelInit
<1>2. TypeInv /\ SlotInv /\ CancelFinal /\ [Next]_vars => CancelFinal'
  BY CancelNext DEF TypeInv
<1>3. CancelFinal => CancelSticks
  BY DEF CancelFinal, CancelSticks
<1>. QED
  BY <1>1, <1>2, <1>3, SlotsKept, PTL DEF Spec
=============================================================================
