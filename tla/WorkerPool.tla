----------------------------- MODULE WorkerPool -----------------------------
(***************************************************************************)
(* One session's DeepWorkerPool (services/orchestration/worker_pool.py):   *)
(* the listener that takes ActionIntents off the session's event bus, the  *)
(* semaphore that caps its workers, the asyncio task each intent becomes,  *)
(* user cancellation, and the pool's stop().                               *)
(*                                                                         *)
(* Everything runs on one asyncio loop, so a step of this specification is *)
(* the code between two awaits.  A database write or a WebSocket send that *)
(* is awaited takes effect with the step that follows the await; when the  *)
(* task is cancelled during the await it may or may not have taken effect. *)
(* Task ids are fresh uuids: no id is emitted twice, so the listener never *)
(* meets a duplicate of a task it has already spawned.                     *)
(***************************************************************************)
EXTENDS Integers, Sequences, FiniteSets

CONSTANTS
    Tasks,       \* the ActionIntents that may be emitted, by task_id
    MaxWorkers,  \* config.settings.max_workers, the semaphore's initial value
    QueueSize,   \* SessionEventBus._QUEUE_MAXSIZE
    MayStop      \* may the session be reset or orphaned while workers run?

ASSUME PoolAssumption ==
    /\ IsFiniteSet(Tasks)
    /\ MaxWorkers \in Nat \ {0}
    /\ QueueSize \in Nat \ {0}
    /\ MayStop \in BOOLEAN

VARIABLES
    queue,        \* SessionEventBus.queue
    free,         \* _semaphore's value
    active,       \* keys of _active_tasks
    pc,           \* where each intent is: on the bus, or at which await
    pending,      \* tasks with an undelivered asyncio task.cancel()
    cancelEvent,  \* _task_cancel_events: "none" | "clear" | "set"
    sup,          \* the WorkerSupervisor's entry of the task
    wss,          \* WorkerSessionStore status (the JSON file)
    ledger,       \* worker_tasks.status (the database)
    sent,         \* terminal task events published to the client
    reports,      \* statuses recorded for the dispatcher (record_worker_event)
    log,          \* entry in _completed_tasks
    cancel,       \* progress of cancel_task(task_id)
    stop,         \* progress of stop()
    stopIds,      \* stop()'s local cancelled_ids, still to be marked
    stopAt,       \* the id stop() is marking, if any
    abandoned     \* history: tasks stop() cleared without releasing their slot

busVars   == <<queue>>
slotVars  == <<free, active, abandoned>>
taskVars  == <<pc, pending, cancelEvent, sup>>
storeVars == <<wss, ledger>>
outVars   == <<sent, reports, log>>
stopVars  == <<stop, stopIds, stopAt>>
vars == <<busVars, slotVars, taskVars, storeVars, outVars, cancel, stopVars>>

-----------------------------------------------------------------------------
(* The awaits of _execute_event.  "settling" and "settlingError" are the   *)
(* await of the stall monitor in the inner finally; "closing" covers the   *)
(* card append and the closeout pass.                                      *)
Awaits == {"created", "planning", "registering", "starting", "running",
           "settling", "settlingError", "closing", "recording", "publishing",
           "failing", "reporting", "cancelling"}

OnBus   == {"idle", "queued", "inHand", "dropped"}
Stopped == stop # "no"                       \* _stopped, and the bus is closed
Live(t) == pc[t] \in Awaits
Over(t) == pc[t] \in {"ended", "gone"}
Spawned(t) == Live(t) \/ Over(t)

\* cancel_task has taken t out of _active_tasks and still holds its slot.
Popped == {t \in Tasks : cancel[t] \in {"shield", "wait", "rewait"}}

NoSup  == [status |-> "none", source |-> "none",
           outcome |-> "none", problem |-> "none"]
ActiveSup == [status |-> "active", source |-> "none",
              outcome |-> "none", problem |-> "none"]
Outcomes == {"success", "partial", "failed"}
SupRecords ==
    [status  : {"none", "active", "completed", "problem"},
     source  : {"none", "tool", "auto"},
     outcome : {"none"} \cup Outcomes,
     problem : {"none", "stalled", "loop"}]

WssStatuses    == {"none", "running", "completed", "failed", "cancelled"}
LedgerStatuses == {"none", "running", "done", "failed", "cancelled"}
Reports == {"success", "partial", "failed", "cancelled", "timed_out"}

TypeOK ==
    /\ queue \in Seq(Tasks)
    /\ free \in Nat
    /\ active \in SUBSET Tasks
    /\ abandoned \in SUBSET Tasks
    /\ pc \in [Tasks -> OnBus \cup Awaits \cup {"ended", "gone"}]
    /\ pending \in SUBSET Tasks
    /\ cancelEvent \in [Tasks -> {"none", "clear", "set"}]
    /\ sup \in [Tasks -> SupRecords]
    /\ wss \in [Tasks -> WssStatuses]
    /\ ledger \in [Tasks -> LedgerStatuses]
    /\ sent \in [Tasks -> SUBSET {"completed", "failed", "cancelled"}]
    /\ reports \in [Tasks -> SUBSET Reports]
    /\ log \in [Tasks -> {"none", "success", "cancelled"}]
    /\ cancel \in [Tasks -> {"none", "shield", "wait", "rewait", "ledger",
                             "event", "done"}]
    /\ stop \in {"no", "closing", "signalled", "killed", "ledger", "stopped"}
    /\ stopIds \in SUBSET Tasks
    /\ stopAt \in SUBSET Tasks

Init ==
    /\ queue = <<>>
    /\ free = MaxWorkers
    /\ active = {}
    /\ abandoned = {}
    /\ pc = [t \in Tasks |-> "idle"]
    /\ pending = {}
    /\ cancelEvent = [t \in Tasks |-> "none"]
    /\ sup = [t \in Tasks |-> NoSup]
    /\ wss = [t \in Tasks |-> "none"]
    /\ ledger = [t \in Tasks |-> "none"]
    /\ sent = [t \in Tasks |-> {}]
    /\ reports = [t \in Tasks |-> {}]
    /\ log = [t \in Tasks |-> "none"]
    /\ cancel = [t \in Tasks |-> "none"]
    /\ stop = "no"
    /\ stopIds = {}
    /\ stopAt = {}

-----------------------------------------------------------------------------
(* The stores and the supervisor.  update_status and _ledger_update do     *)
(* nothing for an id they do not know, and overwrite any status they find. *)

WssUpdate(t, s) ==
    wss' = [wss EXCEPT ![t] = IF @ = "none" THEN "none" ELSE s]

LedgerUpdate(t, s) ==
    ledger' = [ledger EXCEPT ![t] = IF @ = "none" THEN "none" ELSE s]

\* WorkerSupervisor.mark_completed: a problem reason stays on the entry.
MarkCompleted(t, src, o) ==
    sup' = [sup EXCEPT ![t] =
              [status |-> "completed", source |-> src, outcome |-> o,
               problem |-> sup[t].problem]]

\* WorkerSupervisor.mark_problem.
MarkProblem(t, p) ==
    sup' = [sup EXCEPT ![t] =
              [status |-> "problem", source |-> sup[t].source,
               outcome |-> sup[t].outcome, problem |-> p]]

Goto(t, s) == pc' = [pc EXCEPT ![t] = s]

\* t runs on from await a: no CancelledError is waiting for it there.
At(t, a) == pc[t] = a /\ t \notin pending

\* The finally of _execute_event: forget the cancel event and the supervision.
Finish(t) ==
    /\ Goto(t, "ended")
    /\ cancelEvent' = [cancelEvent EXCEPT ![t] = "none"]
    /\ sup' = [sup EXCEPT ![t] = NoSup]

-----------------------------------------------------------------------------
(* The bus and the listener.                                               *)

\* SessionEventBus.emit: dropped when closed; a full queue loses its oldest.
Emit(t) ==
    /\ pc[t] = "idle"
    /\ \/ /\ Stopped
          /\ Goto(t, "dropped")
          /\ UNCHANGED queue
       \/ /\ ~Stopped
          /\ Len(queue) < QueueSize
          /\ queue' = Append(queue, t)
          /\ Goto(t, "queued")
       \/ /\ ~Stopped
          /\ Len(queue) = QueueSize
          /\ queue' = Append(Tail(queue), t)
          /\ pc' = [pc EXCEPT ![t] = "queued", ![Head(queue)] = "dropped"]
    /\ UNCHANGED <<slotVars, pending, cancelEvent, sup, storeVars, outVars,
                   cancel, stopVars>>

\* _listen_loop receives the next event and waits for a worker slot.
ListenerTake ==
    /\ ~Stopped
    /\ queue # <<>>
    /\ \A t \in Tasks : pc[t] # "inHand"
    /\ Goto(Head(queue), "inHand")
    /\ queue' = Tail(queue)
    /\ UNCHANGED <<slotVars, pending, cancelEvent, sup, storeVars, outVars,
                   cancel, stopVars>>

\* Mutant of ListenerSpawn: the semaphore does not make the listener wait.
SpawnUnbounded(t) ==
    /\ ~Stopped
    /\ pc[t] = "inHand"
    /\ free' = free - 1
    /\ active' = active \cup {t}
    /\ Goto(t, "created")
    /\ UNCHANGED <<busVars, abandoned, pending, cancelEvent, sup, storeVars,
                   outVars, cancel, stopVars>>

\* The semaphore is acquired: the event becomes an asyncio task.
ListenerSpawn(t) ==
    /\ ~Stopped
    /\ pc[t] = "inHand"
    /\ free > 0
    /\ free' = free - 1
    /\ active' = active \cup {t}
    /\ Goto(t, "created")
    /\ UNCHANGED <<busVars, abandoned, pending, cancelEvent, sup, storeVars,
                   outVars, cancel, stopVars>>

-----------------------------------------------------------------------------
(* _execute_event, one action per stretch of code between two awaits.      *)

Start(t) ==
    /\ At(t, "created")
    /\ Goto(t, "planning")
    /\ UNCHANGED <<busVars, slotVars, pending, cancelEvent, sup, storeVars,
                   outVars, cancel, stopVars>>

\* The plan is resolved and the card moved: the session is registered.
Register(t) ==
    /\ At(t, "planning")
    /\ Goto(t, "registering")
    /\ wss' = [wss EXCEPT ![t] = "running"]
    /\ UNCHANGED <<busVars, slotVars, pending, cancelEvent, sup, ledger,
                   outVars, cancel, stopVars>>

LedgerInsert(t) ==
    /\ At(t, "registering")
    /\ Goto(t, "starting")
    /\ ledger' = [ledger EXCEPT ![t] = "running"]
    /\ UNCHANGED <<busVars, slotVars, pending, cancelEvent, sup, wss, outVars,
                   cancel, stopVars>>

\* task:started and task:progress are out: supervision begins, then the call.
Supervise(t) ==
    /\ At(t, "starting")
    /\ Goto(t, "running")
    /\ cancelEvent' = [cancelEvent EXCEPT ![t] = "clear"]
    /\ sup' = [sup EXCEPT ![t] = ActiveSup]
    /\ UNCHANGED <<busVars, slotVars, pending, storeVars, outVars, cancel,
                   stopVars>>

\* The worker calls voxyflow.worker.complete (_tool_callback, mark_completed).
WorkerComplete(t, outcome) ==
    /\ At(t, "running")
    /\ MarkCompleted(t, "tool", outcome)
    /\ UNCHANGED <<busVars, slotVars, pc, pending, cancelEvent, storeVars,
                   outVars, cancel, stopVars>>

\* check_repetition fires in the tool callback.
LoopDetected(t) ==
    /\ At(t, "running")
    /\ MarkProblem(t, "loop")
    /\ cancelEvent' = [cancelEvent EXCEPT ![t] = "set"]
    /\ UNCHANGED <<busVars, slotVars, pc, pending, storeVars, outVars, cancel,
                   stopVars>>

\* stall_monitor: an active task idled past WORKER_STALL_TIMEOUT.
StallTimeout(t) ==
    /\ At(t, "running")
    /\ cancelEvent[t] = "clear"
    /\ sup[t].status = "active"
    /\ MarkProblem(t, "stalled")
    /\ cancelEvent' = [cancelEvent EXCEPT ![t] = "set"]
    /\ UNCHANGED <<busVars, slotVars, pc, pending, storeVars, outVars, cancel,
                   stopVars>>

\* The LLM call ends.  With the cancel event set the backends return the text
\* "[Task cancelled by supervisor]": to the pool it is an answer like another.
CallReturns(t) ==
    /\ At(t, "running")
    /\ \/ Goto(t, "settling")
       \/ Goto(t, "settlingError")
    /\ UNCHANGED <<busVars, slotVars, pending, cancelEvent, sup, storeVars,
                   outVars, cancel, stopVars>>

\* resolve_result_content: a worker the supervisor has not seen complete is
\* marked completed.
ResolveResult(t) ==
    /\ At(t, "settling")
    /\ Goto(t, "closing")
    /\ IF sup[t].status = "completed" THEN UNCHANGED sup
       ELSE MarkCompleted(t, "auto", "success")
    /\ UNCHANGED <<busVars, slotVars, pending, cancelEvent, storeVars, outVars,
                   cancel, stopVars>>

\* finalize_completion_artifacts: unless the worker reported itself, the
\* closeout agent does, or a partial completion is made up; then the session
\* is completed.
Finalize(t) ==
    /\ At(t, "closing")
    /\ Goto(t, "recording")
    /\ \/ /\ sup[t].source = "tool"
          /\ UNCHANGED sup
       \/ /\ sup[t].source # "tool"
          /\ \/ \E o \in Outcomes : MarkCompleted(t, "tool", o)
             \/ MarkCompleted(t, "auto", "partial")
    /\ WssUpdate(t, "completed")
    /\ UNCHANGED <<busVars, slotVars, pending, cancelEvent, ledger, outVars,
                   cancel, stopVars>>

RecordDone(t) ==
    /\ At(t, "recording")
    /\ Goto(t, "publishing")
    /\ LedgerUpdate(t, "done")
    /\ UNCHANGED <<busVars, slotVars, pending, cancelEvent, sup, wss, outVars,
                   cancel, stopVars>>

\* Mutant of Publish: the supervision is forgotten before it is read.
PublishAfterCleanup(t) ==
    /\ At(t, "publishing")
    /\ sent' = [sent EXCEPT ![t] = @ \cup {"completed"}]
    /\ reports' = [reports EXCEPT ![t] = @ \cup {NoSup.outcome}]
    /\ Finish(t)
    /\ UNCHANGED <<busVars, slotVars, pending, storeVars, log, cancel, stopVars>>

\* publish_completion: task:completed, then the ambient event for the
\* dispatcher with the supervisor's completion status.
Publish(t) ==
    /\ At(t, "publishing")
    /\ sent' = [sent EXCEPT ![t] = @ \cup {"completed"}]
    /\ reports' = [reports EXCEPT ![t] = @ \cup {sup[t].outcome}]
    /\ Finish(t)
    /\ UNCHANGED <<busVars, slotVars, pending, storeVars, log, cancel, stopVars>>

\* An exception out of planning, registration, the call or the artifact write.
Fail(t) ==
    /\ \/ At(t, "planning")
       \/ At(t, "settlingError")
       \/ At(t, "closing")
    /\ Goto(t, "failing")
    /\ WssUpdate(t, "failed")
    /\ UNCHANGED <<busVars, slotVars, pending, cancelEvent, sup, ledger,
                   outVars, cancel, stopVars>>

RecordFailed(t) ==
    /\ At(t, "failing")
    /\ Goto(t, "reporting")
    /\ LedgerUpdate(t, "failed")
    /\ UNCHANGED <<busVars, slotVars, pending, cancelEvent, sup, wss, outVars,
                   cancel, stopVars>>

\* record_failure.
ReportFailure(t) ==
    /\ At(t, "reporting")
    /\ sent' = [sent EXCEPT ![t] = @ \cup {"failed"}]
    /\ reports' = [reports EXCEPT ![t] = @ \cup {"failed"}]
    /\ Finish(t)
    /\ UNCHANGED <<busVars, slotVars, pending, storeVars, log, cancel, stopVars>>

\* record_cancellation, after the CancelledError handler's ledger write.
CancellationStatus(t) ==
    IF sup[t].problem = "stalled" THEN "timed_out"
    ELSE IF sup[t].problem = "loop" THEN "failed" ELSE "cancelled"

RecordCancelled(t) ==
    /\ At(t, "cancelling")
    /\ LedgerUpdate(t, "cancelled")
    /\ reports' = [reports EXCEPT ![t] = @ \cup {CancellationStatus(t)}]
    /\ Finish(t)
    /\ UNCHANGED <<busVars, slotVars, pending, wss, sent, log, cancel, stopVars>>

-----------------------------------------------------------------------------
(* Delivery of asyncio's CancelledError, by the await it interrupts.       *)

\* During the call: the handler marks the session and writes the ledger.
InterruptCall(t) ==
    /\ pc[t] = "running" /\ t \in pending
    /\ Goto(t, "cancelling")
    /\ WssUpdate(t, "cancelled")
    /\ pending' = pending \ {t}
    /\ UNCHANGED <<busVars, slotVars, cancelEvent, sup, ledger, outVars, cancel,
                   stopVars>>

\* In the inner finally, or in the CLI backend's own once its process has
\* ended: `except asyncio.CancelledError: pass` swallows the exception.
SwallowCancel(t) ==
    /\ t \in pending
    /\ \/ /\ pc[t] \in {"settling", "settlingError"}
          /\ UNCHANGED pc
       \/ /\ pc[t] = "running"
          /\ Goto(t, "settling")
    /\ pending' = pending \ {t}
    /\ UNCHANGED <<busVars, slotVars, cancelEvent, sup, storeVars, outVars,
                   cancel, stopVars>>

\* Anywhere else it ends the task.  The write or send it was awaiting may or
\* may not have gone through; nothing is reported to the dispatcher.
InterruptElsewhere(t) ==
    /\ t \in pending
    /\ \/ /\ pc[t] \in {"created", "planning", "starting", "closing"}
          /\ UNCHANGED <<ledger, sent>>
       \/ /\ pc[t] = "registering"
          /\ ledger' \in {ledger, [ledger EXCEPT ![t] = "running"]}
          /\ UNCHANGED sent
       \/ /\ pc[t] \in {"recording", "failing", "cancelling"}
          /\ \/ UNCHANGED ledger
             \/ pc[t] = "recording" /\ LedgerUpdate(t, "done")
             \/ pc[t] = "failing" /\ LedgerUpdate(t, "failed")
             \/ pc[t] = "cancelling" /\ LedgerUpdate(t, "cancelled")
          /\ UNCHANGED sent
       \/ /\ pc[t] \in {"publishing", "reporting"}
          /\ sent' \in {sent, [sent EXCEPT ![t] = @ \cup
                {IF pc[t] = "publishing" THEN "completed" ELSE "failed"}]}
          /\ UNCHANGED ledger
    /\ Finish(t)
    /\ pending' = pending \ {t}
    /\ UNCHANGED <<busVars, slotVars, wss, reports, log, cancel, stopVars>>

\* Mutant of OnTaskDone: it releases the slot of a cancelled task too.
DoneReleasesTwice(t) ==
    /\ pc[t] = "ended"
    /\ Goto(t, "gone")
    /\ IF Stopped
       THEN UNCHANGED <<free, active, log>>
       ELSE /\ active' = active \ {t}
            /\ free' = free + 1
            /\ log' = [log EXCEPT ![t] =
                         IF t \in active THEN "success" ELSE "cancelled"]
    /\ UNCHANGED <<busVars, abandoned, pending, cancelEvent, sup, storeVars,
                   sent, reports, cancel, stopVars>>

\* Mutant of OnTaskDone: only a task that was recorded frees its slot.
DoneKeepsFailedSlot(t) ==
    /\ pc[t] = "ended"
    /\ Goto(t, "gone")
    /\ IF Stopped
       THEN UNCHANGED <<free, active, log>>
       ELSE /\ active' = active \ {t}
            /\ free' = IF t \in active /\ ledger[t] # "none" THEN free + 1
                                                          ELSE free
            /\ log' = [log EXCEPT ![t] =
                         IF t \in active THEN "success" ELSE "cancelled"]
    /\ UNCHANGED <<busVars, abandoned, pending, cancelEvent, sup, storeVars,
                   sent, reports, cancel, stopVars>>

\* The done callback _on_task_done.
OnTaskDone(t) ==
    /\ pc[t] = "ended"
    /\ Goto(t, "gone")
    /\ IF Stopped
       THEN UNCHANGED <<free, active, log>>
       ELSE /\ active' = active \ {t}
            /\ free' = IF t \in active THEN free + 1 ELSE free
            /\ log' = [log EXCEPT ![t] =
                         IF t \in active THEN "success" ELSE "cancelled"]
    /\ UNCHANGED <<busVars, abandoned, pending, cancelEvent, sup, storeVars,
                   sent, reports, cancel, stopVars>>

-----------------------------------------------------------------------------
(* cancel_task, reached through cancel_worker_task_global: only for a task *)
(* in _active_tasks of a registered pool, and a pool is unregistered before *)
(* it is stopped.  The task is popped, told through its cancel event, given *)
(* two seconds, cancelled, and waited for.                                 *)

\* asyncio's task.cancel(): nothing happens to a task that is done.
AsyncCancel(ts) == pending' = pending \cup {t \in ts : Live(t)}

CancelTask(t) ==
    /\ ~Stopped
    /\ t \in active
    /\ active' = active \ {t}
    /\ \/ /\ cancelEvent[t] = "clear"
          /\ cancelEvent' = [cancelEvent EXCEPT ![t] = "set"]
          /\ cancel' = [cancel EXCEPT ![t] = "shield"]
          /\ UNCHANGED pending
       \/ /\ cancelEvent[t] # "clear"
          /\ AsyncCancel({t})
          /\ cancel' = [cancel EXCEPT ![t] = "wait"]
          /\ UNCHANGED cancelEvent
    /\ UNCHANGED <<busVars, free, abandoned, pc, sup, storeVars, outVars,
                   stopVars>>

\* Mutant of CancelHard: a task that is done is not waited for any more.
CancelHardIfLive(t) ==
    /\ cancel[t] = "shield"
    /\ Live(t)
    /\ AsyncCancel({t})
    /\ cancel' = [cancel EXCEPT ![t] = "wait"]
    /\ UNCHANGED <<busVars, slotVars, pc, cancelEvent, sup, storeVars, outVars,
                   stopVars>>

\* The shielded wait is over: the task is done, or two seconds have passed.
CancelHard(t) ==
    /\ cancel[t] = "shield"
    /\ AsyncCancel({t})
    /\ cancel' = [cancel EXCEPT ![t] = "wait"]
    /\ UNCHANGED <<busVars, slotVars, pc, cancelEvent, sup, storeVars, outVars,
                   stopVars>>

\* wait_for's timeout cancels the task once more and keeps waiting for it.
CancelAgain(t) ==
    /\ cancel[t] = "wait"
    /\ Live(t)
    /\ t \notin pending
    /\ AsyncCancel({t})
    /\ cancel' = [cancel EXCEPT ![t] = "rewait"]
    /\ UNCHANGED <<busVars, slotVars, pc, cancelEvent, sup, storeVars, outVars,
                   stopVars>>

\* Mutant of CancelRelease: it does not wait for the worker to be over.
ReleaseEarly(t) ==
    /\ cancel[t] \in {"wait", "rewait"}
    /\ free' = free + 1
    /\ WssUpdate(t, "cancelled")
    /\ cancel' = [cancel EXCEPT ![t] = "ledger"]
    /\ UNCHANGED <<busVars, active, abandoned, taskVars, ledger, outVars,
                   stopVars>>

\* Mutant of CancelRelease: the session file is not synced with the ledger.
ReleaseWithoutSync(t) ==
    /\ cancel[t] \in {"wait", "rewait"}
    /\ Over(t)
    /\ free' = free + 1
    /\ cancel' = [cancel EXCEPT ![t] = "ledger"]
    /\ UNCHANGED <<busVars, active, abandoned, taskVars, storeVars, outVars,
                   stopVars>>

\* The worker is over: its slot is released and its session marked.
CancelRelease(t) ==
    /\ cancel[t] \in {"wait", "rewait"}
    /\ Over(t)
    /\ free' = free + 1
    /\ WssUpdate(t, "cancelled")
    /\ cancel' = [cancel EXCEPT ![t] = "ledger"]
    /\ UNCHANGED <<busVars, active, abandoned, taskVars, ledger, outVars,
                   stopVars>>

CancelLedger(t) ==
    /\ cancel[t] = "ledger"
    /\ LedgerUpdate(t, "cancelled")
    /\ cancel' = [cancel EXCEPT ![t] = "event"]
    /\ UNCHANGED <<busVars, slotVars, taskVars, wss, outVars, stopVars>>

CancelEvent(t) ==
    /\ cancel[t] = "event"
    /\ sent' = [sent EXCEPT ![t] = @ \cup {"cancelled"}]
    /\ cancel' = [cancel EXCEPT ![t] = "done"]
    /\ UNCHANGED <<busVars, slotVars, taskVars, storeVars, reports, log,
                   stopVars>>

-----------------------------------------------------------------------------
(* stop(): reset of the session, orphan or idle cleanup, shutdown.         *)

\* Closes the bus and cancels the listener; the event it holds is lost.
StopListener ==
    /\ MayStop
    /\ stop = "no"
    /\ stop' = "closing"
    /\ pc' = [t \in Tasks |->
                IF pc[t] \in {"queued", "inHand"} THEN "dropped" ELSE pc[t]]
    /\ queue' = <<>>
    /\ UNCHANGED <<slotVars, pending, cancelEvent, sup, storeVars, outVars,
                   cancel, stopIds, stopAt>>

\* Sets the cancel events first, and sleeps a second if there were any.
StopSignal ==
    /\ stop = "closing"
    /\ \E t \in active : cancelEvent[t] = "clear"
    /\ stop' = "signalled"
    /\ stopIds' = active
    /\ cancelEvent' = [t \in Tasks |->
         IF t \in active /\ cancelEvent[t] = "clear" THEN "set"
                                                     ELSE cancelEvent[t]]
    /\ UNCHANGED <<busVars, slotVars, pc, pending, sup, storeVars, outVars,
                   cancel, stopAt>>

\* The hard cancel: the slots of the tasks are never released.
StopKill ==
    /\ \/ stop = "signalled" /\ UNCHANGED stopIds
       \/ /\ stop = "closing"
          /\ \A t \in active : cancelEvent[t] # "clear"
          /\ stopIds' = active
    /\ stop' = "killed"
    /\ AsyncCancel(active)
    /\ abandoned' = abandoned \cup active
    /\ active' = {}
    /\ cancelEvent' = [t \in Tasks |-> "none"]
    /\ UNCHANGED <<busVars, free, pc, sup, storeVars, outVars, cancel, stopAt>>

\* Mutant of StopSession: the session file is left to the worker's handler.
StopSkipsSession(t) ==
    /\ stop = "killed"
    /\ t \in stopIds
    /\ stop' = "ledger"
    /\ stopAt' = {t}
    /\ stopIds' = stopIds \ {t}
    /\ UNCHANGED <<busVars, slotVars, taskVars, storeVars, outVars, cancel>>

\* One of the cancelled ids: its session file first, then its ledger row.
StopSession(t) ==
    /\ stop = "killed"
    /\ t \in stopIds
    /\ stop' = "ledger"
    /\ stopAt' = {t}
    /\ stopIds' = stopIds \ {t}
    /\ WssUpdate(t, "cancelled")
    /\ UNCHANGED <<busVars, slotVars, taskVars, ledger, outVars, cancel>>

\* The write takes several turns of the loop; the cancelled tasks are woken
\* in the next one, so by then they have had their CancelledError.
StopLedger ==
    /\ stop = "ledger"
    /\ pending \cap abandoned = {}
    /\ \E t \in stopAt : LedgerUpdate(t, "cancelled")
    /\ stop' = "killed"
    /\ stopAt' = {}
    /\ UNCHANGED <<busVars, slotVars, taskVars, wss, outVars, cancel, stopIds>>

\* _cancel_session_tasks: every ledger row of the session still running.
StopFinish ==
    /\ stop = "killed"
    /\ stopIds = {}
    /\ stop' = "stopped"
    /\ ledger' = [t \in Tasks |->
                    IF ledger[t] = "running" THEN "cancelled" ELSE ledger[t]]
    /\ UNCHANGED <<busVars, slotVars, taskVars, wss, outVars, cancel, stopIds,
                   stopAt>>

-----------------------------------------------------------------------------
WorkerStep(t) ==
    \/ Start(t) \/ Register(t) \/ LedgerInsert(t) \/ Supervise(t)
    \/ CallReturns(t) \/ ResolveResult(t) \/ Finalize(t) \/ RecordDone(t)
    \/ Publish(t) \/ RecordFailed(t) \/ ReportFailure(t) \/ RecordCancelled(t)
    \/ InterruptCall(t) \/ SwallowCancel(t) \/ InterruptElsewhere(t)

WorkerEvent(t) ==
    \/ \E o \in Outcomes : WorkerComplete(t, o)
    \/ LoopDetected(t) \/ StallTimeout(t) \/ Fail(t)

CancelStep(t) ==
    \/ CancelHard(t) \/ CancelAgain(t) \/ CancelRelease(t) \/ CancelLedger(t)
    \/ CancelEvent(t)

StopStep ==
    \/ StopSignal \/ StopKill \/ StopLedger \/ StopFinish
    \/ \E t \in Tasks : StopSession(t)

Listen == ListenerTake \/ \E t \in Tasks : ListenerSpawn(t)

Next ==
    \/ \E t \in Tasks :
         \/ Emit(t) \/ WorkerStep(t) \/ WorkerEvent(t) \/ OnTaskDone(t)
         \/ CancelTask(t) \/ CancelStep(t)
    \/ Listen
    \/ StopListener
    \/ StopStep

Spec == Init /\ [][Next]_vars

(* Fairness: the event loop runs every coroutine that is ready, and the    *)
(* awaits end: database and socket calls return, wait_for times out, the   *)
(* LLM call returns (the stall monitor sets the cancel event of a worker   *)
(* that goes quiet, and the backends return on it).  Emission, user        *)
(* cancellation, exceptions and stop() owe nothing.                        *)
FairSpec ==
    /\ Spec
    /\ WF_vars(Listen)
    /\ WF_vars(StopStep)
    /\ \A t \in Tasks :
         /\ WF_vars(WorkerStep(t))
         /\ WF_vars(pc[t] = "settlingError" /\ Fail(t))
         /\ WF_vars(OnTaskDone(t))
         /\ WF_vars(CancelStep(t))

-----------------------------------------------------------------------------
(* Properties.                                                             *)

\* Every worker slot is accounted for exactly once: it is free, or one task
\* holds it, as a member of _active_tasks, as popped by a cancel_task that has
\* yet to release it, or as left behind by stop().  The two release sites
\* (_on_task_done and cancel_task) never both release, and never neither.
SlotAccounting ==
    /\ active \cap Popped = {}
    /\ active \cap abandoned = {}
    /\ Popped \cap abandoned = {}
    /\ free + Cardinality(active \cup Popped \cup abandoned) = MaxWorkers

\* However completions, cancellations and stop() interleave, at most
\* MaxWorkers coroutines of _execute_event are alive at any time.
ConcurrencyCap == Cardinality({t \in Tasks : Live(t)}) <= MaxWorkers

\* Once a worker is over and nobody is still cancelling it, the session file
\* and the ledger tell the same final story, whichever path got there.  (A
\* worker cancelled while its row was being inserted may have no row.)
StoresAgree ==
    \A t \in Tasks :
        Over(t) /\ cancel[t] \in {"none", "done"} /\ ~Stopped =>
            <<wss[t], ledger[t]>> \in
                {<<"none", "none">>, <<"completed", "done">>,
                 <<"failed", "failed">>, <<"failed", "none">>,
                 <<"cancelled", "none">>, <<"cancelled", "cancelled">>}

\* A cancellation the user was told of is final: after task:cancelled is due
\* no late step of the worker turns either store back into another status, and
\* the pool's list of recent tasks does not show it as done.
CancelSticks ==
    \A t \in Tasks : cancel[t] \in {"event", "done"} =>
        /\ log[t] # "success"
        /\ wss[t] \in {"none", "cancelled"}
        /\ ledger[t] \in {"none", "cancelled"}

\* When stop() has returned nothing is left "running" for check_timeouts or
\* the orphan recovery to find, but for tasks another cancel_task has in hand.
StopLeavesNothingRunning ==
    stop = "stopped" =>
        \A t \in Tasks : "running" \in {wss[t], ledger[t]} =>
            cancel[t] \in {"shield", "wait", "rewait", "ledger"}

\* A worker that ran to its end is completed in its file, done in the ledger
\* and task:completed for the client, whose payload says success of all of them
\* (worker_completion.py:447).  How well it did, by its own account or that of
\* the closeout agent, is told to the dispatcher alone: a row that is done goes
\* with any one verdict, of which "failed" is one.
RanToItsEnd(t) ==
    /\ wss[t] = "completed" /\ ledger[t] = "done"
    /\ sent[t] = {"completed"}
    /\ reports[t] \in {{o} : o \in Outcomes}

\* One that broke off is failed everywhere, or has neither file nor row.
BrokeOff(t) ==
    /\ <<wss[t], ledger[t]>> \in {<<"none", "none">>, <<"failed", "failed">>}
    /\ sent[t] = {"failed"} /\ reports[t] = {"failed"}

\* A worker nobody interrupted leaves one story with its session file, the
\* ledger, the client and the dispatcher, told once each, although the four
\* are written at different awaits of _execute_event and of its handlers.
OutcomeTold ==
    \A t \in Tasks : Over(t) /\ cancel[t] = "none" /\ ~Stopped =>
        RanToItsEnd(t) \/ BrokeOff(t)

\* Every accepted intent is run to its end or lost with the bus: no slot leak,
\* swallowed CancelledError or waiting canceller leaves one queued for ever.
EveryIntentSettles ==
    \A t \in Tasks : pc[t] = "queued" ~> pc[t] \in {"gone", "dropped"}

\* cancel_task returns, whatever its worker is doing when it is called.
CancelReturns == \A t \in Tasks : cancel[t] # "none" ~> cancel[t] = "done"

-----------------------------------------------------------------------------
(* What the source says of the pool and its runs refute.                   *)

\* record_cancellation is there to "surface the cancel/stall to the dispatcher"
\* and to "distinguish a stall-timeout from a user cancel", without which "an
\* interrupted worker is invisible": a worker that was over and cancelled has been
\* reported, and of one that the stall monitor stopped no success is reported.
InterruptionReported ==
    [][\A t \in Tasks :
        /\ (Over(t) /\ cancel[t] = "done" /\ wss[t] = "cancelled")' => reports'[t] # {}
        /\ sup[t].problem = "stalled" =>
              reports'[t] \ reports[t] \subseteq {"timed_out", "failed"}]_vars
=============================================================================
