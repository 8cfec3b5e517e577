# Voxyflow: a verification project

Voxyflow is a voice and chat assistant over Kanban workspaces. A fast
*dispatcher* model talks to the user; whatever takes work it delegates to
*workers*, which run in the background on the CLI and HTTP model backends. The
program's own core is the machinery between the two: the event bus and worker
pool of a session, the supervision and the bookkeeping of a worker, the turns in
which the dispatcher speaks and reacts to workers that have finished, the CLI
subprocesses both talk to, and the connection a browser tab has to all of it.
The server is asyncio code on one event loop in `src/backend/app`: no step is
preempted, and everything may change at an `await`. That is where the bugs of
this system live, and what the modules here are about.

## Inventory

Paths are relative to `src/backend/app/services` unless they start elsewhere.

| Component | State | Operations | Talks to | What is hard | What makes it correct |
|---|---|---|---|---|---|
| Session event bus (`event_bus.py`) | bounded queue, closed flag; registry of buses | emit, listen, close; get_or_create, remove, cleanup_idle | dispatcher emits, the pool's listener consumes | full queue drops the oldest; a bus closed or replaced under a live pool | an accepted intent is executed or known to be lost |
| Deep worker pool (`orchestration/worker_pool.py`, `worker_completion.py`, `worker_cards.py`) | active tasks, semaphore, cancel events, recent tasks | listen, execute, done callback, cancel, stop | bus, supervisor, session store, ledger, sockets, worker events | cancellation at every await, two release sites of the semaphore, two stores written separately, swallowed CancelledError | cap on workers, no slot lost, stores agree, cancellation final, everyone told one outcome |
| Worker supervision (`worker_supervisor.py`, `orchestration/worker_runtime.py`) | an entry per task: claim, tool calls, completion, problem | register, record, check, claim, complete, mark, clean up | tool callback, stall monitor, closeout agent | completion, stall, repetition and cleanup in any order | the dispatcher reads the outcome that happened |
| Dispatcher callbacks and chat turns (`orchestration/worker_events.py`, `chat_orchestration.py`, `orchestration/layer_runners.py`) | event buffer, debouncer, chat lock, generation, registered callback | record, arm, fire, enter, peek, stream, flush, acknowledge, cancel | workers, users, the model, sockets | user turns overtake callbacks; state peeked before the model call and acknowledged after it | one debouncer, no stale reply, no event lost unseen, every event shown |
| Pool lifecycle (`chat_orchestration.py`, `startup.py`) | registry of pools, registry of buses | start, revive, stop, reset, orphan and idle cleanup | sockets, bus registry | stop awaits while start replaces; cleanups close a live pool's bus | a session with a client has a pool that listens to its bus |
| Delegate dispatch (`orchestration/delegate_dispatch.py`) | pending confirmations | deduplicate, emit, direct action, confirm | pool, bus, registry of tools | check of active tasks against a later emit | an action runs once |
| Pending results (`pending_results.py`, `main.py`) | one file per undelivered message | store, list, deliver, mark, clean up | pool's task events, clients | two clients at once, crash between send and unlink | at least once, in order; nothing lost |
| Chat lock table (`chat_orchestration.py`) | bounded LRU of locks | get, evict | every turn | eviction between get and acquire | one lock per chat |
| Worker session store and ledger recovery (`worker_session_store.py`) | JSON files with a cache; database rows | register, update, reconcile, time out | pool, UI | crash between the two stores; clock-based timeouts | terminal means terminal |
| CLI rate gate (`llm/cli_rate_gate.py`) | two semaphores, spacing lock, cooldown | acquire, release, note_rate_limit | every CLI call | cooldown announced while callers queue | no start inside a cooldown, no slot leaked |
| LLM backends (`llm/cli_backend.py`, `cli_streaming.py`, `cli_steerable.py`, `cli_persistent_chat.py`, `codex_backend.py`, `../cli_session_registry.py`) | subprocess, reader or drain task, watcher, queue; a process per chat; the session registry | call, stream, steerable and tool-event calls, persistent turns, kill, cleanup | rate gate, worker pool (cancel events), chat turns | cancellation in nested `finally` blocks; a process shared by successive turns | no orphan process, a turn shows its own answer, the history is never lost |
| WebSocket front door (`../main.py`, `ws_broadcast.py`) | subscriptions, seen ids, background tasks | chat:message, task:cancel, session:reset, session:sync | all of the above | reconnect and replay while the first attempt runs | a message id runs one turn |
| Frontend connection (`useWebSocket.ts`, `useOfflineQueue.ts`, `ChatProvider.tsx` in `src/frontend-react`) | pending acknowledgements and their timers, offline queue, last start-up id | send, acknowledge, resend, flush, reconnect | front door | timers that race the acknowledgement; a restart in between | what the user typed is not lost and not run twice |
| Board executor (`board_executor.py`) | plan, cancellation | build, execute | turns, sockets | cards run concurrently | plan order, one result per card |
| Scheduler, jobs and autonomy (`job_runner.py`, `scheduler_service.py`, ...) | a job's session | run, drain, clean up | pool lifecycle | a second run of the same job shares its session | only a job's use of the pool is modelled |
| Memory and RAG; prompts and settings; REST and database; MCP tools; frontend views and CLI | | | | I/O, data or third-party concurrency | not modelled |

`PROJECT.json` lists these components with the status of each, and under
`hazards` every place where this code can go wrong in a way a test would hardly
reach, with the properties that would show it.

## Plan

Order of work, most important behaviour first:

1. `WorkerPool`, `WorkerPoolProofs`: the core. **Done.**
2. `CallbackTurns`, with the abstract `EventInbox` it implements. **Done**, with
   `CallbackTurnsProofs`.
3. `PoolLifecycle`: registries of pools and buses, `start_worker_pool`,
   `stop_worker_pool`, `reset_session`, `cleanup_idle`, job, idle and orphan
   cleanup. **Done**, with `PoolLifecycleProofs`.
4. `ClientLink`: message idempotency, replay and pending results on one
   connection model. **Done**, with `ClientLinkProofs`. The two were planned as
   separate modules; they share the sockets, the reconnection and the restart,
   and the hazards are in that sharing.
5. `RateGate`, extended by `CliCalls`, and `PersistentChat`. **Done**, with
   `CliCallsProofs` and `PersistentChatProofs`.
6. To come: `WorkerSessions` (crash and restart between the session files and
   the ledger), `ChatLocks` (LRU eviction), `BoardExecutor`, and
   the deduplication in `DelegateDispatch`.
7. Proofs: every safety property the passing runs check but `Answered` is a theorem, and so is
   the refinement of `EventInbox`. **Done** (below). To come with the modules of
   6: theirs.

Each module declares its bounds as CONSTANTS with a named assumption, has one
action per operation, and uses no RECURSIVE operator, so that it can be proved
about as well as checked.

## Modules

| Module | What it is |
|---|---|
| `WorkerPool` | one session's bus and pool, its properties and the mutants of its actions |
| `WorkerPoolProofs` | types, slots, the cap and the finality of cancellations, with their inductive invariants |
| `WorkerPoolStoresProofs` | what the pool tells of its workers: the two stores, the client, the dispatcher; extends `WorkerPoolProofs` |
| `EventInbox` | abstract: what the worker-event buffer promises a chat |
| `CallbackTurns` | the turns of one chat; implements `EventInbox` |
| `CallbackTurnsProofs` | the theorems about it, the refinement among them |
| `PoolLifecycle` | the registries of pools and buses over the lives of sessions and sockets |
| `PoolLifecycleProofs` | the theorems about the registries, and about intents in flight |
| `RateGate` | the slots and the cooldown CLI calls share; extended by its users |
| `CliCalls` | the one-shot CLI calls from gate to subprocess end; extends `RateGate` |
| `CliCallsProofs` | the theorems about both |
| `PersistentChat` | the persistent CLI process of a chat and the turns that share it |
| `PersistentChatProofs` | the theorems about it: slots, registry, history, whose answer a turn shows |
| `ClientLink` | a tab, its connections, the server's handlers, and the worker events sent to it |
| `ClientLinkProofs` | the theorems about it: no event dropped, no message forgotten while there is a copy, none run twice |
| `MC...` | the instances TLC checks: model values, the function of intents to sessions, symmetry |

How they fit together. `WorkerPool` is the inside of one pool, `PoolLifecycle`
the outside of all of them: what is one variable `stop` there is `Halt`,
`ClearWorkers`, `StopReturns` here, and a bus is a queue there and an identity
here. `ClientLink` opens the box `_send_task_event` of `WorkerPool`;
`PersistentChat` and `CliCalls` open the model calls that are one step in
`WorkerPool` (`running`) and `CallbackTurns` (`streaming`). They are checked
separately: the product has no state space TLC could search, and what one module
assumes of another is named in the text of its section.

Operators whose comment begins with *Mutant of* are not part of a model: each is
a plausible mistake in the action named, which the property it stands for must
expose.

### WorkerPool

A step is the code between two awaits. `pc[t]` names the await task `t` is at:

| `pc` | where in the code |
|---|---|
| `idle`, `queued`, `inHand`, `dropped` | not emitted; in `SessionEventBus.queue`; taken by `_listen_loop`, which waits for the semaphore; lost |
| `created` | the asyncio task exists and has not run |
| `planning` | `resolve_execution_plan`, card creation and move |
| `registering`, `starting` | `_ledger_insert`; the two first task events |
| `running` | the model call |
| `settling`, `settlingError` | awaiting the stall monitor in the inner `finally`, after an answer or an exception |
| `closing` | card append, artifact, closeout pass |
| `recording`, `publishing` | ledger update `done`; `task:completed` |
| `failing`, `reporting` | ledger update `failed`; `task:failed` |
| `cancelling` | ledger update in the `CancelledError` handler |
| `ended`, `gone` | the coroutine is over; its done callback has run |

`pending` holds tasks with an undelivered `CancelledError`; it is delivered by
`InterruptCall` (during the call, whose handler records the cancellation),
`SwallowCancel` (the `except asyncio.CancelledError: pass` of the inner
`finally` and of the CLI backends' own) and `InterruptElsewhere` (any other
await: the write or send in flight may or may not have happened). `cancel[t]` is
the progress of `cancel_task`, through its shielded wait, its second wait and
the second cancellation that `wait_for` issues on timeout. `stop` is the progress
of `stop()`. `sup` is the supervisor's entry; `wss` and `ledger` are the two
status stores; `sent`, `reports` and `log` are what the client, the dispatcher
and the list of recent tasks have been told. `abandoned` is the one history
variable: slots `stop()` never releases.

`OutcomeTold` has two stories. A worker that ran to its end is `completed` in its
file, `done` in the ledger and `completed` for the client, and how well it did
is told to the dispatcher alone, once: the verdict may be `failed`, for the row
says that the run is over, and the client's payload says success of every run
that is (`worker_completion.py:447`). One that broke off is failed in all four, or
has neither file nor row when it broke off before it had them.

Simplifications. A task id is emitted once (they are fresh uuids). Database
and socket errors inside `_ledger_update` and `_send_task_event` are swallowed
by the code and not modelled: the stores are assumed to take writes.
Cancellation enters by `cancel_worker_task_global`, the only caller, which
requires the task to be active in a registered pool; `stop()` is called for
pools that have been unregistered (`RegisteredAlive` of `PoolLifecycle`), so no
cancellation begins after it.
`StopLedger` relies on the order of the ready queue: the tasks `stop()` cancels
are woken in the loop's next turn, before the database write of the first of
them returns.

### CallbackTurns and EventInbox

A turn is a user's (`Users`), a debounced callback (`Events`: the completion
that arms it stands for it) or a re-trigger after a direct read action
(`Directs`). `buffer` is the bounded deque, `armed` the debouncer registry's
entry, `registered` the entry of `_active_callback_tasks`, `gen` and `snap` the
turn generation and each turn's snapshot, and `lockQueue` the chat's asyncio
lock: its holder, then its waiters in order of arrival. `pc[t]` is `sleeping`
(debounce), `waiting` (for the lock) and then, holding it, `resolving` (context
queries up to the peek), `streaming`, `flushing`, `finishing` (the done
broadcast, before the acknowledgement) and `leaving`. `rendered`, `acked`,
`replied` and `failed` are history. Fast and deep layer runners have the same
control and are one set of actions.

All turns are of the session whose pool holds the buffer, and that pool is not
stopped while they run: what stops it, and where the delegates a turn emits go,
is in `PoolLifecycle`.

`EventInbox` says what the buffer is for: an event that was received is
discarded only once the model has been shown it. `CallbackTurns` implements it
with `held` mapped to the events in the deque and `shown` to `rendered`.

### PoolLifecycle

`registry` is `_worker_pools`, `busOf` the bus registry, both per session; a
bus is its identity and whether it is `closed`. A pool has a `bus`, a socket
`sock`, the buses its listeners read (`reads`: there can be two when a pool
was given a new bus before its old listener reached the poison) and a
`phase`:

| `phase` | in the code |
|---|---|
| `live` | registered, `_started` |
| `doomed` | popped as an orphan; the task that runs its `stop()` has not started |
| `stopping` | in `stop()` before the end of its one-second sleep |
| `clearing` | workers cancelled; the ledger writes of `stop()` under way |
| `stopped` | `stop()` has returned |

`start_worker_pool` is one step, because it awaits nothing: it pops every
other session's pool whose socket is dead, schedules their `stop()`, removes
their buses, and gives the session's pool (new or reused) socket, bus and
listener. `stop_worker_pool` is three: up to its first await (`StopWorkerPool`,
with `Halt` for the beginning of `DeepWorkerPool.stop`), the workers
(`ClearWorkers`), and the return (`StopReturns`), which removes whatever bus the
session has *by then*. `Reset`, `EndJob`, `ExpireBus`, `Scan` and `StopIdle` are
their callers. An intent passes the `stage`s of `_emit_native_delegates`: its
turn runs, the notice about skipped duplicates is awaited (`noticing`), the bus is
fetched and the emission is a task of its own (`emitting`), queued, running.
`ExecuteCard` is the same without an await. The end of a connection cancels the
turns in `bound`, and not an emission that has begun. The follow-up of a worker's
answer emits nothing: `worker_completion.py:530-543` builds an `ActionIntent`
without its required `intent_type` (`event_bus.py:21`), and the `TypeError` is
caught and logged at 546.

One history variable carries exceptions which are the code's behaviour:
`disturbed` (an intent was between fetch and spawn when its bus was removed, or
was emitted where a bus was about to be). Without it `Heard` and `WorkersReachable` are
violated: `reset_session` removes the bus of a pool that keeps running;
`cleanup_idle` does the same to a quiet one; the last step of `stop_worker_pool`
removes the bus of the successor a start has built meanwhile; and the listener of
a removed bus can spawn a worker after `stop()` has cancelled those it knew.
Those are the gaps; the properties say that there are no others. The model also
shows (but does not judge) that a turn's stale socket overwrites the one
`session:sync` has just given the pool, and that orphan cleanup stops pools the
comment at `main.py:707-709` leaves alive for a reconnection.

Runs of one job share the session `job-<id>`, and callback turns of it are not
awaited by the run: so `EndJob`, which stops the pool, does not wait for the turns
of the session, and `EndJobWithoutPool` finds the pool stopped by another run.
Left out: the age tests of the cleanups (any idle bus or pool may be old
enough), the queue bound and the semaphore (`WorkerPool`).

### RateGate and CliCalls

`RateGate` is the gate: `free` slots per class, and `cooling`. `CliCalls`
extends it with calls of five `kind`s, because their `finally` blocks differ
and the differences matter:

| `kind` | code | slot released | process reaped |
|---|---|---|---|
| `call`, `oneshot` | `ClaudeCliBackend.call` with and without a cancel event | after the reaping | in the `finally` |
| `events` | `_call_with_tool_events`, `call_steerable` | at the end of reading | after the release |
| `stream` | `ClaudeCliBackend.stream` | by the drain task | after the drain task, on an exception |
| `codex` | `CodexCliBackend._call_once` | has no gate | not on cancellation |

`pc` is where the call is: `cooling`, `queued` (semaphore), `spacing` (the
gate's minimum distance, slot in hand), `spawning`, `writing` (the prompt, by all
but `call()`, whose `communicate()` does both), `reading`, `reaping`,
`waiting` (`proc.wait()` at the ordinary end), `backoff`, and `stuck`. The last is a
deadlock the model exhibits: a stream closed while its line queue is full
cancels and awaits the drain task, whose own `finally` waits for room in the queue
nobody reads any more (`cli_backend.py:990`); only a second cancellation ends
it. `leaked` counts the slot of a stream cancelled inside
`create_subprocess_exec`, where `except Exception` does not catch the
`CancelledError` (`cli_backend.py:948`). `watch` is `_watch_cancel`,
`killing` a `CliSessionRegistry.kill` between SIGTERM and SIGKILL.

Two things are as they are in the code and not as one would wish:

* `DrainFails`. The reader of a stream raises on a line over 16 MiB; the `finally`
  of the drain task gives sentinel and slot out while the process runs. The
  stream then waits in `waiting` for a process nobody reads, and a cancellation there
  leaves it running. `unread` remembers such streams. `OrphansWereUnread` and
  `CapsButUnread` say that they are the only processes that outlive their
  call or run beyond the caps (codex excepted, whose `finally` reaps nothing,
  `codex_backend.py:778`); `NoOrphan`, what the docstring of `_reap_subprocess`
  says, is violated.
* The events paths start their watcher after the prompt is written
  (`cli_backend.py:757-775`, `cli_steerable.py:228-244`). Nobody polls the
  `cancel_event` of a call in `writing`, a process that does not read its
  stdin keeps it there, and the inactivity cleanup skips a session that has read no
  line (`cli_session_registry.py:170`). `WatchedEnds` is about calls under their
  watcher; "30min idle = cancel" (`worker_pool.py:93`) does not hold before.

A process that gets SIGTERM need not react to it. The retry classification, the text of
rate-limit events and all durations are left out; a cooldown ends at some time.

### PersistentChat

`table` is the chat's entry of `_persistent_chats`; a process has a state, the
messages written to it (`todo`), how much of its answer it has given (`spoken`),
a stdout `reader`, a `queue` of tokens and end markers, and a turn `lock`.
A turn's `pc`:

| `pc` | in the code |
|---|---|
| `clearing` | `kill_persistent_chat` of a dead process or of one of another workspace |
| `asking`, `entering` | waits for a slot; has it |
| `priming` | spawned, first message being flushed: registered, not yet in the table |
| `locking`, `reading` | waits for `turn_lock`; takes tokens from the queue |
| `left` | its consumer has returned out of the loop; the generator is suspended at a `yield` |
| `ending`, `failing` | handler of a cancellation; of an error (which goes on with a one-shot stream) |

`Begin` is atomic from `has_persistent_chat` to the checks on the process, and
`brief` records what it decided: a turn that found a live process brings its new
message only. `Kill` pops the process the chat has *now*, which need not be the
turn's. `Reset`, `RegistryKill` and `KillEnds` are the killers outside the turns,
one at a time.

The exceptions: `overlap` (a turn let in while the generator of an earlier one
was still open: the left-overs of the earlier answer are in the queue it reads, and its
close kills the process under it), `robbed` (the process lost its reader under
the turn, by another's kill or because the reader itself died on an over-long
line; the end marker may be discarded with the left-overs and the turn waits),
and `drifted` (a turn kills its chat's process as one of another workspace). Without
the first two `OwnAnswer` and `TurnsEnd` are violated. The third is how a process
comes to be started without the conversation: a turn that found a live process
brings its message only, and then kills that process itself.
`HistoryLostByDrift` says that this is the only way, and that it always is one;
`SpawnKnowsHistory`, what the docstring and two comments say
(`cli_persistent_chat.py:287, 324, 388-390`), is violated. What the one-shot
stream after a failed write is told is left out: it gets the same messages, so
for a reused process the new one alone (`cli_persistent_chat.py:410`).

The gate is a number of free slots here; the turns of one chat are serial but for
generators that were left, which is why two slots are enough for contention.

### ClientLink

Up: a message is in `pending` (with a timer in `timers`) until acknowledged,
and in `offline` when it was typed without a connection; `Flush` sends
both after the sync ack, `FlushAnyway` after three seconds without one,
`AckTimeout` sends once more after fifteen. On the server `Receive`
acknowledges *first* and looks at `seen` then; `Enter` and `Handled` are
`handle_message` and `_mark_message_seen`; `NotHandled` is any exception between.
Down: `TakeSocket` and `SendTaskEvent` are `_send_task_event` (the send, the one
retry on a replaced socket, the file), and `SessionSync`, `ListAllPending`,
`Deliver`, `MarkDelivered` the delivery of files at a `session:sync`.

A connection is `open`, `lost` (a send by the server still returns normally and
arrives nowhere) or `closed`; `Break` lets a prefix of what was under way arrive.
`Restart` replaces the server process: `seen`, the pool's socket and all handlers
are gone, files and the tab stay.

What the properties except is what the code does:

* `doubtful` (for `RunOnce`): a replay on a new connection while the first
  handler is still busy, since the id is marked only at its end; and a message
  sent before the connection's sync ack, which after a restart meets an empty cache.
* `excused` (for `NotForgotten`, `Answered`): handling cut by a restart after the
  acknowledgement; a last resend on a dying connection; the 60 s age of the queue;
  the reset of the tab when the start-up id changed. A message the tab still has
  is not given up by any of the first two.
* `swallowed` (for the same two): handling raised, and the last copy of the message is
  gone. A raise alone excuses nothing: as long as the tab has the message, it must be
  sent again. But the acknowledgement goes out before the handling, and the tab drops the
  message on it (`useWebSocket.ts:241-248`), so the retry by "offline-queue replay" that
  `main.py:80-83` and `468-470` speak of finds nothing: `RaisedIsRetried` is
  violated. Handling raises, for one, when another device is dead:
  `emit_to_chat` and `emit_to_others` catch `RuntimeError`, `ConnectionError` and
  `OSError`, and the `WebSocketDisconnect` of such a socket is none of them
  (`main.py:442`).
* `EventKept` speaks of a connection without an error, not of arrival: an event
  sent on a half-open socket is lost, nothing acknowledges it. Files are
  written without an error, and none is older than the day after which
  `cleanup_stale` removes it.
* An event that is stored while a client is connected waits for the next
  `session:sync`, and may be delivered twice.

Left out: framing, heartbeat and backoff, a page reload, the TTL and the size of the
seen-ids cache, the order of messages and of files, other devices except through the
error a send to one raises.

## Runs

Bounds are few actors, because the awaits of each multiply; every one is chosen
so that the contended case happens.

| Run | Instance | Checks | Result |
|---|---|---|---|
| `worker_pool_slots` | 2 tasks, 1 slot, bus of 1, stop allowed, symmetry; 649 429 states | `TypeOK`, `SlotAccounting`, `ConcurrencyCap`, `StoresAgree`, `CancelSticks`, `OutcomeTold`, `StopLeavesNothingRunning` | pass |
| `worker_pool_live` | the same without stop, fair | `EveryIntentSettles`, `CancelReturns` | pass |
| `worker_pool_interrupted` | 1 task | `InterruptionReported` | violated |
| `callback_turns` | 3 completions (one at the depth cap), 1 user, 1 direct, deque of 3, peek of 3, fair; 178 305 states | `TypeOK`, `OneDebouncer`, `OvertakenIsSilent`, `InboxKept`, `EveryEventRendered` | pass |
| `callback_turns_overflow` | deque of 2, peek of 2 | `AckedWereRendered` | violated |
| `pool_lifecycle` | a chat and a job, 2 sockets, 3 intents (two of the chat's), 2 pools, 3 buses, symmetry; 1 602 384 states | `TypeOK`, `OpenBusRegistered`, `OneListener`, `Heard`, `WorkersReachable`, `RegisteredAlive` | pass |
| `cli_calls` | 2 calls of any kind, a slot per class, 1 retry, line queue of 2, fair; 275 861 states | `TypeOK`, `SlotsAccounted`, `CapsButUnread`, `OrphansWereUnread`, `WatchedEnds` | pass |
| `cli_calls_orphan` | 1 call | `NoOrphan` | violated |
| `persistent_chat` | 3 turns, 2 processes, 2 slots, answers of 2 tokens, fair; 357 128 states | `TypeOK`, `RunningKnown`, `OwnAnswer`, `SlotsHeld`, `HistoryLostByDrift`, `TurnsEnd` | pass |
| `persistent_chat_drift` | the same | `SpawnKnowsHistory` | violated |
| `client_link` | 1 message, 1 event, 2 connections, 2 server processes; 1 248 205 states | `TypeOK`, `RunOnce`, `NotForgotten`, `EventKept`, `Answered` | pass |
| `client_link_swallowed` | the same | `RaisedIsRetried` | violated |

Why the bounds are enough. One slot and two tasks make every acquisition a
contended one: the listener waits with an event in hand, the bus fills and drops
its oldest, and a slot released twice or never shows at once. A second
slot adds no new kind of step, because tasks interact through the slot, the
queue and `stop()` only; the theorems cover every number of tasks and slots.
In `CallbackTurns` three completions give one callback that holds the lock, one
that waits and one debouncer; a user turn then overtakes all three. The
same properties hold with two users, two completions and a direct re-trigger
(482 042 states); the smaller instance is kept for its running time. With
three events and a deque of three nothing overflows: `InboxKept` is a statement
about a buffer that does not overflow, and the overflow run shows that it cannot
be made about one that does.

In `PoolLifecycle` two pools and three buses are the least for a predecessor that
is being stopped, its successor, and a bus that either of them loses; the job
is there because its socket is never dead and blocks the idle pass, and because
an orphan cleanup needs a second session. `CliCalls`
needs two calls of one class on one slot, so that a release
too many or too few changes what the other can do; the kinds differ between
them in every combination. A queue of two lines is full with the sentinel to come. In
`PersistentChat` the third turn meets what the second left of the
first; with two tokens a turn can be left between them. In `ClientLink` a
second connection and a second process are what each retry path
needs; messages interact only through the order of frames, which is not modelled,
and events through the files; the theorems cover any number of both.

`CHECK_DEADLOCK FALSE` everywhere: every instance comes to rest when its inputs are
used up.

Fairness. The loop runs every ready coroutine, timers fire, and what is awaited
ends: database and socket calls return or raise, `wait_for` times out, a model
call ends because the stall monitor sets the cancel event of a quiet one and the
backends bound the rest. So each worker's, canceller's, stopper's and turn's own
steps are weakly fair. Emissions, completions, users, cancellations, `stop()`,
disconnects and exceptions are not fair at all: nothing makes them happen. One
exception is `WF(pc = "settlingError" /\ Fail)`: once the call has raised, the
coroutine does go on to its handler. `EveryEventRendered` excuses a
run in which a turn failed or a callback was skipped for a dead socket (`failed`): the
code does not re-arm those and leaves the event to the next turn.

`CliCalls` is fair to what the loop and the timers do (the cooldown's end, the
watcher, a registry kill's second half, the ways out of a call, the consumer of
a stream, which the turn drives), to the exit of a process that has closed its
output, and to the end of a write to a dead one. A process that runs is not made to end
or to read its stdin, and no call is made to be
cancelled: `WatchedEnds` holds because of SIGKILL alone. `PersistentChat` is fair
to a turn's next step, to the closing of abandoned generators, and to a
process that answers or dies: one that did neither would hold the turn until the stall
and inactivity cleanups kill it, which are modelled (`RegistryKill`) and not
assumed. `ClientLink` is checked for safety only: `Answered` is a statement about
states at rest, in which neither the tab nor a handler has a step (`~ENABLED Run`). No
run of their steps is infinite between inputs, as connections are bounded, so it
says where they end; that they get there is the event loops' own fairness. Neither
breaking connections nor timers are assumed, and it is about states in which a
connection is left to make. `PoolLifecycle` is checked for safety only: whether a cleanup
ever happens rests on a five-minute loop one exception can end
(`startup.py:247`).

### What the violations show

Each of them states what a docstring or comment says and what a passing property
next to it has to except.

1. `InterruptionReported`: a cancellation that lands outside the model call is
   recorded in the stores and for the client, and not for the dispatcher
   (`OutcomeTold` is about workers nobody interrupted). Its second half, taken alone, is
   violated as well: a stalled worker's backend returns a text, which the pool takes
   for an answer, and the dispatcher is told of a success.
2. `AckedWereRendered`: acknowledgement by count after an overflow removes an
   event nobody rendered (`InboxKept` is about buffers that do not overflow). The code's
   bounds (20 kept, 10 peeked) make it rare: it takes more completions during one
   callback turn than there were free places.
3. `NoOrphan`: a stream whose reader failed ends as if its output had, waits for
   the running process and leaves it running when that wait is cancelled; its slot
   is given back before, so that another process runs beside it.
4. `SpawnKnowsHistory`: the turn that takes down another workspace's process
   starts the new one with its own message alone.
5. `RaisedIsRetried`: acknowledged first, a message whose handling raised is not
   replayed; the user sees an error frame that asks for a retry.

Three disagreements more, which no run checks: a call that is writing its prompt has no
watcher (above, CliCalls); of more than ten waiting worker events a user turn is
shown the oldest ten, where `worker_events.py:55` has each surface "on the next
user turn"; and with two callbacks of a chat a user turn cancels the one
registered last, which may be the waiting one, and waits for the other, where the test
at `tests/test_worker_lifecycle.py:656-657`, which has one callback, wants it to "acquire
the chat lock promptly".

## Proofs

Every invariant and every action property of a passing run but `Answered` is also a theorem of
its module's `Spec`, for every value of the constants: any finite set of tasks or
turns, any number of connections, restarts, pools, buses and processes, any caps
and queue bounds. (`MaxPools`, `MaxBuses`, `MaxConns`, `MaxBoots`, `MaxProcs` bound
what one behaviour makes; the theorems hold for each of their values.) The
theorems assume nothing but the module's named ASSUME, which TLC evaluates in every run:
`PoolAssumption`, `TurnsAssumption`, `LifecycleAssumption` (there is a session, and no chat
is a job), `GateAssumption` and `CallsAssumption`, `ChatAssumption`, `ClientLinkAssumption`
(bounds are numbers; `None` is no message and no event: ids are strings). The one theorem
with a further hypothesis is `BufferIsInbox`.

Hardly any of the properties is inductive as it stands. What follows is, per module, the
strengthening and why it is needed. TLC checked each of these invariants on the
instance of its run (or a smaller one) before it was proved.

### The pool (`WorkerPoolProofs`, `WorkerPoolStoresProofs`)

* `TypeCorrect`. `Publish` adds the supervisor's outcome to the reports; that this is
  not `"none"` needs `CompletionKnown` (a task past `ResolveResult` has a
  completed entry with an outcome).
* `SlotsAccounted`. `SlotInv` adds `QueuedOnce` (ids in the queue are distinct
  and at `queued`), `HoldersSpawned` (who holds a slot has been spawned) and
  `LiveHold` (who is alive, or ended with its callback to come, holds one). Without
  `QueuedOnce` the listener could spawn a task twice; without `LiveHold` the
  done callback could release a slot it does not own. The arithmetic is done once,
  in `HoldersKept` and `HeldFinite`, for the set of holders; each action changes that
  set by at most one task.
* `WorkersCapped`: the live tasks are a subset of the holders.
* `CancellationSticks`, by `CancelFinal`: a task whose canceller has
  released the slot is over, and its done callback finds it popped.
* `OutcomeIsTold` and `StoresTellTheSame`. `UndisturbedInv` says, await by await, what both
  stores, the client and the dispatcher have of a worker nobody has touched: in
  `recording` the file says completed and the row still running, in `failing` there may be
  neither, and so on. `PendingInv` is what makes "undisturbed" stable: a
  `CancelledError` is on its way only to a live task that a canceller has popped or
  `stop()` has abandoned. `FileFirst`: there is no ledger row without a session file,
  since `Register` comes before `LedgerInsert`.
* `NothingLeftRunning`. `StopInv` follows `stop()`: what it cancels is
  what was active when it was signalled; an abandoned task that is at or before the
  model call is *about to be interrupted*, so that it cannot write
  `running` after `stop()` has written `cancelled`; and by the time `stop()` writes
  its rows either the cancellations have all been delivered or none has. The step that
  needs all of it is a task killed in `registering`, whose insert may still land.

### A chat's turns (`CallbackTurnsProofs`)

* `TypeCorrect`: the generation is bounded because it *is* the number of user turns that have
  entered, and the queue of the lock is a sequence because the turn that leaves is its
  first (`LockInv`: a turn past the lock is the head of the queue, the waiters
  are in it, nobody is twice).
* `OneDebouncerHolds`; `OvertakenStaysSilent`, by `SnapInv` (no snapshot is ahead of the
  generation) and `SpeakerIsCurrent` (the two steps in which a callback adds to the chat
  are behind the guard).
* `BufferIsInbox`: `Spec /\ NothingEvicted => InboxKept`, the refinement of
  `EventInbox`. `StockInv`: an event is in the buffer once, and never again
  after it has been in the buffer, a prompt or before the model. `PromptInv`: what a turn
  peeked is still the front of the buffer when it acknowledges by count. It holds
  because only the holder of the lock removes from the front, and fails as soon as an
  overflow does. That is the hypothesis `NothingEvicted` (no completion arrives
  at a full deque), which is not a convenience: without it the implementation is
  false, and `callback_turns_overflow` is the counterexample.
* `RoomyBufferIsInbox` discharges the hypothesis where there are at most as many completions
  as places, as in the run: the events in the deque are distinct and the
  arriving one is not among them (a pigeonhole argument).

### Registries (`PoolLifecycleProofs`)

`RegistryInv`, of four parts that need each other: `RegInv` (a registered pool
is live and its session's; only a pool being stopped has somebody who will remove a bus),
`BusInv` (two sessions never share a bus, and a pool's bus is nobody's but its
owner's), `ReadInv` (a pool reads one open bus at most, its own) and
`ClosingInv` (only a session whose bus is about to be removed has a closed one).
Their meeting point is the lemma `OpenReads`: an open bus that a pool reads is its
owner's registered bus, and the pool is registered. From it follow
`RegisteredPoolRuns`, `OpenBusFound` and `ListenerIsRegistered`; each step of the code
is first reduced to one of eight effects on the registries (`RegistrySteps`).

`FlightInv`, on top: `PlaceInv` (an emitted intent is on a bus, a running one in a pool); `NoticeInv`, which is `Heard` already from the moment
the pool was started, because the bus is fetched after an await; and
`WorkersReachable` itself. `IntentsHeard` and `WorkersCanBeReached` follow.

### CLI calls (`CliCallsProofs`) and the persistent process (`PersistentChatProofs`)

* `OrphansOnlyUnread`, by `PathInv`: at which points of each kind's `finally` chain the process
  still runs, and where the drain task does; a stream that is read while its process runs
  has its drain task, or its reader has failed. `SlotsAccountedFor` needs it too:
  whether `Holds(c)` is true depends on the kind's order of releasing and reaping. The sum
  over three sets is moved by `SlotTaken`, `SlotGiven`, `SlotLeaked` and `SlotKept`.
  `CapsKept`: a process that runs, is not being reaped and is not `unread` has its slot.
* `SlotsHeldHolds` and `RunningKnownHolds`, by `SlotInv` and `ProcInv`.
* `TypeCorrect`, with `HasProc`.
* `HistoryLostOnlyByDrift`, an action property, by `BriefHasProc`: a turn that left the
  history out keeps the process it saw, for nobody else takes the reference away while it
  waits at the gate, unless it killed the process itself as another workspace's; and
  a turn that did that has left the history out.
* `TurnsShowTheirOwn`. This is the argument a reader of the code has to make about a
  process that successive turns share. `InTurn` and `Alone`: turns are serial but for
  open generators. `CleanTable`: once none is open, the process of the table owes at most
  the answer of the turn that reads it (`Owed`), and its queue holds tokens of that
  turn up to the end marker (`Heard`). `OwnProcess` carries this over to the
  turn's own reference, which a kill may have taken out of the table;
  `Fresh` and `Unborn` say the same of processes just spawned and not yet made.

### The connection (`ClientLinkProofs`)

* `EventKeptHolds`. `EventInv` adds `MarkedHanded`: a handler about to remove a file
  has handed its event to a connection. Without it `MarkDelivered` could remove the only trace.
* `TypeCorrect`, with `LinkShape` (a connection not made is empty; frames are on their way to the
  tab only over an open one) and `TabShape` (a message waits for its acknowledgement
  exactly while it has its timer; the tab holds only what was typed). What a flush adds to
  a connection is said by `FramesOf`, about `SetToSeq`, and `FlushArrives`.
* `HandledOnce`. `BootInv`: a start-up id on its way is that of the process that runs, and a tab
  that has it over an open connection knows that process; it holds because a restart
  closes every connection. `OnceInv`: a message under way was sent to the process that runs by
  a tab that knew it; at most one handler has it, and it is not handled yet; once
  handled, its id is in memory, or that memory is gone, the message is not under
  way, and a tab that still has it knows an older process, so that the next sync ack makes it drop
  the message. `Untyped` starts it off.
* `NothingForgotten`. `AckInv`: an acknowledgement on its way to the tab is for a message that is
  with a handler, handled, given up, or was raised on. This is what makes it safe for the tab to
  drop the message, but for the last case, in which the drop takes the last copy. Each
  way out of the network (a frame read, a broken connection, a restart) and out of the tab
  is one lemma (`UnderwayIsHeld`, `KeptIsHeld`, `RaisedIsHeld`). The other half, that
  nobody has a copy of a swallowed message, is `SwallowedIsGone`: the tab never takes a message
  back that it has dropped.

### Only model-checked

Liveness (`EveryIntentSettles`, `CancelReturns`, `EveryEventRendered`,
`WatchedEnds`, `TurnsEnd`) and `Answered`: properties under fairness, and ENABLED,
are outside what the proof system proves. The statements that are *violated* are
refuted by TLC's counterexamples and have nothing to prove. No definition the
theorems reach is recursive.

## Not modelled

Anything marked `not_modelled` in `PROJECT.json`: the chat lock table, the session
store and ledger recovery and the board executor, which are steps of the plan, and
the parts that are I/O, data or third-party concurrency (memory and RAG, prompts
and settings, REST routes, MCP tools, views): their handlers are one
request, one transaction or one library call, and have no protocol of their own. They are also most of
the code by lines. Inside the modelled components: what a model answers, card
and artifact contents, database and socket failures that the code swallows
(`WorkerPool`), wall-clock durations (every timer may fire at any moment its guard
allows), and the process's exit, except in `ClientLink`, where the restart is the
point. No state of `CallbackTurns` and `PersistentChat` is shared between chats but the lock
table and the gate, so each is about one chat.
