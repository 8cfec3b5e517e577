---------------------------- MODULE CallbackTurns ----------------------------
(***************************************************************************)
(* The turns of one dispatcher chat: user turns, and the callback turns in *)
(* which the dispatcher reacts to workers that have finished.              *)
(*                                                                         *)
(* A finished worker leaves an event in the chat's buffer and arms a       *)
(* debounced callback (orchestration/worker_events.py).  A turn of either  *)
(* kind goes through ChatOrchestrator.handle_message, which serialises it  *)
(* behind the chat's asyncio lock, and through a layer runner, which peeks *)
(* the buffer for its prompt; a callback that has replied acknowledges the *)
(* events it peeked.  A user turn bumps the chat's generation and cancels  *)
(* the registered callback.                                                *)
(*                                                                         *)
(* All turns belong to the session whose pool holds the buffer.  Each step *)
(* is the code between two awaits of one asyncio task.                     *)
(***************************************************************************)
EXTENDS Integers, Sequences, SequencesExt

CONSTANTS
    Events,     \* worker completions; each may arm a debounced callback
    Users,      \* user turns, of any client or job that speaks in the chat
    Directs,    \* re-triggers after a direct read action: undebounced callbacks
    AtCap,      \* events whose worker is at MAX_CALLBACK_DEPTH
    MaxEvents,  \* _MAX_WORKER_EVENTS_PER_CHAT, the deque's maxlen
    PeekLimit   \* max_items of peek_worker_events

Callbacks == Events \cup Directs
Turns == Callbacks \cup Users

ASSUME TurnsAssumption ==
    /\ IsFiniteSet(Turns)
    /\ Events \cap Directs = {} /\ Users \cap Callbacks = {}
    /\ AtCap \subseteq Events
    /\ MaxEvents \in Nat \ {0}
    /\ PeekLimit \in Nat \ {0}

VARIABLES
    buffer,      \* the chat's deque in _worker_events
    armed,       \* the chat's entry in _callback_debouncers, if any
    registered,  \* the chat's entry in _active_callback_tasks, if any
    gen,         \* the generation in _chat_turn_state
    snap,        \* each turn's turn_generation
    lockQueue,   \* the chat lock: its holder, then its waiters
    pc,          \* the await each turn is at
    pending,     \* callbacks with an undelivered task.cancel()
    peeked,      \* the events in the turn's prompt
    count,       \* its peeked_event_count
    rendered,    \* history: events the model has been shown
    acked,       \* history: events removed by an acknowledgement
    replied,     \* history: turns whose text a client has been sent
    failed       \* history: has a turn failed or a callback been skipped?

bufVars  == <<buffer, peeked, count, rendered, acked>>
chatVars == <<gen, snap, registered>>
vars == <<bufVars, chatVars, armed, lockQueue, pc, pending, replied, failed>>

-----------------------------------------------------------------------------
(* "resolving" covers the context queries up to the peek, "streaming" the  *)
(* call of the model, "flushing" a callback's buffered tokens, "finishing" *)
(* the done broadcast, "leaving" the last status message under the lock.   *)
Holding == {"resolving", "streaming", "flushing", "finishing", "leaving"}

TypeOK ==
    /\ buffer \in Seq(Events) /\ Len(buffer) <= MaxEvents
    /\ armed \in SUBSET Events
    /\ registered \in SUBSET Callbacks
    /\ gen \in 0..Cardinality(Users)
    /\ snap \in [Turns -> 0..Cardinality(Users)]
    /\ lockQueue \in Seq(Turns)
    /\ pc \in [Turns -> {"idle", "sleeping", "waiting", "gone"} \cup Holding]
    /\ pending \in SUBSET Callbacks
    /\ peeked \in [Turns -> SUBSET Events]
    /\ count \in [Turns -> 0..PeekLimit]
    /\ rendered \in SUBSET Events
    /\ acked \in SUBSET Events
    /\ replied \in SUBSET Turns
    /\ failed \in BOOLEAN

Init ==
    /\ buffer = <<>>
    /\ armed = {}
    /\ registered = {}
    /\ gen = 0
    /\ snap = [t \in Turns |-> 0]
    /\ lockQueue = <<>>
    /\ pc = [t \in Turns |-> "idle"]
    /\ pending = {}
    /\ peeked = [t \in Turns |-> {}]
    /\ count = [t \in Turns |-> 0]
    /\ rendered = {}
    /\ acked = {}
    /\ replied = {}
    /\ failed = FALSE

Goto(t, s) == pc' = [pc EXCEPT ![t] = s]
At(t, s) == pc[t] = s /\ t \notin pending
Current(t) == snap[t] = gen                       \* is_turn_current

-----------------------------------------------------------------------------
(* Worker events and the debouncer.                                        *)

\* deque(maxlen): the oldest event makes room.
Bounded(b) == IF Len(b) > MaxEvents THEN Tail(b) ELSE b

\* Mutant of Record: a debouncer that has fired is taken for a pending one.
RecordUnlessArmed(e) ==
    /\ pc[e] = "idle"
    /\ buffer' = Bounded(Append(buffer, e))
    /\ IF e \in AtCap \/ \E a \in armed : pc[a] # "sleeping"
       THEN Goto(e, "gone") /\ UNCHANGED armed
       ELSE /\ pc' = [t \in Turns |->
                        IF t = e THEN "sleeping"
                        ELSE IF t \in armed THEN "gone" ELSE pc[t]]
            /\ armed' = {e}
    /\ UNCHANGED <<peeked, count, rendered, acked, chatVars, lockQueue,
                   pending, replied, failed>>

\* record_worker_event, then schedule_dispatcher_callback: a debouncer that is
\* still asleep is cancelled, one that has fired is left to its turn.
Record(e) ==
    /\ pc[e] = "idle"
    /\ buffer' = Bounded(Append(buffer, e))
    /\ IF e \in AtCap
       THEN Goto(e, "gone") /\ UNCHANGED armed
       ELSE /\ pc' = [t \in Turns |->
                        IF t = e THEN "sleeping"
                        ELSE IF t \in armed /\ pc[t] = "sleeping" THEN "gone"
                        ELSE pc[t]]
            /\ armed' = {e}
    /\ UNCHANGED <<peeked, count, rendered, acked, chatVars, lockQueue,
                   pending, replied, failed>>

\* The debounce is over but the socket is not alive: no turn.
SkipCallback(e) ==
    /\ pc[e] = "sleeping"
    /\ Goto(e, "gone")
    /\ armed' = armed \ {e}
    /\ failed' = TRUE
    /\ UNCHANGED <<bufVars, chatVars, lockQueue, pending, replied>>

-----------------------------------------------------------------------------
(* handle_message.                                                         *)

\* `async with lock`: at once when nobody holds it or waits for it.
Enqueue(t) ==
    /\ lockQueue' = Append(lockQueue, t)
    /\ Goto(t, IF lockQueue = <<>> THEN "resolving" ELSE "waiting")

\* Mutant of EnterCallback: a callback starts a generation of its own.
EnterBumping(c) ==
    /\ pc[c] = IF c \in Directs THEN "idle" ELSE "sleeping"
    /\ gen' = gen + 1
    /\ snap' = [snap EXCEPT ![c] = gen']
    /\ registered' = {c}
    /\ Enqueue(c)
    /\ UNCHANGED <<bufVars, armed, pending, replied, failed>>

\* A debouncer fires, or a direct read action re-triggers the dispatcher.
EnterCallback(c) ==
    /\ pc[c] = IF c \in Directs THEN "idle" ELSE "sleeping"
    /\ snap' = [snap EXCEPT ![c] = gen]
    /\ registered' = {c}
    /\ Enqueue(c)
    /\ UNCHANGED <<bufVars, gen, armed, pending, replied, failed>>

\* A user turn makes every earlier turn stale and cancels the registered
\* callback, before it waits for the lock.
EnterUser(u) ==
    /\ pc[u] = "idle"
    /\ gen' = gen + 1
    /\ snap' = [snap EXCEPT ![u] = gen + 1]
    /\ pending' = pending \cup registered
    /\ Enqueue(u)
    /\ UNCHANGED <<bufVars, registered, armed, replied, failed>>

\* The lock is handed over in the order of arrival.
Acquire(t) ==
    /\ At(t, "waiting")
    /\ t = Head(lockQueue)
    /\ Goto(t, "resolving")
    /\ UNCHANGED <<bufVars, chatVars, armed, lockQueue, pending, replied, failed>>

-----------------------------------------------------------------------------
(* The layer runners: _run_fast_layer and _run_deep_chat_layer.            *)

Peeked == IF Len(buffer) < PeekLimit THEN Len(buffer) ELSE PeekLimit

\* _compute_ambient_blocks.
Peek(t) ==
    /\ At(t, "resolving")
    /\ Goto(t, "streaming")
    /\ count' = [count EXCEPT ![t] = Peeked]
    /\ peeked' = [peeked EXCEPT ![t] = {buffer[i] : i \in 1..Peeked}]
    /\ UNCHANGED <<buffer, rendered, acked, chatVars, armed, lockQueue, pending,
                   replied, failed>>

\* A user turn's token reaches the client, unless a newer turn has begun.
StreamToken(u) ==
    /\ At(u, "streaming")
    /\ Current(u)
    /\ replied' = replied \cup {u}
    /\ UNCHANGED <<bufVars, chatVars, armed, lockQueue, pc, pending, failed>>

\* The user's stream is over, or is cut because a newer turn has begun.
EndUserStream(u) ==
    /\ At(u, "streaming")
    /\ \/ Goto(u, "finishing")
       \/ ~Current(u) /\ Goto(u, "leaving")
    /\ rendered' = rendered \cup peeked[u]
    /\ UNCHANGED <<buffer, peeked, count, acked, chatVars, armed, lockQueue,
                   pending, replied, failed>>

\* Mutant of EndCallbackStream: the reply is not checked before it is flushed.
FlushUnchecked(c) ==
    /\ At(c, "streaming")
    /\ \/ /\ Goto(c, "leaving")
          /\ UNCHANGED replied
       \/ /\ Goto(c, "flushing")
          /\ replied' = replied \cup {c}
    /\ rendered' = rendered \cup peeked[c]
    /\ UNCHANGED <<buffer, peeked, count, acked, chatVars, armed, lockQueue,
                   pending, failed>>

\* The whole reply of a callback is known: [SILENT], a capacity error and a
\* stale reply are suppressed, another one begins to be flushed.
EndCallbackStream(c) ==
    /\ At(c, "streaming")
    /\ \/ /\ Goto(c, "leaving")
          /\ UNCHANGED replied
       \/ /\ Current(c)
          /\ Goto(c, "flushing")
          /\ replied' = replied \cup {c}
    /\ rendered' = rendered \cup peeked[c]
    /\ UNCHANGED <<buffer, peeked, count, acked, chatVars, armed, lockQueue,
                   pending, failed>>

\* A token is out: the next one, the done broadcast, or stale by now.
Flush(c) ==
    /\ At(c, "flushing")
    /\ Goto(c, IF Current(c) THEN "finishing" ELSE "leaving")
    /\ UNCHANGED <<bufVars, chatVars, armed, lockQueue, pending, replied, failed>>

\* Mutant of FinishCallback: the buffer is drained.
DrainBuffer(c) ==
    /\ At(c, "finishing")
    /\ Goto(c, "leaving")
    /\ buffer' = <<>>
    /\ acked' = acked \cup {buffer[i] : i \in 1..Len(buffer)}
    /\ UNCHANGED <<peeked, count, rendered, chatVars, armed, lockQueue, pending,
                   replied, failed>>

\* ack_worker_events: as many events as were peeked leave the buffer's front.
Acknowledged(c) == IF Len(buffer) < count[c] THEN Len(buffer) ELSE count[c]

FinishCallback(c) ==
    /\ At(c, "finishing")
    /\ Goto(c, "leaving")
    /\ buffer' = SubSeq(buffer, Acknowledged(c) + 1, Len(buffer))
    /\ acked' = acked \cup {buffer[i] : i \in 1..Acknowledged(c)}
    /\ UNCHANGED <<peeked, count, rendered, chatVars, armed, lockQueue, pending,
                   replied, failed>>

\* A user turn peeks and renders, but acknowledges nothing.
FinishUser(u) ==
    /\ At(u, "finishing")
    /\ Goto(u, "leaving")
    /\ replied' = replied \cup {u}
    /\ UNCHANGED <<bufVars, chatVars, armed, lockQueue, pending, failed>>

-----------------------------------------------------------------------------
(* The end of a turn.                                                      *)

\* The `finally`s of handle_message and of run_debounced_callback: each pops
\* the entry it finds only if it is its own.  The turn's locals are gone.
Depart(t) ==
    /\ Goto(t, "gone")
    /\ registered' = registered \ {t}
    /\ armed' = armed \ {t}
    /\ pending' = pending \ {t}
    /\ peeked' = [peeked EXCEPT ![t] = {}]
    /\ count' = [count EXCEPT ![t] = 0]

\* Mutant of Leave: the debouncer's entry is popped whoever it belongs to.
LeavePopping(t) ==
    /\ At(t, "leaving")
    /\ lockQueue' = Tail(lockQueue)
    /\ Goto(t, "gone")
    /\ registered' = registered \ {t}
    /\ armed' = IF t \in Events THEN {} ELSE armed
    /\ peeked' = [peeked EXCEPT ![t] = {}]
    /\ count' = [count EXCEPT ![t] = 0]
    /\ UNCHANGED <<buffer, rendered, acked, gen, snap, pending, replied,
                   failed>>

Leave(t) ==
    /\ At(t, "leaving")
    /\ lockQueue' = Tail(lockQueue)
    /\ Depart(t)
    /\ UNCHANGED <<buffer, rendered, acked, gen, snap, replied, failed>>

\* An exception of the context queries, the model or a socket.
Fail(t) ==
    /\ pc[t] \in Holding \ {"leaving"}
    /\ t \notin pending
    /\ Goto(t, "leaving")
    /\ failed' = TRUE
    /\ UNCHANGED <<bufVars, chatVars, armed, lockQueue, pending, replied>>

\* The CancelledError of a callback that holds the lock.
Interrupt(c) ==
    /\ c \in pending
    /\ pc[c] \in Holding
    /\ Goto(c, "leaving")
    /\ pending' = pending \ {c}
    /\ UNCHANGED <<bufVars, chatVars, armed, lockQueue, replied, failed>>

\* A waiter gives up its place: a cancelled callback, or the turn of a
\* background task that is cancelled when its client disconnects.
GiveUp(t) ==
    /\ pc[t] = "waiting"
    /\ t \in Events => t \in pending
    /\ \E i \in 1..Len(lockQueue) :
         lockQueue[i] = t /\ lockQueue' = RemoveAt(lockQueue, i)
    /\ Depart(t)
    /\ failed' = (failed \/ t \notin pending)
    /\ UNCHANGED <<buffer, rendered, acked, gen, snap, replied>>

-----------------------------------------------------------------------------
CallbackStep(c) ==
    \/ EnterCallback(c) \/ EndCallbackStream(c) \/ Flush(c) \/ FinishCallback(c)
    \/ Interrupt(c)

UserStep(u) == EndUserStream(u) \/ FinishUser(u)

TurnStep(t) == Acquire(t) \/ Peek(t) \/ Leave(t)

Next ==
    \/ \E e \in Events : Record(e) \/ SkipCallback(e)
    \/ \E c \in Callbacks : CallbackStep(c)
    \/ \E u \in Users : EnterUser(u) \/ StreamToken(u) \/ UserStep(u)
    \/ \E t \in Turns : TurnStep(t) \/ Fail(t) \/ GiveUp(t)

Spec == Init /\ [][Next]_vars

(* Fairness: the loop runs every task that is ready, timers fire, and the  *)
(* awaits of a turn end: the backends bound every call of the model.       *)
(* Completions, users, disconnects and exceptions owe nothing.             *)
FairSpec ==
    /\ Spec
    /\ \A e \in Events : WF_vars(EnterCallback(e))
    /\ \A c \in Callbacks :
         /\ WF_vars(EndCallbackStream(c) \/ Flush(c) \/ FinishCallback(c))
         /\ WF_vars(Interrupt(c) \/ (c \in pending /\ GiveUp(c)))
    /\ \A u \in Users : WF_vars(UserStep(u))
    /\ \A t \in Turns : WF_vars(TurnStep(t))

-----------------------------------------------------------------------------
(* Properties.                                                             *)

\* Completions of one chat collapse: at most one debouncer is asleep, and it is
\* the registered one, which the next completion will find and re-arm; the
\* cleanup of a turn that is over never leaves one running untracked.
OneDebouncer ==
    \A e \in Events : pc[e] = "sleeping" => armed = {e}

\* A callback that a user turn has overtaken adds nothing to the chat once that
\* user turn has the lock, however long it waited or streamed before.
OvertakenIsSilent ==
    [][\A c \in Callbacks, u \in Users :
          /\ snap[c] < snap[u]
          /\ pc[u] \notin {"idle", "waiting"}
          => /\ c \in replied' => c \in replied
             /\ pc'[c] = "finishing" => pc[c] = "finishing"]_vars

\* A completion that may arm a callback is shown to the model in the end,
\* whatever re-arms its debouncer and whatever user turns and other callbacks
\* interfere, unless a turn failed or was skipped.
EveryEventRendered ==
    \A e \in Events \ AtCap : pc[e] # "idle" ~> e \in rendered \/ failed

\* The buffer is an inbox: under concurrent completions and turns no event is
\* removed that the model has not been shown.
Inbox == INSTANCE EventInbox
             WITH held <- {buffer[i] : i \in 1..Len(buffer)}, shown <- rendered
InboxKept == Inbox!InboxSpec

-----------------------------------------------------------------------------
(* What the source says of the turns and its runs refute.                  *)

\* schedule_dispatcher_callback: "this completion's ambient event is only acked
\* once a turn actually renders it".
AckedWereRendered == acked \subseteq rendered
=============================================================================
