---------------------------- MODULE PoolLifecycle ----------------------------
(***************************************************************************)
(* The registries of worker pools and event buses, over the lives of       *)
(* sessions and sockets.                                                   *)
(*                                                                         *)
(* ChatOrchestrator keeps one DeepWorkerPool per session, and the event    *)
(* bus registry one SessionEventBus.  Turns, direct card runs and jobs     *)
(* start the pool and emit on the bus; resets, the orphan cleanup of other *)
(* sessions' starts, the five-minute cleanup loop and the end of a job     *)
(* stop or recycle either.  Each step is the code between two awaits.      *)
(*                                                                         *)
(* A pool is reduced to what its registry sees: its bus, its socket, the *)
(* buses its listeners read, its workers and how far stop() has come.      *)
(* Clocks are left out: whatever waits for an age may happen at any time.  *)
(***************************************************************************)
EXTENDS Integers, FiniteSets

CONSTANTS
    Chats,      \* sessions of WebSocket clients
    Jobs,       \* sessions of scheduled jobs, whose socket is a _BroadcastWS
    Sockets,    \* WebSocket connections
    Headless,   \* the _BroadcastWS of a job
    Intents,    \* delegated tasks
    Of,         \* the session of an intent
    MaxPools,   \* bound: pools made in a behaviour
    MaxBuses    \* bound: buses made in a behaviour

Sessions == Chats \cup Jobs
Pools == 1..MaxPools
Buses == 1..MaxBuses
None == 0

ASSUME LifecycleAssumption ==
    /\ Chats \cap Jobs = {} /\ Sessions # {}
    /\ Headless \notin Sockets
    /\ Of \in [Intents -> Sessions]
    /\ MaxPools \in Nat /\ MaxBuses \in Nat

VARIABLES
    registry,   \* _worker_pools: the session's pool, if any
    busOf,      \* _buses: the session's bus, if any
    closed,     \* buses with _closed set
    buses,      \* how many buses have been made
    pools,      \* how many pools have been made
    owner,      \* the session a pool was made for
    bus,        \* a pool's _bus
    sock,       \* a pool's _ws
    phase,      \* how far a pool's life has come
    reads,      \* <<p, b>>: a listener of p consumes b
    remover,    \* pools whose stop() a stop_worker_pool awaits
    open,       \* the connections that are CONNECTED
    stage,      \* how far an intent has come
    place,      \* the bus it is emitted on, then the pool that runs it
    from,       \* the websocket of the turn that emits it
    bound,      \* bg_tasks: emissions the end of their connection cancels
    toStop,     \* to_stop of the cleanup pass under way
    awaited,    \* the pool whose stop that pass awaits
    disturbed   \* history: intents overtaken by the loss of a bus

busVars    == <<busOf, closed, buses>>
poolVars   == <<registry, pools, owner, bus, sock, phase, reads, remover>>
intentVars == <<stage, place, from, bound>>
cleanVars  == <<toStop, awaited>>
vars == <<busVars, poolVars, open, intentVars, cleanVars, disturbed>>

TypeOK ==
    /\ registry \in [Sessions -> Pools \cup {None}]
    /\ busOf \in [Sessions -> Buses \cup {None}]
    /\ buses \in 0..MaxBuses /\ pools \in 0..MaxPools
    /\ closed \in SUBSET Buses
    /\ owner \in [Pools -> Sessions]
    /\ bus \in [Pools -> Buses \cup {None}]
    /\ sock \in [Pools -> Sockets \cup {Headless}]
    /\ phase \in [Pools -> {"unborn", "live", "doomed", "stopping",
                            "clearing", "stopped"}]
    /\ reads \in SUBSET (Pools \X Buses)
    /\ remover \in SUBSET Pools
    /\ open \in SUBSET Sockets
    /\ stage \in [Intents -> {"new", "turn", "noticing", "emitting", "queued",
                            "running", "over"}]
    /\ place \in [Intents -> Nat]
    /\ from \in [Intents -> Sockets \cup {Headless}]
    /\ bound \in SUBSET Intents
    /\ toStop \in SUBSET Sessions
    /\ awaited \in Pools \cup {None}
    /\ disturbed \in SUBSET Intents

Init ==
    /\ registry = [s \in Sessions |-> None]
    /\ busOf = [s \in Sessions |-> None]
    /\ closed = {} /\ buses = 0 /\ pools = 0
    /\ owner = [p \in Pools |-> CHOOSE s \in Sessions : TRUE]
    /\ bus = [p \in Pools |-> None]
    /\ sock = [p \in Pools |-> Headless]
    /\ phase = [p \in Pools |-> "unborn"]
    /\ reads = {} /\ remover = {}
    /\ open = {}
    /\ stage = [i \in Intents |-> "new"]
    /\ place = [i \in Intents |-> None]
    /\ from = [i \in Intents |-> Headless]
    /\ bound = {}
    /\ toStop = {} /\ awaited = None
    /\ disturbed = {}

-----------------------------------------------------------------------------
(* State formulae.                                                         *)

Workers(p) == {i \in Intents : stage[i] = "running" /\ place[i] = p}
Registered == {s \in Sessions : registry[s] # None}
QueuedOn(b) == {i \in Intents : stage[i] = "queued" /\ place[i] = b}
InFlight(s) == {i \in Intents : Of[i] = s /\ stage[i] \in {"noticing", "emitting", "queued"}}

(* client_state of a _BroadcastWS is read with a default of CONNECTED.     *)
Dead(w) == w \in Sockets \ open

(* A stop_worker_pool of the session has not yet removed its bus.          *)
Closing(s) == \E p \in remover : owner[p] = s

(* Mutant of Removed: remove closes what it has popped without looking.    *)
RemovedUnchecked(ss) == {busOf[s] : s \in ss}

(* Mutant of Removed: remove pops the bus and leaves it open.              *)
RemovedOpen(ss) == {}

(* EventBusRegistry.remove for the sessions ss: pop and close.             *)
Removed(ss) == {busOf[s] : s \in ss} \ {None}

Disturb(s) == disturbed' = disturbed \cup InFlight(s)

RemoveBus(s) ==
    /\ busOf' = [busOf EXCEPT ![s] = None]
    /\ closed' = closed \cup Removed({s})
    /\ Disturb(s)
    /\ UNCHANGED buses

(* EventBusRegistry.get_or_create: the bus it returns.                     *)
BusFor(s) == IF busOf[s] = None THEN buses + 1 ELSE busOf[s]
CanFetch(s) == busOf[s] = None => buses < MaxBuses

GetOrCreate(s) ==
    /\ busOf' = [busOf EXCEPT ![s] = BusFor(s)]
    /\ buses' = IF busOf[s] = None THEN buses + 1 ELSE buses

-----------------------------------------------------------------------------
(* start_worker_pool.                                                      *)

Orphans(s) ==
    {r \in Sessions \ {s} : registry[r] # None /\ Dead(sock[registry[r]])}

(* Mutant of Listening: a pool that has run before gets no new listener.   *)
ListeningOnce(p, b) == IF phase[p] = "live" THEN {} ELSE {<<p, b>>}

(* The listener start() or update_websocket() leaves pool p with: a new    *)
(* one if its bus has changed or its listener is over.                     *)
Listening(p, b) == {<<p, b>>}

(* What start_worker_pool(s, w) does to the registries, atomically.  The   *)
(* pools of orphans are popped, their stop() is scheduled as a task and    *)
(* their buses are removed; the session's own pool gets socket and bus.    *)
Start(s, w) ==
    LET lost == Orphans(s)
        b == BusFor(s)
        fresh == registry[s] = None
        p == IF fresh THEN pools + 1 ELSE registry[s]
    IN  /\ CanFetch(s)
        /\ fresh => pools < MaxPools
        /\ registry' = [r \in Sessions |-> IF r = s THEN p
                                           ELSE IF r \in lost THEN None
                                           ELSE registry[r]]
        /\ phase' = [q \in Pools |-> IF q = p THEN "live"
                                     ELSE IF \E r \in lost : registry[r] = q
                                          THEN "doomed" ELSE phase[q]]
        /\ busOf' = [r \in Sessions |-> IF r = s THEN b
                                        ELSE IF r \in lost THEN None
                                        ELSE busOf[r]]
        /\ buses' = IF busOf[s] = None THEN buses + 1 ELSE buses
        /\ closed' = closed \cup Removed(lost)
        /\ pools' = IF fresh THEN pools + 1 ELSE pools
        /\ owner' = [owner EXCEPT ![p] = s]
        /\ sock' = [sock EXCEPT ![p] = w]
        /\ bus' = [bus EXCEPT ![p] = b]
        /\ reads' = reads \cup Listening(p, b)
        /\ UNCHANGED remover

(* The in-flight intents a start disturbs: those of orphans, and its own   *)
(* when the bus it was given is about to be removed.                       *)
StartDisturbs(s, i) ==
    disturbed' = disturbed \cup (UNION {InFlight(r) : r \in Orphans(s)})
                    \cup (IF Closing(s) THEN {i} ELSE {})

-----------------------------------------------------------------------------
(* Clients.                                                                *)

(* A new connection.  It may take the name of an old one that neither a    *)
(* registered pool nor a turn refers to any more.                          *)
Connect(w) ==
    /\ w \notin open
    /\ \A s \in Registered : sock[registry[s]] # w
    /\ \A i \in Intents : from[i] # w
    /\ open' = open \cup {w}
    /\ UNCHANGED <<busVars, poolVars, intentVars, cleanVars, disturbed>>

(* The endpoint's finally cancels the background tasks of its turns, but   *)
(* not an emission that has begun: it is shielded.                         *)
Disconnect(w) ==
    LET lost == {i \in bound : from[i] = w} IN
    /\ w \in open
    /\ open' = open \ {w}
    /\ stage' = [i \in Intents |-> IF i \in lost THEN "over" ELSE stage[i]]
    /\ from' = [i \in Intents |-> IF i \in lost THEN Headless ELSE from[i]]
    /\ bound' = bound \ lost
    /\ UNCHANGED <<busVars, poolVars, place, cleanVars, disturbed>>

(* session:sync: update_pool_websocket.                                    *)
Sync(w, s) ==
    /\ w \in open /\ s \in Chats
    /\ sock' = IF registry[s] = None THEN sock
               ELSE [sock EXCEPT ![registry[s]] = w]
    /\ UNCHANGED <<busVars, registry, pools, owner, bus, phase, reads, remover,
                   open, intentVars, cleanVars, disturbed>>

-----------------------------------------------------------------------------
(* Intents.                                                                *)

(* A turn has begun that will delegate i.  A client's turn is handed its   *)
(* socket, and its background tasks are cancelled with it; a callback turn *)
(* is handed the socket the pool has, and a job's turn a _BroadcastWS.     *)
BeginTurn(i, w) ==
    /\ stage[i] = "new"
    /\ \/ /\ Of[i] \in Chats
          /\ w \in open
          /\ bound' = bound \cup {i}
       \/ /\ Of[i] \in Jobs /\ w = Headless
          /\ UNCHANGED bound
       \/ /\ registry[Of[i]] # None
          /\ w = sock[registry[Of[i]]] /\ ~Dead(w)
          /\ UNCHANGED bound
    /\ stage' = [stage EXCEPT ![i] = "turn"]
    /\ from' = [from EXCEPT ![i] = w]
    /\ UNCHANGED <<busVars, poolVars, open, place, cleanVars, disturbed>>

(* _emit_native_delegates up to its next await: start the pool, then fetch *)
(* the bus, unless delegates were skipped as duplicates of a running       *)
(* worker: their notice is awaited first.                                  *)
Delegate(i) ==
    /\ stage[i] = "turn"
    /\ Start(Of[i], from[i])
    /\ StartDisturbs(Of[i], i)
    /\ \/ /\ stage' = [stage EXCEPT ![i] = "emitting"]
          /\ place' = [place EXCEPT ![i] = BusFor(Of[i])]
          /\ from' = [from EXCEPT ![i] = Headless]
          /\ bound' = bound \ {i}
       \/ /\ stage' = [stage EXCEPT ![i] = "noticing"]
          /\ UNCHANGED <<place, from, bound>>
    /\ UNCHANGED <<open, cleanVars>>

FetchBus(i) ==
    /\ stage[i] = "noticing"
    /\ CanFetch(Of[i]) /\ GetOrCreate(Of[i])
    /\ stage' = [stage EXCEPT ![i] = "emitting"]
    /\ place' = [place EXCEPT ![i] = BusFor(Of[i])]
    /\ from' = [from EXCEPT ![i] = Headless]
    /\ bound' = bound \ {i}
    /\ UNCHANGED <<closed, poolVars, open, cleanVars, disturbed>>

(* SessionEventBus.emit: an emit on a closed bus is dropped.               *)
Arrives(i, b) ==
    /\ stage' = [stage EXCEPT ![i] = IF b \in closed THEN "over" ELSE "queued"]
    /\ place' = [place EXCEPT ![i] = IF b \in closed THEN None ELSE b]

Emit(i) ==
    /\ stage[i] = "emitting"
    /\ Arrives(i, place[i])
    /\ disturbed' = IF place[i] \in closed THEN disturbed \ {i} ELSE disturbed
    /\ UNCHANGED <<busVars, poolVars, open, from, bound, cleanVars>>

(* card:execute: start, get_or_create and emit, with no await between.     *)
ExecuteCard(i, w) ==
    /\ stage[i] = "new"
    /\ Of[i] \in Chats /\ w \in open
    /\ Start(Of[i], w)
    /\ StartDisturbs(Of[i], i)
    /\ Arrives(i, BusFor(Of[i]))
    /\ UNCHANGED <<open, from, bound, cleanVars>>

(* A listener takes an event and spawns its worker.  It may have waited    *)
(* for the pool's semaphore in between.                                    *)
Take(i) ==
    /\ stage[i] = "queued"
    /\ \E p \in Pools :
        /\ <<p, place[i]>> \in reads
        /\ stage' = [stage EXCEPT ![i] = "running"]
        /\ place' = [place EXCEPT ![i] = p]
    /\ UNCHANGED <<busVars, poolVars, open, from, bound, cleanVars, disturbed>>

(* The listener of a closed bus has reached the poison.                    *)
ListenerEnds(p, b) ==
    /\ <<p, b>> \in reads
    /\ b \in closed /\ QueuedOn(b) = {}
    /\ reads' = reads \ {<<p, b>>}
    /\ UNCHANGED <<busVars, registry, pools, owner, bus, sock, phase, remover,
                   open, intentVars, cleanVars, disturbed>>

Finish(i) ==
    /\ stage[i] = "running"
    /\ stage' = [stage EXCEPT ![i] = "over"]
    /\ place' = [place EXCEPT ![i] = None]
    /\ disturbed' = disturbed \ {i}
    /\ UNCHANGED <<busVars, poolVars, open, from, bound, cleanVars>>

-----------------------------------------------------------------------------
(* Stopping.                                                               *)

(* DeepWorkerPool.stop up to its first await: the flag, the bus and the    *)
(* listener, which is cancelled and takes nothing any more.                *)
Halt(p) ==
    /\ phase' = [phase EXCEPT ![p] = "stopping"]
    /\ reads' = reads \ {<<p, bus[p]>>}

(* Mutant of StopWorkerPool: the bus is closed only when stop() is over,   *)
(* and the listener ends with it.                                          *)
StopWorkerPoolLate(s) ==
    LET p == registry[s] IN
    IF p = None
    THEN RemoveBus(s) /\ UNCHANGED poolVars
    ELSE /\ registry' = [registry EXCEPT ![s] = None]
         /\ phase' = [phase EXCEPT ![p] = "stopping"]
         /\ remover' = remover \cup {p}
         /\ Disturb(s)
         /\ UNCHANGED <<busVars, pools, owner, bus, sock, reads>>

(* Mutant of StopWorkerPool: the entry is popped when stop() is over.      *)
StopWorkerPoolKept(s) ==
    LET p == registry[s] IN
    IF p = None
    THEN RemoveBus(s) /\ UNCHANGED poolVars
    ELSE /\ Halt(p)
         /\ remover' = remover \cup {p}
         /\ closed' = closed \cup {bus[p]}
         /\ Disturb(s)
         /\ UNCHANGED <<busOf, buses, registry, pools, owner, bus, sock>>

(* stop_worker_pool up to its first await.  Without a pool it only removes *)
(* the bus.                                                                *)
StopWorkerPool(s) ==
    LET p == registry[s] IN
    IF p = None
    THEN RemoveBus(s) /\ UNCHANGED poolVars
    ELSE /\ registry' = [registry EXCEPT ![s] = None]
         /\ Halt(p)
         /\ remover' = remover \cup {p}
         /\ closed' = closed \cup {bus[p]}
         /\ Disturb(s)
         /\ UNCHANGED <<busOf, buses, pools, owner, bus, sock>>

(* The task start_worker_pool made for an orphan's stop() runs.            *)
StopOrphan(p) ==
    /\ phase[p] = "doomed"
    /\ Halt(p)
    /\ closed' = closed \cup {bus[p]}
    /\ UNCHANGED <<busOf, buses, registry, pools, owner, bus, sock, remover,
                   open, intentVars, cleanVars, disturbed>>

(* Mutant of ClearWorkers: stop() leaves the active tasks alone.           *)
ClearNothing(p) ==
    /\ phase[p] = "stopping"
    /\ phase' = [phase EXCEPT ![p] = "clearing"]
    /\ UNCHANGED <<busVars, registry, pools, owner, bus, sock, reads, remover,
                   open, intentVars, cleanVars, disturbed>>

(* stop() after its sleep: every active task is cancelled.                 *)
ClearWorkers(p) ==
    /\ phase[p] = "stopping"
    /\ phase' = [phase EXCEPT ![p] = "clearing"]
    /\ stage' = [i \in Intents |-> IF i \in Workers(p) THEN "over" ELSE stage[i]]
    /\ place' = [i \in Intents |-> IF i \in Workers(p) THEN None ELSE place[i]]
    /\ disturbed' = disturbed \ Workers(p)
    /\ UNCHANGED <<busVars, registry, pools, owner, bus, sock, reads, remover,
                   open, from, bound, cleanVars>>

(* stop() returns after its database writes.  A stop_worker_pool that      *)
(* awaits it removes whatever bus its session has by now.  Nobody refers   *)
(* to the pool any more.                                                   *)
StopReturns(p) ==
    /\ phase[p] = "clearing"
    /\ phase' = [phase EXCEPT ![p] = "stopped"]
    /\ remover' = remover \ {p}
    /\ sock' = [sock EXCEPT ![p] = Headless]
    /\ bus' = [bus EXCEPT ![p] = None]
    /\ awaited' = IF awaited = p THEN None ELSE awaited
    /\ IF p \in remover
       THEN RemoveBus(owner[p])
       ELSE UNCHANGED <<busVars, disturbed>>
    /\ UNCHANGED <<registry, pools, owner, reads, open, intentVars, toStop>>

(* session:reset: stop_worker_pool if the connection has used the session, *)
(* which active_session_ids knows, then reset_session, which only removes  *)
(* the bus.  Either may happen on a connection the session is reset on.    *)
Reset(w, s) ==
    /\ w \in open /\ s \in Chats
    /\ \/ StopWorkerPool(s)
       \/ RemoveBus(s) /\ UNCHANGED poolVars
    /\ UNCHANGED <<open, intentVars, cleanVars>>

(* _cleanup_job_session, when a run's own turns are over and the workers   *)
(* have drained, or the drain has reached its deadline: reset_session and  *)
(* then stop_worker_pool.  Turns of another run of the job, and callback   *)
(* turns of the session, may be under way.                                 *)
EndJob(s) ==
    LET p == registry[s] IN
    /\ s \in Jobs /\ p # None
    /\ busOf' = [busOf EXCEPT ![s] = None]
    /\ closed' = closed \cup Removed({s}) \cup {bus[p]}
    /\ registry' = [registry EXCEPT ![s] = None]
    /\ Halt(p)
    /\ remover' = remover \cup {p}
    /\ Disturb(s)
    /\ UNCHANGED <<buses, pools, owner, bus, sock, open, intentVars, cleanVars>>

(* Without a pool, only a bus that was fetched meanwhile is removed.       *)
EndJobWithoutPool(s) ==
    /\ s \in Jobs /\ registry[s] = None /\ busOf[s] # None
    /\ RemoveBus(s)
    /\ UNCHANGED <<poolVars, open, intentVars, cleanVars>>

-----------------------------------------------------------------------------
(* The five-minute cleanup loop.                                           *)

(* cleanup_idle: a bus without a recent emit and with nothing queued.      *)
ExpireBus(s) ==
    /\ busOf[s] # None /\ QueuedOn(busOf[s]) = {}
    /\ RemoveBus(s)
    /\ UNCHANGED <<poolVars, open, intentVars, cleanVars>>

(* The pass reads client_state of every pool's socket; a _BroadcastWS has  *)
(* none, and the AttributeError ends the pass.                             *)
Readable == \A s \in Registered : sock[registry[s]] # Headless
IdlePool(s) == Workers(registry[s]) = {} /\ Dead(sock[registry[s]])

(* One pass over the pools up to its first stop: which of the idle ones    *)
(* have been so for IDLE_POOL_TIMEOUT is left open.                        *)
Scan ==
    /\ awaited = None /\ toStop = {} /\ Readable
    /\ toStop' \in (SUBSET {s \in Registered : IdlePool(s)}) \ {{}}
    /\ UNCHANGED <<awaited, busVars, poolVars, open, intentVars, disturbed>>

(* The pass awaits stop_worker_pool for one session after the other.       *)
StopIdle(s) ==
    /\ s \in toStop /\ awaited = None
    /\ awaited' = registry[s]
    /\ toStop' = toStop \ {s}
    /\ StopWorkerPool(s)
    /\ UNCHANGED <<open, intentVars>>

-----------------------------------------------------------------------------
Next ==
    \/ \E w \in Sockets : Connect(w) \/ Disconnect(w)
    \/ \E w \in Sockets, s \in Sessions : Sync(w, s) \/ Reset(w, s)
    \/ \E i \in Intents, w \in Sockets \cup {Headless} : BeginTurn(i, w)
    \/ \E i \in Intents, w \in Sockets : ExecuteCard(i, w)
    \/ \E i \in Intents : Delegate(i) \/ FetchBus(i) \/ Emit(i) \/ Take(i) \/ Finish(i)
    \/ \E p \in Pools, b \in Buses : ListenerEnds(p, b)
    \/ \E p \in Pools : StopOrphan(p) \/ ClearWorkers(p) \/ StopReturns(p)
    \/ \E s \in Sessions : EndJob(s) \/ EndJobWithoutPool(s) \/ ExpireBus(s) \/ StopIdle(s)
    \/ Scan

Spec == Init /\ [][Next]_vars

-----------------------------------------------------------------------------
(* Properties.                                                             *)

(* A bus that is open can be found: whoever removes one closes it in the   *)
(* same step, so no emitter holds an open bus that no future listener can  *)
(* be given (event_bus.py, remove and cleanup_idle).                       *)
OpenBusRegistered ==
    \A b \in 1..buses : b \notin closed => \E s \in Sessions : busOf[s] = b

(* An open bus has one listener at most, and it belongs to the pool        *)
(* registered for the bus's session: a pool on its way out never competes  *)
(* with its successor for an intent.                                       *)
OneListener ==
    \A s \in Sessions, p \in Pools :
        (busOf[s] \notin closed /\ <<p, busOf[s]>> \in reads) => registry[s] = p

(* An intent is on a bus its session's pool listens to, from the moment    *)
(* the bus was fetched, unless a reset, an expiry, an orphan cleanup or a  *)
(* stop took the bus away since.                                           *)
Heard ==
    \A i \in Intents \ disturbed :
        stage[i] \in {"emitting", "queued"} =>
            /\ place[i] \notin closed
            /\ <<registry[Of[i]], place[i]>> \in reads

(* A worker that runs can be reached: its pool is registered, or is being  *)
(* stopped and has not yet cancelled its workers.  Only an intent that was *)
(* still queued when its bus was taken away can be spawned by a listener   *)
(* stop() does not know, because the pool was given a new one since.       *)
WorkersReachable ==
    \A i \in Intents \ disturbed : stage[i] = "running" =>
        \/ registry[Of[i]] = place[i]
        \/ phase[place[i]] \in {"doomed", "stopping"}

(* A pool that is registered runs, for the session it is registered for:   *)
(* stop() ends workers only in a pool that was unregistered before, so no  *)
(* later intent reaches a dead one (chat_orchestration.py:490).            *)
RegisteredAlive ==
    \A s \in Sessions : registry[s] # None =>
        phase[registry[s]] = "live" /\ owner[registry[s]] = s
=============================================================================
