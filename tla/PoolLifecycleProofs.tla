------------------------ MODULE PoolLifecycleProofs ------------------------
(***************************************************************************)
(* Theorems about PoolLifecycle, for any number of sessions, sockets and   *)
(* intents, and any number of pools and buses made in a behaviour.         *)
(***************************************************************************)
EXTENDS PoolLifecycle, TLAPS

-----------------------------------------------------------------------------
(* The inductive invariant of the registries.                              *)

(* Pools are made one after the other, and only a pool whose stop() is     *)
(* under way has somebody who will remove its session's bus.               *)
RegInv ==
    /\ RegisteredAlive
    /\ \A s \in Sessions : registry[s] <= pools
    /\ \A p \in Pools : p > pools => phase[p] = "unborn"
    /\ \A p \in remover : phase[p] \in {"stopping", "clearing"}

(* A bus serves one session for good: no two sessions share one, and a     *)
(* pool's bus is nobody's but its owner's.  An orphan's bus is closed      *)
(* before its stop() begins.                                               *)
BusInv ==
    /\ \A s \in Sessions : busOf[s] <= buses
    /\ closed \subseteq 1..buses
    /\ \A s, r \in Sessions : busOf[s] # None /\ busOf[s] = busOf[r] => s = r
    /\ OpenBusRegistered
    /\ \A p \in Pools :
          /\ phase[p] \in {"unborn", "stopped"} => bus[p] = None
          /\ phase[p] \in {"live", "doomed", "stopping", "clearing"} =>
                bus[p] \in 1..buses
          /\ phase[p] = "doomed" => bus[p] \in closed
    /\ \A p \in Pools, s \in Sessions :
          bus[p] # None /\ bus[p] = busOf[s] => owner[p] = s

(* A pool reads one open bus at most, the one it knows as its own: what    *)
(* stop() cancels is the only listener that could still take an intent.    *)
ReadInv ==
    /\ \A p \in Pools, b \in Buses : <<p, b>> \in reads =>
          b <= buses /\ (b \notin closed => b = bus[p])
    /\ OneListener

(* Only a session whose bus is about to be removed has a closed one.       *)
ClosingInv == \A s \in Sessions : busOf[s] \in closed => Closing(s)

RegistryInv == RegInv /\ BusInv /\ ReadInv /\ ClosingInv

-----------------------------------------------------------------------------
(* The steps, by what they do to the registries.                           *)

regVars == <<registry, busOf, closed, buses, pools, owner, bus, phase, reads,
             remover>>

Fetched(s) ==
    /\ CanFetch(s) /\ GetOrCreate(s)
    /\ UNCHANGED <<closed, registry, pools, owner, bus, phase, reads, remover>>

BusRemoved(s) ==
    /\ busOf' = [busOf EXCEPT ![s] = None]
    /\ closed' = closed \cup Removed({s})
    /\ UNCHANGED <<buses, registry, pools, owner, bus, phase, reads, remover>>

PoolStopped(s) ==
    /\ registry[s] # None
    /\ registry' = [registry EXCEPT ![s] = None]
    /\ Halt(registry[s])
    /\ remover' = remover \cup {registry[s]}
    /\ \/ /\ closed' = closed \cup {bus[registry[s]]}
          /\ UNCHANGED busOf
       \/ /\ closed' = closed \cup Removed({s}) \cup {bus[registry[s]]}
          /\ busOf' = [busOf EXCEPT ![s] = None]
    /\ UNCHANGED <<buses, pools, owner, bus>>

OrphanStopped(p) ==
    /\ phase[p] = "doomed"
    /\ Halt(p)
    /\ closed' = closed \cup {bus[p]}
    /\ UNCHANGED <<registry, busOf, buses, pools, owner, bus, remover>>

PoolCleared(p) ==
    /\ phase[p] = "stopping"
    /\ phase' = [phase EXCEPT ![p] = "clearing"]
    /\ UNCHANGED <<registry, busOf, closed, buses, pools, owner, bus, reads,
                   remover>>

LEMMA StopIsOneOf ==
    ASSUME NEW s \in Sessions, StopWorkerPool(s)
    PROVE  BusRemoved(s) \/ PoolStopped(s)
  <1>1. CASE registry[s] = None
    BY <1>1 DEF StopWorkerPool, RemoveBus, Disturb, BusRemoved, poolVars
  <1>2. CASE registry[s] # None
    BY <1>2 DEF StopWorkerPool, Disturb, PoolStopped
  <1> QED BY <1>1, <1>2

LEMMA RegistrySteps ==
    ASSUME TypeOK, [Next]_vars
    PROVE  \/ \E s \in Sessions, w \in Sockets \cup {Headless} : Start(s, w)
           \/ \E s \in Sessions : Fetched(s) \/ BusRemoved(s) \/ PoolStopped(s)
           \/ \E p \in Pools : OrphanStopped(p) \/ PoolCleared(p) \/ StopReturns(p)
           \/ \E p \in Pools, b \in Buses : ListenerEnds(p, b)
           \/ UNCHANGED regVars
  <1> DEFINE Goal == \/ \E s \in Sessions, w \in Sockets \cup {Headless} : Start(s, w)
                     \/ \E s \in Sessions : Fetched(s) \/ BusRemoved(s) \/ PoolStopped(s)
                     \/ \E p \in Pools : OrphanStopped(p) \/ PoolCleared(p) \/ StopReturns(p)
                     \/ \E p \in Pools, b \in Buses : ListenerEnds(p, b)
                     \/ UNCHANGED regVars
  <1>0. \A i \in Intents : Of[i] \in Sessions /\ from[i] \in Sockets \cup {Headless}
    BY LifecycleAssumption DEF TypeOK
  <1>1. ASSUME NEW i \in Intents, NEW w \in Sockets, ExecuteCard(i, w) PROVE Goal
    <2>1. Start(Of[i], w) BY <1>1 DEF ExecuteCard
    <2> QED BY <1>0, <2>1
  <1>2. ASSUME NEW i \in Intents, Delegate(i) PROVE Goal
    <2>1. Start(Of[i], from[i]) BY <1>2 DEF Delegate
    <2> QED BY <1>0, <2>1
  <1>3. ASSUME NEW i \in Intents, FetchBus(i) PROVE Goal
    <2>1. Fetched(Of[i])
      BY <1>3 DEF FetchBus, Fetched, poolVars
    <2> QED BY <1>0, <2>1
  <1>4. ASSUME NEW s \in Sessions, NEW w \in Sockets, Reset(w, s) PROVE Goal
    <2>1. BusRemoved(s) \/ PoolStopped(s)
      BY <1>4, StopIsOneOf DEF Reset, RemoveBus, Disturb, BusRemoved, poolVars
    <2> QED BY <2>1
  <1>5. ASSUME NEW s \in Sessions, EndJobWithoutPool(s) \/ ExpireBus(s) \/ StopIdle(s)
        PROVE  Goal
    <2>1. BusRemoved(s) \/ PoolStopped(s)
      BY <1>5, StopIsOneOf
         DEF EndJobWithoutPool, ExpireBus, StopIdle, RemoveBus, Disturb, BusRemoved,
             poolVars
    <2> QED BY <2>1
  <1>6. ASSUME NEW s \in Sessions, EndJob(s) PROVE Goal
    <2>1. PoolStopped(s)
      BY <1>6 DEF EndJob, Disturb, PoolStopped
    <2> QED BY <2>1
  <1>7. ASSUME NEW p \in Pools, StopOrphan(p) \/ ClearWorkers(p) \/ StopReturns(p)
        PROVE  Goal
    <2>1. OrphanStopped(p) \/ PoolCleared(p) \/ StopReturns(p)
      BY <1>7 DEF StopOrphan, ClearWorkers, OrphanStopped, PoolCleared, busVars
    <2> QED BY <2>1
  <1>8. ASSUME \/ \E w \in Sockets : Connect(w) \/ Disconnect(w)
               \/ \E w \in Sockets, s \in Sessions : Sync(w, s)
               \/ \E i \in Intents, w \in Sockets \cup {Headless} : BeginTurn(i, w)
               \/ \E i \in Intents : Emit(i) \/ Take(i) \/ Finish(i)
               \/ Scan \/ UNCHANGED vars
        PROVE  UNCHANGED regVars
    BY <1>8 DEF Connect, Disconnect, Sync, BeginTurn, Emit, Take, Finish, Scan, vars,
                busVars, poolVars, regVars
  <1> HIDE DEF Goal
  <1>9. Goal
    BY <1>1, <1>2, <1>3, <1>4, <1>5, <1>6, <1>7, <1>8 DEF Next, Goal
  <1> QED BY <1>9 DEF Goal

-----------------------------------------------------------------------------
(* Types.                                                                  *)

LEMMA TypeInit == Init => TypeOK
  BY LifecycleAssumption DEF Init, TypeOK, Sessions, Pools, Buses, None

(* The numbers a fetch and a start hand out are within their bounds.       *)
LEMMA BusForType ==
    ASSUME TypeOK, NEW s \in Sessions, CanFetch(s)
    PROVE  BusFor(s) \in Buses
  BY LifecycleAssumption DEF TypeOK, BusFor, CanFetch, Buses, None

LEMMA StartTypes ==
    ASSUME TypeOK, NEW s \in Sessions, NEW w \in Sockets \cup {Headless}, Start(s, w)
    PROVE  /\ registry' \in [Sessions -> Pools \cup {None}]
           /\ busOf' \in [Sessions -> Buses \cup {None}]
           /\ buses' \in 0..MaxBuses /\ pools' \in 0..MaxPools
           /\ closed' \in SUBSET Buses
           /\ owner' \in [Pools -> Sessions]
           /\ bus' \in [Pools -> Buses \cup {None}]
           /\ sock' \in [Pools -> Sockets \cup {Headless}]
           /\ phase' \in [Pools -> {"unborn", "live", "doomed", "stopping",
                                    "clearing", "stopped"}]
           /\ reads' \in SUBSET (Pools \X Buses)
           /\ remover' \in SUBSET Pools
  <1> DEFINE p == IF registry[s] = None THEN pools + 1 ELSE registry[s]
  <1>1. BusFor(s) \in Buses BY BusForType DEF Start
  <1>2. p \in Pools
    BY LifecycleAssumption DEF TypeOK, Start, Pools, None
  <1>3. Orphans(s) \subseteq Sessions BY DEF Orphans
  <1>4. Removed(Orphans(s)) \subseteq Buses BY <1>3 DEF TypeOK, Removed
  <1>5. buses' \in 0..MaxBuses /\ pools' \in 0..MaxPools
    BY LifecycleAssumption DEF TypeOK, Start, CanFetch
  <1>6. registry' \in [Sessions -> Pools \cup {None}]
    BY <1>2 DEF TypeOK, Start
  <1>7. busOf' \in [Sessions -> Buses \cup {None}]
    BY <1>1 DEF TypeOK, Start
  <1>8. phase' \in [Pools -> {"unborn", "live", "doomed", "stopping",
                              "clearing", "stopped"}]
    BY DEF TypeOK, Start
  <1>9. /\ owner' \in [Pools -> Sessions]
        /\ bus' \in [Pools -> Buses \cup {None}]
        /\ sock' \in [Pools -> Sockets \cup {Headless}]
    BY <1>1 DEF TypeOK, Start
  <1>10. closed' \in SUBSET Buses BY <1>4 DEF TypeOK, Start
  <1>11. reads' \in SUBSET (Pools \X Buses)
    BY <1>1, <1>2 DEF TypeOK, Start, Listening
  <1>12. remover' \in SUBSET Pools BY DEF TypeOK, Start
  <1> QED BY <1>5, <1>6, <1>7, <1>8, <1>9, <1>10, <1>11, <1>12

(* What the other steps of the registries do to their types.               *)
LEMMA RemoveTypes ==
    ASSUME TypeOK, NEW s \in Sessions, RemoveBus(s)
    PROVE  /\ busOf' \in [Sessions -> Buses \cup {None}]
           /\ buses' \in 0..MaxBuses /\ closed' \in SUBSET Buses
           /\ disturbed' \in SUBSET Intents
  BY DEF TypeOK, RemoveBus, Removed, Disturb, InFlight

LEMMA StopTypes ==
    ASSUME TypeOK, BusInv, RegInv, NEW s \in Sessions, StopWorkerPool(s)
    PROVE  /\ registry' \in [Sessions -> Pools \cup {None}]
           /\ busOf' \in [Sessions -> Buses \cup {None}]
           /\ buses' \in 0..MaxBuses /\ closed' \in SUBSET Buses
           /\ phase' \in [Pools -> {"unborn", "live", "doomed", "stopping",
                                    "clearing", "stopped"}]
           /\ reads' \in SUBSET (Pools \X Buses)
           /\ remover' \in SUBSET Pools
           /\ disturbed' \in SUBSET Intents
           /\ UNCHANGED <<pools, owner, bus, sock>>
  <1>1. CASE registry[s] = None
    BY <1>1, RemoveTypes DEF StopWorkerPool, poolVars, TypeOK
  <1>2. CASE registry[s] # None
    <2>1. registry[s] \in Pools /\ bus[registry[s]] \in 1..buses
      BY <1>2 DEF TypeOK, RegInv, RegisteredAlive, BusInv
    <2>2. bus[registry[s]] \in Buses BY <2>1, LifecycleAssumption DEF TypeOK, Buses
    <2> QED BY <1>2, <2>1, <2>2 DEF StopWorkerPool, Halt, Disturb, InFlight, TypeOK
  <1> QED BY <1>1, <1>2

LEMMA TypeNext ==
    ASSUME TypeOK, BusInv, RegInv, [Next]_vars
    PROVE  TypeOK'
  <1>0. \A i \in Intents : Of[i] \in Sessions /\ from[i] \in Sockets \cup {Headless}
    BY LifecycleAssumption DEF TypeOK
  <1>n. Buses \subseteq Nat /\ Pools \subseteq Nat
    BY LifecycleAssumption DEF Buses, Pools
  <1>d. \A s \in Sessions : InFlight(s) \subseteq Intents BY DEF InFlight
  <1>1. ASSUME NEW w \in Sockets, Connect(w) \/ Disconnect(w) PROVE TypeOK'
    <2>1. CASE Connect(w)
      BY <2>1 DEF TypeOK, Connect, busVars, poolVars, intentVars, cleanVars
    <2>2. CASE Disconnect(w)
      BY <2>2 DEF TypeOK, Disconnect, busVars, poolVars, cleanVars
    <2> QED BY <1>1, <2>1, <2>2
  <1>2. ASSUME NEW w \in Sockets, NEW s \in Sessions, Sync(w, s) PROVE TypeOK'
    BY <1>2 DEF TypeOK, Sync, busVars, intentVars, cleanVars
  <1>3. ASSUME NEW w \in Sockets, NEW s \in Sessions, Reset(w, s) PROVE TypeOK'
    <2>1. CASE StopWorkerPool(s)
      BY <1>3, <2>1, StopTypes DEF TypeOK, Reset, intentVars, cleanVars
    <2>2. CASE RemoveBus(s) /\ UNCHANGED poolVars
      BY <1>3, <2>2, RemoveTypes DEF TypeOK, Reset, intentVars, cleanVars, poolVars
    <2> QED BY <1>3, <2>1, <2>2 DEF Reset
  <1>4. ASSUME NEW i \in Intents, NEW w \in Sockets \cup {Headless}, BeginTurn(i, w)
        PROVE  TypeOK'
    <2>1. bound' \in SUBSET Intents BY <1>4 DEF BeginTurn, TypeOK
    <2> QED BY <1>4, <2>1 DEF TypeOK, BeginTurn, busVars, poolVars, cleanVars
  <1>5. ASSUME NEW i \in Intents, NEW w \in Sockets, ExecuteCard(i, w) PROVE TypeOK'
    <2>0. CanFetch(Of[i]) BY <1>5 DEF ExecuteCard, Start
    <2>1. BusFor(Of[i]) \in Nat BY <1>0, <2>0, <1>n, BusForType
    <2>2. /\ stage' \in [Intents -> {"new", "turn", "noticing", "emitting", "queued",
                                    "running", "over"}]
          /\ place' \in [Intents -> Nat]
      BY <1>5, <2>1 DEF TypeOK, ExecuteCard, Arrives, None
    <2>3. disturbed' \in SUBSET Intents
      BY <1>5, <1>d DEF TypeOK, ExecuteCard, StartDisturbs, Orphans
    <2>4. Start(Of[i], w) BY <1>5 DEF ExecuteCard
    <2>5. UNCHANGED <<open, from, bound, toStop, awaited>>
      BY <1>5 DEF ExecuteCard, cleanVars
    <2> QED BY <1>0, <2>2, <2>3, <2>4, <2>5, StartTypes DEF TypeOK
  <1>6. ASSUME NEW i \in Intents, Delegate(i) PROVE TypeOK'
    <2>0. CanFetch(Of[i]) BY <1>6 DEF Delegate, Start
    <2>1. BusFor(Of[i]) \in Nat BY <1>0, <2>0, <1>n, BusForType
    <2>2. /\ stage' \in [Intents -> {"new", "turn", "noticing", "emitting", "queued",
                                    "running", "over"}]
          /\ place' \in [Intents -> Nat]
          /\ from' \in [Intents -> Sockets \cup {Headless}]
          /\ bound' \in SUBSET Intents
      BY <1>6, <2>1 DEF TypeOK, Delegate
    <2>3. disturbed' \in SUBSET Intents
      BY <1>6, <1>d DEF TypeOK, Delegate, StartDisturbs, Orphans
    <2>4. Start(Of[i], from[i]) BY <1>6 DEF Delegate
    <2>5. UNCHANGED <<open, toStop, awaited>>
      BY <1>6 DEF Delegate, cleanVars
    <2> QED BY <1>0, <2>2, <2>3, <2>4, <2>5, StartTypes DEF TypeOK
  <1>7. ASSUME NEW i \in Intents, FetchBus(i) PROVE TypeOK'
    <2>1. BusFor(Of[i]) \in Buses BY <1>0, <1>7, BusForType DEF FetchBus
    <2>0. CanFetch(Of[i]) /\ GetOrCreate(Of[i]) BY <1>7 DEF FetchBus
    <2>3. buses' \in 0..MaxBuses
      BY <2>0, LifecycleAssumption DEF TypeOK, CanFetch, GetOrCreate
    <2>2. buses' \in 0..MaxBuses /\ busOf' \in [Sessions -> Buses \cup {None}]
      BY <2>0, <2>3, <2>1 DEF TypeOK, GetOrCreate
    <2> QED BY <1>7, <1>n, <2>1, <2>2 DEF TypeOK, FetchBus, poolVars, cleanVars
  <1>8. ASSUME NEW i \in Intents, Emit(i) PROVE TypeOK'
    BY <1>8 DEF TypeOK, Emit, Arrives, busVars, poolVars, cleanVars, None
  <1>9. ASSUME NEW i \in Intents, Take(i) PROVE TypeOK'
    BY <1>9, <1>n DEF TypeOK, Take, busVars, poolVars, cleanVars
  <1>10. ASSUME NEW i \in Intents, Finish(i) PROVE TypeOK'
    BY <1>10 DEF TypeOK, Finish, busVars, poolVars, cleanVars, None
  <1>11. ASSUME NEW p \in Pools, NEW b \in Buses, ListenerEnds(p, b) PROVE TypeOK'
    BY <1>11 DEF TypeOK, ListenerEnds, busVars, intentVars, cleanVars
  <1>12. ASSUME NEW p \in Pools, StopOrphan(p) PROVE TypeOK'
    <2>1. bus[p] \in Buses
      BY <1>12, LifecycleAssumption DEF StopOrphan, BusInv, TypeOK, Buses
    <2> QED BY <1>12, <2>1 DEF TypeOK, StopOrphan, Halt, intentVars, cleanVars
  <1>13. ASSUME NEW p \in Pools, ClearWorkers(p) PROVE TypeOK'
    BY <1>13 DEF TypeOK, ClearWorkers, busVars, cleanVars, None
  <1>14. ASSUME NEW p \in Pools, StopReturns(p) PROVE TypeOK'
    <2>1. /\ busOf' \in [Sessions -> Buses \cup {None}]
          /\ buses' \in 0..MaxBuses /\ closed' \in SUBSET Buses
          /\ disturbed' \in SUBSET Intents
      <3>1. CASE p \in remover
        <4>1. RemoveBus(owner[p]) /\ owner[p] \in Sessions
          BY <1>14, <3>1 DEF StopReturns, TypeOK
        <4> QED BY <4>1, RemoveTypes
      <3>2. CASE p \notin remover
        BY <1>14, <3>2 DEF TypeOK, StopReturns, busVars
      <3> QED BY <3>1, <3>2
    <2> QED BY <1>14, <2>1 DEF TypeOK, StopReturns, intentVars, None
  <1>15. ASSUME NEW s \in Sessions, EndJob(s) PROVE TypeOK'
    <2>1. registry[s] \in Pools /\ bus[registry[s]] \in 1..buses
      BY <1>15 DEF EndJob, TypeOK, RegInv, RegisteredAlive, BusInv
    <2>2. bus[registry[s]] \in Buses BY <2>1, LifecycleAssumption DEF TypeOK, Buses
    <2>3. Removed({s}) \subseteq Buses BY DEF TypeOK, Removed
    <2>4. disturbed' \in SUBSET Intents
      BY <1>15, <1>d DEF TypeOK, EndJob, Disturb
    <2>5. closed' \in SUBSET Buses BY <1>15, <2>2, <2>3 DEF TypeOK, EndJob
    <2>6. /\ phase' \in [Pools -> {"unborn", "live", "doomed", "stopping",
                                  "clearing", "stopped"}]
          /\ reads' \in SUBSET (Pools \X Buses) /\ remover' \in SUBSET Pools
      BY <1>15, <2>1 DEF TypeOK, EndJob, Halt
    <2> QED BY <1>15, <2>4, <2>5, <2>6 DEF TypeOK, EndJob, intentVars, cleanVars
  <1>16. ASSUME NEW s \in Sessions, EndJobWithoutPool(s) \/ ExpireBus(s) PROVE TypeOK'
    <2>1. RemoveBus(s) /\ UNCHANGED <<poolVars, open, intentVars, cleanVars>>
      BY <1>16 DEF EndJobWithoutPool, ExpireBus
    <2> QED BY <2>1, RemoveTypes DEF TypeOK, poolVars, intentVars, cleanVars
  <1>17. ASSUME NEW s \in Sessions, StopIdle(s) PROVE TypeOK'
    <2>1. StopWorkerPool(s) /\ toStop' \in SUBSET Sessions
          /\ awaited' \in Pools \cup {None} /\ UNCHANGED <<open, intentVars>>
      BY <1>17 DEF StopIdle, TypeOK
    <2> QED BY <2>1, StopTypes DEF TypeOK, intentVars
  <1>18. ASSUME Scan PROVE TypeOK'
    <2>1. toStop' \in SUBSET Sessions BY <1>18 DEF Scan, Registered
    <2> QED BY <1>18, <2>1 DEF TypeOK, Scan, busVars, poolVars, intentVars
  <1>19. CASE UNCHANGED vars
    BY <1>19 DEF TypeOK, vars, busVars, poolVars, intentVars, cleanVars
  <1> QED
    BY <1>1, <1>2, <1>3, <1>4, <1>5, <1>6, <1>7, <1>8, <1>9, <1>10, <1>11,
       <1>12, <1>13, <1>14, <1>15, <1>16, <1>17, <1>18, <1>19 DEF Next

-----------------------------------------------------------------------------
(* The registries keep their invariant.                                    *)

LEMMA RegistryInit == Init => RegistryInv
  BY LifecycleAssumption DEF Init, RegistryInv, RegInv, RegisteredAlive, BusInv,
     OpenBusRegistered, ReadInv, OneListener, ClosingInv, Closing, Sessions, Pools,
     Buses, None

(* The only open bus a pool can read belongs to its own session, and the   *)
(* pool is registered for that session.                                    *)
LEMMA OpenReads ==
    ASSUME TypeOK, RegistryInv, NEW p \in Pools, NEW b \in Buses,
           <<p, b>> \in reads, b \notin closed
    PROVE  b = bus[p] /\ busOf[owner[p]] = b /\ registry[owner[p]] = p
  <1>1. b = bus[p] /\ b \in 1..buses
    BY LifecycleAssumption DEF RegistryInv, ReadInv, TypeOK, Buses
  <1>2. PICK s \in Sessions : busOf[s] = b
    BY <1>1 DEF RegistryInv, BusInv, OpenBusRegistered
  <1>3. b # None BY <1>1 DEF None
  <1>4. owner[p] = s BY <1>1, <1>2, <1>3 DEF RegistryInv, BusInv
  <1>5. registry[s] = p BY <1>2 DEF RegistryInv, ReadInv, OneListener
  <1> QED BY <1>1, <1>2, <1>4, <1>5

(* A pool that is registered is that of its owner only.                    *)
LEMMA OneRegistry ==
    ASSUME TypeOK, RegInv, NEW s \in Sessions, NEW r \in Sessions,
           registry[s] # None, registry[s] = registry[r]
    PROVE  s = r
  BY DEF RegInv, RegisteredAlive

(* Buses are numbered as they are made.                                    *)
LEMMA BusNumbers ==
    ASSUME TypeOK, RegistryInv
    PROVE  /\ buses \in Nat /\ pools \in Nat
           /\ \A s \in Sessions : busOf[s] \in 0..buses
           /\ closed \subseteq 1..buses /\ None \notin closed
           /\ \A s \in Sessions : busOf[s] # None => busOf[s] \in 1..buses
           /\ \A p \in Pools : bus[p] \in 0..buses
  <1>1. buses \in Nat /\ pools \in Nat BY LifecycleAssumption DEF TypeOK
  <1>2. \A s \in Sessions : busOf[s] \in 0..buses
    BY <1>1, LifecycleAssumption DEF TypeOK, RegistryInv, BusInv, Buses, None
  <1>3. closed \subseteq 1..buses BY DEF RegistryInv, BusInv
  <1>4. \A p \in Pools : bus[p] \in 0..buses
    BY <1>1 DEF TypeOK, RegistryInv, BusInv, None
  <1> QED BY <1>1, <1>2, <1>3, <1>4 DEF None

LEMMA FetchKeeps ==
    ASSUME TypeOK, RegistryInv, NEW s \in Sessions, Fetched(s)
    PROVE  RegistryInv'
  <1>1. CASE busOf[s] # None
    <2>1. busOf' = busOf /\ buses' = buses
      BY <1>1 DEF Fetched, GetOrCreate, BusFor, TypeOK
    <2> QED
      BY <2>1 DEF Fetched, RegistryInv, RegInv, RegisteredAlive, BusInv,
         OpenBusRegistered, ReadInv, OneListener, ClosingInv, Closing
  <1>2. CASE busOf[s] = None
    <2>0. buses \in Nat BY LifecycleAssumption DEF TypeOK
    <2>1. /\ busOf' = [busOf EXCEPT ![s] = buses + 1] /\ buses' = buses + 1
          /\ UNCHANGED <<closed, registry, pools, owner, bus, phase, reads, remover>>
      BY <1>2 DEF Fetched, GetOrCreate, BusFor
    <2>2. RegInv' /\ closed \subseteq 1..buses
      BY <2>1 DEF RegistryInv, RegInv, RegisteredAlive, BusInv
    <2>3. \A p \in Pools : bus[p] # buses + 1
      BY <2>0 DEF RegistryInv, BusInv, TypeOK, None
    <2>4. \A r \in Sessions : r # s => busOf'[r] = busOf[r]
      BY <2>1 DEF TypeOK
    <2>5. busOf'[s] = buses + 1 BY <2>1 DEF TypeOK
    <2>6. BusInv'
      <3>1. \A r \in Sessions : busOf'[r] <= buses'
        BY <2>1, <2>4, <2>5, BusNumbers
      <3>2. closed' \subseteq 1..buses' BY <2>0, <2>1, <2>2
      <3>3. \A t, r \in Sessions : busOf'[t] # None /\ busOf'[t] = busOf'[r] => t = r
        BY <2>0, <2>4, <2>5 DEF RegistryInv, BusInv, TypeOK, None
      <3>4. OpenBusRegistered'
        BY <2>0, <2>1, <2>4, <2>5, <1>2 DEF RegistryInv, BusInv, OpenBusRegistered, None
      <3>5. \A p \in Pools :
              /\ phase'[p] \in {"unborn", "stopped"} => bus'[p] = None
              /\ phase'[p] \in {"live", "doomed", "stopping", "clearing"} =>
                    bus'[p] \in 1..buses'
              /\ phase'[p] = "doomed" => bus'[p] \in closed'
        BY <2>0, <2>1 DEF RegistryInv, BusInv
      <3>6. \A p \in Pools, r \in Sessions :
              bus'[p] # None /\ bus'[p] = busOf'[r] => owner'[p] = r
        BY <2>1, <2>3, <2>4, <2>5 DEF RegistryInv, BusInv
      <3> QED BY <3>1, <3>2, <3>3, <3>4, <3>5, <3>6 DEF BusInv
    <2>7. ReadInv'
      <3>1. \A p \in Pools : <<p, buses + 1>> \notin reads
        BY <2>0 DEF RegistryInv, ReadInv, TypeOK
      <3>2. OneListener'
        BY <2>1, <2>4, <2>5, <3>1 DEF RegistryInv, ReadInv, OneListener
      <3>3. \A p \in Pools, b \in Buses : <<p, b>> \in reads' =>
              b <= buses' /\ (b \notin closed' => b = bus'[p])
        BY <2>0, <2>1, LifecycleAssumption DEF RegistryInv, ReadInv, Buses
      <3> QED BY <3>2, <3>3 DEF ReadInv
    <2>8. ClosingInv'
      BY <2>0, <2>1, <2>2, <2>4, <2>5 DEF RegistryInv, ClosingInv, Closing
    <2> QED BY <2>2, <2>6, <2>7, <2>8 DEF RegistryInv
  <1> QED BY <1>1, <1>2

LEMMA RemoveKeeps ==
    ASSUME TypeOK, RegistryInv, NEW s \in Sessions, BusRemoved(s)
    PROVE  RegistryInv'
  <1>1. /\ \A r \in Sessions : busOf'[r] = IF r = s THEN None ELSE busOf[r]
        /\ closed' = closed \cup Removed({s})
        /\ UNCHANGED <<buses, registry, pools, owner, bus, phase, reads, remover>>
    BY DEF BusRemoved, TypeOK
  <1>2. Removed({s}) = {busOf[s]} \ {None} BY DEF Removed
  <1>3. closed' \subseteq 1..buses /\ None \notin closed'
    BY <1>1, <1>2, BusNumbers DEF None
  <1>4. RegInv' BY <1>1 DEF RegistryInv, RegInv, RegisteredAlive
  <1>5. BusInv'
    <2>1. OpenBusRegistered'
      BY <1>1, <1>2 DEF RegistryInv, BusInv, OpenBusRegistered, None
    <2>2. \A r \in Sessions : busOf'[r] <= buses'
      BY <1>1, LifecycleAssumption DEF RegistryInv, BusInv, TypeOK, None
    <2>3. \A t, r \in Sessions : busOf'[t] # None /\ busOf'[t] = busOf'[r] => t = r
      BY <1>1 DEF RegistryInv, BusInv
    <2>4. \A p \in Pools :
            /\ phase'[p] \in {"unborn", "stopped"} => bus'[p] = None
            /\ phase'[p] \in {"live", "doomed", "stopping", "clearing"} =>
                  bus'[p] \in 1..buses'
            /\ phase'[p] = "doomed" => bus'[p] \in closed'
      BY <1>1 DEF RegistryInv, BusInv
    <2>5. \A p \in Pools, r \in Sessions :
            bus'[p] # None /\ bus'[p] = busOf'[r] => owner'[p] = r
      BY <1>1 DEF RegistryInv, BusInv
    <2> QED BY <1>1, <1>3, <2>1, <2>2, <2>3, <2>4, <2>5 DEF BusInv
  <1>6. ReadInv'
    <2>1. \A p \in Pools : <<p, None>> \notin reads
      BY DEF TypeOK, Buses, None
    <2>2. OneListener'
      BY <1>1, <2>1 DEF RegistryInv, ReadInv, OneListener
    <2> QED BY <1>1, <2>2 DEF RegistryInv, ReadInv
  <1>7. ClosingInv'
    BY <1>1, <1>2, <1>3 DEF RegistryInv, BusInv, ClosingInv, Closing
  <1> QED BY <1>4, <1>5, <1>6, <1>7 DEF RegistryInv

LEMMA PoolStopKeeps ==
    ASSUME TypeOK, RegistryInv, NEW s \in Sessions, PoolStopped(s)
    PROVE  RegistryInv'
  <1> DEFINE p == registry[s]
  <1>0. p \in Pools /\ phase[p] = "live" /\ owner[p] = s /\ bus[p] \in 1..buses
    BY DEF PoolStopped, TypeOK, RegistryInv, RegInv, RegisteredAlive, BusInv
  <1>a. /\ \A r \in Sessions : registry'[r] = IF r = s THEN None ELSE registry[r]
        /\ \A q \in Pools : phase'[q] = IF q = p THEN "stopping" ELSE phase[q]
        /\ reads' = reads \ {<<p, bus[p]>>}
        /\ remover' = remover \cup {p}
        /\ UNCHANGED <<buses, pools, owner, bus>>
    BY <1>0 DEF PoolStopped, Halt, TypeOK
  <1>b. \/ busOf' = busOf /\ closed' = closed \cup {bus[p]}
        \/ /\ closed' = closed \cup ({busOf[s]} \ {None}) \cup {bus[p]}
           /\ \A r \in Sessions : busOf'[r] = IF r = s THEN None ELSE busOf[r]
    BY DEF PoolStopped, Removed, TypeOK
  <1> HIDE DEF p
  <1>c. /\ \A r \in Sessions : busOf'[r] = busOf[r] \/ (r = s /\ busOf'[r] = None)
        /\ bus[p] \in closed' /\ closed \subseteq closed'
        /\ \A b \in closed' : b \in closed \/ b = bus[p] \/ (b = busOf[s] /\ busOf'[s] = None)
        /\ None \notin closed'
        /\ closed' \subseteq 1..buses
    <2>1. CASE busOf' = busOf /\ closed' = closed \cup {bus[p]}
      BY <1>0, <2>1, BusNumbers DEF None
    <2>2. CASE /\ closed' = closed \cup ({busOf[s]} \ {None}) \cup {bus[p]}
               /\ \A r \in Sessions : busOf'[r] = IF r = s THEN None ELSE busOf[r]
      BY <1>0, <2>2, BusNumbers DEF None
    <2> QED BY <1>b, <2>1, <2>2
  <1>d. \A r \in Sessions : r # s /\ registry[r] # None => registry[r] # p
    BY OneRegistry DEF RegistryInv, p
  <1>4. RegInv'
    <2>1. RegisteredAlive'
      BY <1>0, <1>a, <1>d DEF RegistryInv, RegInv, RegisteredAlive, TypeOK
    <2>2. \A q \in Pools : q > pools' => phase'[q] = "unborn"
      BY <1>0, <1>a DEF RegistryInv, RegInv
    <2>3. \A q \in remover' : phase'[q] \in {"stopping", "clearing"}
      BY <1>0, <1>a DEF RegistryInv, RegInv, TypeOK
    <2>4. \A r \in Sessions : registry'[r] <= pools'
      BY <1>a, LifecycleAssumption DEF RegistryInv, RegInv, None, TypeOK
    <2> QED BY <2>1, <2>2, <2>3, <2>4 DEF RegInv
  <1>5. BusInv'
    <2>1. OpenBusRegistered'
      <3> SUFFICES ASSUME NEW b \in 1..buses, b \notin closed'
                   PROVE  \E r \in Sessions : busOf'[r] = b
        BY <1>a DEF OpenBusRegistered
      <3>1. PICK r \in Sessions : busOf[r] = b
        BY <1>c DEF RegistryInv, BusInv, OpenBusRegistered
      <3>2. busOf'[r] = b
        BY <1>b, <1>c, <3>1 DEF None
      <3> QED BY <3>2
    <2>2. \A r \in Sessions : busOf'[r] <= buses'
      BY <1>a, <1>c, LifecycleAssumption DEF RegistryInv, BusInv, TypeOK, None
    <2>3. \A t, r \in Sessions : busOf'[t] # None /\ busOf'[t] = busOf'[r] => t = r
      BY <1>c DEF RegistryInv, BusInv
    <2>4. \A q \in Pools :
            /\ phase'[q] \in {"unborn", "stopped"} => bus'[q] = None
            /\ phase'[q] \in {"live", "doomed", "stopping", "clearing"} =>
                  bus'[q] \in 1..buses'
            /\ phase'[q] = "doomed" => bus'[q] \in closed'
      BY <1>0, <1>a, <1>c DEF RegistryInv, BusInv
    <2>5. \A q \in Pools, r \in Sessions :
            bus'[q] # None /\ bus'[q] = busOf'[r] => owner'[q] = r
      BY <1>a, <1>c DEF RegistryInv, BusInv
    <2> QED BY <1>a, <1>c, <2>1, <2>2, <2>3, <2>4, <2>5 DEF BusInv
  <1>6. ReadInv'
    <2>1. \A q \in Pools : <<q, None>> \notin reads
      BY DEF TypeOK, Buses, None
    <2>2. OneListener'
      <3> SUFFICES ASSUME NEW r \in Sessions, NEW q \in Pools,
                          busOf'[r] \notin closed', <<q, busOf'[r]>> \in reads'
                   PROVE  registry'[r] = q
        BY DEF OneListener
      <3>1. busOf'[r] = busOf[r] /\ busOf[r] \notin closed /\ busOf[r] \in Buses
        BY <1>a, <1>c, <2>1 DEF TypeOK
      <3>2. registry[r] = q /\ busOf[r] = bus[q]
        BY <1>a, <3>1 DEF RegistryInv, ReadInv, OneListener
      <3>3. q # p BY <1>c, <3>1, <3>2
      <3> QED BY <1>a, <3>2, <3>3 DEF p
    <2> QED BY <1>a, <1>c, <2>2 DEF RegistryInv, ReadInv
  <1>7. ClosingInv'
    <2>2. ASSUME NEW r \in Sessions, busOf'[r] \in closed' PROVE Closing(r)'
      <3>1. busOf'[r] = busOf[r] BY <1>c, <2>2
      <3>2. CASE busOf[r] \in closed
        BY <1>a, <3>2 DEF RegistryInv, ClosingInv, Closing
      <3>3. CASE busOf[r] = bus[p]
        <4>1. r = s BY <1>0, <3>3 DEF RegistryInv, BusInv, None
        <4> QED BY <1>0, <1>a, <4>1 DEF Closing
      <3>4. CASE busOf[r] = busOf[s] /\ busOf'[s] = None
        BY <1>c, <2>2, <3>1, <3>4 DEF RegistryInv, BusInv
      <3> QED BY <1>c, <2>2, <3>1, <3>2, <3>3, <3>4
    <2> QED BY <2>2 DEF ClosingInv, Closing
  <1> QED BY <1>4, <1>5, <1>6, <1>7 DEF RegistryInv

LEMMA OrphanStopKeeps ==
    ASSUME TypeOK, RegistryInv, NEW p \in Pools, OrphanStopped(p)
    PROVE  RegistryInv'
  <1>1. bus[p] \in closed /\ closed' = closed
    BY DEF OrphanStopped, RegistryInv, BusInv
  <1>2. /\ \A q \in Pools : phase'[q] = IF q = p THEN "stopping" ELSE phase[q]
        /\ phase[p] = "doomed" /\ reads' \subseteq reads
        /\ UNCHANGED <<registry, busOf, buses, pools, owner, bus, remover>>
    BY DEF OrphanStopped, Halt, TypeOK
  <1>3. RegInv'
    <2>1. RegisteredAlive'
      BY <1>2 DEF RegistryInv, RegInv, RegisteredAlive, TypeOK
    <2> QED BY <1>2, <2>1 DEF RegistryInv, RegInv, TypeOK
  <1>4. BusInv'
    BY <1>1, <1>2 DEF RegistryInv, BusInv, OpenBusRegistered
  <1>5. ReadInv' BY <1>1, <1>2 DEF RegistryInv, ReadInv, OneListener
  <1>6. ClosingInv' BY <1>1, <1>2 DEF RegistryInv, ClosingInv, Closing
  <1> QED BY <1>3, <1>4, <1>5, <1>6 DEF RegistryInv

LEMMA ClearKeeps ==
    ASSUME TypeOK, RegistryInv, NEW p \in Pools, PoolCleared(p)
    PROVE  RegistryInv'
  <1>1. /\ \A q \in Pools : phase'[q] = IF q = p THEN "clearing" ELSE phase[q]
        /\ phase[p] = "stopping"
        /\ UNCHANGED <<registry, busOf, closed, buses, pools, owner, bus, reads,
                       remover>>
    BY DEF PoolCleared, TypeOK
  <1>2. RegInv'
    <2>1. RegisteredAlive'
      BY <1>1 DEF RegistryInv, RegInv, RegisteredAlive, TypeOK
    <2> QED BY <1>1, <2>1 DEF RegistryInv, RegInv, TypeOK
  <1>3. BusInv' BY <1>1 DEF RegistryInv, BusInv, OpenBusRegistered
  <1>4. ReadInv' BY <1>1 DEF RegistryInv, ReadInv, OneListener
  <1>5. ClosingInv' BY <1>1 DEF RegistryInv, ClosingInv, Closing
  <1> QED BY <1>2, <1>3, <1>4, <1>5 DEF RegistryInv

LEMMA ListenerEndKeeps ==
    ASSUME TypeOK, RegistryInv, NEW p \in Pools, NEW b \in Buses, ListenerEnds(p, b)
    PROVE  RegistryInv'
  <1>1. /\ reads' \subseteq reads
        /\ UNCHANGED <<registry, busOf, closed, buses, pools, owner, bus, phase,
                       remover>>
    BY DEF ListenerEnds, busVars
  <1>2. RegInv' BY <1>1 DEF RegistryInv, RegInv, RegisteredAlive
  <1>3. BusInv' BY <1>1 DEF RegistryInv, BusInv, OpenBusRegistered
  <1>4. ReadInv' BY <1>1 DEF RegistryInv, ReadInv, OneListener
  <1>5. ClosingInv' BY <1>1 DEF RegistryInv, ClosingInv, Closing
  <1> QED BY <1>2, <1>3, <1>4, <1>5 DEF RegistryInv

(* What the registries lose when stop() returns.  The buses the pool still *)
(* reads are closed: were one open, the pool would be registered.          *)
LEMMA StopReturnKeeps ==
    ASSUME TypeOK, RegistryInv, NEW p \in Pools, StopReturns(p)
    PROVE  RegistryInv'
  <1> DEFINE s == owner[p]
  <1>0. s \in Sessions BY DEF TypeOK
  <1>1. /\ phase[p] = "clearing"
        /\ \A q \in Pools : phase'[q] = IF q = p THEN "stopped" ELSE phase[q]
        /\ \A q \in Pools : bus'[q] = IF q = p THEN None ELSE bus[q]
        /\ remover' = remover \ {p}
        /\ UNCHANGED <<registry, pools, owner, reads, buses>>
    BY DEF StopReturns, TypeOK, RemoveBus, busVars
  <1>2. \/ UNCHANGED <<busOf, closed>> /\ p \notin remover
        \/ /\ \A r \in Sessions : busOf'[r] = IF r = s THEN None ELSE busOf[r]
           /\ closed' = closed \cup ({busOf[s]} \ {None})
           <2>1. CASE p \in remover
      BY <2>1 DEF StopReturns, RemoveBus, Removed, Disturb, TypeOK
    <2>2. CASE p \notin remover
      BY <2>2 DEF StopReturns, busVars
    <2> QED BY <2>1, <2>2
  <1> HIDE DEF s
  <1>3. /\ closed \subseteq closed' /\ closed' \subseteq 1..buses /\ None \notin closed'
        /\ \A r \in Sessions : busOf'[r] = busOf[r] \/ (r = s /\ busOf'[r] = None)
        /\ \A b \in closed' : b \in closed \/ (b = busOf[s] /\ busOf'[s] = None)
    <2>1. CASE UNCHANGED <<busOf, closed>> BY <2>1, BusNumbers
    <2>2. CASE /\ \A r \in Sessions : busOf'[r] = IF r = s THEN None ELSE busOf[r]
               /\ closed' = closed \cup ({busOf[s]} \ {None})
      BY <1>0, <2>2, BusNumbers DEF None
    <2> QED BY <1>2, <2>1, <2>2
  <1>4. \A r \in Sessions : registry[r] # p
    BY <1>1 DEF RegistryInv, RegInv, RegisteredAlive, Pools, None
  <1>5. RegInv'
    <2>1. RegisteredAlive'
      BY <1>1, <1>4 DEF RegistryInv, RegInv, RegisteredAlive, TypeOK
    <2> QED BY <1>1, <2>1 DEF RegistryInv, RegInv, TypeOK
  <1>6. BusInv'
    <2>1. OpenBusRegistered'
      <3> SUFFICES ASSUME NEW b \in 1..buses, b \notin closed'
                   PROVE  \E r \in Sessions : busOf'[r] = b
        BY <1>1 DEF OpenBusRegistered
      <3>1. PICK r \in Sessions : busOf[r] = b
        BY <1>3 DEF RegistryInv, BusInv, OpenBusRegistered
      <3>2. b # None BY DEF None
      <3>3. busOf'[r] = b BY <1>2, <1>3, <3>1, <3>2
      <3> QED BY <3>3
    <2>2. \A r \in Sessions : busOf'[r] <= buses'
      BY <1>1, <1>3, BusNumbers DEF None
    <2>3. \A t, r \in Sessions : busOf'[t] # None /\ busOf'[t] = busOf'[r] => t = r
      BY <1>3 DEF RegistryInv, BusInv
    <2>4. \A q \in Pools :
            /\ phase'[q] \in {"unborn", "stopped"} => bus'[q] = None
            /\ phase'[q] \in {"live", "doomed", "stopping", "clearing"} =>
                  bus'[q] \in 1..buses'
            /\ phase'[q] = "doomed" => bus'[q] \in closed'
      BY <1>1, <1>3 DEF RegistryInv, BusInv
    <2>5. \A q \in Pools, r \in Sessions :
            bus'[q] # None /\ bus'[q] = busOf'[r] => owner'[q] = r
      BY <1>1, <1>3 DEF RegistryInv, BusInv
    <2> QED BY <1>1, <1>3, <2>1, <2>2, <2>3, <2>4, <2>5 DEF BusInv
  <1>7. ReadInv'
    <2>1. ASSUME NEW q \in Pools, NEW b \in Buses, <<q, b>> \in reads
          PROVE  b <= buses /\ (b \notin closed' => b = bus'[q])
      <3>1. b <= buses /\ (b \notin closed' => b = bus[q])
        BY <1>3, <2>1 DEF RegistryInv, ReadInv
      <3>2. q = p => b \in closed
        BY <1>0, <1>4, <2>1, OpenReads DEF s
      <3> QED BY <1>1, <1>3, <3>1, <3>2
    <2>2. \A q \in Pools : <<q, None>> \notin reads
      BY DEF TypeOK, Buses, None
    <2>3. OneListener'
      BY <1>1, <1>3, <2>2 DEF RegistryInv, ReadInv, OneListener
    <2> QED BY <1>1, <2>1, <2>3 DEF ReadInv
  <1>8. ClosingInv'
    <2>2. ASSUME NEW r \in Sessions, busOf'[r] \in closed' PROVE Closing(r)'
      <3>1. busOf'[r] = busOf[r] BY <1>3, <2>2
      <3>2. busOf[r] \in closed
        BY <1>0, <1>3, <2>2, <3>1 DEF RegistryInv, BusInv
      <3>3. PICK q \in remover : owner[q] = r
        BY <3>2 DEF RegistryInv, ClosingInv, Closing
      <3>4. q # p BY <1>0, <1>2, <1>3, <2>2, <3>1, <3>3 DEF s
      <3> QED BY <1>1, <3>3, <3>4 DEF Closing
    <2> QED BY <2>2 DEF ClosingInv, Closing
  <1> QED BY <1>5, <1>6, <1>7, <1>8 DEF RegistryInv

(* A start: p is the session's pool, made for it or found, b its bus; the  *)
(* sessions in lost are orphans.  None but s, and the lost ones, notices.  *)
LEMMA StartEffect ==
    ASSUME TypeOK, RegistryInv, NEW s \in Sessions,
           NEW w \in Sockets \cup {Headless}, Start(s, w),
           NEW p, p = registry'[s]
    PROVE  /\ p \in Pools /\ BusFor(s) \in Buses
           /\ \/ registry[s] = None /\ p = pools + 1 /\ pools' = pools + 1 /\ phase[p] = "unborn"
              \/ registry[s] = p /\ pools' = pools /\ phase[p] = "live" /\ owner[p] = s
           /\ \/ busOf[s] = None /\ BusFor(s) = buses + 1 /\ buses' = buses + 1
              \/ busOf[s] = BusFor(s) /\ buses' = buses /\ BusFor(s) \in 1..buses
           /\ \A r \in Sessions : registry'[r] = IF r = s THEN p
                                                ELSE IF r \in Orphans(s) THEN None
                                                ELSE registry[r]
           /\ \A r \in Sessions : busOf'[r] = IF r = s THEN BusFor(s)
                                             ELSE IF r \in Orphans(s) THEN None
                                             ELSE busOf[r]
           /\ \A q \in Pools : phase'[q] = IF q = p THEN "live"
                                          ELSE IF \E r \in Orphans(s) : registry[r] = q
                                               THEN "doomed" ELSE phase[q]
           /\ \A q \in Pools : owner'[q] = IF q = p THEN s ELSE owner[q]
           /\ \A q \in Pools : bus'[q] = IF q = p THEN BusFor(s) ELSE bus[q]
           /\ closed' = closed \cup Removed(Orphans(s))
           /\ reads' = reads \cup {<<p, BusFor(s)>>}
           /\ Orphans(s) \subseteq Sessions \ {s}
           /\ \A r \in Orphans(s) : registry[r] # None /\ registry[r] # p
           /\ remover' = remover
  <1>1. /\ p \in Pools /\ BusFor(s) \in Buses /\ CanFetch(s)
        /\ (registry[s] = None => pools < MaxPools)
        /\ p = IF registry[s] = None THEN pools + 1 ELSE registry[s]
    <2>1. p = IF registry[s] = None THEN pools + 1 ELSE registry[s]
      BY DEF Start
    <2>2. CanFetch(s) /\ (registry[s] = None => pools < MaxPools) BY DEF Start
    <2>3. p \in Pools
      BY <2>1, <2>2, LifecycleAssumption DEF TypeOK, Pools, None
    <2> QED BY <2>1, <2>2, <2>3, BusForType
  <1>2. \/ registry[s] = None /\ p = pools + 1 /\ pools' = pools + 1 /\ phase[p] = "unborn"
        \/ registry[s] = p /\ pools' = pools /\ phase[p] = "live" /\ owner[p] = s
    <2>1. CASE registry[s] = None
      <3>1. pools' = pools + 1 /\ p > pools BY <1>1, <2>1, BusNumbers DEF Start
      <3> QED BY <1>1, <2>1, <3>1 DEF RegistryInv, RegInv
    <2>2. CASE registry[s] # None
      BY <1>1, <2>2 DEF Start, RegistryInv, RegInv, RegisteredAlive
    <2> QED BY <2>1, <2>2
  <1>3. \/ busOf[s] = None /\ BusFor(s) = buses + 1 /\ buses' = buses + 1
        \/ busOf[s] = BusFor(s) /\ buses' = buses /\ BusFor(s) \in 1..buses
    BY BusNumbers DEF Start, BusFor
  <1>4. Orphans(s) \subseteq Sessions \ {s} BY DEF Orphans
  <1>5. \A r \in Orphans(s) : registry[r] # None /\ registry[r] # p
    <2> SUFFICES ASSUME NEW r \in Orphans(s) PROVE registry[r] # None /\ registry[r] # p
      OBVIOUS
    <2>1. registry[r] # None /\ r \in Sessions /\ r # s BY DEF Orphans
    <2>2. phase[registry[r]] = "live" /\ owner[registry[r]] = r
      BY <2>1 DEF RegistryInv, RegInv, RegisteredAlive
    <2> QED BY <1>2, <2>1, <2>2
  <1>6. /\ \A r \in Sessions : registry'[r] = IF r = s THEN p
                                             ELSE IF r \in Orphans(s) THEN None
                                             ELSE registry[r]
        /\ \A r \in Sessions : busOf'[r] = IF r = s THEN BusFor(s)
                                          ELSE IF r \in Orphans(s) THEN None
                                          ELSE busOf[r]
        /\ closed' = closed \cup Removed(Orphans(s))
        /\ reads' = reads \cup {<<p, BusFor(s)>>}
        /\ remover' = remover
    BY <1>1 DEF Start, Listening
  <1>7. /\ \A q \in Pools : phase'[q] = IF q = p THEN "live"
                                       ELSE IF \E r \in Orphans(s) : registry[r] = q
                                            THEN "doomed" ELSE phase[q]
        /\ \A q \in Pools : owner'[q] = IF q = p THEN s ELSE owner[q]
        /\ \A q \in Pools : bus'[q] = IF q = p THEN BusFor(s) ELSE bus[q]
    BY <1>1 DEF Start, TypeOK
  <1> QED BY <1>1, <1>2, <1>3, <1>4, <1>5, <1>6, <1>7

LEMMA StartKeeps ==
    ASSUME TypeOK, RegistryInv, NEW s \in Sessions,
           NEW w \in Sockets \cup {Headless}, Start(s, w)
    PROVE  RegistryInv'
  <1> DEFINE p == registry'[s]
             b == BusFor(s)
             lost == Orphans(s)
  <1>0. \* what StartEffect says, under these names
        /\ p \in Pools /\ b \in Buses
        /\ \/ registry[s] = None /\ p = pools + 1 /\ pools' = pools + 1 /\ phase[p] = "unborn"
           \/ registry[s] = p /\ pools' = pools /\ phase[p] = "live" /\ owner[p] = s
        /\ \/ busOf[s] = None /\ b = buses + 1 /\ buses' = buses + 1
           \/ busOf[s] = b /\ buses' = buses /\ b \in 1..buses
        /\ \A r \in Sessions : registry'[r] = IF r = s THEN p
                                             ELSE IF r \in lost THEN None ELSE registry[r]
        /\ \A r \in Sessions : busOf'[r] = IF r = s THEN b
                                          ELSE IF r \in lost THEN None ELSE busOf[r]
        /\ \A q \in Pools : phase'[q] = IF q = p THEN "live"
                                       ELSE IF \E r \in lost : registry[r] = q
                                            THEN "doomed" ELSE phase[q]
        /\ \A q \in Pools : owner'[q] = IF q = p THEN s ELSE owner[q]
        /\ \A q \in Pools : bus'[q] = IF q = p THEN b ELSE bus[q]
        /\ closed' = closed \cup Removed(lost)
        /\ reads' = reads \cup {<<p, b>>}
        /\ lost \subseteq Sessions \ {s}
        /\ \A r \in lost : registry[r] # None /\ registry[r] # p
        /\ remover' = remover
    BY StartEffect
  <1> HIDE DEF p, b, lost
  <1>1. Removed(lost) = {busOf[r] : r \in lost} \ {None} BY DEF Removed
  <1>2. closed' \subseteq 1..buses /\ None \notin closed' /\ buses \in Nat
        /\ buses' \in Nat /\ buses <= buses' /\ pools \in Nat /\ pools <= pools'
    BY <1>0, <1>1, BusNumbers
  <1>3. b \in closed' => b \in closed
    <2> SUFFICES ASSUME b \in Removed(lost) PROVE FALSE
      BY <1>0
    <2>1. PICK r \in lost : busOf[r] = b /\ b # None BY <1>1
    <2>2. b \in 1..buses BY <1>0, <2>1, BusNumbers
    <2>3. busOf[s] = b BY <1>0, <1>2, <2>2
    <2> QED BY <1>0, <2>1, <2>3 DEF RegistryInv, BusInv
  <1>4. RegInv'
    <2>1. ASSUME NEW r \in Sessions, registry'[r] # None
          PROVE  phase'[registry'[r]] = "live" /\ owner'[registry'[r]] = r
      <3>1. CASE r = s BY <1>0, <3>1
      <3>2. CASE r # s
        <4>1. registry'[r] = registry[r] /\ r \notin lost /\ registry[r] \in Pools
          BY <1>0, <2>1, <3>2 DEF TypeOK
        <4>2. phase[registry[r]] = "live" /\ owner[registry[r]] = r
          BY <2>1, <4>1 DEF RegistryInv, RegInv, RegisteredAlive
        <4>3. registry[r] # p BY <1>0, <3>2, <4>2
        <4>4. ~ \E l \in lost : registry[l] = registry[r]
          BY <1>0, <4>1, <2>1, OneRegistry DEF RegistryInv
        <4> QED BY <1>0, <4>1, <4>2, <4>3, <4>4
      <3> QED BY <3>1, <3>2
    <2>2. \A r \in Sessions : registry'[r] <= pools'
      BY <1>0, <1>2 DEF RegistryInv, RegInv, TypeOK, None, Pools
    <2>3. ASSUME NEW q \in Pools, q > pools' PROVE phase'[q] = "unborn"
      <3>1. q # p BY <1>0, <1>2, <2>3 DEF RegistryInv, RegInv
      <3>2. ~ \E r \in lost : registry[r] = q
        BY <1>0, <1>2, <2>3, LifecycleAssumption DEF RegistryInv, RegInv, TypeOK, Pools
      <3>3. q > pools BY <1>2, <2>3, <1>0, LifecycleAssumption DEF Pools
      <3> QED BY <1>0, <3>1, <3>2, <3>3 DEF RegistryInv, RegInv
    <2>4. ASSUME NEW q \in remover PROVE phase'[q] \in {"stopping", "clearing"}
      <3>1. q \in Pools /\ phase[q] \in {"stopping", "clearing"}
        BY DEF TypeOK, RegistryInv, RegInv
      <3>2. \A r \in lost : phase[registry[r]] = "live"
        BY <1>0 DEF RegistryInv, RegInv, RegisteredAlive
      <3> QED BY <1>0, <3>1, <3>2
    <2> QED BY <1>0, <2>1, <2>2, <2>3, <2>4 DEF RegInv, RegisteredAlive
  <1>5. BusInv'
    <2>1. OpenBusRegistered'
      <3> SUFFICES ASSUME NEW c \in 1..buses', c \notin closed'
                   PROVE  \E r \in Sessions : busOf'[r] = c
        BY DEF OpenBusRegistered
      <3>1. CASE c = b BY <1>0, <3>1
      <3>2. CASE c # b
        <4>1. c \in 1..buses BY <1>0, <1>2, <3>2
        <4>2. PICK r \in Sessions : busOf[r] = c
          BY <1>0, <4>1 DEF RegistryInv, BusInv, OpenBusRegistered
        <4>3. c # None BY <4>1 DEF None
        <4>4. r \notin lost BY <1>0, <1>1, <4>2, <4>3
        <4>5. r # s BY <1>0, <3>2, <4>2, <4>3
        <4> QED BY <1>0, <4>2, <4>4, <4>5
      <3> QED BY <3>1, <3>2
    <2>2. \A r \in Sessions : busOf'[r] <= buses'
      BY <1>0, <1>2, BusNumbers DEF None
    <2>3. ASSUME NEW t \in Sessions, NEW r \in Sessions,
                 busOf'[t] # None, busOf'[t] = busOf'[r]
          PROVE  t = r
      <3>1. CASE t = s \/ r = s
        <4>1. \A u \in Sessions : u # s /\ busOf[u] = b => u \in lost
          BY <1>0, <1>2, BusNumbers DEF RegistryInv, BusInv, None
        <4>2. b # None BY <1>0, <1>2, BusNumbers DEF None
        <4> QED BY <1>0, <2>3, <3>1, <4>1, <4>2
      <3>2. CASE t # s /\ r # s
        BY <1>0, <2>3, <3>2 DEF RegistryInv, BusInv
      <3> QED BY <3>1, <3>2
    <2>4. ASSUME NEW q \in Pools
          PROVE  /\ phase'[q] \in {"unborn", "stopped"} => bus'[q] = None
                 /\ phase'[q] \in {"live", "doomed", "stopping", "clearing"} =>
                       bus'[q] \in 1..buses'
                 /\ phase'[q] = "doomed" => bus'[q] \in closed'
      <3>1. CASE q = p
        BY <1>0, <1>2, <3>1
      <3>2. CASE q # p /\ \E r \in lost : registry[r] = q
        <4>1. PICK r \in lost : registry[r] = q BY <3>2
        <4>2. r \in Sessions /\ phase[q] = "live" /\ owner[q] = r
          BY <1>0, <4>1 DEF RegistryInv, RegInv, RegisteredAlive
        <4>3. bus[q] \in 1..buses BY <4>2 DEF RegistryInv, BusInv
        <4>4. ASSUME bus[q] \notin closed PROVE bus[q] \in Removed(lost)
          <5>1. PICK t \in Sessions : busOf[t] = bus[q]
            BY <4>3, <4>4 DEF RegistryInv, BusInv, OpenBusRegistered
          <5>2. bus[q] # None BY <4>3 DEF None
          <5>3. t = r BY <4>2, <5>1, <5>2 DEF RegistryInv, BusInv
          <5> QED BY <1>1, <4>1, <5>1, <5>2, <5>3
        <4> QED BY <1>0, <1>2, <3>2, <4>3, <4>4
      <3>3. CASE q # p /\ ~ \E r \in lost : registry[r] = q
        <4>1. phase'[q] = phase[q] /\ bus'[q] = bus[q] BY <1>0, <3>3
        <4> QED BY <1>0, <1>2, <4>1 DEF RegistryInv, BusInv
      <3> QED BY <3>1, <3>2, <3>3
    <2>5. ASSUME NEW q \in Pools, NEW r \in Sessions, bus'[q] # None, bus'[q] = busOf'[r]
          PROVE  owner'[q] = r
      <3>1. CASE q = p
        <4>1. busOf'[s] = b /\ bus'[q] = b BY <1>0, <3>1
        <4> QED BY <1>0, <2>3, <2>5, <3>1, <4>1
      <3>2. CASE q # p
        <4>1. bus[q] = bus'[q] /\ owner'[q] = owner[q] /\ bus[q] \in 1..buses
          BY <1>0, <2>5, <3>2, BusNumbers DEF None
        <4>2. busOf[r] = bus[q]
          BY <1>0, <1>2, <2>5, <4>1
        <4> QED BY <2>5, <4>1, <4>2 DEF RegistryInv, BusInv
      <3> QED BY <3>1, <3>2
    <2> QED BY <1>2, <1>0, BusNumbers, <2>1, <2>2, <2>3, <2>4, <2>5 DEF BusInv
  <1>6. ReadInv'
    <2>1. ASSUME NEW q \in Pools, NEW c \in Buses, <<q, c>> \in reads'
          PROVE  c <= buses' /\ (c \notin closed' => c = bus'[q])
      <3>1. CASE <<q, c>> \in reads
        <4>1. c <= buses /\ (c \notin closed => c = bus[q])
          BY <3>1 DEF RegistryInv, ReadInv
        <4>2. c <= buses' BY <1>2, <4>1, LifecycleAssumption DEF Buses
        <4>3. ASSUME c \notin closed' PROVE c = bus'[q]
          <5>1. c \notin closed BY <1>0, <4>3
          <5>2. c = bus[q] /\ busOf[owner[q]] = c /\ registry[owner[q]] = q
            BY <3>1, <5>1, OpenReads
          <5>3. q # p => bus'[q] = bus[q] BY <1>0
          <5>4. c \in 1..buses BY <4>1, LifecycleAssumption DEF Buses
          <5>5. q = p => busOf[s] = c
            <6>1. CASE registry[s] = None /\ phase[p] = "unborn"
              <7>1. q = p => c = None BY <5>2, <6>1 DEF RegistryInv, BusInv
              <7> QED BY <5>4, <7>1 DEF None
            <6>2. CASE registry[s] = p /\ owner[p] = s BY <5>2, <6>2
            <6> QED BY <1>0, <6>1, <6>2
          <5> QED BY <1>0, <1>2, <5>2, <5>3, <5>4, <5>5 DEF None
        <4> QED BY <4>2, <4>3
      <3>2. CASE <<q, c>> = <<p, b>>
        BY <1>0, <1>2, <3>2
      <3> QED BY <1>0, <2>1, <3>1, <3>2
    <2>2. OneListener'
      <3> SUFFICES ASSUME NEW r \in Sessions, NEW q \in Pools,
                          busOf'[r] \notin closed', <<q, busOf'[r]>> \in reads'
                   PROVE  registry'[r] = q
        BY DEF OneListener
      <3>1. busOf'[r] \in Buses
        BY <1>0 DEF TypeOK
      <3>2. busOf'[r] = bus'[q] /\ bus'[q] # None
        BY <2>1, <3>1, LifecycleAssumption DEF Buses, None
      <3>3. owner'[q] = r BY <1>5, <3>2 DEF BusInv
      <3>4. CASE q = p BY <1>0, <3>3, <3>4
      <3>5. CASE q # p
        <4>1. <<q, busOf'[r]>> \in reads /\ busOf'[r] \notin closed
          BY <1>0, <3>5
        <4>2. owner[q] = r /\ registry[r] = q /\ busOf[r] = busOf'[r]
          BY <1>0, <3>1, <3>3, <3>5, <4>1, OpenReads
        <4>3. r # s
          <5>1. owner[q] = r => phase[q] = "live" \/ r # s
            BY <4>2 DEF RegistryInv, RegInv, RegisteredAlive, Pools, None
          <5> QED BY <1>0, <3>5, <4>2, LifecycleAssumption DEF Pools, None
        <4>4. r \notin lost BY <1>0, <3>1, <4>3 DEF Buses, None
        <4> QED BY <1>0, <4>2, <4>3, <4>4
      <3> QED BY <3>4, <3>5
    <2> QED BY <2>1, <2>2 DEF ReadInv
  <1>7. ClosingInv'
    <2>0. \A q \in remover : q \in Pools /\ q # p
      BY <1>0 DEF RegistryInv, RegInv, TypeOK
    <2>1. \A r \in Sessions : Closing(r)' <=> Closing(r)
      BY <1>0, <2>0 DEF Closing
    <2>3. ASSUME NEW r \in Sessions, busOf'[r] \in closed' PROVE Closing(r)
      <3>1. CASE r = s
        <4>1. b \in closed BY <1>0, <1>3, <2>3, <3>1
        <4>2. busOf[s] = b BY <1>0, <1>2, <4>1, BusNumbers
        <4> QED BY <3>1, <4>1, <4>2 DEF RegistryInv, ClosingInv
      <3>2. CASE r # s
        <4>1. r \notin lost /\ busOf'[r] = busOf[r] /\ busOf[r] # None
          BY <1>0, <1>2, <2>3, <3>2
        <4>2. busOf[r] \notin Removed(lost)
          BY <1>0, <1>1, <4>1 DEF RegistryInv, BusInv
        <4> QED BY <1>0, <2>3, <4>1, <4>2 DEF RegistryInv, ClosingInv
      <3> QED BY <3>1, <3>2
    <2> QED BY <2>1, <2>3 DEF ClosingInv
  <1> QED BY <1>4, <1>5, <1>6, <1>7 DEF RegistryInv

LEMMA RegistryNext ==
    ASSUME TypeOK, RegistryInv, [Next]_vars
    PROVE  RegistryInv'
  <1>1. ASSUME UNCHANGED regVars PROVE RegistryInv'
    BY <1>1 DEF regVars, RegistryInv, RegInv, RegisteredAlive, BusInv,
       OpenBusRegistered, ReadInv, OneListener, ClosingInv, Closing
  <1> QED
    BY <1>1, RegistrySteps, StartKeeps, FetchKeeps, RemoveKeeps, PoolStopKeeps,
       OrphanStopKeeps, ClearKeeps, StopReturnKeeps, ListenerEndKeeps

(* The inductive invariant of the registries holds of every behaviour      *)
(* (chat_orchestration.py, event_bus.py).                                  *)
THEOREM RegistriesKept == Spec => [](TypeOK /\ RegistryInv)
  <1>1. Init => TypeOK /\ RegistryInv BY TypeInit, RegistryInit
  <1>2. TypeOK /\ RegistryInv /\ [Next]_vars => (TypeOK /\ RegistryInv)'
    <2>1. TypeOK /\ RegistryInv /\ [Next]_vars => TypeOK'
      BY TypeNext DEF RegistryInv
    <2> QED BY <2>1, RegistryNext
  <1> QED BY <1>1, <1>2, PTL DEF Spec

(* The registries hold what their names say, pools, buses and sockets,     *)
(* whatever starts and stops follow each other (chat_orchestration.py,     *)
(* start_worker_pool and stop_worker_pool; event_bus.py).                  *)
THEOREM TypeCorrect == Spec => []TypeOK
  BY RegistriesKept, PTL

(* Whatever stops, resets and orphan cleanups race each other, a pool that *)
(* is registered runs, for the session it is registered for                *)
(* (chat_orchestration.py, start_worker_pool and stop_worker_pool).        *)
THEOREM RegisteredPoolRuns == Spec => []RegisteredAlive
  <1>1. RegistryInv => RegisteredAlive BY DEF RegistryInv, RegInv
  <1> QED BY <1>1, RegistriesKept, PTL

(* No emitter ever holds an open bus that its session has lost             *)
(* (event_bus.py, remove; chat_orchestration.py).                          *)
THEOREM OpenBusFound == Spec => []OpenBusRegistered
  <1>1. RegistryInv => OpenBusRegistered BY DEF RegistryInv, BusInv
  <1> QED BY <1>1, RegistriesKept, PTL

(* Two pools never compete for the intents of one session (worker_pool.py, *)
(* _listen_loop).                                                          *)
THEOREM ListenerIsRegistered == Spec => []OneListener
  <1>1. RegistryInv => OneListener BY DEF RegistryInv, ReadInv
  <1> QED BY <1>1, RegistriesKept, PTL

-----------------------------------------------------------------------------
(* Intents in flight.                                                      *)

(* The session's bus is open and its registered pool has a listener on it. *)
ListenedTo(s) == busOf[s] \notin closed /\ <<registry[s], busOf[s]>> \in reads

PlaceInv ==
    \A i \in Intents :
        /\ stage[i] \in {"emitting", "queued"} => place[i] \in 1..buses
        /\ stage[i] = "running" => place[i] \in Pools

(* Heard from the moment the pool was started, not only once the bus has   *)
(* been fetched: a turn that awaits its notice finds the bus it left.      *)
NoticeInv ==
    \A i \in Intents \ disturbed :
        stage[i] \in {"noticing", "emitting", "queued"} =>
            /\ ListenedTo(Of[i])
            /\ stage[i] # "noticing" => place[i] = busOf[Of[i]]

FlightInv == PlaceInv /\ NoticeInv /\ WorkersReachable

LEMMA FlightInit == Init => FlightInv
  BY DEF Init, FlightInv, PlaceInv, NoticeInv, WorkersReachable

LEMMA HeardIsNoticed == FlightInv => Heard
  BY DEF FlightInv, NoticeInv, Heard, ListenedTo

(* A bus somebody listens to is a bus that exists.                         *)
LEMMA ListenedBus ==
    ASSUME TypeOK, RegistryInv, NEW s \in Sessions, ListenedTo(s)
    PROVE  /\ busOf[s] # None /\ registry[s] \in Pools
           /\ bus[registry[s]] = busOf[s] /\ owner[registry[s]] = s
  <1>1. registry[s] \in Pools /\ busOf[s] \in Buses
    BY DEF ListenedTo, TypeOK
  <1>2. busOf[s] # None BY <1>1, LifecycleAssumption DEF Buses, None
  <1>3. bus[registry[s]] = busOf[s] BY <1>1, OpenReads DEF ListenedTo
  <1> QED BY <1>1, <1>2, <1>3 DEF RegistryInv, BusInv

(* What a start leaves alone, and what it gives its session.               *)
LEMMA StartListens ==
    ASSUME TypeOK, RegistryInv, NEW s \in Sessions,
           NEW w \in Sockets \cup {Headless}, Start(s, w)
    PROVE  /\ \A r \in Sessions \ Orphans(s) :
                 ListenedTo(r) => ListenedTo(r)' /\ busOf'[r] = busOf[r]
           /\ ~Closing(s) => ListenedTo(s)'
           /\ \A r \in Sessions, q \in Pools :
                 registry[r] = q => registry'[r] = q \/ phase'[q] = "doomed"
           /\ \A q \in Pools : phase[q] \in {"doomed", "stopping"} => phase'[q] = phase[q]
           /\ BusFor(s) = busOf'[s] /\ BusFor(s) \in 1..buses' /\ buses <= buses'
           /\ BusFor(s) \in closed' => BusFor(s) \in closed
           /\ BusFor(s) \in closed => Closing(s)
           /\ buses \in Nat /\ buses' \in Nat
  <1> DEFINE p == registry'[s]
             b == BusFor(s)
             lost == Orphans(s)
  <1>0. \* what StartEffect says, under these names
        /\ p \in Pools /\ b \in Buses
        /\ \/ registry[s] = None /\ phase[p] = "unborn"
           \/ registry[s] = p /\ phase[p] = "live" /\ owner[p] = s
        /\ \/ busOf[s] = None /\ b = buses + 1 /\ buses' = buses + 1
           \/ busOf[s] = b /\ buses' = buses /\ b \in 1..buses
        /\ \A r \in Sessions : registry'[r] = IF r = s THEN p
                                             ELSE IF r \in lost THEN None ELSE registry[r]
        /\ \A r \in Sessions : busOf'[r] = IF r = s THEN b
                                          ELSE IF r \in lost THEN None ELSE busOf[r]
        /\ \A q \in Pools : phase'[q] = IF q = p THEN "live"
                                       ELSE IF \E r \in lost : registry[r] = q
                                            THEN "doomed" ELSE phase[q]
        /\ closed' = closed \cup Removed(lost)
        /\ reads' = reads \cup {<<p, b>>}
        /\ lost \subseteq Sessions \ {s}
        /\ \A r \in lost : registry[r] # None /\ registry[r] # p
    BY StartEffect
  <1> HIDE DEF p, b, lost
  <1>1. Removed(lost) = {busOf[r] : r \in lost} \ {None} BY DEF Removed
  <1>2. /\ buses \in Nat /\ buses' \in Nat /\ buses <= buses' /\ b \in 1..buses'
        /\ b # None
    BY <1>0, BusNumbers DEF None
  <1>3. ASSUME NEW r \in Sessions \ lost, busOf[r] \in Removed(lost) PROVE FALSE
    BY <1>0, <1>1, <1>3 DEF RegistryInv, BusInv
  <1>4. b \in closed' => b \in closed
    <2>1. busOf[s] = b \/ b \notin Removed(lost)
      BY <1>0, <1>1, BusNumbers
    <2> QED BY <1>0, <1>3, <2>1
  <1>5. b \in closed => Closing(s)
    BY <1>0, BusNumbers DEF RegistryInv, ClosingInv
  <1>6. ~Closing(s) => ListenedTo(s)'
    BY <1>0, <1>4, <1>5 DEF ListenedTo, p
  <1>7. ASSUME NEW r \in Sessions \ lost, ListenedTo(r)
        PROVE  ListenedTo(r)' /\ busOf'[r] = busOf[r]
    <2>1. busOf[r] # None /\ registry[r] # None
      BY <1>7, ListenedBus, LifecycleAssumption DEF Pools, None
    <2>2. busOf'[r] = busOf[r] /\ registry'[r] = registry[r]
      BY <1>0, <2>1
    <2>3. busOf[r] \notin closed' BY <1>0, <1>3, <1>7 DEF ListenedTo
    <2> QED BY <1>0, <1>7, <2>2, <2>3 DEF ListenedTo
  <1>8. ASSUME NEW r \in Sessions, NEW q \in Pools, registry[r] = q
        PROVE  registry'[r] = q \/ phase'[q] = "doomed"
    <2>1. q # None BY LifecycleAssumption DEF Pools, None
    <2> QED BY <1>0, <1>8, <2>1
  <1>9. ASSUME NEW q \in Pools, phase[q] \in {"doomed", "stopping"}
        PROVE  phase'[q] = phase[q]
    <2>1. \A r \in lost : phase[registry[r]] = "live"
      BY <1>0 DEF RegistryInv, RegInv, RegisteredAlive
    <2> QED BY <1>0, <1>9, <2>1
  <1>10. b = busOf'[s] BY <1>0
  <1> QED BY <1>2, <1>4, <1>5, <1>6, <1>7, <1>8, <1>9, <1>10 DEF b, lost

(* A delegation that has started its pool, at any of the three points its  *)
(* step may end: the emission is pending, its notice is, or it is queued.  *)
LEMMA StartFlight ==
    ASSUME TypeOK, RegistryInv, FlightInv, NEW i \in Intents,
           NEW w \in Sockets \cup {Headless}, Start(Of[i], w), StartDisturbs(Of[i], i),
           \A j \in Intents \ {i} : stage'[j] = stage[j] /\ place'[j] = place[j],
           \/ stage'[i] = "noticing" \/ stage'[i] = "over"
           \/ stage'[i] = "emitting" /\ place'[i] = BusFor(Of[i])
           \/ stage'[i] = "queued" /\ place'[i] = BusFor(Of[i])
    PROVE  FlightInv'
  <1> DEFINE s == Of[i]
  <1>0. s \in Sessions /\ \A j \in Intents : Of[j] \in Sessions BY LifecycleAssumption
  <1>1. /\ \A r \in Sessions \ Orphans(s) :
              ListenedTo(r) => ListenedTo(r)' /\ busOf'[r] = busOf[r]
        /\ ~Closing(s) => ListenedTo(s)'
        /\ \A r \in Sessions, q \in Pools :
              registry[r] = q => registry'[r] = q \/ phase'[q] = "doomed"
        /\ \A q \in Pools : phase[q] \in {"doomed", "stopping"} => phase'[q] = phase[q]
        /\ BusFor(s) = busOf'[s] /\ BusFor(s) \in 1..buses' /\ buses <= buses'
        /\ buses \in Nat /\ buses' \in Nat
    BY <1>0, StartListens
  <1>3. /\ disturbed \subseteq disturbed' /\ (Closing(s) => i \in disturbed')
        /\ \A j \in Intents : Of[j] \in Orphans(s) => j \in disturbed' \/ stage[j] \notin
                {"noticing", "emitting", "queued"}
    BY DEF StartDisturbs, InFlight
  <1> HIDE DEF s
  <1>4. PlaceInv'
    BY <1>1 DEF FlightInv, PlaceInv, s
  <1>6. NoticeInv'
    <2> SUFFICES ASSUME NEW j \in Intents \ disturbed',
                        stage'[j] \in {"noticing", "emitting", "queued"}
                 PROVE  /\ ListenedTo(Of[j])'
                        /\ stage'[j] # "noticing" => place'[j] = busOf'[Of[j]]
      BY DEF NoticeInv
    <2>1. CASE j = i
      BY <1>1, <1>3, <2>1 DEF s
    <2>2. CASE j # i
      <3>1. stage'[j] = stage[j] /\ place'[j] = place[j] /\ j \notin disturbed
        BY <1>3, <2>2
      <3>2. Of[j] \in Sessions \ Orphans(s) BY <1>0, <1>3, <3>1
      <3> QED BY <1>1, <3>1, <3>2 DEF FlightInv, NoticeInv
    <2> QED BY <2>1, <2>2
  <1>7. WorkersReachable'
    <2> SUFFICES ASSUME NEW j \in Intents \ disturbed', stage'[j] = "running"
                 PROVE  \/ registry'[Of[j]] = place'[j]
                        \/ phase'[place'[j]] \in {"doomed", "stopping"}
      BY DEF WorkersReachable
    <2>1. j # i /\ j \notin disturbed /\ stage[j] = "running" /\ place'[j] = place[j]
      BY <1>3
    <2>2. place[j] \in Pools BY <2>1 DEF FlightInv, PlaceInv
    <2> QED BY <1>0, <1>1, <2>1, <2>2 DEF FlightInv, WorkersReachable
  <1> QED BY <1>4, <1>6, <1>7 DEF FlightInv

(* A step that takes the bus of s away spoils only what is in flight in s. *)
LEMMA LossKeeps ==
    ASSUME TypeOK, RegistryInv, FlightInv, NEW s \in Sessions, Disturb(s),
           UNCHANGED <<stage, place, buses>>,
           \A r \in Sessions \ {s} :
              ListenedTo(r) => ListenedTo(r)' /\ busOf'[r] = busOf[r],
           \A r \in Sessions, q \in Pools :
              registry[r] = q => registry'[r] = q \/ phase'[q] = "stopping",
           \A q \in Pools : phase[q] \in {"doomed", "stopping"} => phase'[q] = phase[q]
    PROVE  FlightInv'
  <1>0. \A j \in Intents : Of[j] \in Sessions BY LifecycleAssumption
  <1>1. /\ disturbed \subseteq disturbed'
        /\ InFlight(s) \subseteq disturbed'
    BY DEF Disturb
  <1>2. PlaceInv' BY DEF FlightInv, PlaceInv
  <1>4. NoticeInv'
    <2> SUFFICES ASSUME NEW j \in Intents \ disturbed',
                        stage'[j] \in {"noticing", "emitting", "queued"}
                 PROVE  /\ ListenedTo(Of[j])'
                        /\ stage'[j] # "noticing" => place'[j] = busOf'[Of[j]]
      BY DEF NoticeInv
    <2>1. Of[j] # s /\ j \notin disturbed BY <1>1 DEF InFlight
    <2> QED BY <1>0, <2>1 DEF FlightInv, NoticeInv
  <1>5. WorkersReachable'
    <2> SUFFICES ASSUME NEW j \in Intents \ disturbed', stage'[j] = "running"
                 PROVE  \/ registry'[Of[j]] = place'[j]
                        \/ phase'[place'[j]] \in {"doomed", "stopping"}
      BY DEF WorkersReachable
    <2>1. j \notin disturbed /\ place[j] \in Pools
      BY <1>1 DEF FlightInv, PlaceInv
    <2> QED BY <1>0, <2>1 DEF FlightInv, WorkersReachable
  <1> QED BY <1>2, <1>4, <1>5 DEF FlightInv

LEMMA RemoveFlight ==
    ASSUME TypeOK, RegistryInv, FlightInv, NEW s \in Sessions, RemoveBus(s),
           UNCHANGED <<stage, place, registry, reads>>,
           \A q \in Pools : phase[q] \in {"doomed", "stopping"} => phase'[q] = phase[q]
    PROVE  FlightInv'
  <1>1. /\ \A r \in Sessions \ {s} : busOf'[r] = busOf[r]
        /\ closed' = closed \cup ({busOf[s]} \ {None}) /\ buses' = buses /\ Disturb(s)
    BY DEF RemoveBus, Removed, TypeOK
  <1>2. ASSUME NEW r \in Sessions \ {s}, ListenedTo(r)
        PROVE  ListenedTo(r)' /\ busOf'[r] = busOf[r]
    <2>1. busOf[r] # busOf[s]
      BY <1>2, ListenedBus DEF RegistryInv, BusInv
    <2> QED BY <1>1, <1>2, <2>1 DEF ListenedTo
  <1> QED BY <1>1, <1>2, LossKeeps

LEMMA StopFlight ==
    ASSUME TypeOK, RegistryInv, FlightInv, NEW s \in Sessions, PoolStopped(s),
           Disturb(s), UNCHANGED <<stage, place>>
    PROVE  FlightInv'
  <1> DEFINE p == registry[s]
  <1>1. p \in Pools /\ phase[p] = "live" /\ owner[p] = s
    BY DEF PoolStopped, TypeOK, RegistryInv, RegInv, RegisteredAlive
  <1>2. /\ \A r \in Sessions \ {s} : registry'[r] = registry[r] /\ busOf'[r] = busOf[r]
        /\ \A q \in Pools : phase'[q] = IF q = p THEN "stopping" ELSE phase[q]
        /\ reads' = reads \ {<<p, bus[p]>>} /\ buses' = buses
        /\ closed' \subseteq closed \cup ({busOf[s]} \ {None}) \cup {bus[p]}
    BY DEF PoolStopped, Halt, Removed, TypeOK
  <1> HIDE DEF p
  <1>3. ASSUME NEW r \in Sessions \ {s}, ListenedTo(r)
        PROVE  ListenedTo(r)' /\ busOf'[r] = busOf[r]
    <2>1. busOf[r] # busOf[s] /\ registry[r] # p /\ busOf[r] # bus[p]
      BY <1>1, <1>3, ListenedBus DEF RegistryInv, BusInv
    <2> QED BY <1>2, <1>3, <2>1 DEF ListenedTo
  <1>4. ASSUME NEW r \in Sessions, NEW q \in Pools, registry[r] = q
        PROVE  registry'[r] = q \/ phase'[q] = "stopping"
    BY <1>2, <1>4 DEF p
  <1> QED BY <1>1, <1>2, <1>3, <1>4, LossKeeps

LEMMA StopPoolFlight ==
    ASSUME TypeOK, RegistryInv, FlightInv, NEW s \in Sessions, StopWorkerPool(s),
           UNCHANGED <<stage, place>>
    PROVE  FlightInv'
  <1>1. CASE registry[s] = None
    <2>1. RemoveBus(s) /\ UNCHANGED <<registry, phase, reads>>
      BY <1>1 DEF StopWorkerPool, poolVars
    <2> QED BY <2>1, RemoveFlight
  <1>2. CASE registry[s] # None
    <2>1. Disturb(s) BY <1>2 DEF StopWorkerPool
    <2>2. PoolStopped(s) BY <1>2 DEF StopWorkerPool, PoolStopped, Disturb
    <2> QED BY <2>1, <2>2, StopFlight
  <1> QED BY <1>1, <1>2

(* A step that moves intents on, or out, without touching the registries.  *)
LEMMA ListenedUnchanged ==
    ASSUME UNCHANGED <<registry, busOf, closed, reads>>
    PROVE  \A s \in Sessions : ListenedTo(s)' <=> ListenedTo(s)
  BY DEF ListenedTo

LEMMA FetchListens ==
    ASSUME TypeOK, RegistryInv, NEW s \in Sessions, GetOrCreate(s),
           UNCHANGED <<registry, closed, reads>>
    PROVE  /\ \A r \in Sessions : ListenedTo(r) => ListenedTo(r)' /\ busOf'[r] = busOf[r]
           /\ ListenedTo(s) => BusFor(s) = busOf[s] /\ busOf[s] \notin closed
           /\ BusFor(s) \in 1..buses' /\ buses <= buses' /\ buses \in Nat /\ buses' \in Nat
  <1>1. ASSUME NEW r \in Sessions, ListenedTo(r)
        PROVE  ListenedTo(r)' /\ busOf'[r] = busOf[r]
    <2>1. busOf[r] # None BY <1>1, ListenedBus
    <2> QED BY <1>1, <2>1 DEF GetOrCreate, BusFor, ListenedTo, TypeOK
  <1>2. ListenedTo(s) => BusFor(s) = busOf[s] /\ busOf[s] \notin closed
    BY ListenedBus DEF BusFor, ListenedTo
  <1>3. BusFor(s) \in 1..buses' /\ buses <= buses' /\ buses \in Nat /\ buses' \in Nat
    BY BusNumbers DEF GetOrCreate, BusFor
  <1> QED BY <1>1, <1>2, <1>3

LEMMA FlightNext ==
    ASSUME TypeOK, RegistryInv, FlightInv, [Next]_vars
    PROVE  FlightInv'
  <1>0. \A i \in Intents : Of[i] \in Sessions /\ from[i] \in Sockets \cup {Headless}
    BY LifecycleAssumption DEF TypeOK
  <1>1. ASSUME UNCHANGED <<registry, busOf, closed, buses, reads, phase, disturbed>>,
               \A i \in Intents : /\ stage'[i] \in {stage[i], "turn", "over"}
                                  /\ place'[i] = place[i]
        PROVE  FlightInv'
    <2>1. \A s \in Sessions : ListenedTo(s)' <=> ListenedTo(s)
      BY <1>1, ListenedUnchanged
    <2> QED
      BY <1>0, <1>1, <2>1
         DEF FlightInv, PlaceInv, NoticeInv, WorkersReachable
  <1>2. ASSUME \/ \E w \in Sockets : Connect(w) \/ Disconnect(w)
               \/ \E w \in Sockets, s \in Sessions : Sync(w, s)
               \/ \E i \in Intents, w \in Sockets \cup {Headless} : BeginTurn(i, w)
               \/ Scan \/ UNCHANGED vars
        PROVE  FlightInv'
    <2>1. UNCHANGED <<registry, busOf, closed, buses, reads, phase, place, disturbed>>
      BY <1>2 DEF Connect, Disconnect, Sync, BeginTurn, Scan, vars, busVars, poolVars,
                  intentVars
    <2>2. \A i \in Intents : stage'[i] \in {stage[i], "turn", "over"}
      BY <1>2 DEF Connect, Disconnect, Sync, BeginTurn, Scan, vars, intentVars, TypeOK
    <2> QED BY <1>1, <2>1, <2>2
  <1>3. ASSUME NEW i \in Intents, Delegate(i) PROVE FlightInv'
    <2>1. Start(Of[i], from[i]) /\ StartDisturbs(Of[i], i) BY <1>3 DEF Delegate
    <2>2. \A j \in Intents \ {i} : stage'[j] = stage[j] /\ place'[j] = place[j]
      BY <1>3 DEF Delegate, TypeOK
    <2>3. \/ stage'[i] = "noticing"
          \/ stage'[i] = "emitting" /\ place'[i] = BusFor(Of[i])
      BY <1>3 DEF Delegate, TypeOK
    <2> QED BY <1>0, <2>1, <2>2, <2>3, StartFlight
  <1>4. ASSUME NEW i \in Intents, NEW w \in Sockets, ExecuteCard(i, w) PROVE FlightInv'
    <2>1. Start(Of[i], w) /\ StartDisturbs(Of[i], i) BY <1>4 DEF ExecuteCard
    <2>2. \A j \in Intents \ {i} : stage'[j] = stage[j] /\ place'[j] = place[j]
      BY <1>4 DEF ExecuteCard, Arrives, TypeOK
    <2>3. \/ stage'[i] = "over"
          \/ stage'[i] = "queued" /\ place'[i] = BusFor(Of[i])
      BY <1>4 DEF ExecuteCard, Arrives, TypeOK
    <2> QED BY <1>0, <2>1, <2>2, <2>3, StartFlight
  <1>5. ASSUME NEW i \in Intents, FetchBus(i) PROVE FlightInv'
    <2>1. /\ stage[i] = "noticing" /\ GetOrCreate(Of[i])
          /\ \A j \in Intents \ {i} : stage'[j] = stage[j] /\ place'[j] = place[j]
          /\ stage'[i] = "emitting" /\ place'[i] = BusFor(Of[i])
          /\ UNCHANGED <<registry, closed, reads, phase, disturbed>>
      BY <1>5 DEF FetchBus, poolVars, TypeOK
    <2>2. /\ \A r \in Sessions : ListenedTo(r) => ListenedTo(r)' /\ busOf'[r] = busOf[r]
          /\ ListenedTo(Of[i]) => BusFor(Of[i]) = busOf[Of[i]]
          /\ BusFor(Of[i]) \in 1..buses' /\ buses <= buses'
          /\ buses \in Nat /\ buses' \in Nat
      BY <1>0, <2>1, FetchListens
    <2>3. PlaceInv' BY <2>1, <2>2 DEF FlightInv, PlaceInv
    <2>5. NoticeInv' BY <1>0, <2>1, <2>2 DEF FlightInv, NoticeInv
    <2>6. WorkersReachable' BY <2>1 DEF FlightInv, WorkersReachable
    <2> QED BY <2>3, <2>5, <2>6 DEF FlightInv
  <1>6. ASSUME NEW i \in Intents, Emit(i) PROVE FlightInv'
    <2>1. /\ stage[i] = "emitting"
          /\ \A j \in Intents \ {i} : stage'[j] = stage[j] /\ place'[j] = place[j]
          /\ \/ stage'[i] = "over"
             \/ stage'[i] = "queued" /\ place'[i] = place[i]
          /\ disturbed \subseteq disturbed' \cup {i}
          /\ stage'[i] = "queued" => disturbed' = disturbed
          /\ UNCHANGED <<registry, busOf, closed, buses, reads, phase>>
      BY <1>6 DEF Emit, Arrives, busVars, poolVars, TypeOK
    <2>2. \A s \in Sessions : ListenedTo(s)' <=> ListenedTo(s)
      BY <2>1, ListenedUnchanged
    <2>3. PlaceInv' BY <2>1 DEF FlightInv, PlaceInv
    <2>5. NoticeInv' BY <1>0, <2>1, <2>2 DEF FlightInv, NoticeInv
    <2>6. WorkersReachable' BY <2>1 DEF FlightInv, WorkersReachable
    <2> QED BY <2>3, <2>5, <2>6 DEF FlightInv
  <1>7. ASSUME NEW i \in Intents, Take(i) PROVE FlightInv'
    <2>1. PICK p \in Pools : /\ <<p, place[i]>> \in reads
                             /\ stage' = [stage EXCEPT ![i] = "running"]
                             /\ place' = [place EXCEPT ![i] = p]
      BY <1>7 DEF Take
    <2>2. /\ stage[i] = "queued"
          /\ \A j \in Intents \ {i} : stage'[j] = stage[j] /\ place'[j] = place[j]
          /\ stage'[i] = "running" /\ place'[i] = p
          /\ UNCHANGED <<registry, busOf, closed, buses, reads, phase, disturbed>>
      BY <1>7, <2>1 DEF Take, busVars, poolVars, TypeOK
    <2>3. \A s \in Sessions : ListenedTo(s)' <=> ListenedTo(s)
      BY <2>2, ListenedUnchanged
    <2>4. i \notin disturbed => registry[Of[i]] = p
      BY <1>0, <2>1, <2>2
         DEF FlightInv, NoticeInv, ListenedTo, RegistryInv, ReadInv, OneListener
    <2>5. PlaceInv' BY <2>2 DEF FlightInv, PlaceInv
    <2>7. NoticeInv' BY <1>0, <2>2, <2>3 DEF FlightInv, NoticeInv
    <2>8. WorkersReachable' BY <2>2, <2>4 DEF FlightInv, WorkersReachable
    <2> QED BY <2>5, <2>7, <2>8 DEF FlightInv
  <1>8. ASSUME NEW i \in Intents, Finish(i) PROVE FlightInv'
    <2>1. /\ \A j \in Intents \ {i} : stage'[j] = stage[j] /\ place'[j] = place[j]
          /\ stage'[i] = "over" /\ disturbed \subseteq disturbed' \cup {i}
          /\ UNCHANGED <<registry, busOf, closed, buses, reads, phase>>
      BY <1>8 DEF Finish, busVars, poolVars, TypeOK
    <2>2. \A s \in Sessions : ListenedTo(s)' <=> ListenedTo(s)
      BY <2>1, ListenedUnchanged
    <2>3. PlaceInv' BY <2>1 DEF FlightInv, PlaceInv
    <2>5. NoticeInv' BY <1>0, <2>1, <2>2 DEF FlightInv, NoticeInv
    <2>6. WorkersReachable' BY <2>1 DEF FlightInv, WorkersReachable
    <2> QED BY <2>3, <2>5, <2>6 DEF FlightInv
  <1>9. ASSUME NEW p \in Pools, NEW b \in Buses, ListenerEnds(p, b) PROVE FlightInv'
    <2>1. /\ b \in closed /\ reads' = reads \ {<<p, b>>}
          /\ UNCHANGED <<registry, busOf, closed, buses, phase, stage, place, disturbed>>
      BY <1>9 DEF ListenerEnds, busVars, intentVars
    <2>2. \A s \in Sessions : ListenedTo(s) => ListenedTo(s)'
      BY <2>1 DEF ListenedTo
    <2> QED
      BY <1>0, <2>1, <2>2
         DEF FlightInv, PlaceInv, NoticeInv, WorkersReachable
  <1>10. ASSUME NEW p \in Pools, StopOrphan(p) PROVE FlightInv'
    <2>1. bus[p] \in closed BY <1>10 DEF StopOrphan, RegistryInv, BusInv
    <2>2. /\ closed' = closed /\ reads' = reads \ {<<p, bus[p]>>}
          /\ \A q \in Pools : phase'[q] = IF q = p THEN "stopping" ELSE phase[q]
          /\ UNCHANGED <<registry, busOf, buses, stage, place, disturbed>>
      BY <1>10, <2>1 DEF StopOrphan, Halt, intentVars, TypeOK
    <2>3. \A s \in Sessions : ListenedTo(s) => ListenedTo(s)'
      BY <2>1, <2>2 DEF ListenedTo
    <2>4. WorkersReachable'
      BY <2>2 DEF FlightInv, PlaceInv, WorkersReachable
    <2> QED
      BY <1>0, <2>2, <2>3, <2>4 DEF FlightInv, PlaceInv, NoticeInv
  <1>11. ASSUME NEW p \in Pools, ClearWorkers(p) PROVE FlightInv'
    <2>1. /\ \A j \in Intents : \/ stage'[j] = stage[j] /\ place'[j] = place[j]
                                   /\ (stage[j] = "running" => place[j] # p)
                                   /\ (j \in disturbed => j \in disturbed')
                                \/ stage'[j] = "over" /\ stage[j] = "running"
          /\ \A q \in Pools : phase'[q] = IF q = p THEN "clearing" ELSE phase[q]
          /\ UNCHANGED <<registry, busOf, closed, buses, reads>>
      BY <1>11 DEF ClearWorkers, Workers, busVars, TypeOK
    <2>2. \A s \in Sessions : ListenedTo(s)' <=> ListenedTo(s)
      BY <2>1, ListenedUnchanged
    <2>3. PlaceInv' BY <2>1 DEF FlightInv, PlaceInv
    <2>5. NoticeInv' BY <1>0, <2>1, <2>2 DEF FlightInv, NoticeInv
    <2>6. WorkersReachable' BY <2>1 DEF FlightInv, PlaceInv, WorkersReachable
    <2> QED BY <2>3, <2>5, <2>6 DEF FlightInv
  <1>12. ASSUME NEW p \in Pools, StopReturns(p) PROVE FlightInv'
    <2>1. /\ \A q \in Pools : phase[q] \in {"doomed", "stopping"} => phase'[q] = phase[q]
          /\ UNCHANGED <<registry, reads, stage, place>>
      BY <1>12 DEF StopReturns, intentVars, TypeOK
    <2>2. CASE p \in remover
      <3>1. RemoveBus(owner[p]) /\ owner[p] \in Sessions
        BY <1>12, <2>2 DEF StopReturns, TypeOK
      <3> QED BY <2>1, <3>1, RemoveFlight
    <2>3. CASE p \notin remover
      <3>1. UNCHANGED <<busOf, closed, buses, disturbed>>
        BY <1>12, <2>3 DEF StopReturns, busVars
      <3>2. \A s \in Sessions : ListenedTo(s)' <=> ListenedTo(s)
        BY <2>1, <3>1, ListenedUnchanged
      <3>3. WorkersReachable'
        BY <2>1, <3>1 DEF FlightInv, PlaceInv, WorkersReachable
      <3> QED
        BY <1>0, <2>1, <3>1, <3>2, <3>3 DEF FlightInv, PlaceInv, NoticeInv
    <2> QED BY <2>2, <2>3
  <1>13. ASSUME NEW s \in Sessions, NEW w \in Sockets, Reset(w, s) PROVE FlightInv'
    <2>1. UNCHANGED <<stage, place>> BY <1>13 DEF Reset, intentVars
    <2>2. CASE StopWorkerPool(s) BY <2>1, <2>2, StopPoolFlight
    <2>3. CASE RemoveBus(s) /\ UNCHANGED poolVars
      <3>1. UNCHANGED <<registry, reads, phase>> BY <2>3 DEF poolVars
      <3> QED BY <2>1, <2>3, <3>1, RemoveFlight
    <2> QED BY <1>13, <2>2, <2>3 DEF Reset
  <1>14. ASSUME NEW s \in Sessions, EndJob(s) PROVE FlightInv'
    <2>1. PoolStopped(s) /\ Disturb(s) /\ UNCHANGED <<stage, place>>
      BY <1>14 DEF EndJob, PoolStopped, Disturb, intentVars
    <2> QED BY <2>1, StopFlight
  <1>15. ASSUME NEW s \in Sessions, EndJobWithoutPool(s) \/ ExpireBus(s) PROVE FlightInv'
    <2>1. RemoveBus(s) /\ UNCHANGED <<stage, place, registry, reads, phase>>
      BY <1>15 DEF EndJobWithoutPool, ExpireBus, poolVars, intentVars
    <2> QED BY <2>1, RemoveFlight
  <1>16. ASSUME NEW s \in Sessions, StopIdle(s) PROVE FlightInv'
    <2>1. StopWorkerPool(s) /\ UNCHANGED <<stage, place>>
      BY <1>16 DEF StopIdle, intentVars
    <2> QED BY <2>1, StopPoolFlight
  <1> QED
    BY <1>2, <1>3, <1>4, <1>5, <1>6, <1>7, <1>8, <1>9, <1>10, <1>11, <1>12,
       <1>13, <1>14, <1>15, <1>16 DEF Next

(* Intents, buses and pools together stay as the invariants say, from the  *)
(* emission of an intent to the worker it becomes (delegate_dispatch.py).  *)
THEOREM LifecycleKept == Spec => [](TypeOK /\ RegistryInv /\ FlightInv)
  <1>1. Init => TypeOK /\ RegistryInv /\ FlightInv
    BY TypeInit, RegistryInit, FlightInit
  <1>2. TypeOK /\ RegistryInv /\ FlightInv /\ [Next]_vars
           => (TypeOK /\ RegistryInv /\ FlightInv)'
    <2>1. TypeOK /\ RegistryInv /\ [Next]_vars => TypeOK'
      BY TypeNext DEF RegistryInv
    <2> QED BY <2>1, RegistryNext, FlightNext
  <1> QED BY <1>1, <1>2, PTL DEF Spec

(* An intent is never on a bus without a listener, except where its bus    *)
(* was taken away under it (delegate_dispatch.py, worker_completion.py).   *)
THEOREM IntentsHeard == Spec => []Heard
  <1>1. FlightInv => Heard BY HeardIsNoticed
  <1> QED BY <1>1, LifecycleKept, PTL

(* No worker runs in a pool that neither a session nor a stop() knows,     *)
(* except one that a taken-away bus delivered late (worker_pool.py, stop). *)
THEOREM WorkersCanBeReached == Spec => []WorkersReachable
  <1>1. FlightInv => WorkersReachable BY DEF FlightInv
  <1> QED BY <1>1, LifecycleKept, PTL

=============================================================================
