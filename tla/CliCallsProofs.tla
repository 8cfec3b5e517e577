--------------------------- MODULE CliCallsProofs ---------------------------
(***************************************************************************)
(* Theorems about CliCalls, for any number of calls, of slots per class,   *)
(* of retries and of lines in a stream's queue.                            *)
(***************************************************************************)
EXTENDS CliCalls, FiniteSetTheorems, TLAPS

Places == {"idle", "cooling", "queued", "spacing", "spawning", "writing", "reading",
           "stuck", "reaping", "waiting", "backoff", "over"}

-----------------------------------------------------------------------------
(* Type correctness.                                                       *)

LEMMA TypeInit == Init => TypeOK
  <1> SUFFICES ASSUME Init PROVE TypeOK
    OBVIOUS
  <1>1. GateTypeOK
    BY GateAssumption DEF Init, GateInit, GateTypeOK, Cap
  <1>2. tries \in [Calls -> 0..MaxRetries] /\ lines \in [Calls -> 0..MaxLines]
    BY CallsAssumption DEF Init
  <1> QED BY <1>1, <1>2 DEF Init, TypeOK, Kinds

(* What the gate does to its slots.                                        *)
LEMMA GateTyped ==
    ASSUME GateTypeOK, NEW k \in Classes
    PROVE  /\ TakeSlot(k) => GateTypeOK' /\ free'[k] = free[k] - 1
           /\ GiveSlot(k) => GateTypeOK' /\ free'[k] = free[k] + 1
           /\ UNCHANGED gateVars => GateTypeOK'
           /\ TakeSlot(k) \/ GiveSlot(k) =>
                \A j \in Classes \ {k} : free'[j] = free[j]
  BY DEF GateTypeOK, TakeSlot, GiveSlot, gateVars

LEMMA ClassTyped == \A c \in Calls : Class(c) \in Classes
  BY DEF Class, Classes

LEMMA TypeNext == TypeOK /\ [Next]_vars => TypeOK'
  <1> SUFFICES ASSUME TypeOK, [Next]_vars PROVE TypeOK'
    OBVIOUS
  <1>0. MaxRetries \in Nat /\ MaxLines \in Nat BY CallsAssumption
  <1> USE <1>0 DEF TypeOK, Move
  <1>1. ASSUME NEW c \in Calls, NEW k \in Kinds, Begin(c, k) PROVE TypeOK'
    BY <1>1, GateTyped DEF Begin, gateVars, GateTypeOK
  <1>2. ASSUME NEW c \in Calls, Enter(c) \/ Retry(c) PROVE TypeOK'
    <2>1. GateTypeOK'
      BY <1>2, GateTyped, ClassTyped
         DEF Enter, PassCooldown, Acquire, PassSpacing, Retry, gateVars, GateTypeOK
    <2>2. \E to \in Places : pc' = [pc EXCEPT ![c] = to]
      BY <1>2 DEF Enter, PassCooldown, Acquire, PassSpacing, Retry, Places
    <2>3. UNCHANGED <<kind, proc, tries, listed, signal, watch, killing, lines,
                      draining, leaked, unread>>
      BY <1>2 DEF Enter, PassCooldown, Acquire, PassSpacing, Retry
    <2> QED BY <2>1, <2>2, <2>3 DEF Places
  <1>3. ASSUME NEW c \in Calls, Spawn(c) PROVE TypeOK'
    <2>1. \E to \in Places : pc' = [pc EXCEPT ![c] = to]
      BY <1>3 DEF Spawn, Places
    <2>2. watch' \in [Calls -> {"off", "on", "termed"}] /\ draining' \subseteq Calls
      BY <1>3 DEF Spawn
    <2> QED BY <1>3, <2>1, <2>2, GateTyped DEF Spawn, Places, gateVars, GateTypeOK
  <1>3a. ASSUME NEW c \in Calls, WritePrompt(c) PROVE TypeOK'
    BY <1>3a DEF WritePrompt, gateVars, GateTypeOK
  <1>4. ASSUME NEW c \in Calls, SpawnFails(c) PROVE TypeOK'
    <2>1. GateTypeOK'
      BY <1>4, GateTyped, ClassTyped DEF SpawnFails, gateVars, GateTypeOK
    <2> QED BY <1>4, <2>1 DEF SpawnFails
  <1>5. ASSUME NEW c \in Calls, Run(c) \/ Exit(c) PROVE TypeOK'
    <2>1. GateTypeOK'
      BY <1>5, GateTyped, ClassTyped
         DEF Run, CloseOutput, ReportLimit, DrainLine, DrainFails, Consume, Exit,
             NoteRateLimit, gateVars, GateTypeOK
    <2>2. CASE CloseOutput(c) \/ Exit(c)
      BY <2>1, <2>2 DEF CloseOutput, Exit
    <2>3. CASE ReportLimit(c)
      BY <2>1, <2>3 DEF ReportLimit, callVars
    <2>4. CASE DrainLine(c) \/ DrainFails(c) \/ Consume(c)
      <3>1. lines[c] + 1 \in 0..MaxLines \/ ~(DrainLine(c) \/ DrainFails(c))
        BY DEF DrainLine, DrainFails
      <3>2. lines[c] - 1 \in 0..MaxLines \/ ~Consume(c)
        BY DEF Consume
      <3> QED BY <2>1, <2>4, <3>1, <3>2 DEF DrainLine, DrainFails, Consume
    <2> QED BY <1>5, <2>2, <2>3, <2>4 DEF Run
  <1>6. ASSUME NEW c \in Calls, Leave(c) PROVE TypeOK'
    <2>1. GateTypeOK'
      BY <1>6, GateTyped, ClassTyped
         DEF Leave, DrainEnd, Answer, EndOfOutput, Reaped, ReapEnds
    <2>2. CASE DrainEnd(c) BY <2>1, <2>2 DEF DrainEnd
    <2>3. CASE Answer(c)
      <3>1. /\ pc' = [pc EXCEPT ![c] = "over"] \/ pc' = [pc EXCEPT ![c] = "backoff"]
            /\ \/ tries' = tries
               \/ tries[c] < MaxRetries /\ tries' = [tries EXCEPT ![c] = @ + 1]
        BY <2>3 DEF Answer
      <3>2. tries' \in [Calls -> 0..MaxRetries]
        BY <3>1
      <3>3. pc' \in [Calls -> Places] BY <3>1 DEF Places
      <3>4. /\ listed' \subseteq Calls /\ killing' \subseteq Calls
            /\ watch' = [watch EXCEPT ![c] = "off"]
            /\ UNCHANGED <<kind, proc, signal, lines, draining, leaked, unread>>
        BY <2>3 DEF Answer
      <3> QED BY <2>1, <3>2, <3>3, <3>4 DEF Places
    <2>4. CASE EndOfOutput(c) BY <2>1, <2>4 DEF EndOfOutput
    <2>5. CASE Reaped(c) \/ ReapEnds(c) BY <2>1, <2>5 DEF Reaped, ReapEnds
    <2> QED BY <1>6, <2>2, <2>3, <2>4, <2>5 DEF Leave
  <1>7. ASSUME NEW c \in Calls, Signal(c) \/ Kill(c) \/ Watch(c) PROVE TypeOK'
    <2>1. GateTypeOK'
      BY <1>7, GateTyped, ClassTyped
         DEF Signal, Kill, Watch, WatchTerm, WatchKill, KillEnds
    <2> QED BY <1>7, <2>1 DEF Signal, Kill, Watch, WatchTerm, WatchKill, KillEnds
  <1>8. ASSUME NEW c \in Calls, Abort(c) PROVE TypeOK'
    <2>1. GateTypeOK'
      BY <1>8, GateTyped, ClassTyped
         DEF Abort, AbortOutside, AbortEntering, AbortReading, AbortStream, AbortStuck
    <2>2. CASE AbortOutside(c) \/ AbortEntering(c)
      BY <2>1, <2>2 DEF AbortOutside, AbortEntering
    <2>3. CASE AbortReading(c) BY <2>1, <2>3 DEF AbortReading
    <2>4. CASE AbortStream(c) \/ AbortStuck(c)
      BY <2>1, <2>4 DEF AbortStream, AbortStuck
    <2> QED BY <1>8, <2>2, <2>3, <2>4 DEF Abort
  <1>9. CASE CooldownOver /\ UNCHANGED callVars
    BY <1>9 DEF CooldownOver, callVars, GateTypeOK
  <1>10. CASE UNCHANGED vars
    BY <1>10 DEF vars, gateVars, callVars, GateTypeOK
  <1> HIDE DEF TypeOK, Move
  <1> QED
    BY <1>1, <1>2, <1>3, <1>4, <1>5, <1>6, <1>7, <1>8, <1>9, <1>10, <1>3a DEF Next

(* Every state of the gate and of its calls has its type: no semaphore     *)
(* goes below zero, no queue of lines above its bound (cli_rate_gate.py).  *)
THEOREM TypeCorrect == Spec => []TypeOK
  BY TypeInit, TypeNext, PTL DEF Spec

-----------------------------------------------------------------------------
(* Where a call can be.  A drain task lives while its stream writes, reads *)
(* or is stuck behind it; a process runs while its call writes to it, reads *)
(* it or reaps it, or after its reader has failed: the invariant that says *)
(* at which steps of a path a slot and a process are still there.          *)

PathInv ==
    /\ \A c \in draining : kind[c] = "stream" /\ pc[c] \in {"writing", "reading", "stuck"}
    /\ \A c \in Calls : pc[c] = "stuck" => c \in draining
    /\ \A c \in leaked : kind[c] = "stream" /\ pc[c] = "over"
    /\ \A c \in Calls : proc[c] = "running" =>
          \/ pc[c] \in {"writing", "reading", "stuck", "reaping"}
          \/ pc[c] = "over" /\ kind[c] = "codex"
          \/ pc[c] \in {"waiting", "over"} /\ c \in unread
    /\ \A c \in Calls :
          kind[c] = "stream" /\ pc[c] \in {"writing", "reading"} /\ proc[c] = "running"
             => c \in draining \cup unread
    /\ \A c \in Calls :
          kind[c] = "codex" => pc[c] \notin {"cooling", "queued", "spacing", "backoff"}
    /\ \A c \in Calls : kind[c] \in Retrying => pc[c] # "writing"

LEMMA PathNext == TypeOK /\ PathInv /\ [Next]_vars => PathInv'
  <1> SUFFICES ASSUME TypeOK, PathInv, [Next]_vars PROVE PathInv'
    OBVIOUS
  <1> USE DEF TypeOK, PathInv, Move
  <1>1. ASSUME NEW c \in Calls, NEW k \in Kinds, Begin(c, k) PROVE PathInv'
    BY <1>1 DEF Begin
  <1>2. ASSUME NEW c \in Calls, Enter(c) \/ Retry(c) PROVE PathInv'
    BY <1>2 DEF Enter, PassCooldown, Acquire, PassSpacing, Retry
  <1>3. ASSUME NEW c \in Calls, Spawn(c) PROVE PathInv'
    BY <1>3 DEF Spawn
  <1>3a. ASSUME NEW c \in Calls, WritePrompt(c) PROVE PathInv'
    BY <1>3a DEF WritePrompt, Retrying
  <1>4. ASSUME NEW c \in Calls, SpawnFails(c) PROVE PathInv'
    BY <1>4 DEF SpawnFails
  <1>5. ASSUME NEW c \in Calls, Run(c) \/ Exit(c) PROVE PathInv'
    BY <1>5 DEF Run, CloseOutput, ReportLimit, DrainLine, DrainFails, Consume, Exit,
                callVars
  <1>6. ASSUME NEW c \in Calls, Leave(c) PROVE PathInv'
    <2>1. CASE DrainEnd(c) BY <2>1 DEF DrainEnd
    <2>2. CASE Answer(c) BY <2>2 DEF Answer, Retrying
    <2>3. CASE EndOfOutput(c) BY <2>3 DEF EndOfOutput
    <2>4. CASE Reaped(c) \/ ReapEnds(c) BY <2>4 DEF Reaped, ReapEnds
    <2> QED BY <1>6, <2>1, <2>2, <2>3, <2>4 DEF Leave
  <1>7. ASSUME NEW c \in Calls, Signal(c) \/ Kill(c) \/ Watch(c) PROVE PathInv'
    BY <1>7 DEF Signal, Kill, Watch, WatchTerm, WatchKill, KillEnds
  <1>8. ASSUME NEW c \in Calls, Abort(c) PROVE PathInv'
    <2>1. CASE AbortOutside(c) BY <2>1 DEF AbortOutside
    <2>2. CASE AbortEntering(c) BY <2>2 DEF AbortEntering
    <2>3. CASE AbortReading(c) BY <2>3 DEF AbortReading
    <2>4. CASE AbortStream(c) BY <2>4 DEF AbortStream
    <2>5. CASE AbortStuck(c) BY <2>5 DEF AbortStuck
    <2> QED BY <1>8, <2>1, <2>2, <2>3, <2>4, <2>5 DEF Abort
  <1>9. CASE CooldownOver /\ UNCHANGED callVars
    BY <1>9 DEF callVars
  <1>10. CASE UNCHANGED vars
    BY <1>10 DEF vars, callVars
  <1> HIDE DEF TypeOK, PathInv, Move
  <1> QED
    BY <1>1, <1>2, <1>3, <1>4, <1>5, <1>6, <1>7, <1>8, <1>9, <1>10, <1>3a DEF Next

LEMMA PathsKept == Spec => [](TypeOK /\ PathInv)
  <1>1. Init => PathInv
    BY DEF Init, PathInv
  <1> QED BY <1>1, TypeInit, TypeNext, PathNext, PTL DEF Spec

(* Whatever ends a call of the Claude CLI, its process is gone by then, but *)
(* for that of a stream whose reader failed while the process ran: that is *)
(* the one way past the reaping (cli_backend.py, the finally blocks,       *)
(* _drain_stdout and _reap_subprocess).                                    *)
THEOREM OrphansOnlyUnread == Spec => []OrphansWereUnread
  <1>1. PathInv => OrphansWereUnread
    BY DEF PathInv, OrphansWereUnread
  <1> QED BY <1>1, PathsKept, PTL

-----------------------------------------------------------------------------
(* Slots.                                                                  *)

HeldOf(k) == {c \in Calls : Class(c) = k /\ Holds(c)}
LeakedOf(k) == {c \in leaked : Class(c) = k}

(* What a step of one call leaves of the others.                           *)
OthersKept(c) ==
    \A d \in Calls \ {c} : /\ kind'[d] = kind[d] /\ pc'[d] = pc[d]
                           /\ d \in draining' <=> d \in draining

LEMMA HoldersFinite ==
    ASSUME TypeOK, NEW k
    PROVE  /\ IsFiniteSet(HeldOf(k)) /\ Cardinality(HeldOf(k)) \in Nat
           /\ IsFiniteSet(LeakedOf(k)) /\ Cardinality(LeakedOf(k)) \in Nat
  <1>1. HeldOf(k) \subseteq Calls /\ LeakedOf(k) \subseteq Calls
    BY DEF HeldOf, LeakedOf, TypeOK
  <1> QED BY <1>1, CallsAssumption, FS_Subset, FS_CardinalityType

LEMMA OthersHold ==
    ASSUME NEW c \in Calls, OthersKept(c), NEW d \in Calls \ {c}
    PROVE  Class(d)' = Class(d) /\ (Holds(d)' <=> Holds(d))
  BY DEF OthersKept, Class, Holds, Gated

(* The count of one class, as a sum the lemmas below move along.           *)
Sum(k) == free[k] + Cardinality(HeldOf(k)) + Cardinality(LeakedOf(k))

LEMMA SumIsCap == SlotsAccounted <=> \A k \in Classes : Sum(k) = Cap(k)
  BY DEF SlotsAccounted, Sum, HeldOf, LeakedOf

(* A call that takes a slot of its class.                                  *)
LEMMA SlotTaken ==
    ASSUME TypeOK, SlotsAccounted, NEW c \in Calls, OthersKept(c),
           Class(c)' = Class(c), ~Holds(c), Holds(c)', TakeSlot(Class(c)),
           leaked' = leaked, c \notin leaked
    PROVE  SlotsAccounted'
  <1> SUFFICES ASSUME NEW k \in Classes PROVE Sum(k)' = Cap(k)
    BY DEF SlotsAccounted, Sum, HeldOf, LeakedOf, Cap
  <1>1. Sum(k) = Cap(k) /\ free[k] \in Nat
    BY SumIsCap DEF TypeOK, GateTypeOK
  <1>2. LeakedOf(k)' = LeakedOf(k)
    BY OthersHold DEF LeakedOf, TypeOK
  <1>3. CASE k = Class(c)
    <2>1. HeldOf(k)' = HeldOf(k) \cup {c} /\ c \notin HeldOf(k)
      BY <1>3, OthersHold DEF HeldOf
    <2>2. Cardinality(HeldOf(k)') = Cardinality(HeldOf(k)) + 1
      BY <2>1, HoldersFinite, FS_AddElement
    <2>3. free'[k] = free[k] - 1
      BY <1>3, GateTyped DEF TypeOK
    <2> QED BY <1>1, <1>2, <2>2, <2>3, HoldersFinite DEF Sum
  <1>4. CASE k # Class(c)
    <2>1. HeldOf(k)' = HeldOf(k) BY <1>4, OthersHold DEF HeldOf
    <2>2. free'[k] = free[k] BY <1>4, GateTyped, ClassTyped DEF TypeOK
    <2> QED BY <1>1, <1>2, <2>1, <2>2 DEF Sum
  <1> QED BY <1>3, <1>4

(* A call that gives its slot back.                                        *)
LEMMA SlotGiven ==
    ASSUME TypeOK, SlotsAccounted, NEW c \in Calls, OthersKept(c),
           Class(c)' = Class(c), Holds(c), ~Holds(c)', GiveSlot(Class(c)),
           leaked' = leaked, c \notin leaked
    PROVE  SlotsAccounted'
  <1> SUFFICES ASSUME NEW k \in Classes PROVE Sum(k)' = Cap(k)
    BY DEF SlotsAccounted, Sum, HeldOf, LeakedOf, Cap
  <1>1. Sum(k) = Cap(k) /\ free[k] \in Nat
    BY SumIsCap DEF TypeOK, GateTypeOK
  <1>2. LeakedOf(k)' = LeakedOf(k)
    BY OthersHold DEF LeakedOf, TypeOK
  <1>3. CASE k = Class(c)
    <2>1. HeldOf(k)' = HeldOf(k) \ {c} /\ c \in HeldOf(k)
      BY <1>3, OthersHold DEF HeldOf
    <2>2. Cardinality(HeldOf(k)') = Cardinality(HeldOf(k)) - 1
      BY <2>1, HoldersFinite, FS_RemoveElement
    <2>3. free'[k] = free[k] + 1
      BY <1>3, GateTyped DEF TypeOK
    <2> QED BY <1>1, <1>2, <2>2, <2>3, HoldersFinite DEF Sum
  <1>4. CASE k # Class(c)
    <2>1. HeldOf(k)' = HeldOf(k) BY <1>4, OthersHold DEF HeldOf
    <2>2. free'[k] = free[k] BY <1>4, GateTyped, ClassTyped DEF TypeOK
    <2> QED BY <1>1, <1>2, <2>1, <2>2 DEF Sum
  <1> QED BY <1>3, <1>4

(* A stream that ends with its slot.                                       *)
LEMMA SlotLeaked ==
    ASSUME TypeOK, SlotsAccounted, NEW c \in Calls, OthersKept(c),
           Class(c)' = Class(c), Holds(c), ~Holds(c)', free' = free,
           leaked' = leaked \cup {c}, c \notin leaked
    PROVE  SlotsAccounted'
  <1> SUFFICES ASSUME NEW k \in Classes PROVE Sum(k)' = Cap(k)
    BY DEF SlotsAccounted, Sum, HeldOf, LeakedOf, Cap
  <1>1. Sum(k) = Cap(k) /\ free[k] \in Nat
    BY SumIsCap DEF TypeOK, GateTypeOK
  <1>2. CASE k = Class(c)
    <2>1. HeldOf(k)' = HeldOf(k) \ {c} /\ c \in HeldOf(k)
      BY <1>2, OthersHold DEF HeldOf
    <2>2. LeakedOf(k)' = LeakedOf(k) \cup {c} /\ c \notin LeakedOf(k)
      BY <1>2, OthersHold DEF LeakedOf, TypeOK
    <2>3. /\ Cardinality(HeldOf(k)') = Cardinality(HeldOf(k)) - 1
          /\ Cardinality(LeakedOf(k)') = Cardinality(LeakedOf(k)) + 1
      <3>1. /\ IsFiniteSet(HeldOf(k)) /\ IsFiniteSet(LeakedOf(k))
            /\ Cardinality(HeldOf(k)) \in Nat /\ Cardinality(LeakedOf(k)) \in Nat
        BY HoldersFinite
      <3>2. Cardinality(HeldOf(k)') = Cardinality(HeldOf(k)) - 1
        BY <2>1, <3>1, FS_RemoveElement
      <3>3. Cardinality(LeakedOf(k)') = Cardinality(LeakedOf(k)) + 1
        BY <2>2, <3>1, FS_AddElement
      <3> QED BY <3>2, <3>3
    <2> QED BY <1>1, <2>3, HoldersFinite DEF Sum
  <1>3. CASE k # Class(c)
    <2>1. HeldOf(k)' = HeldOf(k) /\ LeakedOf(k)' = LeakedOf(k)
      BY <1>3, OthersHold DEF HeldOf, LeakedOf, TypeOK
    <2> QED BY <1>1, <2>1 DEF Sum
  <1> QED BY <1>2, <1>3

(* A call that goes on with its slot, or without one.                      *)
LEMMA SlotKept ==
    ASSUME TypeOK, SlotsAccounted, NEW c \in Calls, OthersKept(c),
           Class(c)' = Class(c) \/ (~Holds(c) /\ c \notin leaked),
           Holds(c)' <=> Holds(c), free' = free, leaked' = leaked
    PROVE  SlotsAccounted'
  <1> SUFFICES ASSUME NEW k \in Classes PROVE Sum(k)' = Cap(k)
    BY DEF SlotsAccounted, Sum, HeldOf, LeakedOf, Cap
  <1>1. Sum(k) = Cap(k)
    BY SumIsCap
  <1>2. HeldOf(k)' = HeldOf(k) /\ LeakedOf(k)' = LeakedOf(k)
    BY OthersHold DEF HeldOf, LeakedOf, TypeOK
  <1> QED BY <1>1, <1>2 DEF Sum

LEMMA SlotsNext ==
    ASSUME TypeOK, PathInv, SlotsAccounted, [Next]_vars
    PROVE  SlotsAccounted'
  <1> DEFINE Given(c) == /\ OthersKept(c) /\ Class(c)' = Class(c) /\ GiveSlot(Class(c))
                         /\ leaked' = leaked /\ c \notin leaked
                         /\ Holds(c) /\ ~Holds(c)'
             Kept(c) == /\ OthersKept(c) /\ free' = free /\ leaked' = leaked
                        /\ Class(c)' = Class(c) \/ (~Holds(c) /\ c \notin leaked)
                        /\ Holds(c)' <=> Holds(c)
  <1>g. ASSUME NEW c \in Calls, Given(c) PROVE SlotsAccounted'
    BY <1>g, SlotGiven
  <1>k. ASSUME NEW c \in Calls, Kept(c) PROVE SlotsAccounted'
    BY <1>k, SlotKept
  <1> USE DEF Move, TypeOK, OthersKept, gateVars
  <1>1. ASSUME NEW c \in Calls, NEW k \in Kinds, Begin(c, k) PROVE Kept(c)
    BY <1>1 DEF Begin, Holds, Gated, PathInv
  <1>2. ASSUME NEW c \in Calls, PassCooldown(c) \/ PassSpacing(c) \/ Retry(c)
        PROVE  Kept(c)
    BY <1>2 DEF PassCooldown, PassSpacing, Retry, Holds, Gated, Class, Retrying
  <1>3. ASSUME NEW c \in Calls, Acquire(c) PROVE SlotsAccounted'
    <2>1. OthersKept(c) /\ Class(c)' = Class(c) /\ TakeSlot(Class(c)) /\ leaked' = leaked
      BY <1>3 DEF Acquire, Class
    <2>2. ~Holds(c) /\ Holds(c)' /\ c \notin leaked
      BY <1>3 DEF Acquire, Holds, Gated, PathInv
    <2> HIDE DEF Move, TypeOK, OthersKept
    <2> QED BY <2>1, <2>2, SlotTaken
  <1>4. ASSUME NEW c \in Calls, Spawn(c) PROVE Kept(c)
    BY <1>4 DEF Spawn, Holds, Gated, Class, Kinds, Retrying, PathInv
  <1>4a. ASSUME NEW c \in Calls, WritePrompt(c) PROVE Kept(c)
    BY <1>4a DEF WritePrompt, Holds, Gated, Class, Kinds, Retrying, PathInv
  <1>5. ASSUME NEW c \in Calls, SpawnFails(c) PROVE Given(c) \/ Kept(c)
    BY <1>5 DEF SpawnFails, Holds, Gated, Class, PathInv
  <1>5a. ASSUME NEW c \in Calls, DrainFails(c) PROVE Given(c)
    BY <1>5a DEF DrainFails, Holds, Gated, Class, Retrying, PathInv
  <1>6. ASSUME NEW c \in Calls, Run(c) \/ Exit(c), ~DrainFails(c) PROVE Kept(c)
    BY <1>6 DEF Run, CloseOutput, ReportLimit, DrainLine, Consume, Exit, NoteRateLimit,
                callVars, Holds, Gated, Class, Retrying
  <1>7. ASSUME NEW c \in Calls, DrainEnd(c) PROVE Given(c)
    BY <1>7 DEF DrainEnd, Holds, Gated, Class, Retrying, PathInv
  <1>8. ASSUME NEW c \in Calls, Answer(c) PROVE Given(c)
    BY <1>8 DEF Answer, Holds, Gated, Class, Retrying, PathInv
  <1>9. ASSUME NEW c \in Calls, EndOfOutput(c) PROVE Given(c) \/ Kept(c)
    BY <1>9 DEF EndOfOutput, Holds, Gated, Class, Retrying, PathInv
  <1>10. ASSUME NEW c \in Calls, Reaped(c) PROVE Kept(c)
    BY <1>10 DEF Reaped, Holds, Gated, Class, Retrying
  <1>11. ASSUME NEW c \in Calls, ReapEnds(c) PROVE Given(c) \/ Kept(c)
    BY <1>11 DEF ReapEnds, Holds, Gated, Class, Retrying, PathInv
  <1>12. ASSUME NEW c \in Calls, Signal(c) \/ Kill(c) \/ Watch(c) PROVE Kept(c)
    BY <1>12 DEF Signal, Kill, Watch, WatchTerm, WatchKill, KillEnds,
                 Holds, Gated, Class, Retrying
  <1>13. ASSUME NEW c \in Calls, AbortOutside(c) PROVE Kept(c)
    BY <1>13 DEF AbortOutside, Holds, Gated, Class, Retrying
  <1>14. ASSUME NEW c \in Calls, AbortEntering(c) PROVE SlotsAccounted'
    <2>1. CASE kind[c] = "stream" /\ pc[c] = "spawning"
      <3>1. /\ OthersKept(c) /\ Class(c)' = Class(c) /\ Holds(c) /\ ~Holds(c)'
            /\ free' = free /\ leaked' = leaked \cup {c} /\ c \notin leaked
        BY <1>14, <2>1 DEF AbortEntering, Holds, Gated, Class, Retrying, PathInv
      <3> HIDE DEF Move, TypeOK, OthersKept
      <3> QED BY <3>1, SlotLeaked
    <2>2. CASE ~(kind[c] = "stream" /\ pc[c] = "spawning")
      <3>1. Given(c) \/ Kept(c)
        BY <1>14, <2>2 DEF AbortEntering, Holds, Gated, Class, PathInv
      <3> HIDE DEF Given, Kept
      <3> QED BY <1>g, <1>k, <3>1
    <2> QED BY <2>1, <2>2
  <1>15. ASSUME NEW c \in Calls, AbortReading(c) PROVE Given(c) \/ Kept(c)
    BY <1>15 DEF AbortReading, Holds, Gated, Class, Kinds, Retrying, PathInv
  <1>16. ASSUME NEW c \in Calls, AbortStream(c) PROVE Given(c) \/ Kept(c)
    BY <1>16 DEF AbortStream, Holds, Gated, Class, Retrying, PathInv
  <1>17. ASSUME NEW c \in Calls, AbortStuck(c) PROVE Given(c)
    BY <1>17 DEF AbortStuck, Holds, Gated, Class, Retrying, PathInv
  <1>18. CASE UNCHANGED <<free, callVars>>
    <2>1. \A k \in Classes : Sum(k)' = Sum(k)
      BY <1>18 DEF callVars, Sum, HeldOf, LeakedOf, Class, Holds, Gated
    <2> QED BY <2>1, SumIsCap DEF SlotsAccounted, Sum, HeldOf, LeakedOf, Cap
  <1> HIDE DEF Move, TypeOK, OthersKept, Given, Kept
  <1>19. ASSUME NEW c \in Calls,
                \/ Enter(c) \/ Spawn(c) \/ SpawnFails(c) \/ WritePrompt(c)
                \/ Run(c) \/ Exit(c) \/ Retry(c)
         PROVE  SlotsAccounted'
    BY <1>g, <1>k, <1>2, <1>3, <1>4, <1>5, <1>6, <1>19, <1>4a, <1>5a DEF Enter
  <1>20. ASSUME NEW c \in Calls, Leave(c) PROVE SlotsAccounted'
    BY <1>g, <1>k, <1>7, <1>8, <1>9, <1>10, <1>11, <1>20 DEF Leave
  <1>21. ASSUME NEW c \in Calls, Abort(c) PROVE SlotsAccounted'
    BY <1>g, <1>k, <1>13, <1>14, <1>15, <1>16, <1>17, <1>21 DEF Abort
  <1>22. ASSUME NEW c \in Calls, Signal(c) \/ Watch(c) \/ Kill(c) PROVE SlotsAccounted'
    BY <1>k, <1>12, <1>22
  <1>23. (CooldownOver /\ UNCHANGED callVars) \/ UNCHANGED vars =>
           UNCHANGED <<free, callVars>>
    BY DEF CooldownOver, vars
  <1> QED
    BY <1>k, <1>1, <1>18, <1>19, <1>20, <1>21, <1>22, <1>23 DEF Next

(* No slot of the gate is lost or returned twice, whichever way the calls  *)
(* end, but for a stream that is cancelled while its process is started    *)
(* (cli_rate_gate.py; cli_backend.py).                                     *)
THEOREM SlotsAccountedFor == Spec => []SlotsAccounted
  <1>1. Init => SlotsAccounted
    <2> SUFFICES ASSUME Init, NEW k \in Classes PROVE Sum(k) = Cap(k)
      BY SumIsCap
    <2>1. HeldOf(k) = {} /\ LeakedOf(k) = {}
      BY DEF Init, HeldOf, LeakedOf, Holds, Retrying
    <2>2. free[k] = Cap(k) /\ Cap(k) \in Nat
      BY GateAssumption DEF Init, GateInit, Cap
    <2> QED BY <2>1, <2>2, FS_EmptySet DEF Sum
  <1>2. TypeOK /\ PathInv /\ SlotsAccounted /\ [Next]_vars => SlotsAccounted'
    BY SlotsNext
  <1> QED BY <1>1, <1>2, PathsKept, PTL DEF Spec

(* Never more processes of a class run outside the reaping than the gate   *)
(* has slots, those not counted that run on behind a reader that failed:   *)
(* any other that runs still has its slot (cli_rate_gate.py).              *)
THEOREM CapsKept == Spec => []CapsButUnread
  <1>1. ASSUME TypeOK, PathInv, SlotsAccounted PROVE CapsButUnread
    <2> SUFFICES ASSUME NEW k \in Classes
                 PROVE  Cardinality({c \in Calls \ unread : /\ Class(c) = k /\ Gated(c)
                                       /\ proc[c] = "running" /\ pc[c] # "reaping"})
                          <= Cap(k)
      BY DEF CapsButUnread
    <2> DEFINE running == {c \in Calls \ unread : /\ Class(c) = k /\ Gated(c)
                                         /\ proc[c] = "running" /\ pc[c] # "reaping"}
    <2>1. ASSUME NEW c \in running PROVE c \in HeldOf(k)
      <3>1. pc[c] \in {"writing", "reading", "stuck"}
        BY <1>1, <2>1 DEF PathInv, Gated
      <3>2. kind[c] \in {"call", "oneshot", "events", "stream"}
        BY <1>1, <2>1 DEF Gated, TypeOK, Kinds
      <3>3. Holds(c)
        BY <1>1, <2>1, <3>1, <3>2 DEF Holds, Retrying, PathInv
      <3> QED BY <2>1, <3>3 DEF HeldOf
    <2> HIDE DEF running
    <2>2. Cardinality(running) <= Cardinality(HeldOf(k)) /\ Cardinality(running) \in Nat
      BY <1>1, <2>1, HoldersFinite, FS_Subset, FS_CardinalityType
    <2>3. Sum(k) = Cap(k) /\ free[k] \in Nat
      BY <1>1, SumIsCap DEF TypeOK, GateTypeOK
    <2>4. Cardinality(HeldOf(k)) <= Cap(k)
      BY <1>1, <2>3, HoldersFinite DEF Sum
    <2>5. Cardinality(HeldOf(k)) \in Nat /\ Cap(k) \in Nat
      BY <1>1, HoldersFinite, GateAssumption DEF Cap
    <2>6. Cardinality(running) <= Cap(k) BY <2>2, <2>4, <2>5
    <2> QED BY <2>6 DEF running
  <1> QED BY <1>1, PathsKept, SlotsAccountedFor, PTL

=============================================================================
