------------------------ MODULE PersistentChatProofs ------------------------
(***************************************************************************)
(* The slots of the gate, the registry of processes, who brings the        *)
(* conversation and whose answer a turn shows, for any number of turns,    *)
(* processes, slots and tokens.                                            *)
(***************************************************************************)
EXTENDS PersistentChat, FiniteSetTheorems, TLAPS

Places == Awaiting \cup {"idle", "clearing", "left", "ending", "failing", "over"}

-----------------------------------------------------------------------------
(* Slots.                                                                  *)

SlotInv == pc \in [Turns -> Places] /\ free \in Int /\ SlotsHeld

LEMMA HoldersFinite == IsFiniteSet(Holders) /\ Cardinality(Holders) \in Int
  <1>1. IsFiniteSet(Turns) BY ChatAssumption, FS_Interval DEF Turns
  <1>2. IsFiniteSet(Holders) BY <1>1, FS_Subset DEF Holders
  <1> QED BY <1>2, FS_CardinalityType

(* A turn that takes a slot.                                               *)
LEMMA SlotTaken ==
    ASSUME SlotInv, NEW t \in Turns, pc[t] \notin HasSlot, NEW to \in HasSlot,
           pc' = [pc EXCEPT ![t] = to], free' = free - 1
    PROVE  SlotInv'
  <1>1. pc' \in [Turns -> Places] BY DEF SlotInv, HasSlot, Places, Awaiting
  <1>2. Holders' = Holders \cup {t} /\ t \notin Holders
    BY DEF Holders, SlotInv
  <1>3. Cardinality(Holders') = Cardinality(Holders) + 1
    BY <1>2, HoldersFinite, FS_AddElement
  <1>4. free' \in Int /\ free' + Cardinality(Holders') = Slots
    BY <1>3, HoldersFinite DEF SlotInv, SlotsHeld
  <1> QED BY <1>1, <1>4 DEF SlotInv, SlotsHeld

(* A turn that gives its slot back.                                        *)
LEMMA SlotReturned ==
    ASSUME SlotInv, NEW t \in Turns, pc[t] \in HasSlot, NEW to \in Places \ HasSlot,
           pc' = [pc EXCEPT ![t] = to], free' = free + 1
    PROVE  SlotInv'
  <1>1. pc' \in [Turns -> Places] BY DEF SlotInv
  <1>2. Holders' = Holders \ {t} /\ t \in Holders
    BY DEF Holders, SlotInv
  <1>3. Cardinality(Holders') = Cardinality(Holders) - 1
    BY <1>2, HoldersFinite, FS_RemoveElement
  <1>4. free' \in Int /\ free' + Cardinality(Holders') = Slots
    BY <1>3, HoldersFinite DEF SlotInv, SlotsHeld
  <1> QED BY <1>1, <1>4 DEF SlotInv, SlotsHeld

(* A turn that moves on with its slot, or without one.                     *)
LEMMA SlotKept ==
    ASSUME SlotInv, NEW t \in Turns, NEW to \in Places,
           pc[t] \in HasSlot <=> to \in HasSlot,
           pc' = [pc EXCEPT ![t] = to], free' = free
    PROVE  SlotInv'
  <1>1. pc' \in [Turns -> Places] BY DEF SlotInv
  <1>2. Holders' = Holders BY DEF Holders, SlotInv
  <1> QED BY <1>1, <1>2 DEF SlotInv, SlotsHeld

LEMMA SlotsUntouched ==
    ASSUME SlotInv, pc' = pc, free' = free
    PROVE  SlotInv'
  BY DEF SlotInv, SlotsHeld, Holders

(* Every step of a turn keeps the slots accounted for.                     *)
LEMMA TurnKeepsSlots ==
    ASSUME SlotInv, NEW t \in Turns,
           \/ \E drift \in BOOLEAN : Begin(t, drift)
           \/ Go(t) \/ Cancel(t) \/ CancelEarly(t) \/ LeaveStream(t)
           \/ CloseGenerator(t)
    PROVE  SlotInv'
  <1> USE DEF Move
  <1>0. pc[t] \in Places BY DEF SlotInv
  <1>1. ASSUME NEW drift \in BOOLEAN, Begin(t, drift) PROVE SlotInv'
    <2> DEFINE unfit == table # None /\ (drift \/ proc[table] # "running")
    <2>1. /\ pc' = [pc EXCEPT ![t] = IF unfit THEN "clearing" ELSE "asking"]
          /\ free' = free
          /\ \A u \in Turns : IF u < t THEN pc[u] \in {"left", "over"}
                                       ELSE pc[u] = "idle"
      BY <1>1 DEF Begin
    <2>2. t \in Nat BY ChatAssumption DEF Turns
    <2>3. pc[t] = "idle" BY <2>1, <2>2
    <2> HIDE DEF unfit
    <2>4. CASE unfit
      BY <2>1, <2>3, <2>4, SlotKept DEF HasSlot, Places, Awaiting
    <2>5. CASE ~unfit
      BY <2>1, <2>3, <2>5, SlotKept DEF HasSlot, Places, Awaiting
    <2> QED BY <2>4, <2>5
  <1>2. CASE Acquire(t)
    BY <1>2, SlotTaken DEF Acquire, HasSlot
  <1>3. CASE EndTurn(t)
    BY <1>3, SlotReturned DEF EndTurn, HasSlot, Places
  <1>4. CASE Ended(t)
    BY <1>4, SlotReturned DEF Ended, HasSlot, Places
  <1>5. CASE NextToken(t)
    BY <1>5, SlotsUntouched DEF NextToken
  <1>6. CASE Cleared(t) \/ CancelEarly(t)
    <2>1. free' = free BY <1>6 DEF Cleared, CancelEarly
    <2>2. \E to \in {"asking", "over"} :
            pc[t] \notin HasSlot /\ pc' = [pc EXCEPT ![t] = to]
      BY <1>6 DEF Cleared, CancelEarly, HasSlot
    <2> QED BY <2>1, <2>2, SlotKept DEF HasSlot, Places, Awaiting
  <1>7. CASE Spawn(t) \/ Primed(t) \/ Reuse(t) \/ Write(t) \/ LeaveStream(t)
    <2>1. free' = free
      BY <1>7 DEF Spawn, Primed, Reuse, Write, LeaveStream
    <2>2. \E to \in {"priming", "reading", "locking", "left"} :
            pc[t] \in HasSlot /\ pc' = [pc EXCEPT ![t] = to]
      BY <1>7 DEF Spawn, Primed, Reuse, Write, LeaveStream, HasSlot
    <2> QED BY <2>1, <2>2, SlotKept DEF HasSlot, Places, Awaiting
  <1>8. CASE Fail(t) \/ Cancel(t) \/ CloseGenerator(t)
    <2>1. free' = free BY <1>8 DEF Fail, Cancel, CloseGenerator
    <2>2. \E to \in {"failing", "ending"} :
            pc[t] \in HasSlot /\ pc' = [pc EXCEPT ![t] = to]
      BY <1>8 DEF Fail, Cancel, CloseGenerator, HasSlot
    <2> QED BY <2>1, <2>2, SlotKept DEF HasSlot, Places
  <1> QED
    BY <1>1, <1>2, <1>3, <1>4, <1>5, <1>6, <1>7, <1>8 DEF Go

(* So does everything else.                                                *)
LEMMA SlotInvInductive ==
    ASSUME SlotInv, [Next]_vars
    PROVE  SlotInv'
  <1>1. ASSUME NEW t \in Turns,
               \/ \E drift \in BOOLEAN : Begin(t, drift)
               \/ Go(t) \/ Cancel(t) \/ CancelEarly(t) \/ LeaveStream(t)
               \/ CloseGenerator(t)
        PROVE SlotInv'
    BY <1>1, TurnKeepsSlots
  <1>2. ASSUME NEW g \in Procs,
               Work(g) \/ Die(g) \/ ReaderFails(g) \/ RegistryKill(g) \/ KillEnds(g)
        PROVE SlotInv'
    BY <1>2, SlotsUntouched
       DEF Work, Speak, FinishAnswer, ReaderEnds, Die, ReaderFails, RegistryKill,
           KillEnds, turnVars
  <1>3. CASE Reset
    BY <1>3, SlotsUntouched DEF Reset, turnVars
  <1>4. CASE UNCHANGED vars
    BY <1>4, SlotsUntouched DEF vars, turnVars
  <1> QED BY <1>1, <1>2, <1>3, <1>4 DEF Next

LEMMA SlotInit == Init => SlotInv
  <1> SUFFICES ASSUME Init PROVE SlotInv OBVIOUS
  <1>1. pc \in [Turns -> Places] /\ free \in Int
    BY ChatAssumption DEF Init, Places
  <1>2. Holders = {} BY DEF Init, Holders, HasSlot
  <1>3. SlotsHeld BY <1>2, FS_EmptySet, ChatAssumption DEF Init, SlotsHeld
  <1> QED BY <1>1, <1>3 DEF SlotInv

(* The slots are accounted for whatever turns are cancelled, fail or are   *)
(* left by their consumers (cli_persistent_chat.py:321).                   *)
THEOREM SlotsHeldHolds == Spec => []SlotsHeld
  <1>1. Init => SlotInv
    BY SlotInit
  <1>2. SlotInv /\ [Next]_vars => SlotInv'
    BY SlotInvInductive
  <1>3. SlotInv => SlotsHeld
    BY DEF SlotInv
  <1> QED BY <1>1, <1>2, <1>3, PTL DEF Spec

-----------------------------------------------------------------------------
(* Processes.                                                              *)

ProcInv == proc \in [Procs -> {"none", "running", "dead"}] /\ RunningKnown

LEMMA ProcUntouched ==
    ASSUME ProcInv, proc' = proc, known' = known
    PROVE  ProcInv'
  BY DEF ProcInv, RunningKnown

(* SIGKILL comes before the registry forgets.                              *)
LEMMA KilledKeepsKnown ==
    ASSUME ProcInv, NEW g, KilledAndForgotten(g)
    PROVE  ProcInv'
  BY DEF ProcInv, RunningKnown, KilledAndForgotten, Dead

LEMMA ProcInvInductive ==
    ASSUME ProcInv, [Next]_vars
    PROVE  ProcInv'
  <1>1. ASSUME NEW t \in Turns, Spawn(t) PROVE ProcInv'
    <2>1. proc' = [proc EXCEPT ![made + 1] = "running"] /\ known' = known \cup {made + 1}
      BY <1>1 DEF Spawn
    <2> QED BY <2>1 DEF ProcInv, RunningKnown
  <1>2. ASSUME NEW t \in Turns, Cleared(t) \/ Ended(t) PROVE ProcInv'
    BY <1>2, KilledKeepsKnown DEF Cleared, Ended
  <1>3. ASSUME NEW g \in Procs, KillEnds(g) PROVE ProcInv'
    BY <1>3, KilledKeepsKnown DEF KillEnds
  <1>4. ASSUME NEW g \in Procs, Die(g) PROVE ProcInv'
    BY <1>4 DEF Die, Dead, ProcInv, RunningKnown
  <1>5. ASSUME NEW t \in Turns,
               \/ \E drift \in BOOLEAN : Begin(t, drift)
               \/ Acquire(t) \/ Primed(t) \/ Reuse(t) \/ Write(t) \/ NextToken(t)
               \/ EndTurn(t) \/ Fail(t) \/ Cancel(t) \/ CancelEarly(t)
               \/ LeaveStream(t) \/ CloseGenerator(t)
        PROVE ProcInv'
    <2>1. proc' = proc /\ known' = known
      BY <1>5 DEF Begin, Acquire, Primed, Reuse, Write, NextToken, EndTurn, Fail,
                  Cancel, CancelEarly, LeaveStream, CloseGenerator, procVars
    <2> QED BY <2>1, ProcUntouched
  <1>6. ASSUME NEW g \in Procs, Work(g) \/ ReaderFails(g) \/ RegistryKill(g)
        PROVE ProcInv'
    BY <1>6, ProcUntouched
       DEF Work, Speak, FinishAnswer, ReaderEnds, ReaderFails, RegistryKill
  <1>7. CASE Reset
    BY <1>7, ProcUntouched DEF Reset
  <1>8. CASE UNCHANGED vars
    BY <1>8, ProcUntouched DEF vars, procVars
  <1> QED BY <1>1, <1>2, <1>3, <1>4, <1>5, <1>6, <1>7, <1>8 DEF Next, Go

(* The registry knows every process that runs                              *)
(* (cli_persistent_chat.py:229, 422).                                      *)
THEOREM RunningKnownHolds == Spec => []RunningKnown
  <1>1. Init => ProcInv
    BY DEF Init, ProcInv, RunningKnown
  <1>2. ProcInv /\ [Next]_vars => ProcInv'
    BY ProcInvInductive
  <1>3. ProcInv => RunningKnown
    BY DEF ProcInv
  <1> QED BY <1>1, <1>2, <1>3, PTL DEF Spec


-----------------------------------------------------------------------------
(* Types, and the process of a turn.                                       *)

(* A turn that works with a process has one.                               *)
HasProc ==
    \A t \in Turns : pc[t] \in {"priming", "locking", "reading", "left"}
                        => mine[t] # None

TypeInv == TypeOK /\ HasProc

-----------------------------------------------------------------------------
(* Whose answers a process gives.                                          *)

(* What has not been started has nothing.                                  *)
Unborn ==
    \A g \in Procs : g > made =>
        /\ g # table /\ g \notin reader /\ todo[g] = <<>> /\ queue[g] = <<>>
        /\ \A t \in Turns : mine[t] # g

(* The process of a turn that writes its first message is the turn's own,  *)
(* and has said nothing yet.                                               *)
Fresh ==
    \A t \in Turns : pc[t] = "priming" =>
        /\ mine[t] # table /\ mine[t] \notin reader
        /\ todo[mine[t]] \in {<<>>, <<t>>} /\ queue[mine[t]] = <<>>
        /\ \A u \in Turns \ {t} : mine[u] # mine[t]

(* One turn at a time, but for those whose generator is still open.        *)
InTurn ==
    \A t \in Turns : \A u \in Turns :
        u < t /\ pc[t] # "idle" => pc[u] \in {"left", "ending", "over"}

Alone ==
    \A t \in Turns \ overlap : \A u \in Turns :
        u < t /\ pc[t] \notin {"idle", "over"} => pc[u] = "over"

(* Once no generator is open, the process of the table, if its reader      *)
(* runs, owes at most the answer of the turn that reads it, and the queue  *)
(* holds that answer up to its end.                                        *)
Owed(g) ==
    \/ todo[g] = <<>>
    \/ \E u \in Turns : todo[g] = <<u>> /\ pc[u] = "reading" /\ mine[u] = g

Heard(g) ==
    \A u \in Turns : mine[u] = g =>
        /\ pc[u] = "locking" => queue[g] = <<>>
        /\ pc[u] = "reading" =>
            /\ todo[g] # <<>> => \A i \in DOMAIN queue[g] : queue[g][i] = Token(u)
            /\ \A i \in DOMAIN queue[g] : queue[g][i] \in {Token(u), End(u)}

CleanTable ==
    table \in reader /\ (\A u \in Turns : pc[u] # "left")
        => Owed(table) /\ Heard(table)

(* The process of a turn that began alone gives this turn's answer only.   *)
OwnProcess ==
    \A t \in Turns \ overlap :
        pc[t] \in Awaiting \cup {"clearing"} /\ mine[t] # None =>
        /\ mine[t] \in reader =>
            \A i \in DOMAIN todo[mine[t]] : todo[mine[t]][i] = t
        /\ pc[t] \in {"locking", "reading"} =>
            \A i \in DOMAIN queue[mine[t]] :
                queue[mine[t]][i] \in {Token(t), End(t), Eof}

ProcShare == Unborn /\ Fresh /\ CleanTable /\ OwnProcess /\ OwnAnswer

ShareInv == InTurn /\ Alone /\ ProcShare

-----------------------------------------------------------------------------
(* Who brings the conversation.                                            *)

(* A turn that left the history out has its process before it asks for a   *)
(* slot, unless it took the process down as another workspace's.           *)
BriefHasProc ==
    /\ drifted \subseteq brief
    /\ \A t \in brief :
        /\ pc[t] # "idle"
        /\ pc[t] \in {"clearing", "asking", "entering"} /\ t \notin drifted
            => mine[t] # None

LEMMA TypeInit == Init => TypeInv
  <1> SUFFICES ASSUME Init PROVE TypeInv OBVIOUS
  <1>1. \A S \in {overlap, robbed, drifted, brief} : S \subseteq Turns
    BY DEF Init
  <1>2. /\ todo \in [Procs -> Seq(Turns)]
        /\ queue \in [Procs -> Seq(Items)]
    BY DEF Init
  <1>3. spoken \in [Procs -> 0..Tokens] /\ free \in 0..Slots /\ made \in 0..MaxProcs
    BY ChatAssumption DEF Init
  <1>4. /\ table \in Procs \cup {None}
        /\ proc \in [Procs -> {"none", "running", "dead"}]
        /\ known \subseteq Procs /\ reader \subseteq Procs /\ killers \subseteq Procs
        /\ lock \in [Procs -> Turns \cup {None}]
        /\ mine \in [Turns -> Procs \cup {None}]
        /\ victim \in [Turns -> Procs \cup {None}]
        /\ shown \in [Turns -> SUBSET Turns]
        /\ pc = [t \in Turns |-> "idle"]
    BY DEF Init
  <1> QED BY <1>1, <1>2, <1>3, <1>4 DEF TypeInv, TypeOK, HasProc, Awaiting

(* What kill_persistent_chat does to the table, the readers and the queues *)
(* keeps their types, and so does the killing itself.                      *)
LEMMA PopTypes ==
    ASSUME TypeInv, PopAndTerm
    PROVE  /\ table' = None
           /\ reader' \subseteq Procs
           /\ queue' \in [Procs -> Seq(Items)]
  <1>1. table \in Procs \cup {None} /\ reader \subseteq Procs
        /\ queue \in [Procs -> Seq(Items)]
    BY DEF TypeInv, TypeOK
  <1>2. Eof \in Items BY DEF Items
  <1>3. CASE table = None
    BY <1>1, <1>3 DEF PopAndTerm
  <1>4. CASE table # None
    <2>1. table' = None /\ reader' = reader \ {table}
          /\ queue' = IF table \in reader
                      THEN [queue EXCEPT ![table] = Append(@, Eof)] ELSE queue
      BY <1>4 DEF PopAndTerm
    <2>2. table \in Procs /\ Append(queue[table], Eof) \in Seq(Items)
      BY <1>1, <1>2, <1>4
    <2>3. queue' \in [Procs -> Seq(Items)]
      BY <1>1, <2>1, <2>2
    <2> QED BY <1>1, <2>1, <2>3
  <1> QED BY <1>3, <1>4

LEMMA KilledTypes ==
    ASSUME TypeInv, NEW g, KilledAndForgotten(g) \/ (Dead(g) /\ known' = known)
    PROVE  /\ known' \subseteq Procs
           /\ proc' \in [Procs -> {"none", "running", "dead"}]
           /\ todo' \in [Procs -> Seq(Turns)]
           /\ spoken' \in [Procs -> 0..Tokens]
  <1>1. /\ known \subseteq Procs /\ proc \in [Procs -> {"none", "running", "dead"}]
        /\ todo \in [Procs -> Seq(Turns)] /\ spoken \in [Procs -> 0..Tokens]
    BY DEF TypeInv, TypeOK
  <1>2. Dead(g) /\ known' \in {known, known \ {g}}
    BY DEF KilledAndForgotten
  <1>3. 0 \in 0..Tokens BY ChatAssumption
  <1>4. <<>> \in Seq(Turns) OBVIOUS
  <1>5. proc' \in [Procs -> {"none", "running", "dead"}]
    BY <1>1, <1>2 DEF Dead
  <1>6. todo' \in [Procs -> Seq(Turns)]
    BY <1>1, <1>2, <1>4 DEF Dead
  <1>7. spoken' \in [Procs -> 0..Tokens]
    BY <1>1, <1>2, <1>3 DEF Dead
  <1> QED BY <1>1, <1>2, <1>5, <1>6, <1>7


(* The type invariant in three parts: the processes, the turns, and the    *)
(* histories.                                                              *)
ProcTypes ==
    /\ table \in Procs \cup {None}
    /\ made \in 0..MaxProcs
    /\ proc \in [Procs -> {"none", "running", "dead"}]
    /\ known \subseteq Procs
    /\ spoken \in [Procs -> 0..Tokens]
    /\ reader \subseteq Procs /\ killers \subseteq Procs
    /\ todo \in [Procs -> Seq(Turns)]
    /\ queue \in [Procs -> Seq(Items)]

TurnTypes ==
    /\ lock \in [Procs -> Turns \cup {None}]
    /\ pc \in [Turns -> Places]
    /\ mine \in [Turns -> Procs \cup {None}]
    /\ victim \in [Turns -> Procs \cup {None}]
    /\ shown \in [Turns -> SUBSET Turns]
    /\ HasProc

HistoryTypes == \A S \in {overlap, robbed, drifted, brief} : S \subseteq Turns

LEMMA TypeParts ==
    TypeInv <=> ProcTypes /\ TurnTypes /\ HistoryTypes /\ free \in 0..Slots
  BY DEF TypeInv, TypeOK, ProcTypes, TurnTypes, HistoryTypes, Places

LEMMA SpawnTypes ==
    ASSUME TypeInv, NEW t \in Turns, Spawn(t)
    PROVE  ProcTypes' /\ TurnTypes' /\ HistoryTypes'
  <1> DEFINE g == made + 1
  <1>1. g \in Procs /\ g # None /\ g \in 0..MaxProcs
    BY ChatAssumption DEF TypeInv, TypeOK, Spawn, Procs, None
  <1>2. ProcTypes /\ TurnTypes /\ HistoryTypes BY TypeParts
  <1>3. ProcTypes'
    <2>1. todo' = [todo EXCEPT ![g] = <<t>>] /\ <<t>> \in Seq(Turns)
      BY DEF Spawn
    <2>2. /\ table' = table /\ made' = g /\ proc' = [proc EXCEPT ![g] = "running"]
          /\ known' = known \cup {g} /\ spoken' = spoken /\ reader' = reader
          /\ killers' = killers /\ queue' = queue
      BY DEF Spawn
    <2> HIDE DEF g
    <2> QED BY <1>1, <1>2, <2>1, <2>2 DEF ProcTypes
  <1>4. TurnTypes'
    <2>1. /\ mine' = [mine EXCEPT ![t] = g] /\ pc' = [pc EXCEPT ![t] = "priming"]
          /\ lock' = lock /\ victim' = victim /\ shown' = shown
      BY DEF Spawn, Move
    <2> HIDE DEF g
    <2> QED BY <1>1, <1>2, <2>1 DEF TurnTypes, HasProc, Places, Awaiting
  <1>5. HistoryTypes' BY <1>2 DEF HistoryTypes, Spawn, history
  <1> QED BY <1>3, <1>4, <1>5

(* A turn that enters, or gives up before it has a slot.                   *)
LEMMA EnterTypes ==
    ASSUME TypeInv, NEW t \in Turns,
           \/ \E drift \in BOOLEAN : Begin(t, drift)
           \/ Cleared(t) \/ Acquire(t) \/ CancelEarly(t)
    PROVE  ProcTypes' /\ TurnTypes' /\ HistoryTypes'
  <1> USE TypeParts
  <1>1. ASSUME NEW drift \in BOOLEAN, Begin(t, drift)
        PROVE  ProcTypes' /\ TurnTypes' /\ HistoryTypes'
    <2>1. ProcTypes'
      <3>1. PopAndTerm \/ UNCHANGED <<table, reader, queue>>
        BY <1>1 DEF Begin
      <3>2. /\ table' \in Procs \cup {None} /\ reader' \subseteq Procs
            /\ queue' \in [Procs -> Seq(Items)]
        BY <3>1, PopTypes DEF ProcTypes
      <3>3. UNCHANGED <<made, proc, known, todo, spoken, killers>>
        BY <1>1 DEF Begin
      <3> QED BY <3>2, <3>3 DEF ProcTypes
    <2>2. TurnTypes'
      <3>1. /\ \E to \in {"clearing", "asking"} : pc' = [pc EXCEPT ![t] = to]
            /\ \E g \in {table, None} : mine' = [mine EXCEPT ![t] = g]
            /\ \E g \in {table, None} : victim' = [victim EXCEPT ![t] = g]
            /\ lock' = lock /\ shown' = shown
        BY <1>1 DEF Begin
      <3>2. pc' \in [Turns -> Places] BY <3>1 DEF TurnTypes, Places, Awaiting
      <3>3. /\ mine' \in [Turns -> Procs \cup {None}]
            /\ victim' \in [Turns -> Procs \cup {None}]
        BY <3>1 DEF TurnTypes, ProcTypes
      <3>4. HasProc' BY <3>1 DEF TurnTypes, HasProc
      <3> QED BY <3>1, <3>2, <3>3, <3>4 DEF TurnTypes
    <2>3. HistoryTypes' BY <1>1 DEF Begin, HistoryTypes
    <2> QED BY <2>1, <2>2, <2>3
  <1>2. CASE Cleared(t)
    <2>1. ProcTypes' BY <1>2, KilledTypes DEF Cleared, ProcTypes
    <2>2. TurnTypes'
      BY <1>2 DEF Cleared, Move, TurnTypes, HasProc, Places, Awaiting
    <2>3. HistoryTypes' BY <1>2 DEF Cleared, HistoryTypes, history
    <2> QED BY <2>1, <2>2, <2>3
  <1>3. CASE Acquire(t)
    <2>1. ProcTypes' BY <1>3 DEF Acquire, ProcTypes, procVars
    <2>2. TurnTypes'
      BY <1>3 DEF Acquire, Move, TurnTypes, HasProc, Places, Awaiting
    <2>3. HistoryTypes' BY <1>3 DEF Acquire, HistoryTypes, history
    <2> QED BY <2>1, <2>2, <2>3
  <1>4. CASE CancelEarly(t)
    <2>1. ProcTypes' BY <1>4 DEF CancelEarly, ProcTypes, procVars
    <2>2. TurnTypes'
      BY <1>4 DEF CancelEarly, Gone, TurnTypes, HasProc, Places
    <2>3. HistoryTypes' BY <1>4 DEF CancelEarly, Gone, HistoryTypes
    <2> QED BY <2>1, <2>2, <2>3
  <1> QED BY <1>1, <1>2, <1>3, <1>4

(* A turn and its process.                                                 *)
LEMMA AnswerTypes ==
    ASSUME TypeInv, NEW t \in Turns,
           Primed(t) \/ Reuse(t) \/ Write(t) \/ NextToken(t) \/ EndTurn(t)
    PROVE  ProcTypes' /\ TurnTypes' /\ HistoryTypes'
  <1> USE TypeParts
  <1> DEFINE g == mine[t]
  <1>1. g \in Procs
    <2>1. g # None
      BY DEF Primed, Reuse, Write, NextToken, EndTurn, Move, TurnTypes, HasProc
    <2> QED BY <2>1 DEF TurnTypes
  <1>2. ProcTypes'
    <2>1. /\ UNCHANGED <<made, proc, known, spoken, killers>>
          /\ table' \in {table, g} /\ reader' \in {reader, reader \cup {g}}
      BY DEF Primed, Reuse, Write, NextToken, EndTurn
    <2>2. todo' = todo \/ todo' = [todo EXCEPT ![g] = Append(@, t)]
      BY DEF Primed, Reuse, Write, NextToken, EndTurn
    <2>3. todo' \in [Procs -> Seq(Turns)]
      <3>1. Append(todo[g], t) \in Seq(Turns) BY <1>1 DEF ProcTypes
      <3> QED BY <2>2, <3>1 DEF ProcTypes
    <2>4. \/ queue' = queue
          \/ queue' = [queue EXCEPT ![g] = <<>>]
          \/ queue[g] # <<>> /\ queue' = [queue EXCEPT ![g] = Tail(@)]
      BY DEF Primed, Reuse, Write, NextToken, EndTurn
    <2>5. queue' \in [Procs -> Seq(Items)]
      <3>1. queue[g] # <<>> => Tail(queue[g]) \in Seq(Items)
        BY <1>1 DEF ProcTypes
      <3>2. <<>> \in Seq(Items) /\ queue \in [Procs -> Seq(Items)]
        BY DEF ProcTypes
      <3> HIDE DEF g
      <3> QED BY <2>4, <3>1, <3>2
    <2> HIDE DEF g
    <2> QED BY <1>1, <2>1, <2>3, <2>5 DEF ProcTypes
  <1>3. TurnTypes'
    <2>1. CASE Primed(t) \/ Write(t)
      <3>1. /\ pc' = [pc EXCEPT ![t] = "reading"] /\ lock' = [lock EXCEPT ![g] = t]
            /\ mine' = mine /\ victim' = victim /\ shown' = shown
        BY <2>1 DEF Primed, Write, Move
      <3> HIDE DEF g
      <3>2. pc' \in [Turns -> Places] /\ lock' \in [Procs -> Turns \cup {None}]
        BY <3>1 DEF TurnTypes, Places, Awaiting
      <3>3. HasProc'
        BY <1>1, <3>1 DEF TurnTypes, HasProc, g, Procs, None
      <3> QED BY <3>1, <3>2, <3>3 DEF TurnTypes
    <2>2. CASE Reuse(t)
      BY <2>2 DEF Reuse, Move, TurnTypes, HasProc, Places, Awaiting
    <2>3. CASE NextToken(t)
      <3>1. Head(queue[g]) \in Items /\ Head(queue[g])[1] = "token"
        BY <1>1, <2>3 DEF NextToken, ProcTypes
      <3>2. Head(queue[g])[2] \in Turns
        BY <3>1 DEF Items, Eof
      <3> QED BY <2>3, <3>2 DEF NextToken, TurnTypes, HasProc
    <2>4. CASE EndTurn(t)
      <3>1. /\ pc' = [pc EXCEPT ![t] = "over"] /\ lock' = [lock EXCEPT ![g] = None]
            /\ mine' = [mine EXCEPT ![t] = None] /\ shown' = [shown EXCEPT ![t] = {}]
            /\ victim' = victim
        BY <2>4 DEF EndTurn, Move, Gone
      <3> HIDE DEF g
      <3> QED BY <3>1 DEF TurnTypes, HasProc, Places
    <2> QED BY <2>1, <2>2, <2>3, <2>4
  <1>4. HistoryTypes'
    BY DEF Primed, Reuse, Write, NextToken, EndTurn, Gone, HistoryTypes, history
  <1> QED BY <1>2, <1>3, <1>4

(* A turn that does not end by itself.                                     *)
LEMMA KillTypes ==
    ASSUME TypeInv, NEW t \in Turns,
           Fail(t) \/ Cancel(t) \/ CloseGenerator(t) \/ LeaveStream(t) \/ Ended(t)
    PROVE  ProcTypes' /\ TurnTypes' /\ HistoryTypes'
  <1> USE TypeParts
  <1>1. CASE Fail(t) \/ Cancel(t) \/ CloseGenerator(t)
    <2>1. /\ Kill(t) /\ UNCHANGED <<made, proc, known, todo, spoken, killers>>
          /\ mine' = mine /\ shown' = shown /\ brief' = brief
          /\ overlap' = overlap /\ drifted' = drifted
      BY <1>1 DEF Fail, Cancel, CloseGenerator
    <2>2. \E to \in {"failing", "ending"} : pc' = [pc EXCEPT ![t] = to]
      BY <1>1 DEF Fail, Cancel, CloseGenerator, Move
    <2>3. PopAndTerm BY <2>1 DEF Kill
    <2>4. ProcTypes' BY <2>1, <2>3, PopTypes DEF ProcTypes
    <2>5. TurnTypes'
      <3>1. lock' \in [Procs -> Turns \cup {None}]
        BY <2>1 DEF Kill, Unlock, TurnTypes
      <3>2. victim' \in [Turns -> Procs \cup {None}]
        BY <2>1 DEF Kill, TurnTypes, ProcTypes
      <3>3. pc' \in [Turns -> Places] /\ HasProc'
        BY <2>1, <2>2 DEF TurnTypes, HasProc, Places
      <3> QED BY <2>1, <3>1, <3>2, <3>3 DEF TurnTypes
    <2>6. HistoryTypes'
      BY <2>1 DEF Kill, Robbed, HoldersOf, HistoryTypes
    <2> QED BY <2>4, <2>5, <2>6
  <1>2. CASE LeaveStream(t)
    <2>1. ProcTypes' BY <1>2 DEF LeaveStream, ProcTypes, procVars
    <2>2. TurnTypes'
      BY <1>2 DEF LeaveStream, Move, TurnTypes, HasProc, Places
    <2>3. HistoryTypes' BY <1>2 DEF LeaveStream, HistoryTypes, history
    <2> QED BY <2>1, <2>2, <2>3
  <1>3. CASE Ended(t)
    <2>1. ProcTypes' BY <1>3, KilledTypes DEF Ended, ProcTypes
    <2>2. TurnTypes'
      BY <1>3 DEF Ended, Gone, TurnTypes, HasProc, Places
    <2>3. HistoryTypes' BY <1>3 DEF Ended, Gone, HistoryTypes
    <2> QED BY <2>1, <2>2, <2>3
  <1> QED BY <1>1, <1>2, <1>3

(* The process, its reader, and those who kill it.                         *)
LEMMA ProcessTypes ==
    ASSUME TypeInv,
           \/ \E g \in Procs : \/ Work(g) \/ Die(g) \/ ReaderFails(g)
                               \/ RegistryKill(g) \/ KillEnds(g)
           \/ Reset
    PROVE  ProcTypes' /\ TurnTypes' /\ HistoryTypes'
  <1> USE TypeParts
  <1>1. ASSUME NEW g \in Procs, Speak(g) \/ FinishAnswer(g) PROVE ProcTypes'
    <2>1. /\ todo[g] # <<>> /\ todo[g] \in Seq(Turns) /\ queue[g] \in Seq(Items)
      BY <1>1 DEF Speak, FinishAnswer, ProcTypes
    <2>2. /\ Head(todo[g]) \in Turns /\ Tail(todo[g]) \in Seq(Turns)
      BY <2>1
    <2>3. /\ Append(queue[g], Token(Head(todo[g]))) \in Seq(Items)
          /\ Append(queue[g], End(Head(todo[g]))) \in Seq(Items)
      BY <2>1, <2>2 DEF Token, End, Items
    <2>4. /\ UNCHANGED <<table, made, proc, known, reader, killers>>
          /\ \/ queue' = [queue EXCEPT ![g] = Append(@, Token(Head(todo[g])))]
             \/ queue' = [queue EXCEPT ![g] = Append(@, End(Head(todo[g])))]
          /\ todo' = todo \/ todo' = [todo EXCEPT ![g] = Tail(@)]
      BY <1>1 DEF Speak, FinishAnswer
    <2>5. queue' \in [Procs -> Seq(Items)] /\ todo' \in [Procs -> Seq(Turns)]
      BY <2>2, <2>3, <2>4 DEF ProcTypes
    <2>6. spoken' \in [Procs -> 0..Tokens]
      <3>1. spoken \in [Procs -> 0..Tokens] /\ spoken[g] \in 0..Tokens
        BY DEF ProcTypes
      <3>2. \E n \in 0..Tokens : spoken' = [spoken EXCEPT ![g] = n]
        BY <1>1, <3>1, ChatAssumption DEF Speak, FinishAnswer
      <3> QED BY <3>1, <3>2
    <2> QED BY <2>4, <2>5, <2>6 DEF ProcTypes
  <1>2. ASSUME NEW g \in Procs, ReaderEnds(g) \/ ReaderFails(g) PROVE ProcTypes'
    <2>1. Append(queue[g], Eof) \in Seq(Items) BY DEF ProcTypes, Items
    <2>2. /\ UNCHANGED <<table, made, proc, known, todo, spoken, killers>>
          /\ reader' = reader \ {g}
          /\ queue' = [queue EXCEPT ![g] = Append(@, Eof)]
      BY <1>2 DEF ReaderEnds, ReaderFails
    <2> QED BY <2>1, <2>2 DEF ProcTypes
  <1>3. ASSUME NEW g \in Procs, Die(g) PROVE ProcTypes'
    <2>1. known' = known /\ Dead(g) BY <1>3 DEF Die
    <2> QED BY <1>3, <2>1, KilledTypes DEF Die, ProcTypes
  <1>4. ASSUME NEW g \in Procs, RegistryKill(g) PROVE ProcTypes'
    BY <1>4 DEF RegistryKill, ProcTypes
  <1>5. ASSUME NEW g \in Procs, KillEnds(g) PROVE ProcTypes'
    BY <1>5, KilledTypes DEF KillEnds, ProcTypes
  <1>6. ASSUME Reset PROVE ProcTypes'
    <2>1. /\ PopAndTerm /\ killers' = killers \cup {table} /\ table # None
          /\ UNCHANGED <<made, proc, known, todo, spoken>>
      BY <1>6 DEF Reset
    <2>2. killers' \subseteq Procs BY <2>1 DEF ProcTypes
    <2>3. table' \in Procs \cup {None} /\ reader' \subseteq Procs
      BY <2>1, PopTypes
    <2>4. queue' \in [Procs -> Seq(Items)] BY <2>1, PopTypes
    <2> QED BY <2>1, <2>2, <2>3, <2>4 DEF ProcTypes
  <1>7. turnVars' = turnVars
    BY DEF Work, Speak, FinishAnswer, ReaderEnds, Die, ReaderFails, RegistryKill,
           KillEnds, Reset
  <1>8. TurnTypes' BY <1>7 DEF turnVars, TurnTypes, HasProc
  <1>9. HistoryTypes'
    BY <1>7 DEF Work, Speak, FinishAnswer, ReaderEnds, Die, ReaderFails,
                RegistryKill, KillEnds, Reset, Robbed, HoldersOf, HistoryTypes,
                turnVars, history
  <1> QED BY <1>1, <1>2, <1>3, <1>4, <1>5, <1>6, <1>8, <1>9 DEF Work


LEMMA TypeInvInductive ==
    ASSUME TypeInv, SlotInv, [Next]_vars
    PROVE  TypeInv' /\ SlotInv'
  <1>1. SlotInv' BY SlotInvInductive
  <1>2. free' \in Nat
    <2>1. free \in Nat BY ChatAssumption DEF TypeInv, TypeOK
    <2>2. ASSUME NEW t \in Turns, Acquire(t) PROVE free' \in Nat
      BY <2>1, <2>2 DEF Acquire
    <2>3. ASSUME NEW t \in Turns, EndTurn(t) \/ Ended(t) PROVE free' \in Nat
      BY <2>1, <2>3 DEF EndTurn, Ended
    <2>4. ASSUME NEW t \in Turns,
                 \/ \E drift \in BOOLEAN : Begin(t, drift)
                 \/ Cleared(t) \/ Spawn(t) \/ Primed(t) \/ Reuse(t) \/ Write(t)
                 \/ NextToken(t) \/ Fail(t) \/ Cancel(t) \/ CancelEarly(t)
                 \/ LeaveStream(t) \/ CloseGenerator(t)
          PROVE free' \in Nat
      <3>1. free' = free
        BY <2>4 DEF Begin, Cleared, Spawn, Primed, Reuse, Write, NextToken, Fail,
                    Cancel, CancelEarly, LeaveStream, CloseGenerator
      <3> QED BY <2>1, <3>1
    <2>5. ASSUME NEW g \in Procs,
                 \/ Work(g) \/ Die(g) \/ ReaderFails(g)
                 \/ RegistryKill(g) \/ KillEnds(g)
          PROVE free' \in Nat
      BY <2>1, <2>5 DEF Work, Speak, FinishAnswer, ReaderEnds, Die, ReaderFails,
                        RegistryKill, KillEnds, turnVars
    <2>6. CASE Reset \/ UNCHANGED vars
      BY <2>1, <2>6 DEF Reset, vars, turnVars
    <2> QED BY <2>2, <2>3, <2>4, <2>5, <2>6 DEF Next, Go
  <1>3. free' \in 0..Slots
    <2>1. IsFiniteSet(Turns) BY ChatAssumption, FS_Interval DEF Turns
    <2>2. IsFiniteSet(Holders') BY <2>1, FS_Subset DEF Holders
    <2>3. Cardinality(Holders') \in Nat BY <2>2, FS_CardinalityType
    <2>4. free' + Cardinality(Holders') = Slots BY <1>1 DEF SlotInv, SlotsHeld
    <2> QED BY <1>2, <2>3, <2>4, ChatAssumption
  <1>4. ProcTypes' /\ TurnTypes' /\ HistoryTypes'
    <2>1. CASE UNCHANGED vars
      <3>1. ProcTypes /\ TurnTypes /\ HistoryTypes BY TypeParts
      <3> QED BY <2>1, <3>1 DEF vars, procVars, turnVars, history, ProcTypes,
                                TurnTypes, HistoryTypes, HasProc
    <2> QED BY <2>1, EnterTypes, SpawnTypes, AnswerTypes, KillTypes, ProcessTypes
            DEF Next, Go
  <1>5. TypeInv' BY <1>3, <1>4 DEF TypeInv, TypeOK, ProcTypes, TurnTypes,
                                   HistoryTypes, Places
  <1> QED BY <1>1, <1>5

(* A turn that works with a process has one, and the slots stay between    *)
(* none and all: the count is never below zero, whatever turns are         *)
(* cancelled or fail (cli_persistent_chat.py:300).                         *)
THEOREM TypeCorrect == Spec => []TypeOK
  <1>1. Init => TypeInv /\ SlotInv BY TypeInit, SlotInit
  <1>2. TypeInv /\ SlotInv /\ [Next]_vars => TypeInv' /\ SlotInv'
    BY TypeInvInductive
  <1>3. TypeInv => TypeOK BY DEF TypeInv
  <1> QED BY <1>1, <1>2, <1>3, PTL DEF Spec


-----------------------------------------------------------------------------
(* The conversation.                                                       *)

(* A process is started by a turn that found none.                         *)
LEMMA SpawnsWithoutOne ==
    ASSUME TypeInv, [Next]_vars, NEW t \in Turns,
           pc[t] = "entering", pc'[t] = "priming"
    PROVE  mine[t] = None
  <1>0. pc \in [Turns -> Places] BY DEF TypeInv, TypeOK, Places
  <1>1. ASSUME NEW u \in Turns, NEW drift \in BOOLEAN, Begin(u, drift) PROVE FALSE
    BY <1>0, <1>1 DEF Begin
  <1>2. ASSUME NEW u \in Turns, Spawn(u) PROVE mine[t] = None
    BY <1>0, <1>2 DEF Spawn, Move
  <1>3. ASSUME NEW u \in Turns, NextToken(u) PROVE FALSE
    BY <1>3 DEF NextToken
  <1>4. ASSUME NEW u \in Turns,
               \/ Cleared(u) \/ Acquire(u) \/ Primed(u) \/ Reuse(u) \/ Write(u)
               \/ EndTurn(u) \/ Fail(u) \/ Ended(u) \/ Cancel(u) \/ CancelEarly(u)
               \/ LeaveStream(u) \/ CloseGenerator(u)
        PROVE FALSE
    <2>1. \E to \in Places \ {"priming"} : pc' = [pc EXCEPT ![u] = to]
      BY <1>4 DEF Cleared, Acquire, Primed, Reuse, Write, EndTurn, Fail, Ended,
                  Cancel, CancelEarly, LeaveStream, CloseGenerator, Move, Places,
                  Awaiting
    <2> QED BY <1>0, <2>1
  <1>5. ASSUME NEW g \in Procs,
               \/ Work(g) \/ Die(g) \/ ReaderFails(g)
               \/ RegistryKill(g) \/ KillEnds(g)
        PROVE FALSE
    BY <1>5 DEF Work, Speak, FinishAnswer, ReaderEnds, Die, ReaderFails,
                RegistryKill, KillEnds, turnVars
  <1>6. CASE Reset \/ UNCHANGED vars
    BY <1>6 DEF Reset, vars, turnVars
  <1> QED BY <1>1, <1>2, <1>3, <1>4, <1>5, <1>6 DEF Next, Go

(* A turn that begins settles the question; no other step touches it       *)
(* before the turn has its process.                                        *)
LEMMA BriefHasProcInductive ==
    ASSUME TypeInv, BriefHasProc, [Next]_vars
    PROVE  BriefHasProc'
  <1>0. /\ pc \in [Turns -> Places] /\ mine \in [Turns -> Procs \cup {None}]
        /\ brief \subseteq Turns
    BY DEF TypeInv, TypeOK, Places
  <1>1. ASSUME NEW t \in Turns, NEW drift \in BOOLEAN, Begin(t, drift)
        PROVE  BriefHasProc'
    <2> DEFINE unfit == table # None /\ (drift \/ proc[table] # "running")
    <2>1. /\ pc' = [pc EXCEPT ![t] = IF unfit THEN "clearing" ELSE "asking"]
          /\ mine' = [mine EXCEPT ![t] = IF unfit THEN None ELSE table]
          /\ brief' = IF HasPersistent THEN brief \cup {t} ELSE brief
          /\ drifted' = IF HasPersistent /\ drift THEN drifted \cup {t} ELSE drifted
          /\ drifted \subseteq drifted'
      BY <1>1 DEF Begin
    <2>2. pc[t] = "idle"
      BY <1>1, ChatAssumption DEF Begin, Turns
    <2>3. t \notin brief BY <2>2 DEF BriefHasProc
    <2>4. HasPersistent /\ ~drift => ~unfit /\ table # None
      BY DEF HasPersistent
    <2>8. drifted' \subseteq brief'
      BY <2>1 DEF BriefHasProc
    <2>5. SUFFICES ASSUME NEW u \in brief'
                   PROVE  /\ pc'[u] # "idle"
                          /\ pc'[u] \in {"clearing", "asking", "entering"}
                             /\ u \notin drifted' => mine'[u] # None
      BY <2>8 DEF BriefHasProc
    <2>6. CASE u = t
      <3>1. HasPersistent BY <2>1, <2>3, <2>5, <2>6
      <3>2. pc'[t] # "idle" BY <1>0, <2>1
      <3>3. t \notin drifted' => mine'[t] # None
        BY <1>0, <2>1, <2>4, <3>1
      <3> QED BY <2>6, <3>2, <3>3
    <2>7. CASE u # t
      <3>1. u \in brief /\ pc'[u] = pc[u] /\ mine'[u] = mine[u]
        BY <1>0, <2>1, <2>5, <2>7
      <3> QED BY <2>1, <3>1 DEF BriefHasProc
    <2> QED BY <2>6, <2>7
  <1>2. ASSUME NEW t \in Turns, Cleared(t) \/ Acquire(t) PROVE BriefHasProc'
    <2>1. /\ mine' = mine /\ brief' = brief /\ drifted' = drifted
          /\ pc[t] \in {"clearing", "asking"}
          /\ \E to \in {"asking", "entering"} : pc' = [pc EXCEPT ![t] = to]
      BY <1>2 DEF Cleared, Acquire, Move, history
    <2> QED BY <1>0, <2>1 DEF BriefHasProc
  <1>3. ASSUME NEW t \in Turns,
               \/ Primed(t) \/ Reuse(t) \/ Write(t) \/ LeaveStream(t)
               \/ Fail(t) \/ Cancel(t) \/ CloseGenerator(t)
        PROVE  BriefHasProc'
    <2>1. /\ mine' = mine /\ brief' = brief /\ drifted' = drifted
          /\ \E to \in Places \ {"idle", "clearing", "asking", "entering"} :
                pc' = [pc EXCEPT ![t] = to]
      BY <1>3 DEF Primed, Reuse, Write, LeaveStream, Fail, Cancel, CloseGenerator,
                  Move, Places, Awaiting, history
    <2> QED BY <1>0, <2>1 DEF BriefHasProc
  <1>4. ASSUME NEW t \in Turns, Spawn(t) PROVE BriefHasProc'
    <2>1. /\ \E g : mine' = [mine EXCEPT ![t] = g]
          /\ brief' = brief /\ drifted' = drifted
          /\ pc' = [pc EXCEPT ![t] = "priming"]
      BY <1>4 DEF Spawn, Move, history
    <2> QED BY <1>0, <2>1 DEF BriefHasProc
  <1>5. ASSUME NEW t \in Turns, EndTurn(t) \/ Ended(t) \/ CancelEarly(t)
        PROVE  BriefHasProc'
    <2>1. /\ mine' = [mine EXCEPT ![t] = None] /\ brief' = brief \ {t}
          /\ drifted' = drifted \ {t} /\ pc' = [pc EXCEPT ![t] = "over"]
      BY <1>5 DEF EndTurn, Ended, CancelEarly, Gone, Move
    <2> QED BY <1>0, <2>1 DEF BriefHasProc
  <1>6. ASSUME NEW t \in Turns, NextToken(t) PROVE BriefHasProc'
    BY <1>6 DEF NextToken, BriefHasProc, history
  <1>7. ASSUME NEW g \in Procs,
               \/ Work(g) \/ Die(g) \/ ReaderFails(g)
               \/ RegistryKill(g) \/ KillEnds(g)
        PROVE BriefHasProc'
    BY <1>7 DEF Work, Speak, FinishAnswer, ReaderEnds, Die, ReaderFails,
                RegistryKill, KillEnds, turnVars, history, BriefHasProc
  <1>8. CASE Reset \/ UNCHANGED vars
    BY <1>8 DEF Reset, vars, turnVars, history, BriefHasProc
  <1> QED BY <1>1, <1>2, <1>3, <1>4, <1>5, <1>6, <1>7, <1>8 DEF Next, Go

(* A process that is started gets the whole conversation as its first      *)
(* message, but for the turn that took another workspace's process down,   *)
(* whose message is all it gets: a turn that took the short prompt has the *)
(* process it saw, for no other turn or reset can take the reference away  *)
(* from it while it waits at the gate (cli_persistent_chat.py:287, 296).   *)
THEOREM HistoryLostOnlyByDrift == Spec => HistoryLostByDrift
  <1>1. Init => TypeInv /\ SlotInv /\ BriefHasProc
    BY TypeInit, SlotInit DEF Init, BriefHasProc
  <1>2. TypeInv /\ SlotInv /\ BriefHasProc /\ [Next]_vars
            => TypeInv' /\ SlotInv' /\ BriefHasProc'
    BY TypeInvInductive, BriefHasProcInductive
  <1>3. TypeInv /\ BriefHasProc /\ [Next]_vars =>
            [\A t \in Turns : pc[t] = "entering" /\ pc'[t] = "priming"
                                => (t \in brief <=> t \in drifted)]_vars
    <2> SUFFICES ASSUME TypeInv, BriefHasProc, [Next]_vars, NEW t \in Turns,
                        pc[t] = "entering", pc'[t] = "priming"
                 PROVE  t \in brief <=> t \in drifted
      OBVIOUS
    <2>1. mine[t] = None BY SpawnsWithoutOne
    <2> QED BY <2>1 DEF BriefHasProc
  <1> QED BY <1>1, <1>2, <1>3, PTL DEF Spec, HistoryLostByDrift

-----------------------------------------------------------------------------
(* One turn at a time.                                                     *)

Past == {"left", "ending", "over"}
Passive == Past \cup {"idle"}

(* Beside a turn that is under way, no other is.                           *)
LEMMA OnlyOne ==
    ASSUME TypeInv, InTurn, NEW t \in Turns, pc[t] \notin Passive,
           NEW u \in Turns \ {t}
    PROVE  pc[u] \in Passive
  <1>1. t \in Nat /\ u \in Nat BY ChatAssumption DEF Turns
  <1>2. CASE u < t BY <1>2 DEF InTurn, Passive, Past
  <1>3. CASE t < u BY <1>3 DEF InTurn, Passive, Past
  <1> QED BY <1>1, <1>2, <1>3

(* A turn that moves on keeps the order.                                   *)
LEMMA TurnMoves ==
    ASSUME TypeInv, InTurn, Alone, NEW t \in Turns, NEW to \in Places \ {"idle"},
           pc[t] \notin {"idle", "over"}, pc' = [pc EXCEPT ![t] = to],
           pc[t] \in Past => to \in Past,
           overlap' = overlap \/ (to = "over" /\ overlap' = overlap \ {t})
    PROVE  InTurn' /\ Alone'
  <1>0. pc \in [Turns -> Places] BY DEF TypeInv, TypeOK, Places
  <1>1. InTurn'
    <2> SUFFICES ASSUME NEW v \in Turns, NEW u \in Turns, u < v, pc'[v] # "idle"
                 PROVE  pc'[u] \in Past
      BY DEF InTurn, Past
    <2>1. pc[v] # "idle" BY <1>0
    <2>2. pc[u] \in Past BY <2>1 DEF InTurn, Past
    <2> QED BY <1>0, <2>2
  <1>2. Alone'
    <2> SUFFICES ASSUME NEW v \in Turns \ overlap', NEW u \in Turns, u < v,
                        pc'[v] \notin {"idle", "over"}
                 PROVE  pc'[u] = "over"
      BY DEF Alone
    <2>1. v \notin overlap /\ pc[v] \notin {"idle", "over"} BY <1>0
    <2>2. pc[u] = "over" BY <2>1 DEF Alone
    <2> QED BY <1>0, <2>2
  <1> QED BY <1>1, <1>2

LEMMA OrderInductive ==
    ASSUME TypeInv, InTurn, Alone, [Next]_vars
    PROVE  InTurn' /\ Alone'
  <1>0. pc \in [Turns -> Places] BY DEF TypeInv, TypeOK, Places
  <1>1. ASSUME NEW t \in Turns, NEW drift \in BOOLEAN, Begin(t, drift)
        PROVE  InTurn' /\ Alone'
    <2>1. /\ \A u \in Turns : IF u < t THEN pc[u] \in {"left", "over"}
                                       ELSE pc[u] = "idle"
          /\ \E to \in {"clearing", "asking"} : pc' = [pc EXCEPT ![t] = to]
          /\ overlap' = IF \E u \in Turns : pc[u] = "left"
                        THEN overlap \cup {t} ELSE overlap
      BY <1>1 DEF Begin
    <2>2. t \in Nat /\ Turns \subseteq Nat BY ChatAssumption DEF Turns
    <2>3. pc[t] = "idle" BY <2>1, <2>2
    <2>4. InTurn'
      <3> SUFFICES ASSUME NEW v \in Turns, NEW u \in Turns, u < v, pc'[v] # "idle"
                   PROVE  pc'[u] \in Past
        BY DEF InTurn, Past
      <3>1. v <= t
        BY <1>0, <2>1, <2>2
      <3>2. u < t /\ u # t BY <2>2, <3>1
      <3> QED BY <1>0, <2>1, <3>2 DEF Past
    <2>5. Alone'
      <3> SUFFICES ASSUME NEW v \in Turns \ overlap', NEW u \in Turns, u < v,
                          pc'[v] \notin {"idle", "over"}
                   PROVE  pc'[u] = "over"
        BY DEF Alone
      <3>1. CASE v = t
        <4>1. pc[u] = "over" /\ u # t BY <2>1, <2>2, <3>1
        <4> QED BY <1>0, <2>1, <4>1
      <3>2. CASE v # t
        <4>1. v \notin overlap /\ pc'[v] = pc[v] BY <1>0, <2>1, <3>2
        <4>2. pc[u] = "over" BY <4>1 DEF Alone
        <4> QED BY <1>0, <2>1, <2>3, <4>2
      <3> QED BY <3>1, <3>2
    <2> QED BY <2>4, <2>5
  <1>2. ASSUME NEW t \in Turns,
               \/ Cleared(t) \/ Acquire(t) \/ Spawn(t) \/ Primed(t) \/ Reuse(t)
               \/ Write(t) \/ Fail(t) \/ Cancel(t) \/ LeaveStream(t)
        PROVE  InTurn' /\ Alone'
    <2>1. /\ pc[t] \notin Passive /\ overlap' = overlap
          /\ \E to \in Places \ {"idle"} : pc' = [pc EXCEPT ![t] = to]
      BY <1>2 DEF Cleared, Acquire, Spawn, Primed, Reuse, Write, Fail, Cancel,
                  LeaveStream, Move, Places, Awaiting, Passive, Past, history
    <2> QED BY <2>1, TurnMoves DEF Passive, Past
  <1>3. ASSUME NEW t \in Turns,
               CloseGenerator(t) \/ Ended(t) \/ EndTurn(t) \/ CancelEarly(t)
        PROVE  InTurn' /\ Alone'
    <2>1. /\ pc[t] \notin {"idle", "over"}
          /\ \/ overlap' = overlap /\ pc' = [pc EXCEPT ![t] = "ending"]
             \/ overlap' = overlap \ {t} /\ pc' = [pc EXCEPT ![t] = "over"]
      BY <1>3 DEF CloseGenerator, Ended, EndTurn, CancelEarly, Move, Gone
    <2>2. {"ending", "over"} \subseteq Places \ {"idle"} BY DEF Places
    <2> QED BY <2>1, <2>2, TurnMoves DEF Past
  <1>4. CASE pc' = pc /\ overlap' = overlap
    BY <1>4 DEF InTurn, Alone
  <1>5. ASSUME NEW t \in Turns, NextToken(t) PROVE pc' = pc /\ overlap' = overlap
    BY <1>5 DEF NextToken, history
  <1>6. ASSUME NEW g \in Procs,
               \/ Work(g) \/ Die(g) \/ ReaderFails(g)
               \/ RegistryKill(g) \/ KillEnds(g)
        PROVE pc' = pc /\ overlap' = overlap
    BY <1>6 DEF Work, Speak, FinishAnswer, ReaderEnds, Die, ReaderFails,
                RegistryKill, KillEnds, turnVars, history
  <1>7. CASE Reset \/ UNCHANGED vars
    BY <1>4, <1>7 DEF Reset, vars, turnVars, history
  <1> QED BY <1>1, <1>2, <1>3, <1>4, <1>5, <1>6, <1>7 DEF Next, Go


-----------------------------------------------------------------------------
(* The processes under a step.                                             *)

(* What most steps do to the processes: messages are dropped, readers end, *)
(* the table loses its process, turns give up theirs.                      *)
Shrinks ==
    /\ made' = made /\ table' \in {table, None} /\ reader' \subseteq reader
    /\ \A g \in Procs :
        /\ todo'[g] \in {todo[g], <<>>}
        /\ \/ queue'[g] = queue[g]
           \/ g \in reader \ reader' /\ queue'[g] = Append(queue[g], Eof)
    /\ \A u \in Turns :
        /\ mine'[u] \in {mine[u], None}
        /\ \/ pc'[u] = pc[u]
           \/ /\ pc'[u] \notin {"clearing", "priming", "locking", "reading"}
              /\ pc'[u] \in Awaiting => pc[u] \in Awaiting \cup {"clearing"}
        /\ \/ u \notin overlap /\ shown'[u] = shown[u]
           \/ u \notin overlap' => pc'[u] = "over" /\ shown'[u] = {}
    /\ table' = table /\ table # None => \A u \in Turns :
        /\ pc[u] = "reading" => pc'[u] \in {"reading", "left"} /\ mine'[u] = mine[u]
        /\ pc[u] = "left" => pc'[u] = "left"

LEMMA ShrinkingKeeps ==
    ASSUME TypeInv, TypeInv', ShareInv, Shrinks
    PROVE  ProcShare'
  <1>0. /\ mine \in [Turns -> Procs \cup {None}] /\ mine' \in [Turns -> Procs \cup {None}]
        /\ queue \in [Procs -> Seq(Items)] /\ todo \in [Procs -> Seq(Turns)]
        /\ table \in Procs \cup {None} /\ reader \subseteq Procs /\ made' = made
        /\ table' \in {table, None} /\ reader' \subseteq reader /\ None \notin Procs
    BY DEF TypeInv, TypeOK, Shrinks, Procs, None
  <1>1. \A g \in Procs : todo'[g] \in {todo[g], <<>>}
    BY DEF Shrinks
  <1>2. \A g \in Procs : \/ queue'[g] = queue[g]
                         \/ g \in reader \ reader' /\ queue'[g] = Append(queue[g], Eof)
    BY DEF Shrinks
  <1>3. \A u \in Turns : mine'[u] \in {mine[u], None}
    BY DEF Shrinks
  <1>4. Unborn'
    <2> SUFFICES ASSUME NEW g \in Procs, g > made
                 PROVE  /\ g # table' /\ g \notin reader' /\ todo'[g] = <<>>
                        /\ queue'[g] = <<>> /\ \A t \in Turns : mine'[t] # g
      BY <1>0 DEF Unborn
    <2>1. /\ g # table /\ g \notin reader /\ todo[g] = <<>> /\ queue[g] = <<>>
          /\ \A t \in Turns : mine[t] # g
      BY DEF ShareInv, ProcShare, Unborn
    <2> QED BY <1>0, <1>1, <1>2, <1>3, <2>1
  <1>5. Fresh'
    <2> SUFFICES ASSUME NEW t \in Turns, pc'[t] = "priming"
                 PROVE  /\ mine'[t] # table' /\ mine'[t] \notin reader'
                        /\ todo'[mine'[t]] \in {<<>>, <<t>>}
                        /\ queue'[mine'[t]] = <<>>
                        /\ \A u \in Turns \ {t} : mine'[u] # mine'[t]
      BY DEF Fresh
    <2>1. pc[t] = "priming" BY DEF Shrinks
    <2>2. mine'[t] = mine[t] /\ mine[t] # None /\ mine[t] \in Procs
      BY <1>0, <1>3 DEF TypeInv, HasProc
    <2>3. /\ mine[t] # table /\ mine[t] \notin reader
          /\ todo[mine[t]] \in {<<>>, <<t>>} /\ queue[mine[t]] = <<>>
          /\ \A u \in Turns \ {t} : mine[u] # mine[t]
      BY <2>1 DEF ShareInv, ProcShare, Fresh
    <2> QED BY <1>0, <1>1, <1>2, <1>3, <2>2, <2>3
  <1>6. CleanTable'
    <2> SUFFICES ASSUME table' \in reader', \A u \in Turns : pc'[u] # "left"
                 PROVE  Owed(table)' /\ Heard(table)'
      BY DEF CleanTable
    <2>1. table' = table /\ table \in Procs /\ table # None /\ table \in reader
      BY <1>0
    <2>2. \A u \in Turns : /\ pc[u] # "left"
                           /\ pc[u] = "reading" => pc'[u] = "reading" /\ mine'[u] = mine[u]
      BY <2>1 DEF Shrinks
    <2>3. Owed(table) /\ Heard(table)
      BY <2>1, <2>2 DEF ShareInv, ProcShare, CleanTable
    <2>4. Owed(table)'
      BY <1>1, <2>1, <2>2, <2>3 DEF Owed
    <2>5. queue'[table] = queue[table] BY <1>2, <2>1
    <2>6. \A u \in Turns : pc'[u] \in {"locking", "reading"} => pc'[u] = pc[u]
      BY DEF Shrinks
    <2>7. Heard(table)'
      BY <1>1, <1>3, <2>1, <2>3, <2>5, <2>6 DEF Heard
    <2> QED BY <2>4, <2>7
  <1>7. OwnProcess'
    <2> SUFFICES ASSUME NEW t \in Turns \ overlap',
                        pc'[t] \in Awaiting \cup {"clearing"}, mine'[t] # None
                 PROVE  /\ mine'[t] \in reader' =>
                            \A i \in DOMAIN todo'[mine'[t]] : todo'[mine'[t]][i] = t
                        /\ pc'[t] \in {"locking", "reading"} =>
                            \A i \in DOMAIN queue'[mine'[t]] :
                                queue'[mine'[t]][i] \in {Token(t), End(t), Eof}
      BY DEF OwnProcess
    <2>1. /\ t \notin overlap /\ pc[t] \in Awaiting \cup {"clearing"}
          /\ pc'[t] \in {"locking", "reading"} => pc'[t] = pc[t]
      <3>1. /\ \/ pc'[t] = pc[t]
               \/ /\ pc'[t] \notin {"clearing", "priming", "locking", "reading"}
                  /\ pc'[t] \in Awaiting => pc[t] \in Awaiting \cup {"clearing"}
            /\ \/ t \notin overlap /\ shown'[t] = shown[t]
               \/ t \notin overlap' => pc'[t] = "over" /\ shown'[t] = {}
            /\ pc'[t] = "clearing" => pc'[t] = pc[t]
        BY DEF Shrinks
      <3>2. t \notin overlap BY <3>1 DEF Awaiting
      <3>3. pc[t] \in Awaiting \cup {"clearing"} BY <3>1
      <3> QED BY <3>1, <3>2, <3>3
    <2> DEFINE g == mine[t]
    <2>2. mine'[t] = g /\ g # None /\ g \in Procs BY <1>0, <1>3
    <2>3. /\ g \in reader => \A i \in DOMAIN todo[g] : todo[g][i] = t
          /\ pc[t] \in {"locking", "reading"} =>
                \A i \in DOMAIN queue[g] : queue[g][i] \in {Token(t), End(t), Eof}
      BY <2>1, <2>2 DEF ShareInv, ProcShare, OwnProcess
    <2> HIDE DEF g
    <2>4. todo'[g] \in {todo[g], <<>>} BY <1>1, <2>2
    <2>5. g \in reader' => \A i \in DOMAIN todo'[g] : todo'[g][i] = t
      BY <1>0, <2>3, <2>4
    <2>6. queue'[g] = queue[g] \/ queue'[g] = Append(queue[g], Eof)
      BY <1>2, <2>2
    <2>7. queue[g] \in Seq(Items) BY <1>0, <2>2
    <2>8. pc'[t] \in {"locking", "reading"} =>
                \A i \in DOMAIN queue'[g] : queue'[g][i] \in {Token(t), End(t), Eof}
      BY <2>1, <2>3, <2>6, <2>7
    <2> QED BY <2>2, <2>5, <2>8
  <1>8. OwnAnswer'
    <2> SUFFICES ASSUME NEW t \in Turns \ overlap' PROVE shown'[t] \subseteq {t}
      BY DEF OwnAnswer
    <2> QED BY DEF Shrinks, ShareInv, ProcShare, OwnAnswer
  <1> QED BY <1>4, <1>5, <1>6, <1>7, <1>8 DEF ProcShare


(* Killing, dying, ending and leaving are steps of this kind.              *)
LEMMA KilledShrinks ==
    ASSUME TypeInv, NEW h, Dead(h)
    PROVE  \A g \in Procs : todo'[g] \in {todo[g], <<>>}
  BY DEF Dead

LEMMA PoppedShrinks ==
    ASSUME TypeInv, PopAndTerm
    PROVE  /\ table' = None /\ reader' \subseteq reader
           /\ \A g \in Procs :
                \/ queue'[g] = queue[g]
                \/ g \in reader \ reader' /\ queue'[g] = Append(queue[g], Eof)
  <1>1. queue \in [Procs -> Seq(Items)] /\ table \in Procs \cup {None}
    BY DEF TypeInv, TypeOK
  <1>2. CASE table = None BY <1>2 DEF PopAndTerm
  <1>3. CASE table # None
    <2>1. /\ table' = None /\ reader' = reader \ {table}
          /\ queue' = IF table \in reader
                      THEN [queue EXCEPT ![table] = Append(@, Eof)] ELSE queue
      BY <1>3 DEF PopAndTerm
    <2> QED BY <1>1, <2>1
  <1> QED BY <1>2, <1>3

LEMMA TurnShrinks ==
    ASSUME TypeInv, NEW t \in Turns,
           \/ Cleared(t) \/ Acquire(t) \/ Fail(t) \/ Ended(t) \/ Cancel(t)
           \/ CancelEarly(t) \/ LeaveStream(t) \/ CloseGenerator(t)
    PROVE  Shrinks
  <1>0. /\ pc \in [Turns -> Places] /\ mine \in [Turns -> Procs \cup {None}]
        /\ shown \in [Turns -> SUBSET Turns]
    BY DEF TypeInv, TypeOK, Places
  <1>1. CASE Cleared(t)
    <2>1. /\ UNCHANGED <<made, table, reader, queue, mine, shown, overlap>>
          /\ pc[t] = "clearing" /\ pc' = [pc EXCEPT ![t] = "asking"]
          /\ Dead(victim[t])
      BY <1>1 DEF Cleared, Move, KilledAndForgotten, history
    <2> QED BY <1>0, <2>1, KilledShrinks DEF Shrinks
  <1>2. CASE Acquire(t)
    <2>1. /\ UNCHANGED <<made, table, reader, todo, queue, mine, shown, overlap>>
          /\ pc[t] = "asking" /\ pc' = [pc EXCEPT ![t] = "entering"]
      BY <1>2 DEF Acquire, Move, procVars, history
    <2> QED BY <1>0, <2>1 DEF Shrinks, Awaiting
  <1>3. CASE LeaveStream(t)
    <2>1. /\ UNCHANGED <<made, table, reader, todo, queue, mine, shown, overlap>>
          /\ pc[t] = "reading" /\ pc' = [pc EXCEPT ![t] = "left"]
      BY <1>3 DEF LeaveStream, Move, procVars, history
    <2> QED BY <1>0, <2>1 DEF Shrinks, Awaiting
  <1>4. CASE CancelEarly(t)
    <2>1. /\ UNCHANGED <<made, table, reader, todo, queue>>
          /\ pc[t] \in {"clearing", "asking"} /\ pc' = [pc EXCEPT ![t] = "over"]
          /\ mine' = [mine EXCEPT ![t] = None] /\ shown' = [shown EXCEPT ![t] = {}]
          /\ overlap' = overlap \ {t}
      BY <1>4 DEF CancelEarly, Gone, procVars
    <2> QED BY <1>0, <2>1 DEF Shrinks, Awaiting
  <1>5. CASE Ended(t)
    <2>1. /\ UNCHANGED <<made, table, reader, queue>> /\ Dead(victim[t])
          /\ pc[t] \in {"ending", "failing"} /\ pc' = [pc EXCEPT ![t] = "over"]
          /\ mine' = [mine EXCEPT ![t] = None] /\ shown' = [shown EXCEPT ![t] = {}]
          /\ overlap' = overlap \ {t}
      BY <1>5 DEF Ended, Gone, KilledAndForgotten
    <2> QED BY <1>0, <2>1, KilledShrinks DEF Shrinks, Awaiting
  <1>6. CASE Fail(t) \/ Cancel(t) \/ CloseGenerator(t)
    <2>1. /\ UNCHANGED <<made, todo, mine, shown, overlap>> /\ PopAndTerm
          /\ \E to \in {"failing", "ending"} : pc' = [pc EXCEPT ![t] = to]
      BY <1>6 DEF Fail, Cancel, CloseGenerator, Move, Kill
    <2> QED BY <1>0, <2>1, PoppedShrinks DEF Shrinks, Awaiting
  <1> QED BY <1>1, <1>2, <1>3, <1>4, <1>5, <1>6

LEMMA OthersShrink ==
    ASSUME TypeInv,
           \/ \E g \in Procs : \/ Die(g) \/ ReaderEnds(g) \/ ReaderFails(g)
                               \/ RegistryKill(g) \/ KillEnds(g)
           \/ Reset \/ UNCHANGED vars
    PROVE  Shrinks
  <1>0. queue \in [Procs -> Seq(Items)] BY DEF TypeInv, TypeOK
  <1>1. UNCHANGED <<made, pc, mine, shown, overlap>>
    BY DEF Die, ReaderEnds, ReaderFails, RegistryKill, KillEnds, Reset, vars,
           procVars, turnVars, history
  <1>2. ASSUME NEW g \in Procs, Die(g) \/ KillEnds(g) PROVE Shrinks
    <2>1. UNCHANGED <<table, reader, queue>> /\ Dead(g)
      BY <1>2 DEF Die, KillEnds, KilledAndForgotten
    <2> QED BY <1>1, <2>1, KilledShrinks DEF Shrinks
  <1>3. ASSUME NEW g \in Procs, ReaderEnds(g) \/ ReaderFails(g) PROVE Shrinks
    <2>1. /\ UNCHANGED <<table, todo>> /\ reader' = reader \ {g} /\ g \in reader
          /\ queue' = [queue EXCEPT ![g] = Append(@, Eof)]
      BY <1>3 DEF ReaderEnds, ReaderFails
    <2> QED BY <1>0, <1>1, <2>1 DEF Shrinks
  <1>4. ASSUME NEW g \in Procs, RegistryKill(g) PROVE Shrinks
    BY <1>1, <1>4 DEF RegistryKill, Shrinks
  <1>5. CASE Reset
    <2>1. PopAndTerm /\ todo' = todo BY <1>5 DEF Reset
    <2> QED BY <1>1, <2>1, PoppedShrinks DEF Shrinks
  <1>6. CASE UNCHANGED vars
    BY <1>1, <1>6 DEF vars, procVars, Shrinks
  <1> QED BY <1>2, <1>3, <1>4, <1>5, <1>6

-----------------------------------------------------------------------------
(* A turn that begins alone finds the table's process with nothing to say. *)
LEMMA BeginKeeps ==
    ASSUME TypeInv, TypeInv', ShareInv, NEW t \in Turns, NEW drift \in BOOLEAN,
           Begin(t, drift)
    PROVE  ProcShare'
  <1> DEFINE unfit == table # None /\ (drift \/ proc[table] # "running")
  <1>1. /\ \A u \in Turns : IF u < t THEN pc[u] \in {"left", "over"}
                                     ELSE pc[u] = "idle"
        /\ pc' = [pc EXCEPT ![t] = IF unfit THEN "clearing" ELSE "asking"]
        /\ mine' = [mine EXCEPT ![t] = IF unfit THEN None ELSE table]
        /\ IF unfit THEN PopAndTerm ELSE UNCHANGED <<table, reader, queue>>
        /\ overlap' = IF \E u \in Turns : pc[u] = "left"
                      THEN overlap \cup {t} ELSE overlap
        /\ UNCHANGED <<made, todo, shown>>
    BY DEF Begin
  <1>2. /\ pc \in [Turns -> Places] /\ mine \in [Turns -> Procs \cup {None}]
        /\ table \in Procs \cup {None} /\ reader \subseteq Procs /\ None \notin Procs
    BY DEF TypeInv, TypeOK, Places, Procs, None
  <1>3. pc[t] = "idle" /\ \A u \in Turns : pc[u] \in {"left", "over", "idle"}
    BY <1>1, ChatAssumption DEF Turns
  <1>4. CASE unfit
    <2>1. PopAndTerm /\ pc' = [pc EXCEPT ![t] = "clearing"]
          /\ mine' = [mine EXCEPT ![t] = None]
      BY <1>1, <1>4
    <2> HIDE DEF unfit
    <2>2. table' = None /\ reader' \subseteq reader BY <2>1, PoppedShrinks
    <2>3. \A g \in Procs : \/ queue'[g] = queue[g] \/ g \in reader
      BY <2>1, PoppedShrinks
    <2>4. Unborn' BY <1>1, <1>2, <2>1, <2>2, <2>3 DEF Unborn, ShareInv, ProcShare
    <2>5. Fresh' BY <1>2, <1>3, <2>1 DEF Fresh
    <2>6. CleanTable' BY <1>2, <2>2 DEF CleanTable
    <2>7. OwnProcess' BY <1>2, <1>3, <2>1 DEF OwnProcess, Awaiting
    <2>8. OwnAnswer' BY <1>1 DEF ShareInv, ProcShare, OwnAnswer
    <2> QED BY <2>4, <2>5, <2>6, <2>7, <2>8 DEF ProcShare
  <1>5. CASE ~unfit
    <2>1. /\ UNCHANGED <<table, reader, queue>> /\ pc' = [pc EXCEPT ![t] = "asking"]
          /\ mine' = [mine EXCEPT ![t] = table]
      BY <1>1, <1>5
    <2> HIDE DEF unfit
    <2>2. Unborn' BY <1>1, <1>2, <2>1 DEF Unborn, ShareInv, ProcShare
    <2>3. Fresh' BY <1>2, <1>3, <2>1 DEF Fresh
    <2>4. CleanTable'
      <3> SUFFICES ASSUME table \in reader, \A u \in Turns : pc'[u] # "left"
                   PROVE  Owed(table)' /\ Heard(table)'
        BY <2>1 DEF CleanTable
      <3>1. Owed(table) /\ Heard(table)
        BY <1>2, <1>3, <2>1 DEF ShareInv, ProcShare, CleanTable
      <3>2. Owed(table)' BY <1>1, <1>2, <1>3, <2>1, <3>1 DEF Owed
      <3>3. Heard(table)' BY <1>2, <1>3, <2>1 DEF Heard
      <3> QED BY <3>2, <3>3
    <2>5. OwnProcess'
      <3> SUFFICES ASSUME NEW v \in Turns \ overlap',
                          pc'[v] \in Awaiting \cup {"clearing"}, mine'[v] # None
                   PROVE  /\ mine'[v] \in reader' =>
                            \A i \in DOMAIN todo'[mine'[v]] : todo'[mine'[v]][i] = v
                          /\ pc'[v] \notin {"locking", "reading"}
        BY DEF OwnProcess
      <3>1. v = t BY <1>2, <1>3, <2>1 DEF Awaiting
      <3>2. pc'[v] = "asking" /\ mine'[v] = table BY <1>2, <2>1, <3>1
      <3>3. \A u \in Turns : pc[u] # "left" BY <1>1, <3>1
      <3>4. table \in reader => todo[table] = <<>>
        BY <1>3, <3>3 DEF ShareInv, ProcShare, CleanTable, Owed
      <3> QED BY <1>1, <2>1, <3>2, <3>4
    <2>6. OwnAnswer' BY <1>1 DEF ShareInv, ProcShare, OwnAnswer
    <2> QED BY <2>2, <2>3, <2>4, <2>5, <2>6 DEF ProcShare
  <1> QED BY <1>4, <1>5


(* The turns beside one that is under way are idle or past.                *)
LEMMA OthersPassive ==
    ASSUME TypeInv, ShareInv, NEW t \in Turns, pc[t] \notin Passive
    PROVE  \A u \in Turns \ {t} :
                /\ pc[u] \in Passive
                /\ pc[u] \notin Awaiting \cup {"clearing"}
  <1> SUFFICES ASSUME NEW u \in Turns \ {t} PROVE pc[u] \in Passive
    BY DEF Passive, Past, Awaiting
  <1> QED BY OnlyOne DEF ShareInv

(* A process that is started is new.                                       *)
LEMMA SpawnKeeps ==
    ASSUME TypeInv, TypeInv', ShareInv, NEW t \in Turns, Spawn(t)
    PROVE  ProcShare'
  <1> DEFINE g == made + 1
  <1>1. /\ pc[t] = "entering" /\ pc' = [pc EXCEPT ![t] = "priming"]
        /\ mine' = [mine EXCEPT ![t] = g] /\ todo' = [todo EXCEPT ![g] = <<t>>]
        /\ UNCHANGED <<table, reader, queue, shown, overlap>>
        /\ made' = g
    BY DEF Spawn, Move, history
  <1>2. g \in Procs /\ g > made /\ made \in Nat /\ Procs \subseteq Nat
    BY ChatAssumption DEF TypeInv, TypeOK, Spawn, Procs
  <1>3. /\ pc \in [Turns -> Places] /\ mine \in [Turns -> Procs \cup {None}]
        /\ todo \in [Procs -> Seq(Turns)] /\ table \in Procs \cup {None}
        /\ reader \subseteq Procs /\ None \notin Procs
    BY DEF TypeInv, TypeOK, Places, Procs, None
  <1>4. /\ g # table /\ g \notin reader /\ todo[g] = <<>> /\ queue[g] = <<>>
        /\ \A u \in Turns : mine[u] # g
    BY <1>2 DEF ShareInv, ProcShare, Unborn
  <1>5. \A h \in Procs : h > g => h > made BY <1>2
  <1>6. \A u \in Turns \ {t} : pc[u] \notin Awaiting \cup {"clearing"}
    BY <1>1, OthersPassive DEF Passive, Past
  <1> HIDE DEF g
  <1>7. Unborn'
    <2> SUFFICES ASSUME NEW h \in Procs, h > g
                 PROVE  /\ h # table /\ h \notin reader /\ todo'[h] = <<>>
                        /\ queue[h] = <<>> /\ \A u \in Turns : mine'[u] # h
      BY <1>1 DEF Unborn
    <2>1. h > made /\ h # g BY <1>2, <1>5
    <2> QED BY <1>1, <1>3, <2>1 DEF ShareInv, ProcShare, Unborn
  <1>8. Fresh'
    <2> SUFFICES ASSUME NEW v \in Turns, pc'[v] = "priming"
                 PROVE  /\ mine'[v] # table /\ mine'[v] \notin reader
                        /\ todo'[mine'[v]] \in {<<>>, <<v>>}
                        /\ queue[mine'[v]] = <<>>
                        /\ \A u \in Turns \ {v} : mine'[u] # mine'[v]
      BY <1>1 DEF Fresh
    <2>1. v = t BY <1>1, <1>3, <1>6 DEF Awaiting
    <2> QED BY <1>1, <1>2, <1>3, <1>4, <2>1
  <1>9. CleanTable'
    <2> SUFFICES ASSUME table \in reader, \A u \in Turns : pc'[u] # "left"
                 PROVE  Owed(table)' /\ Heard(table)'
      BY <1>1 DEF CleanTable
    <2>1. Owed(table) /\ Heard(table)
      BY <1>1, <1>3 DEF ShareInv, ProcShare, CleanTable
    <2>2. todo'[table] = todo[table] BY <1>1, <1>3, <1>4
    <2>3. Owed(table)' BY <1>1, <1>3, <2>1, <2>2 DEF Owed
    <2>4. Heard(table)' BY <1>1, <1>3, <1>4, <2>1, <2>2 DEF Heard
    <2> QED BY <2>3, <2>4
  <1>10. OwnProcess'
    BY <1>1, <1>3, <1>4, <1>6 DEF OwnProcess
  <1>11. OwnAnswer' BY <1>1 DEF ShareInv, ProcShare, OwnAnswer
  <1> QED BY <1>7, <1>8, <1>9, <1>10, <1>11 DEF ProcShare

(* It enters the table with its first message only.                        *)
LEMMA PrimedKeeps ==
    ASSUME TypeInv, TypeInv', ShareInv, NEW t \in Turns, Primed(t)
    PROVE  ProcShare'
  <1> DEFINE g == mine[t]
  <1>1. /\ pc[t] = "priming" /\ pc' = [pc EXCEPT ![t] = "reading"]
        /\ table' = g /\ reader' = reader \cup {g}
        /\ UNCHANGED <<made, todo, queue, mine, shown, overlap>>
    BY DEF Primed, Move, history
  <1>2. pc \in [Turns -> Places] /\ g \in Procs
    BY <1>1 DEF TypeInv, TypeOK, HasProc, Places
  <1>3. /\ todo[g] \in {<<>>, <<t>>} /\ queue[g] = <<>>
        /\ \A u \in Turns \ {t} : mine[u] # g
    BY <1>1 DEF ShareInv, ProcShare, Fresh
  <1>4. \A u \in Turns \ {t} : pc[u] \notin Awaiting \cup {"clearing"}
    BY <1>1, OthersPassive DEF Passive, Past
  <1>5. Unborn' BY <1>1 DEF ShareInv, ProcShare, Unborn
  <1>6. Fresh' BY <1>1, <1>2, <1>4 DEF Fresh, Awaiting
  <1>7. CleanTable'
    <2>1. Owed(g)' BY <1>1, <1>2, <1>3 DEF Owed
    <2>2. Heard(g)' BY <1>1, <1>2, <1>3 DEF Heard
    <2> QED BY <1>1, <2>1, <2>2 DEF CleanTable
  <1>8. OwnProcess'
    <2>1. \A v \in Turns \ overlap' : pc'[v] \in Awaiting \cup {"clearing"} => v = t
      BY <1>1, <1>2, <1>4
    <2>2. \A i \in DOMAIN todo[g] : todo[g][i] = t BY <1>3
    <2>3. DOMAIN queue[g] = {} BY <1>3
    <2> QED BY <1>1, <2>1, <2>2, <2>3 DEF OwnProcess
  <1>9. OwnAnswer' BY <1>1 DEF ShareInv, ProcShare, OwnAnswer
  <1> QED BY <1>5, <1>6, <1>7, <1>8, <1>9 DEF ProcShare

(* A later turn drops the left-overs before it writes.                     *)
LEMMA ReuseKeeps ==
    ASSUME TypeInv, TypeInv', ShareInv, NEW t \in Turns, Reuse(t)
    PROVE  ProcShare'
  <1> DEFINE g == mine[t]
  <1>1. /\ pc[t] = "entering" /\ pc' = [pc EXCEPT ![t] = "locking"]
        /\ queue' = [queue EXCEPT ![g] = <<>>]
        /\ UNCHANGED <<table, made, reader, todo, mine, shown, overlap>>
    BY DEF Reuse, Move, history
  <1>2. /\ pc \in [Turns -> Places] /\ g \in Procs /\ queue \in [Procs -> Seq(Items)]
        /\ mine \in [Turns -> Procs \cup {None}] /\ reader \subseteq Procs
    BY DEF TypeInv, TypeOK, Places, Reuse
  <1>3. \A h \in Procs : queue'[h] \in {queue[h], <<>>} BY <1>1, <1>2
  <1>4. \A u \in Turns \ {t} : pc[u] \notin Awaiting \cup {"clearing"}
    BY <1>1, OthersPassive DEF Passive, Past
  <1>5. Unborn' BY <1>1, <1>3 DEF ShareInv, ProcShare, Unborn
  <1>6. Fresh' BY <1>1, <1>2, <1>4 DEF Fresh, Awaiting
  <1>7. CleanTable'
    <2> SUFFICES ASSUME table \in reader, \A u \in Turns : pc'[u] # "left"
                 PROVE  Owed(table)' /\ Heard(table)'
      BY <1>1 DEF CleanTable
    <2>1. Owed(table) /\ Heard(table)
      BY <1>1, <1>2 DEF ShareInv, ProcShare, CleanTable
    <2>2. Owed(table)'
      <3>1. \A u \in Turns : pc[u] # "reading" BY <1>1, <1>4 DEF Awaiting
      <3>2. todo[table] = <<>> BY <2>1, <3>1 DEF Owed
      <3> QED BY <1>1, <3>2 DEF Owed
    <2>3. \A u \in Turns : pc'[u] = "locking" /\ mine'[u] = table => queue'[table] = <<>>
      BY <1>1, <1>2, <1>4 DEF Awaiting
    <2>4. \A u \in Turns : pc'[u] # "reading"
      BY <1>1, <1>2, <1>4 DEF Awaiting
    <2>5. Heard(table)' BY <1>1, <2>3, <2>4 DEF Heard
    <2> QED BY <2>2, <2>5
  <1>8. OwnProcess'
    <2>1. \A v \in Turns \ overlap' : pc'[v] \in Awaiting \cup {"clearing"} => v = t
      BY <1>1, <1>2, <1>4
    <2>2. t \notin overlap => (g \in reader => \A i \in DOMAIN todo[g] : todo[g][i] = t)
      BY <1>1, <1>2 DEF ShareInv, ProcShare, OwnProcess, Awaiting, Reuse
    <2>3. DOMAIN queue'[g] = {} BY <1>1, <1>2
    <2> QED BY <1>1, <2>1, <2>2, <2>3 DEF OwnProcess
  <1>9. OwnAnswer' BY <1>1 DEF ShareInv, ProcShare, OwnAnswer
  <1> QED BY <1>5, <1>6, <1>7, <1>8, <1>9 DEF ProcShare

(* It writes to a process that owes nothing.                               *)
LEMMA WriteKeeps ==
    ASSUME TypeInv, TypeInv', ShareInv, NEW t \in Turns, Write(t)
    PROVE  ProcShare'
  <1> DEFINE g == mine[t]
  <1>1. /\ pc[t] = "locking" /\ pc' = [pc EXCEPT ![t] = "reading"]
        /\ todo' = [todo EXCEPT ![g] = Append(@, t)]
        /\ UNCHANGED <<table, made, reader, queue, mine, shown, overlap>>
    BY DEF Write, Move, history
  <1>2. /\ pc \in [Turns -> Places] /\ g \in Procs /\ g # None
        /\ todo \in [Procs -> Seq(Turns)] /\ reader \subseteq Procs
    BY <1>1 DEF TypeInv, TypeOK, HasProc, Places
  <1>3. \A u \in Turns \ {t} : pc[u] \notin Awaiting \cup {"clearing"}
    BY <1>1, OthersPassive DEF Passive, Past
  <1>4. Unborn'
    <2>1. \A h \in Procs : h > made => h # g /\ todo'[h] = todo[h]
      BY <1>1, <1>2 DEF ShareInv, ProcShare, Unborn
    <2> QED BY <1>1, <2>1 DEF ShareInv, ProcShare, Unborn
  <1>5. Fresh' BY <1>1, <1>2, <1>3 DEF Fresh, Awaiting
  <1>6. CleanTable'
    <2> SUFFICES ASSUME table \in reader, \A u \in Turns : pc'[u] # "left"
                 PROVE  Owed(table)' /\ Heard(table)'
      BY <1>1 DEF CleanTable
    <2>1. Owed(table) /\ Heard(table)
      BY <1>1, <1>2 DEF ShareInv, ProcShare, CleanTable
    <2>2. todo[table] = <<>>
      <3>1. \A u \in Turns : pc[u] # "reading" BY <1>1, <1>3 DEF Awaiting
      <3> QED BY <2>1, <3>1 DEF Owed
    <2>3. CASE table = g
      <3>1. todo'[table] = <<t>>
        <4>1. todo'[table] = Append(<<>>, t) BY <1>1, <1>2, <2>2, <2>3
        <4> QED BY <4>1
      <3>2. queue[table] = <<>> BY <1>1, <2>1, <2>3 DEF Heard
      <3>3. Owed(table)' BY <1>1, <1>2, <2>3, <3>1 DEF Owed
      <3>4. Heard(table)' BY <1>1, <3>2 DEF Heard
      <3> QED BY <3>3, <3>4
    <2>4. CASE table # g
      <3>1. todo'[table] = todo[table] BY <1>1, <1>2, <2>4
      <3>2. Owed(table)' BY <1>1, <2>2, <3>1 DEF Owed
      <3>3. Heard(table)' BY <1>1, <1>2, <2>1, <2>4, <3>1 DEF Heard
      <3> QED BY <3>2, <3>3
    <2> QED BY <2>3, <2>4
  <1>7. OwnProcess'
    <2>1. \A v \in Turns \ overlap' : pc'[v] \in Awaiting \cup {"clearing"} => v = t
      BY <1>1, <1>2, <1>3
    <2>2. t \notin overlap =>
            /\ g \in reader => \A i \in DOMAIN todo[g] : todo[g][i] = t
            /\ \A i \in DOMAIN queue[g] : queue[g][i] \in {Token(t), End(t), Eof}
      BY <1>1, <1>2 DEF ShareInv, ProcShare, OwnProcess, Awaiting
    <2>3. todo[g] \in Seq(Turns) /\ todo'[g] = Append(todo[g], t) BY <1>1, <1>2
    <2>4. t \notin overlap => (g \in reader => \A i \in DOMAIN todo'[g] : todo'[g][i] = t)
      BY <2>2, <2>3
    <2> QED BY <1>1, <2>1, <2>2, <2>4 DEF OwnProcess
  <1>8. OwnAnswer' BY <1>1 DEF ShareInv, ProcShare, OwnAnswer
  <1> QED BY <1>4, <1>5, <1>6, <1>7, <1>8 DEF ProcShare


(* What is behind the head of a queue was in it.                           *)
LEMMA BehindHead ==
    ASSUME NEW S, NEW s \in Seq(S), s # <<>>
    PROVE  /\ Head(s) = s[1] /\ 1 \in DOMAIN s
           /\ \A i \in DOMAIN Tail(s) : i + 1 \in DOMAIN s /\ Tail(s)[i] = s[i + 1]
  OBVIOUS

(* The tokens that a turn takes are its own, if it began alone.            *)
LEMMA NextTokenKeeps ==
    ASSUME TypeInv, TypeInv', ShareInv, NEW t \in Turns, NextToken(t)
    PROVE  ProcShare'
  <1> DEFINE g == mine[t]
  <1>1. /\ pc[t] = "reading" /\ queue[g] # <<>> /\ Head(queue[g])[1] = "token"
        /\ shown' = [shown EXCEPT ![t] = @ \cup {Head(queue[g])[2]}]
        /\ queue' = [queue EXCEPT ![g] = Tail(@)]
        /\ UNCHANGED <<table, made, reader, todo, mine, pc, overlap>>
    BY DEF NextToken, history
  <1>2. /\ g \in Procs /\ queue \in [Procs -> Seq(Items)]
        /\ shown \in [Turns -> SUBSET Turns] /\ g # None
    BY <1>1 DEF TypeInv, TypeOK, HasProc
  <1>3. queue'[g] = Tail(queue[g]) /\ \A h \in Procs \ {g} : queue'[h] = queue[h]
    BY <1>1, <1>2
  <1>4. \A i \in DOMAIN queue'[g] : i + 1 \in DOMAIN queue[g]
                                    /\ queue'[g][i] = queue[g][i + 1]
    BY <1>1, <1>2, <1>3, BehindHead
  <1>5. Head(queue[g]) = queue[g][1] /\ 1 \in DOMAIN queue[g]
    BY <1>1, <1>2, BehindHead
  <1>6. \A u \in Turns \ {t} : pc[u] \notin Awaiting \cup {"clearing"}
    BY <1>1, OthersPassive DEF Passive, Past
  <1>7. Unborn' BY <1>1, <1>3 DEF ShareInv, ProcShare, Unborn
  <1>8. Fresh' BY <1>1, <1>6 DEF Fresh, Awaiting
  <1>9. CleanTable'
    <2> SUFFICES ASSUME table \in reader, \A u \in Turns : pc[u] # "left"
                 PROVE  Owed(table)' /\ Heard(table)'
      BY <1>1 DEF CleanTable
    <2>1. Owed(table) /\ Heard(table)
      BY DEF ShareInv, ProcShare, CleanTable
    <2>2. Owed(table)' BY <1>1, <2>1 DEF Owed
    <2>3. CASE table = g
      <3>1. \A u \in Turns : pc[u] \in {"locking", "reading"} => u = t
        BY <1>6 DEF Awaiting
      <3>2. /\ todo[g] # <<>> => \A i \in DOMAIN queue[g] : queue[g][i] = Token(t)
            /\ \A i \in DOMAIN queue[g] : queue[g][i] \in {Token(t), End(t)}
        BY <1>1, <2>1, <2>3 DEF Heard
      <3>3. /\ todo[g] # <<>> => \A i \in DOMAIN queue'[g] : queue'[g][i] = Token(t)
            /\ \A i \in DOMAIN queue'[g] : queue'[g][i] \in {Token(t), End(t)}
        BY <1>4, <3>2
      <3> HIDE DEF g
      <3> QED BY <1>1, <2>2, <2>3, <3>1, <3>3 DEF Heard
    <2>4. CASE table # g
      <3>1. table \in Procs BY DEF TypeInv, TypeOK
      <3>2. queue'[table] = queue[table] BY <1>3, <2>4, <3>1
      <3>3. Heard(table)' BY <1>1, <2>1, <3>2 DEF Heard
      <3> QED BY <2>2, <3>3
    <2> QED BY <2>3, <2>4
  <1>10. t \notin overlap =>
            /\ g \in reader => \A i \in DOMAIN todo[g] : todo[g][i] = t
            /\ \A i \in DOMAIN queue[g] : queue[g][i] \in {Token(t), End(t), Eof}
    BY <1>1, <1>2 DEF ShareInv, ProcShare, OwnProcess, Awaiting
  <1>11. OwnProcess'
    <2>1. \A v \in Turns \ overlap' : pc'[v] \in Awaiting \cup {"clearing"} => v = t
      BY <1>1, <1>6
    <2>2. t \notin overlap =>
            \A i \in DOMAIN queue'[g] : queue'[g][i] \in {Token(t), End(t), Eof}
      BY <1>4, <1>10
    <2> QED BY <1>1, <1>10, <2>1, <2>2 DEF OwnProcess
  <1>12. OwnAnswer'
    <2>1. t \notin overlap => Head(queue[g])[2] = t
      <3> SUFFICES ASSUME t \notin overlap PROVE Head(queue[g])[2] = t
        OBVIOUS
      <3>1. Head(queue[g]) \in {Token(t), End(t), Eof} BY <1>5, <1>10
      <3>2. Head(queue[g]) = Token(t) BY <1>1, <3>1 DEF End, Eof
      <3> QED BY <3>2 DEF Token
    <2>2. \A v \in Turns \ overlap : shown[v] \subseteq {v}
      BY DEF ShareInv, ProcShare, OwnAnswer
    <2>3. shown'[t] = shown[t] \cup {Head(queue[g])[2]}
          /\ \A v \in Turns \ {t} : shown'[v] = shown[v]
      BY <1>1, <1>2
    <2>4. overlap' = overlap BY <1>1
    <2> HIDE DEF g
    <2> QED BY <2>1, <2>2, <2>3, <2>4 DEF OwnAnswer
  <1> QED BY <1>7, <1>8, <1>9, <1>11, <1>12 DEF ProcShare

(* A turn that reads the end leaves the process of the table with nothing  *)
(* to say.                                                                 *)
LEMMA EndTurnKeeps ==
    ASSUME TypeInv, TypeInv', ShareInv, NEW t \in Turns, EndTurn(t)
    PROVE  ProcShare'
  <1> DEFINE g == mine[t]
  <1>1. /\ pc[t] = "reading" /\ pc' = [pc EXCEPT ![t] = "over"]
        /\ queue[g] # <<>> /\ Head(queue[g])[1] = "end"
        /\ queue' = [queue EXCEPT ![g] = Tail(@)]
        /\ mine' = [mine EXCEPT ![t] = None] /\ shown' = [shown EXCEPT ![t] = {}]
        /\ overlap' = overlap \ {t}
        /\ UNCHANGED <<table, made, reader, todo>>
    BY DEF EndTurn, Move, Gone
  <1>2. /\ g \in Procs /\ queue \in [Procs -> Seq(Items)] /\ pc \in [Turns -> Places]
        /\ shown \in [Turns -> SUBSET Turns] /\ mine \in [Turns -> Procs \cup {None}]
        /\ table \in Procs \cup {None} /\ reader \subseteq Procs /\ None \notin Procs
    BY <1>1 DEF TypeInv, TypeOK, HasProc, Places, Procs, None
  <1>3. \A u \in Turns \ {t} : pc[u] \notin Awaiting \cup {"clearing"}
    BY <1>1, OthersPassive DEF Passive, Past
  <1>4. \A u \in Turns : pc'[u] \notin Awaiting \cup {"clearing"}
    BY <1>1, <1>2, <1>3 DEF Awaiting
  <1>5. Unborn' BY <1>1, <1>2 DEF ShareInv, ProcShare, Unborn
  <1>6. Fresh' BY <1>4 DEF Fresh, Awaiting
  <1>7. CleanTable'
    <2> SUFFICES ASSUME table \in reader, \A u \in Turns : pc'[u] # "left"
                 PROVE  Owed(table)' /\ Heard(table)'
      BY <1>1 DEF CleanTable
    <2>1. Owed(table) /\ Heard(table)
      BY <1>1, <1>2 DEF ShareInv, ProcShare, CleanTable
    <2>2. todo[table] = <<>>
      <3>1. CASE table = g
        <4>1. 1 \in DOMAIN queue[g] /\ queue[g][1][1] = "end"
          BY <1>1, <1>2, BehindHead
        <4>2. todo[g] # <<>> => queue[g][1] = Token(t)
          BY <1>1, <2>1, <3>1, <4>1 DEF Heard
        <4> QED BY <3>1, <4>1, <4>2 DEF Token
      <3>2. CASE table # g
        <4>1. \A u \in Turns : pc[u] = "reading" => mine[u] # table
          BY <1>3, <3>2 DEF Awaiting
        <4> QED BY <2>1, <4>1 DEF Owed
      <3> QED BY <3>1, <3>2
    <2>3. Owed(table)' BY <1>1, <2>2 DEF Owed
    <2>4. Heard(table)' BY <1>4 DEF Heard, Awaiting
    <2> QED BY <2>3, <2>4
  <1>8. OwnProcess' BY <1>4 DEF OwnProcess
  <1>9. OwnAnswer'
    <2>1. \A v \in Turns \ overlap : shown[v] \subseteq {v}
      BY DEF ShareInv, ProcShare, OwnAnswer
    <2>2. shown'[t] = {} /\ \A v \in Turns \ {t} : shown'[v] = shown[v]
      BY <1>1, <1>2
    <2>3. \A v \in Turns \ overlap' : v # t => v \notin overlap BY <1>1
    <2> QED BY <2>1, <2>2, <2>3 DEF OwnAnswer
  <1> QED BY <1>5, <1>6, <1>7, <1>8, <1>9 DEF ProcShare


(* What is appended comes behind the rest.                                 *)
LEMMA AppendedItems ==
    ASSUME NEW S, NEW s \in Seq(S), NEW x \in S
    PROVE  \A i \in DOMAIN Append(s, x) :
                (i \in DOMAIN s /\ Append(s, x)[i] = s[i]) \/ Append(s, x)[i] = x
  OBVIOUS

(* What a process says goes to the turn that reads it.                     *)
LEMMA SayingKeeps ==
    ASSUME TypeInv, TypeInv', ShareInv, NEW g \in Procs,
           Speak(g) \/ FinishAnswer(g)
    PROVE  ProcShare'
  <1> DEFINE u == Head(todo[g])
  <1>1. /\ g \in reader /\ todo[g] # <<>>
        /\ UNCHANGED <<table, made, reader, mine, pc, shown, overlap>>
    BY DEF Speak, FinishAnswer, turnVars, history
  <1>2. \/ queue' = [queue EXCEPT ![g] = Append(@, Token(u))] /\ todo' = todo
        \/ /\ queue' = [queue EXCEPT ![g] = Append(@, End(u))]
           /\ todo' = [todo EXCEPT ![g] = Tail(@)]
    BY DEF Speak, FinishAnswer
  <1>3. /\ todo \in [Procs -> Seq(Turns)] /\ queue \in [Procs -> Seq(Items)]
        /\ todo[g] \in Seq(Turns) /\ queue[g] \in Seq(Items)
    BY DEF TypeInv, TypeOK
  <1>4. /\ u = todo[g][1] /\ 1 \in DOMAIN todo[g]
        /\ \A i \in DOMAIN Tail(todo[g]) : i + 1 \in DOMAIN todo[g]
                                        /\ Tail(todo[g])[i] = todo[g][i + 1]
    BY <1>1, <1>3, BehindHead
  <1> HIDE DEF u
  <1>5. /\ \A h \in Procs \ {g} : queue'[h] = queue[h] /\ todo'[h] = todo[h]
        /\ \/ queue'[g] = Append(queue[g], Token(u)) /\ todo'[g] = todo[g]
           \/ queue'[g] = Append(queue[g], End(u)) /\ todo'[g] = Tail(todo[g])
    BY <1>2, <1>3
  <1>6. \A i \in DOMAIN queue'[g] :
            \/ i \in DOMAIN queue[g] /\ queue'[g][i] = queue[g][i]
            \/ queue'[g][i] \in {Token(u), End(u)}
    <2>1. u \in Turns BY <1>1, <1>3, <1>4
    <2>2. Token(u) \in Items /\ End(u) \in Items BY <2>1 DEF Items, Token, End
    <2>3. CASE queue'[g] = Append(queue[g], Token(u))
      BY <1>3, <2>2, <2>3, AppendedItems
    <2>4. CASE queue'[g] = Append(queue[g], End(u))
      BY <1>3, <2>2, <2>4, AppendedItems
    <2> QED BY <1>5, <2>3, <2>4
  <1>7. \A i \in DOMAIN todo'[g] : \E j \in DOMAIN todo[g] : todo'[g][i] = todo[g][j]
    <2>1. CASE todo'[g] = todo[g] BY <2>1
    <2>2. CASE todo'[g] = Tail(todo[g]) BY <1>4, <2>2
    <2> QED BY <1>5, <2>1, <2>2
  <1>8. Unborn' BY <1>1, <1>5 DEF ShareInv, ProcShare, Unborn
  <1>9. Fresh'
    <2> SUFFICES ASSUME NEW t \in Turns, pc[t] = "priming"
                 PROVE  /\ mine[t] # table /\ mine[t] \notin reader
                        /\ todo'[mine[t]] \in {<<>>, <<t>>}
                        /\ queue'[mine[t]] = <<>>
                        /\ \A v \in Turns \ {t} : mine[v] # mine[t]
      BY <1>1 DEF Fresh
    <2>1. /\ mine[t] # table /\ mine[t] \notin reader
          /\ todo[mine[t]] \in {<<>>, <<t>>} /\ queue[mine[t]] = <<>>
          /\ \A v \in Turns \ {t} : mine[v] # mine[t]
      BY DEF ShareInv, ProcShare, Fresh
    <2>2. mine[t] \in Procs \ {g} BY <1>1, <2>1 DEF TypeInv, TypeOK, HasProc
    <2> QED BY <1>5, <2>1, <2>2
  <1>10. CleanTable'
    <2> SUFFICES ASSUME table \in reader, \A v \in Turns : pc[v] # "left"
                 PROVE  Owed(table)' /\ Heard(table)'
      BY <1>1 DEF CleanTable
    <2>1. Owed(table) /\ Heard(table)
      BY DEF ShareInv, ProcShare, CleanTable
    <2>2. table \in Procs BY DEF TypeInv, TypeOK
    <2>3. CASE table # g
      <3>1. queue'[table] = queue[table] /\ todo'[table] = todo[table]
        BY <1>5, <2>2, <2>3
      <3>2. Owed(table)' BY <1>1, <2>1, <3>1 DEF Owed
      <3>3. Heard(table)' BY <1>1, <2>1, <3>1 DEF Heard
      <3> QED BY <3>2, <3>3
    <2>4. CASE table = g
      <3>1. PICK r \in Turns : todo[g] = <<r>> /\ pc[r] = "reading" /\ mine[r] = g
        BY <1>1, <2>1, <2>4 DEF Owed
      <3>2. u = r BY <1>4, <3>1
      <3>3. \A v \in Turns : pc[v] \in {"locking", "reading"} => v = r
        BY <3>1, OthersPassive DEF Passive, Past, Awaiting
      <3>4. \A i \in DOMAIN queue[g] : queue[g][i] = Token(r)
        BY <1>1, <2>1, <2>4, <3>1 DEF Heard
      <3>5. Tail(todo[g]) = <<>> BY <3>1
      <3>6. Owed(table)' BY <1>1, <1>5, <2>4, <3>1, <3>5 DEF Owed
      <3>7. \A i \in DOMAIN queue'[g] : queue'[g][i] \in {Token(r), End(r)}
        BY <1>6, <3>2, <3>4
      <3>8. todo'[g] # <<>> => \A i \in DOMAIN queue'[g] : queue'[g][i] = Token(r)
        <4> SUFFICES ASSUME todo'[g] # <<>>, NEW i \in DOMAIN queue'[g]
                     PROVE  queue'[g][i] = Token(r)
          OBVIOUS
        <4>1. queue'[g] = Append(queue[g], Token(r)) BY <1>5, <3>2, <3>5
        <4> QED BY <1>3, <3>4, <4>1
      <3>9. Heard(table)' BY <1>1, <2>4, <3>1, <3>3, <3>7, <3>8 DEF Heard
      <3> QED BY <3>6, <3>9
    <2> QED BY <2>3, <2>4
  <1>11. OwnProcess'
    <2> SUFFICES ASSUME NEW t \in Turns \ overlap,
                        pc[t] \in Awaiting \cup {"clearing"}, mine[t] # None
                 PROVE  /\ mine[t] \in reader =>
                            \A i \in DOMAIN todo'[mine[t]] : todo'[mine[t]][i] = t
                        /\ pc[t] \in {"locking", "reading"} =>
                            \A i \in DOMAIN queue'[mine[t]] :
                                queue'[mine[t]][i] \in {Token(t), End(t), Eof}
      BY <1>1 DEF OwnProcess
    <2>1. /\ mine[t] \in reader => \A i \in DOMAIN todo[mine[t]] : todo[mine[t]][i] = t
          /\ pc[t] \in {"locking", "reading"} =>
                \A i \in DOMAIN queue[mine[t]] :
                    queue[mine[t]][i] \in {Token(t), End(t), Eof}
      BY DEF ShareInv, ProcShare, OwnProcess
    <2>2. mine[t] \in Procs BY DEF TypeInv, TypeOK
    <2>3. CASE mine[t] # g
      BY <1>5, <2>1, <2>2, <2>3
    <2>4. CASE mine[t] = g
      <3>1. u = t BY <1>1, <1>4, <2>1, <2>4
      <3>2. \A i \in DOMAIN todo'[g] : todo'[g][i] = t
        BY <1>1, <1>7, <2>1, <2>4
      <3>3. pc[t] \in {"locking", "reading"} =>
                \A i \in DOMAIN queue'[g] : queue'[g][i] \in {Token(t), End(t), Eof}
        BY <1>6, <2>1, <2>4, <3>1
      <3> QED BY <2>4, <3>2, <3>3
    <2> QED BY <2>3, <2>4
  <1>12. OwnAnswer' BY <1>1 DEF ShareInv, ProcShare, OwnAnswer
  <1> QED BY <1>8, <1>9, <1>10, <1>11, <1>12 DEF ProcShare

LEMMA ShareInvInductive ==
    ASSUME TypeInv, TypeInv', ShareInv, [Next]_vars
    PROVE  ShareInv'
  <1>1. InTurn' /\ Alone' BY OrderInductive DEF ShareInv
  <1>2. ProcShare'
    <2>1. ASSUME NEW t \in Turns, NEW drift \in BOOLEAN, Begin(t, drift)
          PROVE  ProcShare'
      BY <2>1, BeginKeeps
    <2>2. ASSUME NEW t \in Turns,
                 \/ Cleared(t) \/ Acquire(t) \/ Fail(t) \/ Ended(t) \/ Cancel(t)
                 \/ CancelEarly(t) \/ LeaveStream(t) \/ CloseGenerator(t)
          PROVE  ProcShare'
      BY <2>2, TurnShrinks, ShrinkingKeeps
    <2>3. ASSUME NEW t \in Turns,
                 \/ Spawn(t) \/ Primed(t) \/ Reuse(t) \/ Write(t) \/ NextToken(t)
                 \/ EndTurn(t)
          PROVE  ProcShare'
      BY <2>3, SpawnKeeps, PrimedKeeps, ReuseKeeps, WriteKeeps, NextTokenKeeps,
         EndTurnKeeps
    <2>4. ASSUME NEW g \in Procs, Speak(g) \/ FinishAnswer(g) PROVE ProcShare'
      BY <2>4, SayingKeeps
    <2>5. ASSUME \/ \E g \in Procs : \/ Die(g) \/ ReaderEnds(g) \/ ReaderFails(g)
                                     \/ RegistryKill(g) \/ KillEnds(g)
                 \/ Reset \/ UNCHANGED vars
          PROVE  ProcShare'
      BY <2>5, OthersShrink, ShrinkingKeeps
    <2> QED BY <2>1, <2>2, <2>3, <2>4, <2>5 DEF Next, Go, Work
  <1> QED BY <1>1, <1>2 DEF ShareInv

LEMMA ShareInit == Init => ShareInv
  <1> SUFFICES ASSUME Init PROVE ShareInv OBVIOUS
  <1>1. /\ pc = [t \in Turns |-> "idle"] /\ mine = [t \in Turns |-> None]
        /\ reader = {} /\ table = None /\ made = 0
        /\ todo = [g \in Procs |-> <<>>] /\ queue = [g \in Procs |-> <<>>]
        /\ shown = [t \in Turns |-> {}]
    BY DEF Init
  <1>2. None \notin Procs BY DEF Procs, None
  <1>3. Unborn BY <1>1, <1>2 DEF Unborn
  <1>4. InTurn /\ Alone BY <1>1 DEF InTurn, Alone
  <1>5. Fresh /\ CleanTable /\ OwnProcess /\ OwnAnswer
    BY <1>1 DEF Fresh, CleanTable, OwnProcess, OwnAnswer, Awaiting
  <1> QED BY <1>3, <1>4, <1>5 DEF ShareInv, ProcShare

(* A turn that was let in after every earlier generator was closed shows   *)
(* its own answer only, whatever was cancelled, reset or killed before:    *)
(* the process of the table owes nothing to a turn that is gone            *)
(* (cli_persistent_chat.py:321).                                           *)
THEOREM TurnsShowTheirOwn == Spec => []OwnAnswer
  <1>1. Init => TypeInv /\ SlotInv /\ ShareInv
    BY TypeInit, SlotInit, ShareInit
  <1>2. TypeInv /\ SlotInv /\ ShareInv /\ [Next]_vars
            => TypeInv' /\ SlotInv' /\ ShareInv'
    BY TypeInvInductive, ShareInvInductive
  <1>3. ShareInv => OwnAnswer BY DEF ShareInv, ProcShare
  <1> QED BY <1>1, <1>2, <1>3, PTL DEF Spec

=============================================================================
