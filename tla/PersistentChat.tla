--------------------------- MODULE PersistentChat ---------------------------
(***************************************************************************)
(* The persistent CLI process of one chat and the turns that share it.     *)
(*                                                                         *)
(* PersistentChatMixin keeps a `claude -p` subprocess per chat.  A turn    *)
(* writes its message to the process and takes tokens from a queue that a  *)
(* reader task fills; an end marker closes each answer.  Turns are         *)
(* cancelled, fail, or are left by their consumer between two tokens, in   *)
(* which case the generator is closed some time after the chat's lock was  *)
(* passed on.  Resets and the session registry kill the process as well.   *)
(*                                                                         *)
(* The rate gate appears as free slots.                                    *)
(***************************************************************************)
EXTENDS Naturals, Sequences, FiniteSets

CONSTANTS
    LastTurn,   \* bound: turns of the chat
    MaxProcs,   \* bound: processes started
    Slots,      \* session slots of the rate gate
    Tokens      \* tokens of an answer

ASSUME ChatAssumption ==
    LastTurn \in Nat \ {0} /\ MaxProcs \in Nat \ {0}
    /\ Slots \in Nat \ {0} /\ Tokens \in Nat \ {0}

Turns == 1..LastTurn
Procs == 1..MaxProcs
None == 0

Token(t) == <<"token", t>>
End(t) == <<"end", t>>          \* None after turn t's result event
Eof == <<"end", None>>          \* None from the reader's finally
Items == ({"token", "end"} \X Turns) \cup {Eof}

VARIABLES
    table,      \* _persistent_chats: the chat's process
    made,       \* how many processes have been started
    proc,       \* the state of a process
    known,      \* processes in the CliSessionRegistry
    todo,       \* messages written to a process and not yet answered
    spoken,     \* how many tokens of its answer a process has given
    reader,     \* processes whose stdout reader runs
    queue,      \* response_queue
    lock,       \* turn_lock: the turn that holds it
    free,       \* slots of the rate gate
    pc,         \* where a turn is
    mine,       \* pcp, the process a turn works with
    victim,     \* the process whose killing a turn awaits
    killers,    \* processes that a reset, or the registry, is killing
    shown,      \* the turns whose tokens a turn has yielded
    overlap,    \* history: turns begun before an earlier generator was closed
    brief,      \* turns that bring their new message only (is_persistent)
    robbed,     \* history: turns whose process lost its reader under them
    drifted     \* history: turns that found a process of another workspace

procVars == <<table, made, proc, known, todo, spoken, reader, queue, killers>>
turnVars == <<lock, free, pc, mine, victim, shown, brief>>
history  == <<overlap, robbed, drifted>>
vars == <<procVars, turnVars, history>>

Awaiting == {"asking", "entering", "spawning", "priming", "locking", "reading"}

TypeOK ==
    /\ table \in Procs \cup {None}
    /\ made \in 0..MaxProcs
    /\ proc \in [Procs -> {"none", "running", "dead"}]
    /\ known \subseteq Procs
    /\ spoken \in [Procs -> 0..Tokens]
    /\ reader \subseteq Procs /\ killers \subseteq Procs
    /\ todo \in [Procs -> Seq(Turns)]
    /\ queue \in [Procs -> Seq(Items)]
    /\ lock \in [Procs -> Turns \cup {None}]
    /\ free \in 0..Slots
    /\ pc \in [Turns -> Awaiting \cup {"idle", "clearing", "left", "ending",
                                       "failing", "over"}]
    /\ mine \in [Turns -> Procs \cup {None}]
    /\ victim \in [Turns -> Procs \cup {None}]
    /\ shown \in [Turns -> SUBSET Turns]
    /\ \A S \in {overlap, robbed, drifted, brief} : S \subseteq Turns

Init ==
    /\ table = None /\ made = 0
    /\ proc = [g \in Procs |-> "none"]
    /\ spoken = [g \in Procs |-> 0]
    /\ known = {} /\ reader = {} /\ killers = {}
    /\ todo = [g \in Procs |-> <<>>]
    /\ queue = [g \in Procs |-> <<>>]
    /\ lock = [g \in Procs |-> None]
    /\ free = Slots
    /\ pc = [t \in Turns |-> "idle"]
    /\ mine = [t \in Turns |-> None]
    /\ victim = [t \in Turns |-> None]
    /\ shown = [t \in Turns |-> {}]
    /\ brief = {} /\ overlap = {} /\ robbed = {} /\ drifted = {}

(* The generator of a turn is gone, and what was kept about the turn.      *)
Gone(t) ==
    /\ mine' = [mine EXCEPT ![t] = None]
    /\ shown' = [shown EXCEPT ![t] = {}]
    /\ brief' = brief \ {t} /\ overlap' = overlap \ {t}
    /\ robbed' = robbed \ {t} /\ drifted' = drifted \ {t}

Move(t, from, to) ==
    /\ pc[t] = from
    /\ pc' = [pc EXCEPT ![t] = to]

-----------------------------------------------------------------------------
(* kill_persistent_chat.                                                   *)

(* Up to its sleep: pop whatever process the chat has now, cancel its      *)
(* reader, whose finally ends the queue, and send SIGTERM.                 *)
PopAndTerm ==
    IF table = None
    THEN UNCHANGED <<table, reader, queue>>
    ELSE /\ table' = None
         /\ reader' = reader \ {table}
         /\ queue' = IF table \in reader
                     THEN [queue EXCEPT ![table] = Append(@, Eof)] ELSE queue

(* The turns that hold a reference to a process and are not at their end.  *)
HoldersOf(g) == {u \in Turns : g # None /\ mine[u] = g /\ pc[u] \in Awaiting}

Robbed(t) == robbed' = robbed \cup (HoldersOf(table) \ {t})

Dead(g) ==
    /\ proc' = [h \in Procs |-> IF h = g THEN "dead" ELSE proc[h]]
    /\ todo' = [h \in Procs |-> IF h = g THEN <<>> ELSE todo[h]]
    /\ spoken' = [h \in Procs |-> IF h = g THEN 0 ELSE spoken[h]]

(* Mutant of KilledAndForgotten: a process that ignores SIGTERM is dropped *)
(* from the registry and runs on.                                          *)
ForgottenOnly(g) ==
    /\ known' = known \ {g}
    /\ UNCHANGED <<proc, todo, spoken>>

(* After the sleep: SIGKILL if it still runs, then deregister.             *)
KilledAndForgotten(g) ==
    /\ known' = known \ {g}
    /\ Dead(g)

-----------------------------------------------------------------------------
(* A turn enters.                                                          *)

(* Mutant of HasPersistent: the process of the table may be dead.          *)
HasPersistentDead == table # None

(* has_persistent_chat.                                                    *)
HasPersistent == table # None /\ proc[table] = "running"

(* The chat's lock lets one turn in at a time; a turn whose consumer left  *)
(* has passed it on.  has_persistent_chat, the look-up of the process and  *)
(* the checks on it happen without an await: a process of another          *)
(* workspace (drift) or a dead one is killed first.  A turn that found a   *)
(* live one brings its new message only, else the whole conversation.      *)
Begin(t, drift) ==
    LET unfit == table # None /\ (drift \/ proc[table] # "running")
    IN  /\ \A u \in Turns : IF u < t THEN pc[u] \in {"left", "over"}
                                     ELSE pc[u] = "idle"
        /\ pc' = [pc EXCEPT ![t] = IF unfit THEN "clearing" ELSE "asking"]
        /\ mine' = [mine EXCEPT ![t] = IF unfit THEN None ELSE table]
        /\ victim' = [victim EXCEPT ![t] = IF unfit THEN table ELSE None]
        /\ IF unfit THEN PopAndTerm ELSE UNCHANGED <<table, reader, queue>>
        /\ brief' = IF HasPersistent THEN brief \cup {t} ELSE brief
        /\ drifted' = IF HasPersistent /\ drift THEN drifted \cup {t} ELSE drifted
        /\ overlap' = IF \E u \in Turns : pc[u] = "left"
                      THEN overlap \cup {t} ELSE overlap
        /\ robbed' = IF HasPersistent /\ ~drift /\ table \notin reader
                     THEN robbed \cup {t} ELSE robbed
        /\ UNCHANGED <<made, proc, known, todo, spoken, killers, lock, free,
                       shown>>

Cleared(t) ==
    /\ Move(t, "clearing", "asking")
    /\ KilledAndForgotten(victim[t])
    /\ victim' = [victim EXCEPT ![t] = None]
    /\ UNCHANGED <<table, made, reader, queue, killers, lock, free, mine, shown,
                   brief, history>>

(* Mutant of Acquire: the semaphore lets every turn through.               *)
AcquireAlways(t) ==
    /\ Move(t, "asking", "entering")
    /\ free' = free - 1
    /\ UNCHANGED <<procVars, lock, mine, victim, shown, brief, history>>

Acquire(t) ==
    /\ Move(t, "asking", "entering")
    /\ free > 0 /\ free' = free - 1
    /\ UNCHANGED <<procVars, lock, mine, victim, shown, brief, history>>

(* _spawn_persistent_chat: the process is registered when it is there, but *)
(* enters the table only after its first message was flushed.              *)
Spawn(t) ==
    LET g == made + 1 IN
    /\ mine[t] = None /\ made < MaxProcs
    /\ Move(t, "entering", "priming")
    /\ made' = g
    /\ mine' = [mine EXCEPT ![t] = g]
    /\ proc' = [proc EXCEPT ![g] = "running"]
    /\ known' = known \cup {g}
    /\ todo' = [todo EXCEPT ![g] = <<t>>]
    /\ UNCHANGED <<table, spoken, reader, queue, killers, lock, free, victim,
                   shown, brief, history>>

Primed(t) ==
    LET g == mine[t] IN
    /\ Move(t, "priming", "reading")
    /\ proc[g] = "running"
    /\ table' = g
    /\ reader' = reader \cup {g}
    /\ lock' = [lock EXCEPT ![g] = t]
    /\ UNCHANGED <<made, proc, known, todo, spoken, queue, killers, free, mine,
                   victim, shown, brief, history>>

(* A later turn drops what is left in the queue and waits for the lock;    *)
(* if it is free this is one step with the writing.                        *)
Reuse(t) ==
    /\ mine[t] # None
    /\ Move(t, "entering", "locking")
    /\ queue' = [queue EXCEPT ![mine[t]] = <<>>]
    /\ UNCHANGED <<table, made, proc, known, todo, spoken, reader, killers, lock,
                   free, mine, victim, shown, brief, history>>

(* A write to a process that is gone fails.                                *)
Write(t) ==
    LET g == mine[t] IN
    /\ Move(t, "locking", "reading")
    /\ lock[g] = None /\ proc[g] = "running"
    /\ lock' = [lock EXCEPT ![g] = t]
    /\ todo' = [todo EXCEPT ![g] = Append(@, t)]
    /\ UNCHANGED <<table, made, proc, known, spoken, reader, queue, killers, free,
                   mine, victim, shown, brief, history>>

-----------------------------------------------------------------------------
(* The process and its reader.                                             *)

(* The process works on its messages in order; its reader moves tokens and *)
(* end marker to the queue.                                                *)
Speak(g) ==
    /\ proc[g] = "running" /\ g \in reader /\ todo[g] # <<>> /\ spoken[g] < Tokens
    /\ queue' = [queue EXCEPT ![g] = Append(@, Token(Head(todo[g])))]
    /\ spoken' = [spoken EXCEPT ![g] = @ + 1]
    /\ UNCHANGED <<table, made, proc, known, todo, reader, killers, turnVars, history>>

FinishAnswer(g) ==
    /\ proc[g] = "running" /\ todo[g] # <<>> /\ spoken[g] = Tokens /\ g \in reader
    /\ queue' = [queue EXCEPT ![g] = Append(@, End(Head(todo[g])))]
    /\ todo' = [todo EXCEPT ![g] = Tail(@)]
    /\ spoken' = [spoken EXCEPT ![g] = 0]
    /\ UNCHANGED <<table, made, proc, known, reader, killers, turnVars, history>>

Die(g) ==
    /\ proc[g] = "running"
    /\ Dead(g)
    /\ UNCHANGED <<table, made, known, reader, queue, killers, turnVars, history>>

(* Mutant of ReaderEnds: the reader ends without an end marker.            *)
ReaderEndsSilently(g) ==
    /\ g \in reader /\ proc[g] = "dead"
    /\ reader' = reader \ {g}
    /\ UNCHANGED <<table, made, proc, known, todo, spoken, queue, killers, turnVars,
                   history>>

ReaderEnds(g) ==
    /\ g \in reader /\ proc[g] = "dead"
    /\ reader' = reader \ {g}
    /\ queue' = [queue EXCEPT ![g] = Append(@, Eof)]
    /\ UNCHANGED <<table, made, proc, known, todo, spoken, killers, turnVars, history>>

(* An output line past the limit, or an event of another form, ends the    *)
(* reader of a process that goes on running.                               *)
ReaderFails(g) ==
    /\ g \in reader /\ proc[g] = "running"
    /\ reader' = reader \ {g}
    /\ queue' = [queue EXCEPT ![g] = Append(@, Eof)]
    /\ robbed' = robbed \cup HoldersOf(g)
    /\ UNCHANGED <<table, made, proc, known, todo, spoken, killers, turnVars,
                   overlap, drifted>>

-----------------------------------------------------------------------------
(* A turn reads.                                                           *)

NextToken(t) ==
    LET g == mine[t] IN
    /\ pc[t] = "reading" /\ queue[g] # <<>> /\ Head(queue[g])[1] = "token"
    /\ shown' = [shown EXCEPT ![t] = @ \cup {Head(queue[g])[2]}]
    /\ queue' = [queue EXCEPT ![g] = Tail(@)]
    /\ UNCHANGED <<table, made, proc, known, todo, spoken, reader, killers, lock,
                   free, pc, mine, victim, brief, history>>

EndTurn(t) ==
    LET g == mine[t] IN
    /\ Move(t, "reading", "over")
    /\ queue[g] # <<>> /\ Head(queue[g])[1] = "end"
    /\ queue' = [queue EXCEPT ![g] = Tail(@)]
    /\ lock' = [lock EXCEPT ![g] = None]
    /\ free' = free + 1
    /\ Gone(t)
    /\ UNCHANGED <<table, made, proc, known, todo, spoken, reader, killers, victim>>

-----------------------------------------------------------------------------
(* Turns that do not end by themselves.                                    *)

Unlock(t) == lock' = [g \in Procs |-> IF lock[g] = t THEN None ELSE lock[g]]

(* Mutant of Kill: a cancelled turn leaves its process to the next one.    *)
KillNothing(t) ==
    /\ Unlock(t)
    /\ victim' = [victim EXCEPT ![t] = None]
    /\ UNCHANGED <<table, reader, queue, robbed>>

(* Both handlers of stream_persistent: the turn lock is released on the    *)
(* way out of its block, then the chat's process is killed.                *)
Kill(t) ==
    /\ Unlock(t)
    /\ victim' = [victim EXCEPT ![t] = table]
    /\ PopAndTerm /\ Robbed(t)

(* A failed spawn, or a write to a process that has died.                  *)
Fail(t) ==
    /\ \/ Move(t, "entering", "failing") /\ mine[t] = None
       \/ Move(t, "priming", "failing") /\ proc[mine[t]] = "dead"
       \/ /\ Move(t, "locking", "failing")
          /\ lock[mine[t]] = None /\ proc[mine[t]] = "dead"
    /\ Kill(t)
    /\ UNCHANGED <<made, proc, known, todo, spoken, killers, free, mine, shown,
                   brief, overlap, drifted>>

(* The turn is cancelled inside the try.                                   *)
Cancel(t) ==
    /\ pc[t] \in {"entering", "priming", "locking", "reading"}
    /\ pc' = [pc EXCEPT ![t] = "ending"]
    /\ Kill(t)
    /\ UNCHANGED <<made, proc, known, todo, spoken, killers, free, mine, shown,
                   brief, overlap, drifted>>

(* The turn is cancelled before it has a slot; the killing of an unfit     *)
(* process ends with it, before SIGKILL and deregistration.                *)
CancelEarly(t) ==
    /\ pc[t] \in {"clearing", "asking"}
    /\ pc' = [pc EXCEPT ![t] = "over"]
    /\ victim' = [victim EXCEPT ![t] = None]
    /\ Gone(t)
    /\ UNCHANGED <<procVars, lock, free>>

(* The consumer of a stale turn returns out of its loop: the chat's lock   *)
(* is passed on while the generator is suspended at a yield.               *)
LeaveStream(t) ==
    /\ shown[t] # {}
    /\ Move(t, "reading", "left")
    /\ UNCHANGED <<procVars, lock, free, mine, victim, shown, brief, history>>

(* The event loop closes the generators one inside the other, from their   *)
(* finalizer hooks, as tasks of their own.                                 *)
CloseGenerator(t) ==
    /\ Move(t, "left", "ending")
    /\ Kill(t)
    /\ UNCHANGED <<made, proc, known, todo, spoken, killers, free, mine, shown,
                   brief, overlap, drifted>>

(* Mutant of Ended: the slot is given back before the one-shot stream and  *)
(* again on the way out.                                                   *)
EndedTwice(t) ==
    /\ pc[t] \in {"ending", "failing"}
    /\ pc' = [pc EXCEPT ![t] = "over"]
    /\ KilledAndForgotten(victim[t])
    /\ victim' = [victim EXCEPT ![t] = None]
    /\ free' = free + (IF pc[t] = "failing" THEN 2 ELSE 1)
    /\ Gone(t)
    /\ UNCHANGED <<table, made, reader, queue, killers, lock>>

(* The killing is over and the slot is given back.  A turn that failed     *)
(* goes on with a one-shot stream, on a slot of its own.                   *)
Ended(t) ==
    /\ pc[t] \in {"ending", "failing"}
    /\ pc' = [pc EXCEPT ![t] = "over"]
    /\ KilledAndForgotten(victim[t])
    /\ victim' = [victim EXCEPT ![t] = None]
    /\ free' = free + 1
    /\ Gone(t)
    /\ UNCHANGED <<table, made, reader, queue, killers, lock>>

-----------------------------------------------------------------------------
(* Others kill the process (bound: one at a time).                         *)

(* reset_session makes a task of kill_persistent_chat.                     *)
Reset ==
    /\ table # None /\ killers = {}
    /\ killers' = killers \cup {table}
    /\ PopAndTerm /\ Robbed(None)
    /\ UNCHANGED <<made, proc, known, todo, spoken, turnVars, overlap, drifted>>

(* CliSessionRegistry.kill, from a route or by cleanup_inactive: the       *)
(* process stays in the table.                                             *)
RegistryKill(g) ==
    /\ g \in known /\ killers = {}
    /\ killers' = killers \cup {g}
    /\ UNCHANGED <<table, made, proc, known, todo, spoken, reader, queue, turnVars,
                   history>>

KillEnds(g) ==
    /\ g \in killers
    /\ killers' = killers \ {g}
    /\ KilledAndForgotten(g)
    /\ UNCHANGED <<table, made, reader, queue, turnVars, history>>

-----------------------------------------------------------------------------
Go(t) == \/ Cleared(t) \/ Acquire(t) \/ Spawn(t) \/ Primed(t) \/ Reuse(t)
         \/ Write(t) \/ NextToken(t) \/ EndTurn(t) \/ Fail(t) \/ Ended(t)

Work(g) == Speak(g) \/ FinishAnswer(g) \/ ReaderEnds(g)

Next ==
    \/ \E t \in Turns : \E drift \in BOOLEAN : Begin(t, drift)
    \/ \E t \in Turns :
        Go(t) \/ Cancel(t) \/ CancelEarly(t) \/ LeaveStream(t) \/ CloseGenerator(t)
    \/ \E g \in Procs : Work(g) \/ Die(g) \/ ReaderFails(g) \/ RegistryKill(g) \/ KillEnds(g)
    \/ Reset

Spec == Init /\ [][Next]_vars

(* The event loop runs what is ready, generators are closed, and a process *)
(* answers the messages it is given or dies.                               *)
Fairness ==
    /\ \A t \in Turns : WF_vars(Go(t)) /\ WF_vars(CloseGenerator(t))
    /\ \A g \in Procs : WF_vars(Work(g)) /\ WF_vars(KillEnds(g))

FairSpec == Spec /\ Fairness

-----------------------------------------------------------------------------
(* Properties.                                                             *)

(* A process that runs can be found: the registry, whose cleanup kills     *)
(* what is inactive, knows it until SIGKILL, even when the turn that       *)
(* started it was cancelled before the table had it, or the turn that was  *)
(* killing it was cancelled in between (cli_persistent_chat.py).           *)
RunningKnown == \A g \in Procs : proc[g] = "running" => g \in known

(* A turn shows its own answer and no left-over of an earlier turn, which  *)
(* would delay every answer by one turn, whatever cancellations, resets    *)
(* and deaths there were.  The one exception is a turn that was let in     *)
(* while an earlier turn's generator was still open.                       *)
OwnAnswer == \A t \in Turns \ overlap : shown[t] \subseteq {t}

HasSlot == {"entering", "priming", "locking", "reading", "left", "ending", "failing"}
Holders == {t \in Turns : pc[t] \in HasSlot}

(* The slots are free or held by a turn from acquire to the end of its     *)
(* handlers; an error that falls back to a one-shot stream releases once.  *)
SlotsHeld == free + Cardinality(Holders) = Slots

(* What stream_persistent says of its spawns (cli_persistent_chat.py:287,  *)
(* 324), "First message - spawn with full history": the turn that starts a *)
(* process did not leave the conversation out.                             *)
SpawnKnowsHistory ==
    [][\A t \in Turns : pc[t] = "entering" /\ pc'[t] = "priming" => t \notin brief]_vars

(* What the code keeps of it.  Whether a process lives is looked up        *)
(* (chat_streams.py:569) an await of the gate before it is used; still a   *)
(* process starts without the conversation exactly when its turn found a   *)
(* live process of another workspace and killed it itself, and never       *)
(* because the process it counted on died or was taken away meanwhile.     *)
HistoryLostByDrift ==
    [][\A t \in Turns : pc[t] = "entering" /\ pc'[t] = "priming"
                            => (t \in brief <=> t \in drifted)]_vars

(* A turn that has entered ends, unless the reader of its process ended    *)
(* before the turn did, because another turn or a reset popped the process *)
(* or on an error: the reader's end marker may then have been dropped with *)
(* the left-overs, while the process still takes the message.              *)
TurnsEnd ==
    \A t \in Turns : pc[t] \in {"entering", "reading"}
                        ~> pc[t] \in {"left", "over"} \/ t \in robbed
=============================================================================
