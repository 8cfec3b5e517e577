------------------------------ MODULE CliCalls ------------------------------
(***************************************************************************)
(* The one-shot calls of the CLI backends, from the rate gate to the end   *)
(* of their subprocess, under cancellation.                                *)
(*                                                                         *)
(*   call    ClaudeCliBackend.call with a cancel_event, with its retries   *)
(*   oneshot the same without one, as the one-shot generators use it       *)
(*   events  _call_with_tool_events and call_steerable, for workers        *)
(*   stream  ClaudeCliBackend.stream, a generator behind a line queue      *)
(*   codex   CodexCliBackend._call_once, which has no gate                 *)
(*                                                                         *)
(* They differ in the order in which their finally blocks release the      *)
(* slot, deregister and reap, and in what an exception skips.  Prompts and *)
(* answers are left out; a subprocess runs, closes its output or is dead.  *)
(***************************************************************************)
EXTENDS RateGate, FiniteSets

CONSTANTS
    Calls,
    MaxRetries,     \* cli_retry.MAX_RETRIES
    MaxLines        \* maxsize of a stream's line_queue

ASSUME CallsAssumption ==
    /\ IsFiniteSet(Calls)
    /\ MaxRetries \in Nat /\ MaxLines \in Nat \ {0}

Kinds == {"call", "oneshot", "events", "stream", "codex"}
Retrying == {"call", "oneshot"}
Eventful == {"call", "events", "codex"}      \* have a cancel_event and a watcher

VARIABLES
    kind,       \* which of the paths a call takes
    pc,         \* where it is
    proc,       \* its subprocess
    tries,      \* attempts of call() that failed
    listed,     \* calls in the CliSessionRegistry
    signal,     \* calls whose cancel_event is set
    watch,      \* their _watch_cancel task
    killing,    \* calls whose session registry.kill has terminated
    lines,      \* lines in a stream's queue, its EOF sentinel included
    draining,   \* streams whose _drain_stdout task is not over
    leaked,     \* history: calls that ended without giving their slot back
    unread      \* history: streams whose reader failed before the output ended

callVars == <<kind, pc, proc, tries, listed, signal, watch, killing, lines,
              draining, leaked, unread>>
vars == <<gateVars, callVars>>

TypeOK ==
    /\ GateTypeOK
    /\ kind \in [Calls -> Kinds]
    /\ pc \in [Calls -> {"idle", "cooling", "queued", "spacing", "spawning",
                         "writing", "reading", "stuck", "reaping", "waiting",
                         "backoff", "over"}]
    /\ proc \in [Calls -> {"none", "running", "closed", "dead"}]
    /\ tries \in [Calls -> 0..MaxRetries]
    /\ watch \in [Calls -> {"off", "on", "termed"}]
    /\ lines \in [Calls -> 0..MaxLines]
    /\ \A S \in {listed, signal, killing, draining, leaked, unread} : S \subseteq Calls

Init ==
    /\ GateInit
    /\ kind = [c \in Calls |-> "call"]
    /\ pc = [c \in Calls |-> "idle"]
    /\ proc = [c \in Calls |-> "none"]
    /\ tries = [c \in Calls |-> 0]
    /\ listed = {} /\ signal = {} /\ killing = {}
    /\ watch = [c \in Calls |-> "off"]
    /\ lines = [c \in Calls |-> 0]
    /\ draining = {} /\ leaked = {} /\ unread = {}

-----------------------------------------------------------------------------
Class(c) == IF kind[c] = "stream" THEN "session" ELSE "worker"
Gated(c) == kind[c] # "codex"
Alive(c) == proc[c] \in {"running", "closed"}

(* A call holds its slot from the semaphore to the release of its path: a  *)
(* stream's drain task gives it back, call() only after the reaping.       *)
Holds(c) ==
    /\ Gated(c)
    /\ \/ pc[c] \in {"spacing", "spawning"}
       \/ kind[c] \in Retrying /\ pc[c] \in {"reading", "reaping"}
       \/ kind[c] = "events" /\ pc[c] \in {"writing", "reading"}
       \/ c \in draining

Move(c, from, to) ==
    /\ pc[c] = from
    /\ pc' = [pc EXCEPT ![c] = to]

-----------------------------------------------------------------------------
(* The way in.                                                             *)

Begin(c, k) ==
    /\ kind' = [kind EXCEPT ![c] = k]
    /\ Move(c, "idle", IF k = "codex" THEN "spawning" ELSE "cooling")
    /\ UNCHANGED <<gateVars, proc, tries, listed, signal, watch, killing, lines,
                   draining, leaked, unread>>

PassCooldown(c) ==
    /\ ~cooling
    /\ Move(c, "cooling", "queued")
    /\ UNCHANGED <<gateVars, kind, proc, tries, listed, signal, watch, killing,
                   lines, draining, leaked, unread>>

Acquire(c) ==
    /\ Move(c, "queued", "spacing")
    /\ TakeSlot(Class(c))
    /\ UNCHANGED <<kind, proc, tries, listed, signal, watch, killing, lines,
                   draining, leaked, unread>>

(* Mutant of PassSpacing: the slot is given back when the wait is over.    *)
PassSpacingReleasing(c) ==
    /\ Move(c, "spacing", "spawning")
    /\ GiveSlot(Class(c))
    /\ UNCHANGED <<kind, proc, tries, listed, signal, watch, killing, lines,
                   draining, leaked, unread>>

PassSpacing(c) ==
    /\ Move(c, "spacing", "spawning")
    /\ UNCHANGED <<gateVars, kind, proc, tries, listed, signal, watch, killing,
                   lines, draining, leaked, unread>>

(* create_subprocess_exec, registration and the start of the helper tasks: *)
(* a stream's drain task, and the watcher of call() and of codex.  The     *)
(* events paths start theirs only when the prompt is written.  call() then *)
(* has communicate() write and read together; the others write first.      *)
Spawn(c) ==
    /\ Move(c, "spawning", IF kind[c] \in Retrying THEN "reading" ELSE "writing")
    /\ proc' = [proc EXCEPT ![c] = "running"]
    /\ listed' = listed \cup {c}
    /\ watch' = [watch EXCEPT ![c] = IF kind[c] \in {"call", "codex"} THEN "on" ELSE "off"]
    /\ draining' = IF kind[c] = "stream" THEN draining \cup {c} ELSE draining
    /\ lines' = [lines EXCEPT ![c] = 0]
    /\ UNCHANGED <<gateVars, kind, tries, signal, killing, leaked, unread>>

(* stdin.write, drain, close and wait_closed have returned: a process that *)
(* does not read its stdin can make them wait as long as it lives.         *)
WritePrompt(c) ==
    /\ Move(c, "writing", "reading")
    /\ watch' = [watch EXCEPT ![c] = IF kind[c] = "events" THEN "on" ELSE @]
    /\ UNCHANGED <<gateVars, kind, proc, tries, listed, signal, killing, lines,
                   draining, leaked, unread>>

SpawnFails(c) ==
    /\ Move(c, "spawning", "over")
    /\ IF Gated(c) THEN GiveSlot(Class(c)) ELSE UNCHANGED gateVars
    /\ UNCHANGED <<kind, proc, tries, listed, signal, watch, killing, lines,
                   draining, leaked, unread>>

-----------------------------------------------------------------------------
(* The subprocess.                                                         *)

CloseOutput(c) ==
    /\ proc[c] = "running"
    /\ proc' = [proc EXCEPT ![c] = "closed"]
    /\ UNCHANGED <<gateVars, kind, pc, tries, listed, signal, watch, killing,
                   lines, draining, leaked, unread>>

Exit(c) ==
    /\ proc[c] = "closed"
    /\ proc' = [proc EXCEPT ![c] = "dead"]
    /\ UNCHANGED <<gateVars, kind, pc, tries, listed, signal, watch, killing,
                   lines, draining, leaked, unread>>

(* A rate_limit_event of the output that says rejected.                    *)
ReportLimit(c) ==
    /\ pc[c] = "reading" /\ Gated(c) /\ proc[c] = "running"
    /\ NoteRateLimit
    /\ UNCHANGED callVars

(* _drain_stdout: a line, or the sentinel at the end of the output.        *)
DrainLine(c) ==
    /\ c \in draining /\ proc[c] = "running" /\ pc[c] \in {"writing", "reading"}
    /\ lines[c] < MaxLines
    /\ lines' = [lines EXCEPT ![c] = @ + 1]
    /\ UNCHANGED <<gateVars, kind, pc, proc, tries, listed, signal, watch,
                   killing, draining, leaked, unread>>

DrainEnd(c) ==
    /\ c \in draining /\ proc[c] # "running" /\ pc[c] \in {"writing", "reading"}
    /\ lines[c] < MaxLines
    /\ lines' = [lines EXCEPT ![c] = @ + 1]
    /\ draining' = draining \ {c}
    /\ GiveSlot(Class(c))
    /\ UNCHANGED <<kind, pc, proc, tries, listed, signal, watch, killing, leaked, unread>>

(* The reader raises, on a line over the limit of 16 MiB: the finally puts *)
(* the sentinel and gives the slot back although the process runs on.      *)
DrainFails(c) ==
    /\ c \in draining /\ proc[c] = "running" /\ pc[c] \in {"writing", "reading"}
    /\ lines[c] < MaxLines
    /\ lines' = [lines EXCEPT ![c] = @ + 1]
    /\ draining' = draining \ {c}
    /\ GiveSlot(Class(c))
    /\ unread' = unread \cup {c}
    /\ UNCHANGED <<kind, pc, proc, tries, listed, signal, watch, killing, leaked>>

(* The generator takes a line; the consumer may be slow to ask for it.     *)
Consume(c) ==
    /\ pc[c] = "reading" /\ lines[c] > 0
    /\ c \in draining \/ lines[c] > 1
    /\ lines' = [lines EXCEPT ![c] = @ - 1]
    /\ UNCHANGED <<gateVars, kind, pc, proc, tries, listed, signal, watch,
                   killing, draining, leaked, unread>>

-----------------------------------------------------------------------------
(* The way out.                                                            *)

(* communicate() has returned: the process is over.  A transient failure   *)
(* is retried after a backoff, unless the call was cancelled.  A kill that *)
(* is under way finds nothing of the attempt any more.                     *)
Answer(c) ==
    /\ kind[c] \in Retrying /\ proc[c] = "dead"
    /\ \/ /\ Move(c, "reading", "over")
          /\ UNCHANGED tries
       \/ /\ Move(c, "reading", "backoff")
          /\ c \notin signal /\ tries[c] < MaxRetries
          /\ tries' = [tries EXCEPT ![c] = @ + 1]
    /\ GiveSlot(Class(c))
    /\ listed' = listed \ {c} /\ killing' = killing \ {c}
    /\ watch' = [watch EXCEPT ![c] = "off"]
    /\ UNCHANGED <<kind, proc, signal, lines, draining, leaked, unread>>

Retry(c) ==
    /\ Move(c, "backoff", "cooling")
    /\ UNCHANGED <<gateVars, kind, proc, tries, listed, signal, watch, killing,
                   lines, draining, leaked, unread>>

(* The other paths end at the end of the output, and then wait for the     *)
(* process without their watcher.                                          *)
EndOfOutput(c) ==
    /\ kind[c] \notin Retrying /\ Move(c, "reading", "waiting")
    /\ IF kind[c] = "stream"
       THEN c \notin draining /\ lines[c] = 1
       ELSE proc[c] # "running"
    /\ IF kind[c] = "events" THEN GiveSlot(Class(c)) ELSE UNCHANGED gateVars
    /\ lines' = [lines EXCEPT ![c] = 0]
    /\ listed' = listed \ {c}
    /\ watch' = [watch EXCEPT ![c] = "off"]
    /\ UNCHANGED <<kind, proc, tries, signal, killing, draining, leaked, unread>>

(* wait() returns.                                                         *)
Reaped(c) ==
    /\ proc[c] = "dead" /\ Move(c, "waiting", "over")
    /\ UNCHANGED <<gateVars, kind, proc, tries, listed, signal, watch, killing,
                   lines, draining, leaked, unread>>

(* The end of _reap_subprocess: the process is gone, after five seconds or *)
(* at a second cancellation by SIGKILL.                                    *)
ReapEnds(c) ==
    /\ Move(c, "reaping", "over")
    /\ proc' = [proc EXCEPT ![c] = "dead"]
    /\ IF kind[c] \in Retrying THEN GiveSlot(Class(c)) ELSE UNCHANGED gateVars
    /\ listed' = listed \ {c}
    /\ UNCHANGED <<kind, tries, signal, watch, killing, lines, draining, leaked, unread>>

-----------------------------------------------------------------------------
(* Cancellation.                                                           *)

(* The worker pool or the stall monitor sets the cancel_event, at any time.*)
Signal(c) ==
    /\ pc[c] \notin {"idle", "over"} /\ kind[c] \in Eventful
    /\ signal' = signal \cup {c}
    /\ UNCHANGED <<gateVars, kind, pc, proc, tries, listed, watch, killing,
                   lines, draining, leaked, unread>>

(* Mutant of WatchTerm: the watcher sends SIGTERM and is done.             *)
WatchTermOnly(c) ==
    /\ watch[c] = "on" /\ c \in signal
    /\ watch' = [watch EXCEPT ![c] = "off"]
    /\ UNCHANGED <<gateVars, kind, pc, proc, tries, listed, signal, killing,
                   lines, draining, leaked, unread>>

(* _watch_cancel polls the event, sends SIGTERM and, after two seconds and *)
(* if nobody has cancelled it, SIGKILL.  The process need not heed SIGTERM.*)
WatchTerm(c) ==
    /\ watch[c] = "on" /\ c \in signal
    /\ watch' = [watch EXCEPT ![c] = "termed"]
    /\ UNCHANGED <<gateVars, kind, pc, proc, tries, listed, signal, killing,
                   lines, draining, leaked, unread>>

WatchKill(c) ==
    /\ watch[c] = "termed"
    /\ watch' = [watch EXCEPT ![c] = "off"]
    /\ proc' = [proc EXCEPT ![c] = "dead"]
    /\ UNCHANGED <<gateVars, kind, pc, tries, listed, signal, killing, lines,
                   draining, leaked, unread>>

(* CliSessionRegistry.kill, from a route or as inactive: the event of the  *)
(* session, SIGTERM, and after two seconds SIGKILL.  Where the caller gave *)
(* no event the session has one that nobody reads.                         *)
Kill(c) ==
    /\ c \in listed \ killing
    /\ killing' = killing \cup {c}
    /\ signal' = IF kind[c] \in Eventful THEN signal \cup {c} ELSE signal
    /\ UNCHANGED <<gateVars, kind, pc, proc, tries, listed, watch, lines,
                   draining, leaked, unread>>

KillEnds(c) ==
    /\ c \in killing
    /\ killing' = killing \ {c}
    /\ proc' = [proc EXCEPT ![c] = "dead"]
    /\ listed' = listed \ {c}
    /\ UNCHANGED <<gateVars, kind, pc, tries, signal, watch, lines, draining,
                   leaked, unread>>

(* A CancelledError before there is a slot, between attempts, or while the *)
(* call waits for a process whose output has ended.                        *)
AbortOutside(c) ==
    /\ pc[c] \in {"cooling", "queued", "backoff", "waiting"}
    /\ pc' = [pc EXCEPT ![c] = "over"]
    /\ UNCHANGED <<gateVars, kind, proc, tries, listed, signal, watch, killing,
                   lines, draining, leaked, unread>>

(* A CancelledError in the spacing wait or the spawn: acquire, call and    *)
(* the events path catch BaseException or have a finally, stream catches   *)
(* Exception, which a CancelledError is not.                               *)
AbortEntering(c) ==
    /\ pc[c] \in {"spacing", "spawning"}
    /\ pc' = [pc EXCEPT ![c] = "over"]
    /\ IF kind[c] = "stream" /\ pc[c] = "spawning"
       THEN leaked' = leaked \cup {c} /\ UNCHANGED gateVars
       ELSE /\ UNCHANGED leaked
            /\ IF Gated(c) THEN GiveSlot(Class(c)) ELSE UNCHANGED gateVars
    /\ UNCHANGED <<kind, proc, tries, listed, signal, watch, killing, lines,
                   draining, unread>>

(* Mutant of AbortReading: nobody reaps.                                   *)
AbortReadingOnly(c) ==
    /\ kind[c] # "stream" /\ pc[c] \in {"writing", "reading"}
    /\ pc' = [pc EXCEPT ![c] = "over"]
    /\ IF Gated(c) THEN GiveSlot(Class(c)) ELSE UNCHANGED gateVars
    /\ listed' = listed \ {c}
    /\ watch' = [watch EXCEPT ![c] = "off"]
    /\ UNCHANGED <<kind, proc, tries, signal, killing, lines, draining, leaked, unread>>

(* An exception while the prompt is written or the output is read: a       *)
(* cancellation, a broken pipe, a line too long.  call() and the events    *)
(* path go on to the reaping; codex drops its watcher and leaves the       *)
(* process alone.                                                          *)
AbortReading(c) ==
    /\ kind[c] # "stream" /\ pc[c] \in {"writing", "reading"}
    /\ pc' = [pc EXCEPT ![c] = IF kind[c] = "codex" THEN "over" ELSE "reaping"]
    /\ IF kind[c] = "events" THEN GiveSlot(Class(c)) ELSE UNCHANGED gateVars
    /\ listed' = listed \ {c}
    /\ watch' = [watch EXCEPT ![c] = "off"]
    /\ UNCHANGED <<kind, proc, tries, signal, killing, lines, draining, leaked, unread>>

(* Mutant of AbortStream: it releases without _release_gate_once.          *)
AbortStreamTwice(c) ==
    /\ kind[c] = "stream" /\ pc[c] \in {"writing", "reading"}
    /\ pc' = [pc EXCEPT ![c] = "reaping"]
    /\ GiveSlot(Class(c))
    /\ draining' = draining \ {c}
    /\ UNCHANGED <<kind, proc, tries, listed, signal, watch, killing, lines, leaked,
                   unread>>

(* A stream is cancelled or its generator closed.  It cancels the drain    *)
(* task and awaits it.  If that is reading or putting a line it goes to    *)
(* its finally and waits there for room in the queue, where nobody takes   *)
(* lines any more; if it waits there already the wait is cancelled.        *)
AbortStream(c) ==
    /\ kind[c] = "stream" /\ pc[c] \in {"writing", "reading"}
    /\ \/ /\ c \in draining /\ lines[c] = MaxLines
          /\ pc' = [pc EXCEPT ![c] = "stuck"]
          /\ UNCHANGED <<gateVars, draining>>
       \/ /\ pc' = [pc EXCEPT ![c] = "reaping"]
          /\ IF c \in draining THEN GiveSlot(Class(c)) ELSE UNCHANGED gateVars
          /\ draining' = draining \ {c}
    /\ UNCHANGED <<kind, proc, tries, listed, signal, watch, killing, lines, leaked,
                   unread>>

(* A second cancellation reaches the drain task too and ends the wait.     *)
AbortStuck(c) ==
    /\ Move(c, "stuck", "reaping")
    /\ draining' = draining \ {c}
    /\ GiveSlot(Class(c))
    /\ UNCHANGED <<kind, proc, tries, listed, signal, watch, killing, lines, leaked, unread>>

-----------------------------------------------------------------------------
Enter(c) == PassCooldown(c) \/ Acquire(c) \/ PassSpacing(c)
Run(c) == CloseOutput(c) \/ ReportLimit(c) \/ DrainLine(c) \/ DrainFails(c) \/ Consume(c)
Leave(c) == DrainEnd(c) \/ Answer(c) \/ EndOfOutput(c) \/ Reaped(c) \/ ReapEnds(c)
Watch(c) == WatchTerm(c) \/ WatchKill(c) \/ KillEnds(c)
Abort(c) == AbortOutside(c) \/ AbortEntering(c) \/ AbortReading(c)
            \/ AbortStream(c) \/ AbortStuck(c)

Next ==
    \/ \E c \in Calls, k \in Kinds : Begin(c, k)
    \/ \E c \in Calls :
        \/ Enter(c) \/ Spawn(c) \/ SpawnFails(c) \/ WritePrompt(c)
        \/ Run(c) \/ Exit(c) \/ Leave(c) \/ Retry(c)
        \/ Signal(c) \/ Watch(c) \/ Kill(c) \/ Abort(c)
    \/ CooldownOver /\ UNCHANGED callVars

Spec == Init /\ [][Next]_vars

(* Timers fire, what is ready runs, and a process whose output is closed   *)
(* exits.  Nothing makes a running process end or read its stdin, nor      *)
(* anybody cancel it; writing to one that is dead comes to an end.         *)
Fairness ==
    /\ WF_vars(CooldownOver /\ UNCHANGED callVars)
    /\ \A c \in Calls :
        /\ WF_vars(proc[c] = "dead" /\ WritePrompt(c))
        /\ WF_vars(Exit(c)) /\ WF_vars(Leave(c)) /\ WF_vars(Consume(c))
        /\ WF_vars(WatchTerm(c)) /\ WF_vars(WatchKill(c)) /\ WF_vars(KillEnds(c))

FairSpec == Spec /\ Fairness

-----------------------------------------------------------------------------
(* Properties.                                                             *)

(* Each slot of the gate is free or held by one call that will give it     *)
(* back, whichever way the calls end: a release is neither forgotten nor   *)
(* done twice by the nested finally blocks and the drain task.  The known  *)
(* exception is a stream cancelled in create_subprocess_exec.              *)
SlotsAccounted ==
    \A k \in Classes :
        free[k] + Cardinality({c \in Calls : Class(c) = k /\ Holds(c)})
                + Cardinality({c \in leaked : Class(c) = k}) = Cap(k)

(* Of each class no more processes run, outside the reaping, than the gate *)
(* has slots (cli_rate_gate.py:33), but for streams that gave theirs back  *)
(* because their reader failed; the comment at cli_backend.py:971-975 has  *)
(* the slot freed "when the subprocess exits".                             *)
CapsButUnread ==
    \A k \in Classes :
        Cardinality({c \in Calls \ unread : /\ Class(c) = k /\ Gated(c)
                                   /\ proc[c] = "running" /\ pc[c] # "reaping"})
            <= Cap(k)

(* What the docstring of _reap_subprocess says (cli_backend.py:119-124),   *)
(* "no orphaned claude subprocess keeps running with nobody reading its    *)
(* output" after its call is over.  A codex process does when the call is  *)
(* cancelled by its task alone (the finally of _call_once reaps nothing).  *)
NoOrphan ==
    \A c \in Calls :
        (pc[c] = "over" /\ proc[c] = "running") => kind[c] = "codex"

(* The orphans as the code leaves them: a process of the Claude CLI runs   *)
(* on after its call only if it is a stream's, its reader failed, and the  *)
(* call was cancelled while it waited for the process without a reap.      *)
OrphansWereUnread ==
    \A c \in Calls :
        (pc[c] = "over" /\ proc[c] = "running") => kind[c] = "codex" \/ c \in unread

\* The watcher is up from the spawn for call() and codex, and for the events
\* paths once the prompt is written; before that nothing polls the cancel_event.
UnderWatch(c) == pc[c] = "reading" \/ (pc[c] = "writing" /\ kind[c] = "codex")

(* A cancel_event ends a call that is under its watcher (worker_pool.py:   *)
(* 215-218), although the process may ignore SIGTERM and the end of the    *)
(* output cancels the watcher.                                             *)
WatchedEnds ==
    \A c \in Calls : (c \in signal /\ UnderWatch(c)) ~> pc[c] = "over"
=============================================================================
