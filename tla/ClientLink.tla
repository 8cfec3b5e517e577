----------------------------- MODULE ClientLink -----------------------------
(***************************************************************************)
(* A browser tab and the server: chat messages up, worker events down.     *)
(*                                                                         *)
(* Up: the tab keeps a message until it is acknowledged and sends it again *)
(* after a reconnection; the server remembers the ids of the messages it   *)
(* has handled, in memory; a start-up id tells the tab that this memory is *)
(* gone.  Down: an event goes to the socket its pool holds, once more to   *)
(* the socket that replaced it, and else to a file, which the next         *)
(* session:sync delivers and removes.                                      *)
(*                                                                         *)
(* A connection that breaks is lost before either side notices.  Until the *)
(* server does, a send to it raises nothing and arrives nowhere.  Other    *)
(* devices appear through the error that a send to one of them raises (a   *)
(* WebSocketDisconnect, which ws_broadcast does not catch).  The order of  *)
(* a tab's messages is not modelled.                                       *)
(***************************************************************************)
EXTENDS Naturals, Sequences, SequencesExt

CONSTANTS
    Messages,   \* chat messages the user types, each once
    Events,     \* events the workers of the session send, each once
    MaxConns,   \* bound: connections
    MaxBoots    \* bound: server processes

Conns == 1..MaxConns
Boots == 1..MaxBoots
None == 0

ASSUME ClientLinkAssumption ==
    /\ MaxConns \in Nat \ {0} /\ MaxBoots \in Nat \ {0}
    /\ None \notin Messages \cup Events
Sync == <<"sync", None>>
Chat(m) == <<"chat", m>>

VARIABLES
    boot,       \* STARTUP_ID
    seen,       \* _processed_message_ids
    at,         \* where the handler of a connection is
    msg,        \* the message it handles
    list,       \* pending results it has read and not yet sent
    mark,       \* the pending result it has sent and not yet removed
    poolWs,     \* DeepWorkerPool._ws of the session's pool
    file,       \* the pending result files
    ev,         \* how far _send_task_event is with an event
    target,     \* the socket it took from the pool
    made,       \* how many connections there have been
    link,       \* open, lost (not noticed by the server), closed
    up, down,   \* the frames under way on a connection
    cur,        \* wsRef: the tab's connection
    sync,       \* the sync ack: waiting, overdue (timer fired), received
    lastBoot,   \* lastStartupIdRef
    pending,    \* pendingAcksRef
    timers,     \* pendingAckTimersRef
    offline,    \* the offline queue in localStorage
    typed,      \* the messages typed so far
    handled,    \* history: how often a message was handled with success,
                \* counted up to 2
    excused,    \* history: messages given up, see NotForgotten
    raised,     \* history: messages whose handling raised, until handled
    swallowed,  \* history: of these, those nobody had a copy of any more
    doubtful,   \* history: messages run by two handlers at once, or sent
                \* before a connection's sync ack
    handed      \* history: events given to a connection, without an error

handlerVars == <<seen, at, msg, list, mark>>
eventVars   == <<file, ev, target>>
netVars     == <<made, link, up, down>>
tabVars     == <<cur, sync, lastBoot, pending, timers, offline, typed>>
retryHistory == <<raised, swallowed>>
msgHistory  == <<handled, excused, doubtful, retryHistory>>
vars == <<boot, handlerVars, poolWs, eventVars, netVars, tabVars, msgHistory,
          handed>>

TypeOK ==
    /\ boot \in Boots /\ lastBoot \in Boots \cup {None}
    /\ at \in [Conns -> {"none", "idle", "entering", "running", "listing",
                         "delivering", "marking"}]
    /\ msg \in [Conns -> Messages \cup {None}]
    /\ list \in [Conns -> SUBSET Events]
    /\ mark \in [Conns -> Events \cup {None}]
    /\ \A c \in Conns :
        /\ list[c] # {} => at[c] \in {"delivering", "marking"}
        /\ mark[c] # None <=> at[c] = "marking"
    /\ poolWs \in Conns \cup {None} /\ cur \in Conns \cup {None}
    /\ file \subseteq Events
    /\ ev \in [Events -> {"new", "sending", "sent", "crashed"}]
    /\ target \in [Events -> Conns \cup {None}]
    /\ made \in 0..MaxConns
    /\ link \in [Conns -> {"none", "open", "lost", "closed"}]
    /\ up \in [Conns -> Seq({Sync} \cup {Chat(m) : m \in Messages})]
    /\ down \in [Conns -> Seq(({"ack"} \X Messages) \cup ({"boot"} \X Boots))]
    /\ sync \in {"waiting", "overdue", "received"}
    /\ \A S \in {seen, pending, timers, offline, typed, excused, doubtful,
                  raised, swallowed} : S \subseteq Messages
    /\ handled \in [Messages -> 0..2]
    /\ handed \subseteq Events

Init ==
    /\ boot = 1 /\ seen = {}
    /\ at = [c \in Conns |-> "none"] /\ msg = [c \in Conns |-> None]
    /\ list = [c \in Conns |-> {}] /\ mark = [c \in Conns |-> None]
    /\ poolWs = None /\ file = {}
    /\ ev = [e \in Events |-> "new"] /\ target = [e \in Events |-> None]
    /\ made = 0 /\ link = [c \in Conns |-> "none"]
    /\ up = [c \in Conns |-> <<>>] /\ down = [c \in Conns |-> <<>>]
    /\ cur = None /\ sync = "waiting" /\ lastBoot = None
    /\ pending = {} /\ timers = {} /\ offline = {} /\ typed = {}
    /\ handled = [m \in Messages |-> 0]
    /\ excused = {} /\ doubtful = {} /\ handed = {}
    /\ raised = {} /\ swallowed = {}

-----------------------------------------------------------------------------
(* Sending.                                                                *)

Raises(c) == link[c] = "closed"

(* websocket.send_json, where it does not raise.                           *)
Send(c, frame) ==
    down' = IF link[c] = "open" THEN [down EXCEPT ![c] = Append(@, frame)] ELSE down

(* ws.send in the tab: its readyState is OPEN, the connection may be lost. *)
Upload(ms) ==
    up' = IF link[cur] = "open"
          THEN [up EXCEPT ![cur] = @ \o SetToSeq({Chat(m) : m \in ms})] ELSE up

ChatsIn(s) == {m \in Messages : \E i \in DOMAIN s : s[i] = Chat(m)}
Underway(m) == \E c \in Conns : msg[c] = m \/ m \in ChatsIn(up[c])

(* What becomes of messages that are dropped: nobody has them any more     *)
(* unless the tab still keeps them.                                        *)
Drop(ms) == excused' = excused \cup (ms \ (pending \cup offline))

(* A message whose handling raised, when a step takes away its last copy.  *)
Swallow(m) ==
    LET copied == \/ m \in pending' \cup offline'
                  \/ \E d \in Conns : msg'[d] = m \/ m \in ChatsIn(up'[d])
    IN  swallowed' = IF m \in raised' /\ ~copied
                     THEN swallowed \cup {m} ELSE swallowed

-----------------------------------------------------------------------------
(* The server's handler of a connection.                                   *)

Goto(c, from, to) ==
    /\ at[c] = from
    /\ at' = [at EXCEPT ![c] = to]

(* chat:message: the acknowledgement, and _seen_message_id.  Where the     *)
(* first raises, the handler goes on with the next frame.                  *)
Receive(c, m) ==
    LET new == ~Raises(c) /\ m \notin seen
        busy(d) == at[d] \in {"entering", "running"} /\ msg[d] = m
    IN  /\ up[c] # <<>> /\ Head(up[c]) = Chat(m)
        /\ up' = [up EXCEPT ![c] = Tail(@)]
        /\ Goto(c, "idle", IF new THEN "entering" ELSE "idle")
        /\ msg' = [msg EXCEPT ![c] = IF new THEN m ELSE None]
        /\ doubtful' = IF new /\ \E d \in Conns : busy(d) THEN doubtful \cup {m} ELSE doubtful
        /\ IF Raises(c) THEN Drop({m}) /\ UNCHANGED down
                        ELSE Send(c, <<"ack", m>>) /\ UNCHANGED excused
        /\ UNCHANGED <<boot, seen, list, mark, poolWs, eventVars, made, link, tabVars,
                       handled, retryHistory, handed>>

(* handle_message refreshes the socket of the session's pool.              *)
Enter(c) ==
    /\ Goto(c, "entering", "running")
    /\ poolWs' = c
    /\ UNCHANGED <<boot, seen, msg, list, mark, eventVars, netVars, tabVars,
                   msgHistory, handed>>

(* Mutant of Handled: the id of the message is not recorded.               *)
HandledUnmarked(c) ==
    /\ Goto(c, "running", "idle")
    /\ handled' = [handled EXCEPT ![msg[c]] = IF @ = 2 THEN 2 ELSE @ + 1]
    /\ msg' = [msg EXCEPT ![c] = None]
    /\ UNCHANGED <<boot, seen, list, mark, poolWs, eventVars, netVars, tabVars,
                   excused, doubtful, retryHistory, handed>>

(* _mark_message_seen.                                                     *)
Handled(c) ==
    /\ Goto(c, "running", "idle")
    /\ seen' = seen \cup {msg[c]}
    /\ handled' = [handled EXCEPT ![msg[c]] = IF @ = 2 THEN 2 ELSE @ + 1]
    /\ raised' = raised \ {msg[c]}
    /\ msg' = [msg EXCEPT ![c] = None]
    /\ UNCHANGED <<boot, list, mark, poolWs, eventVars, netVars, tabVars, excused,
                   doubtful, swallowed, handed>>

(* The broadcast to another device, or handle_message, has raised: the id  *)
(* is not recorded, the message has been acknowledged.                     *)
NotHandled(c) ==
    /\ at[c] \in {"entering", "running"}
    /\ at' = [at EXCEPT ![c] = "idle"]
    /\ msg' = [msg EXCEPT ![c] = None]
    /\ raised' = IF handled[msg[c]] = 0 THEN raised \cup {msg[c]} ELSE raised
    /\ UNCHANGED <<boot, seen, list, mark, poolWs, eventVars, netVars, tabVars,
                   handled, excused, doubtful, handed>>
    /\ Swallow(msg[c])

(* session:sync: the pool, the reply, the files of all sessions.           *)
SessionSync(c) ==
    /\ up[c] # <<>> /\ Head(up[c]) = Sync
    /\ up' = [up EXCEPT ![c] = Tail(@)]
    /\ poolWs' = c
    /\ Goto(c, "idle", IF Raises(c) THEN "idle" ELSE "listing")
    /\ IF Raises(c) THEN UNCHANGED down ELSE Send(c, <<"boot", boot>>)
    /\ UNCHANGED <<boot, seen, msg, list, mark, eventVars, made, link, tabVars,
                   msgHistory, handed>>

ListAllPending(c) ==
    /\ Goto(c, "listing", IF file = {} THEN "idle" ELSE "delivering")
    /\ list' = [list EXCEPT ![c] = file]
    /\ UNCHANGED <<boot, seen, msg, mark, poolWs, eventVars, netVars, tabVars,
                   msgHistory, handed>>

(* Mutant of Deliver: after a failed send the handler goes on with what it *)
(* has read.                                                               *)
DeliverKeepsList(c, e) ==
    /\ e \in list[c]
    /\ Goto(c, "delivering", IF Raises(c) THEN "idle" ELSE "marking")
    /\ IF Raises(c)
       THEN UNCHANGED <<list, mark, handed>>
       ELSE /\ handed' = handed \cup {e}
            /\ mark' = [mark EXCEPT ![c] = e]
            /\ list' = [list EXCEPT ![c] = @ \ {e}]
    /\ UNCHANGED <<boot, seen, msg, poolWs, eventVars, netVars, tabVars, msgHistory>>

(* _deliver_all_pending: a failed send ends the delivery.                  *)
Deliver(c, e) ==
    /\ e \in list[c]
    /\ Goto(c, "delivering", IF Raises(c) THEN "idle" ELSE "marking")
    /\ IF Raises(c)
       THEN /\ list' = [list EXCEPT ![c] = {}]
            /\ UNCHANGED <<mark, handed>>
       ELSE /\ handed' = handed \cup {e}
            /\ mark' = [mark EXCEPT ![c] = e]
            /\ list' = [list EXCEPT ![c] = @ \ {e}]
    /\ UNCHANGED <<boot, seen, msg, poolWs, eventVars, netVars, tabVars, msgHistory>>

MarkDelivered(c) ==
    /\ Goto(c, "marking", IF list[c] = {} THEN "idle" ELSE "delivering")
    /\ file' = file \ {mark[c]}
    /\ mark' = [mark EXCEPT ![c] = None]
    /\ UNCHANGED <<boot, seen, msg, list, poolWs, ev, target, netVars, tabVars,
                   msgHistory, handed>>

-----------------------------------------------------------------------------
(* _send_task_event.                                                       *)

(* A pool without a socket broadcasts to whoever is there, and stores.     *)
TakeSocket(e) ==
    /\ ev[e] = "new"
    /\ target' = [target EXCEPT ![e] = poolWs]
    /\ ev' = [ev EXCEPT ![e] = IF poolWs = None THEN "sent" ELSE "sending"]
    /\ file' = IF poolWs = None THEN file \cup {e} ELSE file
    /\ UNCHANGED <<boot, handlerVars, poolWs, netVars, tabVars, msgHistory, handed>>

(* Mutant of RetryOrStore: a failed event is only sent again.              *)
RetryOnly(e) ==
    /\ handed' = IF poolWs \notin {None, target[e]} /\ ~Raises(poolWs)
                 THEN handed \cup {e} ELSE handed
    /\ UNCHANGED file

(* After an exception: the socket that replaced the first, else a file;    *)
(* also a file when the broadcast after the second send raises.            *)
RetryOrStore(e) ==
    IF poolWs \notin {None, target[e]} /\ ~Raises(poolWs)
    THEN handed' = handed \cup {e} /\ file' \in {file, file \cup {e}}
    ELSE file' = file \cup {e} /\ UNCHANGED handed

(* Both sends, the second to the other devices, one of which may raise.    *)
SendTaskEvent(e) ==
    /\ ev[e] = "sending"
    /\ ev' = [ev EXCEPT ![e] = "sent"]
    /\ target' = [target EXCEPT ![e] = None]
    /\ \/ Raises(target[e]) /\ RetryOrStore(e)
       \/ /\ ~Raises(target[e])
          /\ handed' = handed \cup {e}
          /\ file' \in {file, file \cup {e}}
    /\ UNCHANGED <<boot, handlerVars, poolWs, netVars, tabVars, msgHistory>>

-----------------------------------------------------------------------------
(* The tab.                                                                *)

(* Mutant of Flush: only the offline queue is flushed.                     *)
FlushOffline(p, o) == Upload(o)

(* postSyncFlush: what is not acknowledged, then the offline queue; a      *)
(* message that is in both is sent twice.                                  *)
Flush(p, o) ==
    up' = IF link[cur] = "open"
          THEN [up EXCEPT ![cur] = @ \o SetToSeq({Chat(m) : m \in p})
                                     \o SetToSeq({Chat(m) : m \in o})]
          ELSE up

(* onopen; ws:connected makes the ChatProvider send session:sync.          *)
Connect ==
    /\ cur = None /\ made < MaxConns
    /\ made' = made + 1 /\ cur' = made + 1
    /\ sync' = "waiting"
    /\ link' = [link EXCEPT ![made + 1] = "open"]
    /\ up' = [up EXCEPT ![made + 1] = <<Sync>>]
    /\ at' = [at EXCEPT ![made + 1] = "idle"]
    /\ UNCHANGED <<boot, seen, msg, list, mark, poolWs, eventVars, down, lastBoot,
                   pending, timers, offline, typed, msgHistory, handed>>

(* The user types a message; only once has it a timer.                     *)
TypeMessage(m) ==
    /\ m \notin typed /\ typed' = typed \cup {m}
    /\ pending' = pending \cup {m} /\ timers' = timers \cup {m}
    /\ IF cur = None
       THEN /\ offline' = offline \cup {m}
            /\ UNCHANGED <<up, doubtful>>
       ELSE /\ Upload({m})
            /\ doubtful' = IF sync = "received" THEN doubtful ELSE doubtful \cup {m}
            /\ UNCHANGED offline
    /\ UNCHANGED <<boot, handlerVars, poolWs, eventVars, made, link, down, cur,
                   sync, lastBoot, handled, excused, retryHistory, handed>>

(* Mutant of AckTimeout: without a connection the message is dropped.      *)
AckTimeoutDrops(m) ==
    /\ m \in timers /\ timers' = timers \ {m}
    /\ pending' = pending \ {m}
    /\ IF cur = None \/ m \notin pending
       THEN UNCHANGED <<up, doubtful, excused>>
       ELSE /\ Upload({m})
            /\ doubtful' = IF sync = "received" THEN doubtful ELSE doubtful \cup {m}
            /\ excused' = IF link[cur] = "open" THEN excused ELSE excused \cup {m}
    /\ UNCHANGED <<boot, handlerVars, poolWs, eventVars, made, link, down, cur,
                   sync, lastBoot, offline, typed, handled, retryHistory, handed>>

(* No acknowledgement for 15 s: the message is sent a last time, or queued.*)
AckTimeout(m) ==
    /\ m \in timers /\ timers' = timers \ {m}
    /\ pending' = pending \ {m}
    /\ IF cur = None
       THEN /\ offline' = offline \cup {m}
            /\ UNCHANGED <<up, doubtful, excused>>
       ELSE /\ Upload({m})
            /\ doubtful' = IF sync = "received" THEN doubtful ELSE doubtful \cup {m}
            /\ excused' = IF link[cur] = "open" \/ m \in offline
                          THEN excused ELSE excused \cup {m}
            /\ UNCHANGED offline
    /\ UNCHANGED <<boot, handlerVars, poolWs, eventVars, made, link, down, cur,
                   sync, lastBoot, typed, handled, retryHistory, handed>>

(* onmessage.                                                              *)
Incoming(kind) ==
    /\ cur # None /\ down[cur] # <<>> /\ Head(down[cur])[1] = kind
    /\ down' = [down EXCEPT ![cur] = Tail(@)]

ReadAck ==
    /\ Incoming("ack")
    /\ UNCHANGED <<boot, handlerVars, poolWs, eventVars, made, link, up, cur, sync,
                   lastBoot, offline, typed, handled, excused, doubtful, raised,
                   handed>>
    /\ LET m == Head(down[cur])[2]
       IN  pending' = pending \ {m} /\ timers' = timers \ {m} /\ Swallow(m)

(* A changed start-up id makes the tab drop what it has not got through.   *)
Kept(b, ms) == IF lastBoot \in {None, b} THEN ms ELSE {}

ReadSyncAck ==
    /\ Incoming("boot")
    /\ LET b == Head(down[cur])[2]
           gone == (pending \cup offline) \ Kept(b, pending \cup offline)
       IN  /\ lastBoot' = b
           /\ pending' = Kept(b, pending)
           /\ timers' = Kept(b, timers)
           /\ excused' = excused \cup gone
           /\ Flush(Kept(b, pending), Kept(b, offline))
    /\ offline' = {}
    /\ sync' = "received"
    /\ UNCHANGED <<boot, handlerVars, poolWs, eventVars, made, link, cur, typed,
                   handled, doubtful, retryHistory, handed>>

(* No sync ack for 3 s.                                                    *)
FlushAnyway ==
    /\ cur # None /\ sync = "waiting" /\ sync' = "overdue"
    /\ Flush(pending, offline)
    /\ offline' = {}
    /\ doubtful' = doubtful \cup pending \cup offline
    /\ excused' = IF link[cur] = "open" THEN excused ELSE excused \cup (offline \ pending)
    /\ UNCHANGED <<boot, handlerVars, poolWs, eventVars, made, link, down, cur,
                   lastBoot, pending, timers, typed, handled, retryHistory, handed>>

(* A queued message is dropped at 60 s.                                    *)
DropStale(m) ==
    /\ cur = None /\ m \in offline
    /\ offline' = offline \ {m}
    /\ excused' = IF m \in pending THEN excused ELSE excused \cup {m}
    /\ UNCHANGED <<boot, handlerVars, poolWs, eventVars, netVars, cur, sync,
                   lastBoot, pending, timers, typed, handled, doubtful,
                   retryHistory, handed>>

OnClose ==
    /\ cur # None /\ link[cur] # "open"
    /\ cur' = None
    /\ UNCHANGED <<boot, handlerVars, poolWs, eventVars, netVars, sync, lastBoot,
                   pending, timers, offline, typed, msgHistory, handed>>

-----------------------------------------------------------------------------
(* The network and the server process.                                     *)

(* A prefix of what is under way to the server still arrives.              *)
Break(c) ==
    /\ link[c] = "open"
    /\ link' = [link EXCEPT ![c] = "lost"]
    /\ \E n \in 0..Len(up[c]) :
        /\ up' = [up EXCEPT ![c] = SubSeq(@, 1, n)]
        /\ Drop(ChatsIn(SubSeq(up[c], n + 1, Len(up[c]))))
    /\ down' = [down EXCEPT ![c] = <<>>]
    /\ UNCHANGED <<boot, handlerVars, poolWs, eventVars, made, tabVars, handled,
                   doubtful, retryHistory, handed>>

ServerNotices(c) ==
    /\ link[c] = "lost"
    /\ link' = [link EXCEPT ![c] = "closed"]
    /\ UNCHANGED <<boot, handlerVars, poolWs, eventVars, made, up, down, tabVars,
                   msgHistory, handed>>

(* The process ends and another starts: files and the tab survive.         *)
Restart ==
    /\ boot < MaxBoots /\ boot' = boot + 1
    /\ seen' = {} /\ poolWs' = None
    /\ at' = [c \in Conns |-> "none"] /\ msg' = [c \in Conns |-> None]
    /\ list' = [c \in Conns |-> {}] /\ mark' = [c \in Conns |-> None]
    /\ ev' = [e \in Events |-> IF ev[e] = "sending" THEN "crashed"
                                ELSE ev[e]]
    /\ link' = [c \in Conns |-> IF c <= made THEN "closed" ELSE "none"]
    /\ up' = [c \in Conns |-> <<>>] /\ down' = [c \in Conns |-> <<>>]
    /\ Drop({m \in Messages : Underway(m)})
    /\ target' = [e \in Events |-> None]
    /\ UNCHANGED <<file, made, tabVars, handled, doubtful, retryHistory, handed>>

-----------------------------------------------------------------------------
Handler(c) ==
    \/ \E m \in Messages : Receive(c, m)
    \/ Enter(c) \/ Handled(c) \/ NotHandled(c)
    \/ SessionSync(c) \/ ListAllPending(c) \/ MarkDelivered(c)
    \/ \E e \in Events : Deliver(c, e)

Tab == Connect \/ ReadAck \/ ReadSyncAck \/ OnClose

Next ==
    \/ \E c \in Conns : Handler(c) \/ Break(c) \/ ServerNotices(c)
    \/ \E e \in Events : TakeSocket(e) \/ SendTaskEvent(e)
    \/ \E m \in Messages : TypeMessage(m) \/ AckTimeout(m) \/ DropStale(m)
    \/ Tab \/ FlushAnyway \/ Restart

Spec == Init /\ [][Next]_vars

(* What the two event loops run without anybody's doing, when it is ready: *)
(* the tab's sees the end of a connection and connects again.              *)
Run == Tab \/ \E c \in Conns : Handler(c)

-----------------------------------------------------------------------------
(* Properties.                                                             *)

(* However often a message is sent again, over reconnections and over a    *)
(* restart that forgets the ids, it is handled once (main.py:61,           *)
(* useWebSocket.ts:77).  Two exceptions: a handler of an earlier           *)
(* connection is still busy with it, or the tab sent it before the         *)
(* connection's sync ack, on one of its timers or when it was typed.       *)
RunOnce == \A m \in Messages \ doubtful : handled[m] <= 1

(* A broken connection loses no message: what was typed is kept by the     *)
(* tab, under way, or handled.  Given up are: messages whose handling was  *)
(* cut by a restart after the acknowledgement, or whose last sending, by   *)
(* the 15 s timer or from the queue, met a dying connection; those queued  *)
(* for 60 s; and all the tab has when the start-up id changed.  Swallowed  *)
(* are those whose handling raised, once their last copy is gone, usually  *)
(* with the acknowledgement, and not before: what the tab still has is     *)
(* sent again.                                                             *)
NotForgotten ==
    /\ \A m \in typed : \/ m \in pending \cup offline \cup excused \cup swallowed
                        \/ handled[m] > 0 \/ Underway(m)
    /\ \A m \in swallowed : m \notin pending \cup offline /\ ~Underway(m)

(* What the source says of a message whose handling raised: it is left     *)
(* unrecorded so that the client's offline-queue replay can retry it       *)
(* (main.py:80, 468).  The acknowledgement that made the client drop it    *)
(* was sent before.                                                        *)
RaisedIsRetried ==
    \A m \in raised : m \in pending \cup offline \cup excused \/ Underway(m)

(* An event that was sent was given to a connection without an error, or   *)
(* lies in a file, also when the pool's socket was replaced, or another    *)
(* device's socket failed, in between (worker_pool.py:893); what was given *)
(* to a connection arrives unless that was breaking.  Files are written    *)
(* without an error here and are younger than the day after which          *)
(* cleanup_stale removes them.                                             *)
EventKept == \A e \in Events : ev[e] = "sent" => e \in handed \cup file

(* No message waits for nothing: when neither the tab nor a handler has     *)
(* anything ready, what the user typed was handled, given up or swallowed  *)
(* as above, or there is no connection to come; while the tab still has    *)
(* it, the raising of its handling is not an answer.                       *)
Answered ==
    ~(ENABLED Run) =>
        \A m \in typed :
            \/ handled[m] > 0
            \/ m \in excused \cup swallowed
            \/ made = MaxConns /\ cur = None
=============================================================================
