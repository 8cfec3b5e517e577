-------------------------- MODULE ClientLinkProofs --------------------------
(***************************************************************************)
(* No event of a worker is dropped, no message of a user is forgotten, and *)
(* none runs twice, for every number of events, messages, connections and  *)
(* restarts.                                                               *)
(***************************************************************************)
EXTENDS ClientLink, FiniteSetTheorems, TLAPS

(* The part of the type invariant the proof needs.                         *)
EventTypes ==
    /\ at \in [Conns -> {"none", "idle", "entering", "running", "listing",
                         "delivering", "marking"}]
    /\ mark \in [Conns -> Events \cup {None}]
    /\ ev \in [Events -> {"new", "sending", "sent", "crashed"}]

(* A handler about to remove a file has given its event to a connection.   *)
MarkedHanded == \A c \in Conns : at[c] = "marking" => mark[c] \in handed

EventInv == EventTypes /\ MarkedHanded /\ EventKept

(* The actions that touch neither the events nor the marks.                *)
Elsewhere == UNCHANGED <<mark, file, ev, handed>>

(* Handlers that neither start nor end a removal keep the invariant.       *)
LEMMA ElsewherePreserves ==
    ASSUME EventInv, Elsewhere,
           at' \in [Conns -> {"none", "idle", "entering", "running", "listing",
                              "delivering", "marking"}],
           \A c \in Conns : at'[c] = "marking" => at[c] = "marking"
    PROVE  EventInv'
  BY DEF EventInv, EventTypes, MarkedHanded, EventKept, Elsewhere

(* A step of a handler from one place to another that is not "marking".    *)
LEMMA GotoPlaces ==
    ASSUME EventInv, NEW c \in Conns, NEW from, Elsewhere,
           NEW to \in {"idle", "entering", "running", "listing", "delivering"},
           Goto(c, from, to)
    PROVE  EventInv'
  <1>1. at' \in [Conns -> {"none", "idle", "entering", "running", "listing",
                           "delivering", "marking"}]
    BY DEF Goto, EventInv, EventTypes
  <1>2. \A d \in Conns : at'[d] = "marking" => at[d] = "marking"
    BY DEF Goto, EventInv, EventTypes
  <1> QED BY <1>1, <1>2, ElsewherePreserves

(* What a handler of a connection does keeps the invariant.                *)
LEMMA HandlerPreserves ==
    ASSUME EventInv, NEW c \in Conns, Handler(c)
    PROVE  EventInv'
  <1>1. ASSUME NEW m \in Messages, Receive(c, m) PROVE EventInv'
    <2> DEFINE new == ~Raises(c) /\ m \notin seen
    <2>1. Goto(c, "idle", IF new THEN "entering" ELSE "idle") /\ Elsewhere
      BY <1>1 DEF Receive, Elsewhere, eventVars
    <2> QED BY <2>1, GotoPlaces
  <1>2. CASE Enter(c)
    BY <1>2, GotoPlaces DEF Enter, Elsewhere, eventVars
  <1>3. CASE Handled(c)
    BY <1>3, GotoPlaces DEF Handled, Elsewhere, eventVars
  <1>4. CASE NotHandled(c)
    <2>1. Elsewhere BY <1>4 DEF NotHandled, Elsewhere, eventVars
    <2>2. Goto(c, at[c], "idle") BY <1>4 DEF NotHandled, Goto
    <2> QED BY <2>1, <2>2, GotoPlaces
  <1>5. CASE SessionSync(c)
    <2>1. /\ Goto(c, "idle", IF Raises(c) THEN "idle" ELSE "listing")
          /\ Elsewhere
      BY <1>5 DEF SessionSync, Elsewhere, eventVars
    <2> QED BY <2>1, GotoPlaces
  <1>6. CASE ListAllPending(c)
    <2>1. /\ Goto(c, "listing", IF file = {} THEN "idle" ELSE "delivering")
          /\ Elsewhere
      BY <1>6 DEF ListAllPending, Elsewhere, eventVars
    <2> QED BY <2>1, GotoPlaces
  <1>7. CASE MarkDelivered(c)
    <2>1. /\ at[c] = "marking" /\ file' = file \ {mark[c]}
          /\ at' = [at EXCEPT ![c] = IF list[c] = {} THEN "idle" ELSE "delivering"]
          /\ mark' = [mark EXCEPT ![c] = None]
          /\ ev' = ev /\ handed' = handed
      BY <1>7 DEF MarkDelivered, Goto
    <2>2. EventTypes' BY <2>1 DEF EventInv, EventTypes
    <2>3. MarkedHanded' BY <2>1 DEF EventInv, EventTypes, MarkedHanded
    <2>4. mark[c] \in handed BY <2>1 DEF EventInv, MarkedHanded
    <2>5. EventKept' BY <2>1, <2>4 DEF EventInv, EventKept
    <2> QED BY <2>2, <2>3, <2>5 DEF EventInv
  <1>8. ASSUME NEW e \in Events, Deliver(c, e) PROVE EventInv'
    <2>1. CASE Raises(c)
      <3>1. Goto(c, "delivering", "idle") /\ Elsewhere
        BY <1>8, <2>1 DEF Deliver, Elsewhere, eventVars
      <3> QED BY <3>1, GotoPlaces
    <2>2. CASE ~Raises(c)
      <3>1. /\ at' = [at EXCEPT ![c] = "marking"]
            /\ mark' = [mark EXCEPT ![c] = e] /\ handed' = handed \cup {e}
            /\ file' = file /\ ev' = ev
        BY <1>8, <2>2 DEF Deliver, Goto, eventVars
      <3>2. EventTypes' BY <3>1 DEF EventInv, EventTypes
      <3>3. MarkedHanded' BY <3>1 DEF EventInv, EventTypes, MarkedHanded
      <3>4. EventKept' BY <3>1 DEF EventInv, EventKept
      <3> QED BY <3>2, <3>3, <3>4 DEF EventInv
    <2> QED BY <2>1, <2>2
  <1> QED BY <1>1, <1>2, <1>3, <1>4, <1>5, <1>6, <1>7, <1>8 DEF Handler

(* _send_task_event keeps the invariant.                                   *)
LEMMA SendingPreserves ==
    ASSUME EventInv, NEW e \in Events, TakeSocket(e) \/ SendTaskEvent(e)
    PROVE  EventInv'
  <1>1. at' = at /\ mark' = mark /\ handed \subseteq handed'
    BY DEF TakeSocket, SendTaskEvent, RetryOrStore, handlerVars
  <1>2. /\ file \subseteq file'
        /\ \E to \in {"sending", "sent"} :
            /\ ev' = [ev EXCEPT ![e] = to]
            /\ to = "sent" => e \in handed' \cup file'
    BY DEF TakeSocket, SendTaskEvent, RetryOrStore
  <1>3. EventTypes' BY <1>1, <1>2 DEF EventInv, EventTypes
  <1>4. MarkedHanded' BY <1>1 DEF EventInv, MarkedHanded
  <1>5. EventKept' BY <1>1, <1>2 DEF EventInv, EventTypes, EventKept
  <1> QED BY <1>3, <1>4, <1>5 DEF EventInv

(* A restart ends the removals and keeps the files.                        *)
LEMMA RestartPreserves ==
    ASSUME EventInv, Restart
    PROVE  EventInv'
  <1>1. /\ at' = [c \in Conns |-> "none"] /\ mark' = [c \in Conns |-> None]
        /\ ev' = [e \in Events |-> IF ev[e] = "sending" THEN "crashed" ELSE ev[e]]
        /\ file' = file /\ handed' = handed
    BY DEF Restart
  <1>2. EventTypes' BY <1>1 DEF EventInv, EventTypes
  <1>3. MarkedHanded' BY <1>1 DEF MarkedHanded
  <1>4. EventKept' BY <1>1 DEF EventInv, EventKept
  <1> QED BY <1>2, <1>3, <1>4 DEF EventInv

(* Every step keeps the invariant.                                         *)
LEMMA EventInvInductive ==
    ASSUME EventInv, [Next]_vars
    PROVE  EventInv'
  <1>1. ASSUME NEW c \in Conns, Handler(c) PROVE EventInv'
    BY <1>1, HandlerPreserves
  <1>2. ASSUME NEW c \in Conns, Break(c) \/ ServerNotices(c) PROVE EventInv'
    <2>1. Elsewhere /\ at' = at
      BY <1>2 DEF Break, ServerNotices, Elsewhere, handlerVars, eventVars
    <2> QED BY <2>1, ElsewherePreserves DEF EventInv, EventTypes
  <1>3. ASSUME NEW e \in Events, TakeSocket(e) \/ SendTaskEvent(e) PROVE EventInv'
    BY <1>3, SendingPreserves
  <1>4. ASSUME NEW m \in Messages, TypeMessage(m) \/ AckTimeout(m) \/ DropStale(m)
        PROVE EventInv'
    <2>1. Elsewhere /\ at' = at
      BY <1>4 DEF TypeMessage, AckTimeout, DropStale, Elsewhere, handlerVars,
                  eventVars
    <2> QED BY <2>1, ElsewherePreserves DEF EventInv, EventTypes
  <1>5. CASE Connect
    <2>1. Elsewhere /\ at' = [at EXCEPT ![made + 1] = "idle"]
      BY <1>5 DEF Connect, Elsewhere, eventVars
    <2> QED BY <2>1, ElsewherePreserves DEF EventInv, EventTypes
  <1>6. CASE ReadAck \/ ReadSyncAck \/ OnClose \/ FlushAnyway
    <2>1. Elsewhere /\ at' = at
      BY <1>6 DEF ReadAck, ReadSyncAck, OnClose, FlushAnyway, Elsewhere,
                  handlerVars, eventVars
    <2> QED BY <2>1, ElsewherePreserves DEF EventInv, EventTypes
  <1>7. CASE Restart
    BY <1>7, RestartPreserves
  <1>8. CASE UNCHANGED vars
    <2>1. Elsewhere /\ at' = at
      BY <1>8 DEF vars, Elsewhere, handlerVars, eventVars
    <2> QED BY <2>1, ElsewherePreserves DEF EventInv, EventTypes
  <1> QED
    BY <1>1, <1>2, <1>3, <1>4, <1>5, <1>6, <1>7, <1>8 DEF Next, Tab

(* An event that was sent was given to a connection or lies in a file, for *)
(* any number of connections and restarts (worker_pool.py:893,             *)
(* main.py:254).                                                           *)
THEOREM EventKeptHolds == Spec => []EventKept
  <1>1. Init => EventInv
    BY DEF Init, EventInv, EventTypes, MarkedHanded, EventKept
  <1>2. EventInv /\ [Next]_vars => EventInv'
    BY EventInvInductive
  <1>3. EventInv => EventKept
    BY DEF EventInv
  <1> QED BY <1>1, <1>2, <1>3, PTL DEF Spec


-----------------------------------------------------------------------------
(* Types, connections and the tab.                                         *)

(* What has not been opened is empty; a handler is at work on a message or *)
(* not; what arrives at the tab comes over an open connection.             *)
LinkShape ==
    /\ cur <= made
    /\ \A c \in Conns :
        /\ c > made => up[c] = <<>> /\ at[c] = "none"
        /\ msg[c] # None <=> at[c] \in {"entering", "running"}
        /\ down[c] # <<>> => link[c] = "open"

(* Every message that waits for its acknowledgement has its timer.         *)
TabShape ==
    /\ timers = pending
    /\ pending \cup offline \subseteq typed /\ IsFiniteSet(typed)

TypeInv == TypeOK /\ LinkShape /\ TabShape

-----------------------------------------------------------------------------
(* Once.                                                                   *)

(* A start-up id on its way to the tab is that of the process that runs,   *)
(* and a tab that has it on an open connection knows that process.         *)
BootInv ==
    /\ lastBoot <= boot
    /\ \A c \in Conns : \A i \in DOMAIN down[c] :
            down[c][i][1] = "boot" => down[c][i][2] = boot
    /\ cur # None /\ link[cur] = "open" /\ sync = "received" => lastBoot = boot

(* What has not been typed is nowhere.                                     *)
Untyped == \A m \in Messages \ typed : handled[m] = 0 /\ ~Underway(m)

(* A message that is under way was sent to the process that runs by a tab  *)
(* that knew it.  One handler works on it, and then its id is in the       *)
(* memory of that process; where that memory is gone, the message is not   *)
(* under way, and a tab that still has it knows another process only.      *)
OnceInv ==
    \A m \in Messages \ doubtful :
        /\ handled[m] <= 1
        /\ Underway(m) => lastBoot = boot
        /\ \A c \in Conns : msg[c] = m =>
                /\ handled[m] = 0 /\ \A d \in Conns \ {c} : msg[d] # m
        /\ handled[m] = 1 => /\ lastBoot # None
                             /\ \/ m \in seen
                                \/ /\ ~Underway(m)
                                   /\ m \in pending \cup offline => lastBoot # boot

-----------------------------------------------------------------------------
(* Not forgotten.                                                          *)

(* An acknowledged message is with a handler, handled or given up, or its  *)
(* handling has raised.                                                    *)
AckInv ==
    /\ \A m \in seen : handled[m] > 0
    /\ \A c \in Conns : \A i \in DOMAIN down[c] : down[c][i][1] = "ack" =>
            LET m == down[c][i][2] IN
            \/ m \in excused \cup raised \/ handled[m] > 0
            \/ \E d \in Conns : msg[d] = m

-----------------------------------------------------------------------------
(* What is sent up is the messages of the set, each as a frame.            *)

LEMMA FramesOf ==
    ASSUME NEW ms, IsFiniteSet(ms)
    PROVE  LET s == SetToSeq({Chat(m) : m \in ms}) IN
           /\ s \in Seq({Chat(m) : m \in ms})
           /\ \A m \in ms : \E i \in DOMAIN s : s[i] = Chat(m)
  <1> DEFINE S == {Chat(m) : m \in ms}
             f == [m \in ms |-> Chat(m)]
  <1>1. IsFiniteSet(S)
    <2>1. f \in [ms -> S] OBVIOUS
    <2>2. \A x \in S : \E m \in ms : f[m] = x OBVIOUS
    <2>3. f \in Surjection(ms, S)
      BY <2>1, <2>2 DEF Surjection
    <2> HIDE DEF f, S
    <2> QED BY <2>3, FS_Surjection
  <1> DEFINE n == Cardinality(S)
  <1>2. n \in Nat /\ ExistsBijection(1..n, S)
    BY <1>1, FS_CardinalityType
  <1> HIDE DEF S, f
  <1>3. \E g : g \in [1..n -> S] /\ IsInjective(g)
    BY <1>2 DEF ExistsBijection, Bijection, Injection
  <1> DEFINE s == SetToSeq(S)
  <1>4. s \in [1..n -> S] /\ IsInjective(s)
    BY <1>3 DEF SetToSeq
  <1>5. s \in Injection(1..n, S)
    BY <1>4 DEF Injection
  <1>6. IsFiniteSet(1..n) /\ Cardinality(1..n) = n
    BY <1>2, FS_Interval
  <1>7. s \in Surjection(1..n, S)
    BY <1>1, <1>5, <1>6, FS_Injection
  <1>8. s \in Seq(S) BY <1>2, <1>4
  <1>9. DOMAIN s = 1..n BY <1>4
  <1>10. \A x \in S : \E i \in DOMAIN s : s[i] = x
    BY <1>7, <1>9 DEF Surjection
  <1>11. \A m \in ms : Chat(m) \in S BY DEF S
  <1> QED BY <1>8, <1>10, <1>11 DEF S


Frames == {Sync} \cup {Chat(m) : m \in Messages}
Replies == ({"ack"} \X Messages) \cup ({"boot"} \X Boots)

(* The messages in a sequence of frames.                                   *)
LEMMA ChatsInBoth ==
    ASSUME NEW s \in Seq(Frames), NEW t \in Seq(Frames)
    PROVE  ChatsIn(s \o t) = ChatsIn(s) \cup ChatsIn(t)
  <1>1. /\ s \o t \in Seq(Frames) /\ Len(s) \in Nat /\ Len(t) \in Nat
        /\ DOMAIN s = 1..Len(s) /\ DOMAIN t = 1..Len(t)
        /\ DOMAIN (s \o t) = 1..(Len(s) + Len(t))
        /\ \A i \in 1..(Len(s) + Len(t)) :
                (s \o t)[i] = IF i <= Len(s) THEN s[i] ELSE t[i - Len(s)]
    OBVIOUS
  <1>2. ASSUME NEW m \in ChatsIn(s \o t) PROVE m \in ChatsIn(s) \cup ChatsIn(t)
    <2>1. PICK i \in 1..(Len(s) + Len(t)) : (s \o t)[i] = Chat(m)
      BY <1>1, <1>2 DEF ChatsIn
    <2>2. CASE i <= Len(s) BY <1>1, <1>2, <2>1, <2>2 DEF ChatsIn
    <2>3. CASE ~(i <= Len(s))
      <3>1. i - Len(s) \in DOMAIN t /\ t[i - Len(s)] = Chat(m) BY <1>1, <2>1, <2>3
      <3> QED BY <1>2, <3>1 DEF ChatsIn
    <2> QED BY <2>2, <2>3
  <1>3. ASSUME NEW m \in ChatsIn(s) PROVE m \in ChatsIn(s \o t)
    <2>1. PICK i \in DOMAIN s : s[i] = Chat(m) BY <1>3 DEF ChatsIn
    <2>2. i \in DOMAIN (s \o t) /\ (s \o t)[i] = Chat(m) BY <1>1, <2>1
    <2> QED BY <1>3, <2>2 DEF ChatsIn
  <1>4. ASSUME NEW m \in ChatsIn(t) PROVE m \in ChatsIn(s \o t)
    <2>1. PICK i \in DOMAIN t : t[i] = Chat(m) BY <1>4 DEF ChatsIn
    <2>2. i + Len(s) \in DOMAIN (s \o t) /\ (s \o t)[i + Len(s)] = t[i]
      BY <1>1, <2>1
    <2> QED BY <1>4, <2>1, <2>2 DEF ChatsIn
  <1> QED BY <1>2, <1>3, <1>4

LEMMA ChatsInFrames ==
    ASSUME NEW ms \in SUBSET Messages, IsFiniteSet(ms)
    PROVE  /\ SetToSeq({Chat(m) : m \in ms}) \in Seq(Frames)
           /\ ChatsIn(SetToSeq({Chat(m) : m \in ms})) = ms
  <1> DEFINE s == SetToSeq({Chat(m) : m \in ms})
  <1>1. /\ s \in Seq({Chat(m) : m \in ms})
        /\ \A m \in ms : \E i \in DOMAIN s : s[i] = Chat(m)
    BY FramesOf
  <1> HIDE DEF s
  <1>2. {Chat(m) : m \in ms} \subseteq Frames BY DEF Frames
  <1>3. s \in Seq(Frames) BY <1>1, <1>2
  <1>4. \A i \in DOMAIN s : \E m \in ms : s[i] = Chat(m) BY <1>1
  <1>5. \A m \in Messages : \A k \in Messages : Chat(m) = Chat(k) => m = k
    BY DEF Chat
  <1>6. ChatsIn(s) = ms BY <1>1, <1>4, <1>5 DEF ChatsIn
  <1> QED BY <1>3, <1>6 DEF s

LEMMA ChatsInTail ==
    ASSUME NEW s \in Seq(Frames), s # <<>>
    PROVE  /\ Tail(s) \in Seq(Frames) /\ Head(s) \in Frames
           /\ ChatsIn(Tail(s)) \subseteq ChatsIn(s)
           /\ \A m \in ChatsIn(s) : m \in ChatsIn(Tail(s)) \/ Head(s) = Chat(m)
           /\ \A m \in Messages : Head(s) = Chat(m) => m \in ChatsIn(s)
  <1>1. /\ Tail(s) \in Seq(Frames) /\ Head(s) \in Frames /\ Head(s) = s[1]
        /\ DOMAIN s = 1..Len(s) /\ Len(s) \in Nat /\ Len(s) > 0
        /\ DOMAIN Tail(s) = 1..(Len(s) - 1)
        /\ \A i \in 1..(Len(s) - 1) : Tail(s)[i] = s[i + 1]
    OBVIOUS
  <1>2. ChatsIn(Tail(s)) \subseteq ChatsIn(s)
    <2> SUFFICES ASSUME NEW m \in Messages, NEW i \in DOMAIN Tail(s),
                        Tail(s)[i] = Chat(m)
                 PROVE  \E j \in DOMAIN s : s[j] = Chat(m)
      BY DEF ChatsIn
    <2>1. i + 1 \in DOMAIN s /\ s[i + 1] = Chat(m) BY <1>1
    <2> QED BY <2>1
  <1>3. ASSUME NEW m \in ChatsIn(s) PROVE m \in ChatsIn(Tail(s)) \/ Head(s) = Chat(m)
    <2>1. PICK i \in DOMAIN s : s[i] = Chat(m) BY <1>3 DEF ChatsIn
    <2>2. CASE i = 1 BY <1>1, <2>1, <2>2
    <2>3. CASE i # 1
      <3>1. i - 1 \in DOMAIN Tail(s) /\ Tail(s)[i - 1] = Chat(m) BY <1>1, <2>1, <2>3
      <3> QED BY <1>3, <3>1 DEF ChatsIn
    <2> QED BY <2>2, <2>3
  <1>4. \A m \in Messages : Head(s) = Chat(m) => m \in ChatsIn(s)
    BY <1>1 DEF ChatsIn
  <1> QED BY <1>1, <1>2, <1>3, <1>4

LEMMA ChatsInParts ==
    ASSUME NEW s \in Seq(Frames), NEW n \in 0..Len(s)
    PROVE  /\ SubSeq(s, 1, n) \in Seq(Frames)
           /\ ChatsIn(SubSeq(s, 1, n)) \subseteq ChatsIn(s)
           /\ ChatsIn(s) \subseteq ChatsIn(SubSeq(s, 1, n))
                                    \cup ChatsIn(SubSeq(s, n + 1, Len(s)))
           /\ ChatsIn(SubSeq(s, n + 1, Len(s))) \subseteq Messages
  <1> DEFINE a == SubSeq(s, 1, n)
             b == SubSeq(s, n + 1, Len(s))
  <1>1. /\ DOMAIN s = 1..Len(s) /\ Len(s) \in Nat /\ n \in Nat /\ n <= Len(s)
        /\ a \in Seq(Frames) /\ DOMAIN a = 1..n /\ \A i \in 1..n : a[i] = s[i]
    OBVIOUS
  <1>2. /\ DOMAIN b = 1..(Len(s) - n)
        /\ \A i \in 1..(Len(s) - n) : b[i] = s[n + i]
    <2>1. b \in Seq(Frames) /\ Len(b) = Len(s) - n BY <1>1
    <2>2. DOMAIN b = 1..(Len(s) - n) BY <2>1
    <2>3. ASSUME NEW i \in 1..(Len(s) - n) PROVE b[i] = s[n + i]
      BY <1>1, <2>3
    <2> QED BY <2>2, <2>3
  <1> HIDE DEF a, b
  <1>3. ChatsIn(a) \subseteq ChatsIn(s) BY <1>1 DEF ChatsIn
  <1>4. ASSUME NEW m \in ChatsIn(s) PROVE m \in ChatsIn(a) \cup ChatsIn(b)
    <2>1. PICK i \in DOMAIN s : s[i] = Chat(m) BY <1>4 DEF ChatsIn
    <2>2. CASE i <= n BY <1>1, <1>4, <2>1, <2>2 DEF ChatsIn
    <2>3. CASE ~(i <= n)
      <3>1. i - n \in 1..(Len(s) - n) /\ n + (i - n) = i BY <1>1, <2>1, <2>3
      <3>2. i - n \in DOMAIN b /\ b[i - n] = Chat(m) BY <1>2, <2>1, <3>1
      <3> QED BY <1>4, <3>2 DEF ChatsIn
    <2> QED BY <2>2, <2>3
  <1>5. ChatsIn(b) \subseteq Messages BY DEF ChatsIn
  <1> QED BY <1>1, <1>3, <1>4, <1>5 DEF a, b


(* What an upload adds to what is under way: all of it, where the          *)
(* connection has not broken, and nothing else.                            *)
Arrive(ms) ==
    /\ up' \in [Conns -> Seq(Frames)]
    /\ \A c \in Conns : c # cur => up'[c] = up[c]
    /\ \A c \in Conns :
        ChatsIn(up'[c]) = IF c = cur /\ link[cur] = "open"
                          THEN ChatsIn(up[c]) \cup ms ELSE ChatsIn(up[c])

LEMMA UploadArrives ==
    ASSUME TypeInv, cur # None, NEW ms \in SUBSET Messages, IsFiniteSet(ms),
           Upload(ms)
    PROVE  Arrive(ms)
  <1> DEFINE s == SetToSeq({Chat(m) : m \in ms})
  <1>1. s \in Seq(Frames) /\ ChatsIn(s) = ms BY ChatsInFrames
  <1>2. cur \in Conns /\ up \in [Conns -> Seq(Frames)]
    BY DEF TypeInv, TypeOK, Frames
  <1>3. up' = IF link[cur] = "open" THEN [up EXCEPT ![cur] = @ \o s] ELSE up
    BY DEF Upload
  <1> HIDE DEF s
  <1>4. /\ up[cur] \o s \in Seq(Frames)
        /\ ChatsIn(up[cur] \o s) = ChatsIn(up[cur]) \cup ms
    BY <1>1, <1>2, ChatsInBoth
  <1>5. CASE link[cur] = "open"
    <2>1. up' = [up EXCEPT ![cur] = up[cur] \o s] BY <1>3, <1>5
    <2>2. up'[cur] = up[cur] \o s /\ \A c \in Conns : c # cur => up'[c] = up[c]
      BY <1>2, <2>1
    <2>3. up' \in [Conns -> Seq(Frames)] BY <1>2, <1>4, <2>1
    <2> QED BY <1>4, <1>5, <2>2, <2>3 DEF Arrive
  <1>6. CASE link[cur] # "open"
    BY <1>2, <1>3, <1>6 DEF Arrive
  <1> QED BY <1>5, <1>6

LEMMA FlushArrives ==
    ASSUME TypeInv, cur # None, NEW p \in SUBSET Messages, IsFiniteSet(p),
           NEW o \in SUBSET Messages, IsFiniteSet(o), Flush(p, o)
    PROVE  Arrive(p \cup o)
  <1> DEFINE s == SetToSeq({Chat(m) : m \in p})
             t == SetToSeq({Chat(m) : m \in o})
  <1>1. /\ s \in Seq(Frames) /\ ChatsIn(s) = p
        /\ t \in Seq(Frames) /\ ChatsIn(t) = o
    BY ChatsInFrames
  <1>2. cur \in Conns /\ up \in [Conns -> Seq(Frames)]
    BY DEF TypeInv, TypeOK, Frames
  <1>3. up' = IF link[cur] = "open" THEN [up EXCEPT ![cur] = @ \o s \o t] ELSE up
    BY DEF Flush
  <1> HIDE DEF s, t
  <1>4. /\ up[cur] \o s \in Seq(Frames)
        /\ ChatsIn(up[cur] \o s) = ChatsIn(up[cur]) \cup p
    BY <1>1, <1>2, ChatsInBoth
  <1>5. /\ up[cur] \o s \o t \in Seq(Frames)
        /\ ChatsIn(up[cur] \o s \o t) = ChatsIn(up[cur]) \cup p \cup o
    <2> DEFINE a == up[cur] \o s
    <2>1. a \in Seq(Frames) /\ ChatsIn(a) = ChatsIn(up[cur]) \cup p BY <1>4
    <2> HIDE DEF a
    <2>2. a \o t \in Seq(Frames) BY <1>1, <2>1
    <2>3. ChatsIn(a \o t) = ChatsIn(up[cur]) \cup p \cup o
      BY <1>1, <2>1, ChatsInBoth
    <2> QED BY <2>2, <2>3 DEF a
  <1>6. CASE link[cur] = "open"
    <2>1. up' = [up EXCEPT ![cur] = up[cur] \o s \o t] BY <1>3, <1>6
    <2>2. up'[cur] = up[cur] \o s \o t /\ \A c \in Conns : c # cur => up'[c] = up[c]
      BY <1>2, <2>1
    <2>3. up' \in [Conns -> Seq(Frames)] BY <1>2, <1>5, <2>1
    <2> QED BY <1>5, <1>6, <2>2, <2>3 DEF Arrive
  <1>7. CASE link[cur] # "open"
    BY <1>2, <1>3, <1>7 DEF Arrive
  <1> QED BY <1>6, <1>7

-----------------------------------------------------------------------------
(* The type invariant in parts.                                            *)

HandlerTypes ==
    /\ boot \in Boots /\ seen \subseteq Messages
    /\ at \in [Conns -> {"none", "idle", "entering", "running", "listing",
                         "delivering", "marking"}]
    /\ msg \in [Conns -> Messages \cup {None}]
    /\ list \in [Conns -> SUBSET Events]
    /\ mark \in [Conns -> Events \cup {None}]
    /\ \A c \in Conns :
        /\ list[c] # {} => at[c] \in {"delivering", "marking"}
        /\ mark[c] # None <=> at[c] = "marking"
        /\ msg[c] # None <=> at[c] \in {"entering", "running"}
        /\ c > made => at[c] = "none"

StoreTypes ==
    /\ poolWs \in Conns \cup {None} /\ file \subseteq Events
    /\ ev \in [Events -> {"new", "sending", "sent", "crashed"}]
    /\ target \in [Events -> Conns \cup {None}]
    /\ handed \subseteq Events

NetTypes ==
    /\ made \in 0..MaxConns
    /\ link \in [Conns -> {"none", "open", "lost", "closed"}]
    /\ up \in [Conns -> Seq(Frames)] /\ down \in [Conns -> Seq(Replies)]
    /\ \A c \in Conns : /\ c > made => up[c] = <<>>
                        /\ down[c] # <<>> => link[c] = "open"

TabTypes ==
    /\ cur \in Conns \cup {None} /\ cur <= made
    /\ sync \in {"waiting", "overdue", "received"}
    /\ lastBoot \in Boots \cup {None}
    /\ pending \subseteq Messages /\ offline \subseteq Messages /\ typed \subseteq Messages
    /\ TabShape

HistoryTypes ==
    /\ handled \in [Messages -> 0..2]
    /\ excused \subseteq Messages /\ doubtful \subseteq Messages
    /\ raised \subseteq Messages /\ swallowed \subseteq Messages

LEMMA TypeParts ==
    TypeInv <=> HandlerTypes /\ StoreTypes /\ NetTypes /\ TabTypes /\ HistoryTypes
  BY DEF TypeInv, TypeOK, LinkShape, HandlerTypes, StoreTypes, NetTypes, TabTypes,
         TabShape, HistoryTypes, Frames, Replies

LEMMA TypeInit == Init => TypeInv
  <1> SUFFICES ASSUME Init PROVE TypeInv OBVIOUS
  <1>1. HandlerTypes
    BY ClientLinkAssumption DEF Init, HandlerTypes, Boots
  <1>2. StoreTypes BY DEF Init, StoreTypes
  <1>3. NetTypes BY ClientLinkAssumption DEF Init, NetTypes
  <1>4. TabTypes BY FS_EmptySet DEF Init, TabTypes, TabShape, None
  <1>5. HistoryTypes BY DEF Init, HistoryTypes
  <1> QED BY <1>1, <1>2, <1>3, <1>4, <1>5, TypeParts


-----------------------------------------------------------------------------
(* Every step keeps the types.                                             *)

LEMMA HandlerTypesKept ==
    ASSUME TypeInv, [Next]_vars
    PROVE  HandlerTypes'
  <1> USE TypeParts
  <1>1. ASSUME NEW c \in Conns, NEW m \in Messages, Receive(c, m) PROVE HandlerTypes'
    <2> DEFINE new == ~Raises(c) /\ m \notin seen
    <2>1. /\ at[c] = "idle" /\ at' = [at EXCEPT ![c] = IF new THEN "entering" ELSE "idle"]
          /\ msg' = [msg EXCEPT ![c] = IF new THEN m ELSE None]
          /\ UNCHANGED <<boot, seen, list, mark, made>>
      BY <1>1 DEF Receive, Goto
    <2>2. m # None BY ClientLinkAssumption
    <2> HIDE DEF new
    <2>3. CASE new BY <2>1, <2>2, <2>3 DEF HandlerTypes
    <2>4. CASE ~new BY <2>1, <2>4 DEF HandlerTypes
    <2> QED BY <2>3, <2>4
  <1>2. ASSUME NEW c \in Conns, Enter(c) PROVE HandlerTypes'
    BY <1>2 DEF Enter, Goto, HandlerTypes, netVars
  <1>3. ASSUME NEW c \in Conns, Handled(c) \/ NotHandled(c) PROVE HandlerTypes'
    <2>1. /\ at[c] \in {"entering", "running"} /\ at' = [at EXCEPT ![c] = "idle"]
          /\ msg' = [msg EXCEPT ![c] = None] /\ seen' \in {seen, seen \cup {msg[c]}}
          /\ UNCHANGED <<boot, list, mark, made>>
      BY <1>3 DEF Handled, NotHandled, Goto, netVars
    <2>2. msg[c] \in Messages BY <2>1 DEF HandlerTypes
    <2>3. seen' \subseteq Messages BY <2>1, <2>2 DEF HandlerTypes
    <2>4. \A d \in Conns : at'[d] = IF d = c THEN "idle" ELSE at[d]
      BY <2>1 DEF HandlerTypes
    <2>5. \A d \in Conns : msg'[d] = IF d = c THEN None ELSE msg[d]
      BY <2>1 DEF HandlerTypes
    <2>6. /\ at' \in [Conns -> {"none", "idle", "entering", "running", "listing",
                               "delivering", "marking"}]
          /\ msg' \in [Conns -> Messages \cup {None}]
      BY <2>1 DEF HandlerTypes
    <2>7. \A d \in Conns : /\ msg'[d] # None <=> at'[d] \in {"entering", "running"}
                           /\ list[d] # {} => at'[d] \in {"delivering", "marking"}
                           /\ mark[d] # None <=> at'[d] = "marking"
                           /\ d > made => at'[d] = "none"
      BY <2>1, <2>4, <2>5 DEF HandlerTypes
    <2> QED BY <2>1, <2>3, <2>6, <2>7 DEF HandlerTypes
  <1>4. ASSUME NEW c \in Conns, SessionSync(c) PROVE HandlerTypes'
    <2>1. /\ at[c] = "idle" /\ \E to \in {"idle", "listing"} : at' = [at EXCEPT ![c] = to]
          /\ UNCHANGED <<boot, seen, msg, list, mark, made>>
      BY <1>4 DEF SessionSync, Goto
    <2> QED BY <2>1 DEF HandlerTypes
  <1>5. ASSUME NEW c \in Conns, ListAllPending(c) PROVE HandlerTypes'
    <2>1. /\ at[c] = "listing"
          /\ at' = [at EXCEPT ![c] = IF file = {} THEN "idle" ELSE "delivering"]
          /\ list' = [list EXCEPT ![c] = file] /\ file \subseteq Events
          /\ UNCHANGED <<boot, seen, msg, mark, made>>
      BY <1>5 DEF ListAllPending, Goto, netVars, StoreTypes
    <2>2. CASE file = {} BY <2>1, <2>2 DEF HandlerTypes
    <2>3. CASE file # {} BY <2>1, <2>3 DEF HandlerTypes
    <2> QED BY <2>2, <2>3
  <1>6. ASSUME NEW c \in Conns, NEW e \in Events, Deliver(c, e) PROVE HandlerTypes'
    <2>1. /\ at[c] = "delivering" /\ UNCHANGED <<boot, seen, msg, made>>
          /\ at' = [at EXCEPT ![c] = IF Raises(c) THEN "idle" ELSE "marking"]
      BY <1>6 DEF Deliver, Goto, netVars
    <2>2. CASE Raises(c)
      <3>1. list' = [list EXCEPT ![c] = {}] /\ mark' = mark
        BY <1>6, <2>2 DEF Deliver
      <3> QED BY <2>1, <2>2, <3>1 DEF HandlerTypes
    <2>3. CASE ~Raises(c)
      <3>1. list' = [list EXCEPT ![c] = @ \ {e}] /\ mark' = [mark EXCEPT ![c] = e]
        BY <1>6, <2>3 DEF Deliver
      <3>2. e # None BY ClientLinkAssumption
      <3> QED BY <2>1, <2>3, <3>1, <3>2 DEF HandlerTypes
    <2> QED BY <2>2, <2>3
  <1>7. ASSUME NEW c \in Conns, MarkDelivered(c) PROVE HandlerTypes'
    <2>1. /\ at[c] = "marking"
          /\ at' = [at EXCEPT ![c] = IF list[c] = {} THEN "idle" ELSE "delivering"]
          /\ mark' = [mark EXCEPT ![c] = None]
          /\ UNCHANGED <<boot, seen, msg, list, made>>
      BY <1>7 DEF MarkDelivered, Goto, netVars
    <2>2. CASE list[c] = {} BY <2>1, <2>2 DEF HandlerTypes
    <2>3. CASE list[c] # {} BY <2>1, <2>3 DEF HandlerTypes
    <2> QED BY <2>2, <2>3
  <1>8. CASE Connect
    <2>1. /\ made' = made + 1 /\ at' = [at EXCEPT ![made + 1] = "idle"]
          /\ UNCHANGED <<boot, seen, msg, list, mark>>
          /\ made < MaxConns
      BY <1>8 DEF Connect
    <2>2. made \in Nat /\ made + 1 \in Conns
      <3>1. made \in 0..MaxConns BY DEF NetTypes
      <3>2. made \in Nat BY <3>1, ClientLinkAssumption
      <3> QED BY <2>1, <3>2, ClientLinkAssumption DEF Conns
    <2>3. at[made + 1] = "none" BY <2>2 DEF HandlerTypes
    <2>4. \A c \in Conns : c > made + 1 => c > made /\ c # made + 1
      BY <2>2 DEF Conns
    <2> QED BY <2>1, <2>2, <2>3, <2>4 DEF HandlerTypes
  <1>9. CASE Restart
    <2>1. boot' \in Boots
      BY <1>9, ClientLinkAssumption DEF Restart, HandlerTypes, Boots
    <2>2. /\ seen' = {} /\ at' = [c \in Conns |-> "none"]
          /\ msg' = [c \in Conns |-> None] /\ list' = [c \in Conns |-> {}]
          /\ mark' = [c \in Conns |-> None]
      BY <1>9 DEF Restart
    <2> QED BY <2>1, <2>2 DEF HandlerTypes
  <1>10. CASE UNCHANGED <<boot, seen, at, msg, list, mark, made>>
    BY <1>10 DEF HandlerTypes
  <1>11. ASSUME \/ \E c \in Conns : Break(c) \/ ServerNotices(c)
                \/ \E e \in Events : TakeSocket(e) \/ SendTaskEvent(e)
                \/ \E m \in Messages : TypeMessage(m) \/ AckTimeout(m) \/ DropStale(m)
                \/ ReadAck \/ ReadSyncAck \/ OnClose \/ FlushAnyway
                \/ UNCHANGED vars
         PROVE  UNCHANGED <<boot, seen, at, msg, list, mark, made>>
    BY <1>11 DEF Break, ServerNotices, TakeSocket, SendTaskEvent, TypeMessage,
                 AckTimeout, DropStale, ReadAck, ReadSyncAck, OnClose, FlushAnyway,
                 vars, handlerVars, netVars
  <1> QED
    BY <1>1, <1>2, <1>3, <1>4, <1>5, <1>6, <1>7, <1>8, <1>9, <1>10, <1>11
       DEF Next, Handler, Tab

LEMMA StoreTypesKept ==
    ASSUME TypeInv, [Next]_vars
    PROVE  StoreTypes'
  <1> USE TypeParts
  <1>1. ASSUME NEW c \in Conns, Enter(c) \/ SessionSync(c) PROVE StoreTypes'
    <2>1. poolWs' = c /\ UNCHANGED <<file, ev, target, handed>>
      BY <1>1 DEF Enter, SessionSync, eventVars
    <2> QED BY <2>1 DEF StoreTypes
  <1>2. ASSUME NEW c \in Conns, NEW e \in Events, Deliver(c, e) PROVE StoreTypes'
    <2>1. UNCHANGED <<poolWs, file, ev, target>> /\ handed' \in {handed, handed \cup {e}}
      BY <1>2 DEF Deliver, eventVars
    <2> QED BY <2>1 DEF StoreTypes
  <1>3. ASSUME NEW c \in Conns, MarkDelivered(c) PROVE StoreTypes'
    BY <1>3 DEF MarkDelivered, StoreTypes
  <1>4. ASSUME NEW e \in Events, TakeSocket(e) \/ SendTaskEvent(e) PROVE StoreTypes'
    <2>1. poolWs' = poolWs /\ file' \in {file, file \cup {e}}
          /\ handed' \in {handed, handed \cup {e}}
      BY <1>4 DEF TakeSocket, SendTaskEvent, RetryOrStore
    <2>2. /\ \E to \in {"sending", "sent"} : ev' = [ev EXCEPT ![e] = to]
          /\ \E g \in {poolWs, None} : target' = [target EXCEPT ![e] = g]
      BY <1>4 DEF TakeSocket, SendTaskEvent
    <2>3. /\ ev' \in [Events -> {"new", "sending", "sent", "crashed"}]
          /\ target' \in [Events -> Conns \cup {None}]
      BY <2>2 DEF StoreTypes
    <2> QED BY <2>1, <2>3 DEF StoreTypes
  <1>5. CASE Restart
    BY <1>5 DEF Restart, StoreTypes
  <1>6. CASE UNCHANGED <<poolWs, file, ev, target, handed>>
    BY <1>6 DEF StoreTypes
  <1>7. ASSUME \/ \E c \in Conns : \/ \E m \in Messages : Receive(c, m)
                                   \/ Handled(c) \/ NotHandled(c) \/ ListAllPending(c)
                                   \/ Break(c) \/ ServerNotices(c)
               \/ \E m \in Messages : TypeMessage(m) \/ AckTimeout(m) \/ DropStale(m)
               \/ Connect \/ ReadAck \/ ReadSyncAck \/ OnClose \/ FlushAnyway
               \/ UNCHANGED vars
        PROVE  UNCHANGED <<poolWs, file, ev, target, handed>>
    BY <1>7 DEF Receive, Handled, NotHandled, ListAllPending, Break, ServerNotices,
                TypeMessage, AckTimeout, DropStale, Connect, ReadAck, ReadSyncAck,
                OnClose, FlushAnyway, vars, eventVars
  <1> QED BY <1>1, <1>2, <1>3, <1>4, <1>5, <1>6, <1>7 DEF Next, Handler, Tab


LEMMA NetTypesKept ==
    ASSUME TypeInv, [Next]_vars
    PROVE  NetTypes'
  <1> USE TypeParts
  <1>0. /\ made \in Nat /\ up \in [Conns -> Seq(Frames)] /\ None \notin Conns
        /\ \A c \in Conns : up[c] # <<>> => Tail(up[c]) \in Seq(Frames)
    <2>1. made \in Nat BY ClientLinkAssumption DEF NetTypes
    <2>2. up \in [Conns -> Seq(Frames)] BY DEF NetTypes
    <2>3. \A c \in Conns : up[c] # <<>> => Tail(up[c]) \in Seq(Frames)
      BY <2>2, ChatsInTail
    <2> QED BY <2>1, <2>2, <2>3 DEF Conns, None
  <1>1. ASSUME NEW c \in Conns,
               (\E m \in Messages : Receive(c, m)) \/ SessionSync(c)
        PROVE  NetTypes'
    <2>1. /\ up[c] # <<>> /\ up' = [up EXCEPT ![c] = Tail(@)]
          /\ made' = made /\ link' = link
      BY <1>1 DEF Receive, SessionSync
    <2>2. up' \in [Conns -> Seq(Frames)] BY <1>0, <2>1
    <2>3. \A d \in Conns : d > made => up'[d] = <<>>
      BY <1>0, <2>1 DEF NetTypes
    <2>4. \E r \in Replies : down' \in {down, [down EXCEPT ![c] = Append(@, r)]}
                             /\ (down' = down \/ link[c] = "open")
      <3>1. <<"boot", boot>> \in Replies BY DEF Replies, HandlerTypes
      <3>2. \A m \in Messages : <<"ack", m>> \in Replies BY DEF Replies
      <3> QED BY <1>1, <3>1, <3>2 DEF Receive, SessionSync, Send
    <2>5. down' \in [Conns -> Seq(Replies)]
      <3>1. PICK r \in Replies : down' \in {down, [down EXCEPT ![c] = Append(@, r)]}
        BY <2>4
      <3>2. down \in [Conns -> Seq(Replies)] /\ Append(down[c], r) \in Seq(Replies)
        BY DEF NetTypes
      <3> QED BY <3>1, <3>2
    <2>6. \A d \in Conns : down'[d] # <<>> => link'[d] = "open"
      BY <2>1, <2>4 DEF NetTypes
    <2> QED BY <2>1, <2>2, <2>3, <2>5, <2>6 DEF NetTypes
  <1>2. CASE Connect
    <2>1. /\ made < MaxConns /\ made' = made + 1 /\ down' = down
          /\ link' = [link EXCEPT ![made + 1] = "open"]
          /\ up' = [up EXCEPT ![made + 1] = <<Sync>>]
      BY <1>2 DEF Connect
    <2>2. made + 1 \in Conns BY <1>0, <2>1, ClientLinkAssumption DEF Conns
    <2>3. <<Sync>> \in Seq(Frames) BY DEF Frames
    <2>4. up' \in [Conns -> Seq(Frames)] BY <1>0, <2>1, <2>3
    <2>5. \A c \in Conns : c > made + 1 => up'[c] = <<>>
      BY <1>0, <2>1, <2>2 DEF NetTypes, Conns
    <2>6. made' \in 0..MaxConns BY <1>0, <2>1, ClientLinkAssumption
    <2> QED BY <2>1, <2>4, <2>5, <2>6 DEF NetTypes
  <1>3. ASSUME NEW ms, Arrive(ms), cur # None, made' = made, link' = link,
               down' = down \/ (down[cur] # <<>> /\ down' = [down EXCEPT ![cur] = Tail(@)])
        PROVE  NetTypes'
    <2>1. cur \in Conns /\ cur \in Nat /\ cur <= made
      BY <1>3 DEF TabTypes, Conns
    <2>2. \A c \in Conns : c > made => up'[c] = <<>>
      BY <1>0, <1>3, <2>1 DEF Arrive, NetTypes
    <2>3. down[cur] # <<>> => Tail(down[cur]) \in Seq(Replies)
      BY <2>1 DEF NetTypes
    <2>4. down' \in [Conns -> Seq(Replies)] BY <1>3, <2>3 DEF NetTypes
    <2>5. \A c \in Conns : down'[c] # <<>> => link[c] = "open"
      BY <1>3, <2>1 DEF NetTypes
    <2> QED BY <1>3, <2>2, <2>4, <2>5 DEF NetTypes, Arrive
  <1>4. /\ IsFiniteSet(typed) /\ pending \subseteq typed /\ offline \subseteq typed
        /\ IsFiniteSet(pending) /\ IsFiniteSet(offline) /\ IsFiniteSet({})
        /\ pending \subseteq Messages /\ offline \subseteq Messages
        /\ \A m : IsFiniteSet({m})
    <2>1. /\ IsFiniteSet(typed) /\ pending \subseteq typed /\ offline \subseteq typed
          /\ pending \subseteq Messages /\ offline \subseteq Messages
      BY DEF TabTypes, TabShape
    <2> QED BY <2>1, FS_Subset, FS_EmptySet, FS_Singleton
  <1>5. ASSUME NEW m \in Messages, TypeMessage(m) \/ AckTimeout(m) PROVE NetTypes'
    <2>1. made' = made /\ link' = link /\ down' = down
      BY <1>5 DEF TypeMessage, AckTimeout
    <2>2. CASE cur = None
      <3>1. up' = up BY <1>5, <2>2 DEF TypeMessage, AckTimeout
      <3> QED BY <2>1, <3>1 DEF NetTypes
    <2>3. CASE cur # None
      <3>1. Upload({m}) BY <1>5, <2>3 DEF TypeMessage, AckTimeout
      <3>2. Arrive({m}) BY <1>4, <2>3, <3>1, UploadArrives
      <3> QED BY <1>3, <2>1, <2>3, <3>2
    <2> QED BY <2>2, <2>3
  <1>6. CASE ReadSyncAck
    <2>1. /\ cur # None /\ down[cur] # <<>> /\ down' = [down EXCEPT ![cur] = Tail(@)]
          /\ made' = made /\ link' = link
      BY <1>6 DEF ReadSyncAck, Incoming
    <2>2. \E p \in {pending, {}} : \E o \in {offline, {}} : Flush(p, o)
      BY <1>6 DEF ReadSyncAck, Kept
    <2>3. \E ms : Arrive(ms)
      BY <1>4, <2>1, <2>2, FlushArrives
    <2> QED BY <1>3, <2>1, <2>3
  <1>7. CASE FlushAnyway
    <2>1. /\ cur # None /\ made' = made /\ link' = link /\ down' = down
          /\ Flush(pending, offline)
      BY <1>7 DEF FlushAnyway
    <2>2. Arrive(pending \cup offline) BY <1>4, <2>1, FlushArrives
    <2> QED BY <1>3, <2>1, <2>2
  <1>8. CASE ReadAck
    <2>1. /\ cur # None /\ down[cur] # <<>> /\ down' = [down EXCEPT ![cur] = Tail(@)]
          /\ made' = made /\ link' = link /\ up' = up
      BY <1>8 DEF ReadAck, Incoming
    <2>2. Arrive({}) BY <1>0, <2>1 DEF Arrive
    <2> QED BY <1>3, <2>1, <2>2
  <1>9. ASSUME NEW c \in Conns, Break(c) PROVE NetTypes'
    <2>1. /\ made' = made /\ link' = [link EXCEPT ![c] = "lost"]
          /\ down' = [down EXCEPT ![c] = <<>>]
          /\ \E n \in 0..Len(up[c]) : up' = [up EXCEPT ![c] = SubSeq(@, 1, n)]
      BY <1>9 DEF Break
    <2>2. \A n \in 0..Len(up[c]) : SubSeq(up[c], 1, n) \in Seq(Frames)
      BY <1>0, ChatsInParts
    <2>3. up' \in [Conns -> Seq(Frames)] BY <1>0, <2>1, <2>2
    <2>4. \A d \in Conns : d > made => up'[d] = <<>>
      <3>1. up[c] = <<>> => \A n \in 0..Len(up[c]) : SubSeq(up[c], 1, n) = <<>>
        OBVIOUS
      <3> QED BY <1>0, <2>1, <3>1 DEF NetTypes
    <2>5. down' \in [Conns -> Seq(Replies)]
          /\ \A d \in Conns : down'[d] # <<>> => link'[d] = "open"
      BY <2>1 DEF NetTypes
    <2>6. link' \in [Conns -> {"none", "open", "lost", "closed"}]
      BY <2>1 DEF NetTypes
    <2> QED BY <2>1, <2>3, <2>4, <2>5, <2>6 DEF NetTypes
  <1>10. ASSUME NEW c \in Conns, ServerNotices(c) PROVE NetTypes'
    <2>1. /\ made' = made /\ link[c] = "lost" /\ link' = [link EXCEPT ![c] = "closed"]
          /\ down' = down /\ up' = up
      BY <1>10 DEF ServerNotices
    <2> QED BY <2>1 DEF NetTypes
  <1>11. CASE Restart
    <2>1. /\ made' = made /\ up' = [c \in Conns |-> <<>>] /\ down' = [c \in Conns |-> <<>>]
          /\ link' = [c \in Conns |-> IF c <= made THEN "closed" ELSE "none"]
      BY <1>11 DEF Restart
    <2> QED BY <2>1 DEF NetTypes
  <1>12. ASSUME \/ \E c \in Conns :
                    \/ Enter(c) \/ Handled(c) \/ NotHandled(c) \/ ListAllPending(c)
                    \/ MarkDelivered(c) \/ \E e \in Events : Deliver(c, e)
                \/ \E e \in Events : TakeSocket(e) \/ SendTaskEvent(e)
                \/ \E m \in Messages : DropStale(m)
                \/ OnClose \/ UNCHANGED vars
         PROVE  NetTypes'
    <2>1. UNCHANGED netVars
      BY <1>12 DEF Enter, Handled, NotHandled, ListAllPending, MarkDelivered, Deliver,
                   TakeSocket, SendTaskEvent, DropStale, OnClose, vars
    <2> QED BY <2>1 DEF netVars, NetTypes
  <1> QED
    BY <1>1, <1>2, <1>5, <1>6, <1>7, <1>8, <1>9, <1>10, <1>11, <1>12
       DEF Next, Handler, Tab


(* What the tab takes from the connection.                                 *)
LEMMA IncomingReply ==
    ASSUME TypeInv, NEW kind, Incoming(kind)
    PROVE  /\ cur \in Conns /\ cur # None /\ down[cur] # <<>> /\ link[cur] = "open"
           /\ Head(down[cur]) \in Replies /\ Head(down[cur])[1] = kind
           /\ Head(down[cur]) = down[cur][1] /\ 1 \in DOMAIN down[cur]
           /\ \A i \in DOMAIN Tail(down[cur]) :
                /\ i + 1 \in DOMAIN down[cur]
                /\ Tail(down[cur])[i] = down[cur][i + 1]
           /\ kind = "boot" => Head(down[cur])[2] \in Boots
           /\ kind = "ack" => Head(down[cur])[2] \in Messages
  <1>1. /\ cur # None /\ down[cur] # <<>> /\ Head(down[cur])[1] = kind
        /\ cur \in Conns /\ down[cur] \in Seq(Replies)
    BY TypeParts DEF Incoming, TabTypes, NetTypes
  <1>2. link[cur] = "open" BY <1>1, TypeParts DEF NetTypes
  <1>3. /\ Head(down[cur]) \in Replies
        /\ Head(down[cur]) = down[cur][1] /\ 1 \in DOMAIN down[cur]
        /\ \A i \in DOMAIN Tail(down[cur]) :
                /\ i + 1 \in DOMAIN down[cur]
                /\ Tail(down[cur])[i] = down[cur][i + 1]
    BY <1>1
  <1>4. /\ kind = "boot" => Head(down[cur])[2] \in Boots
        /\ kind = "ack" => Head(down[cur])[2] \in Messages
    BY <1>1, <1>3 DEF Replies
  <1> QED BY <1>1, <1>2, <1>3, <1>4

LEMMA TabTypesKept ==
    ASSUME TypeInv, [Next]_vars
    PROVE  TabTypes'
  <1> USE TypeParts
  <1>1. CASE Connect
    <2>1. /\ made < MaxConns /\ made' = made + 1 /\ cur' = made + 1 /\ sync' = "waiting"
          /\ UNCHANGED <<lastBoot, pending, timers, offline, typed>>
      BY <1>1 DEF Connect
    <2>2. made \in 0..MaxConns BY DEF NetTypes
    <2>3. cur' \in Conns /\ cur' <= made'
      BY <2>1, <2>2, ClientLinkAssumption DEF Conns
    <2> QED BY <2>1, <2>3 DEF TabTypes, TabShape
  <1>2. ASSUME NEW m \in Messages, TypeMessage(m) PROVE TabTypes'
    <2>1. /\ typed' = typed \cup {m} /\ pending' = pending \cup {m}
          /\ timers' = timers \cup {m} /\ offline' \in {offline, offline \cup {m}}
          /\ UNCHANGED <<made, cur, sync, lastBoot>>
      BY <1>2 DEF TypeMessage
    <2>2. IsFiniteSet(typed') BY <2>1, FS_AddElement DEF TabTypes, TabShape
    <2> QED BY <2>1, <2>2 DEF TabTypes, TabShape
  <1>3. ASSUME NEW m \in Messages, AckTimeout(m) PROVE TabTypes'
    <2>1. /\ m \in timers /\ timers' = timers \ {m} /\ pending' = pending \ {m}
          /\ offline' \in {offline, offline \cup {m}}
          /\ UNCHANGED <<made, cur, sync, lastBoot, typed>>
      BY <1>3 DEF AckTimeout
    <2> QED BY <2>1 DEF TabTypes, TabShape
  <1>4. ASSUME NEW m \in Messages, DropStale(m) PROVE TabTypes'
    <2>1. /\ offline' = offline \ {m}
          /\ UNCHANGED <<made, cur, sync, lastBoot, typed, pending, timers>>
      BY <1>4 DEF DropStale, netVars
    <2> QED BY <2>1 DEF TabTypes, TabShape
  <1>5. CASE ReadAck
    <2>1. /\ \E m : pending' = pending \ {m} /\ timers' = timers \ {m}
          /\ UNCHANGED <<made, cur, sync, lastBoot, typed, offline>>
      BY <1>5 DEF ReadAck
    <2> QED BY <2>1 DEF TabTypes, TabShape
  <1>6. CASE ReadSyncAck
    <2>1. Incoming("boot") BY <1>6 DEF ReadSyncAck
    <2>2. lastBoot' \in Boots BY <1>6, <2>1, IncomingReply DEF ReadSyncAck
    <2>3. /\ \/ pending' = pending /\ timers' = timers
             \/ pending' = {} /\ timers' = {}
          /\ offline' = {} /\ sync' = "received"
          /\ UNCHANGED <<made, cur, typed>>
      BY <1>6 DEF ReadSyncAck, Kept
    <2> QED BY <2>2, <2>3 DEF TabTypes, TabShape
  <1>7. CASE FlushAnyway
    <2>1. /\ offline' = {} /\ sync' = "overdue"
          /\ UNCHANGED <<made, cur, typed, lastBoot, pending, timers>>
      BY <1>7 DEF FlushAnyway
    <2> QED BY <2>1 DEF TabTypes, TabShape
  <1>8. CASE OnClose
    <2>1. /\ cur' = None
          /\ UNCHANGED <<made, sync, typed, lastBoot, pending, timers, offline>>
      BY <1>8 DEF OnClose, netVars
    <2>2. None <= made BY ClientLinkAssumption DEF None, NetTypes
    <2> QED BY <2>1, <2>2 DEF TabTypes, TabShape
  <1>9. CASE UNCHANGED <<tabVars, made>>
    BY <1>9 DEF tabVars, TabTypes, TabShape
  <1>10. ASSUME \/ \E c \in Conns : Handler(c) \/ Break(c) \/ ServerNotices(c)
                \/ \E e \in Events : TakeSocket(e) \/ SendTaskEvent(e)
                \/ Restart \/ UNCHANGED vars
         PROVE  UNCHANGED <<tabVars, made>>
    BY <1>10 DEF Handler, Receive, Enter, Handled, NotHandled, SessionSync,
                 ListAllPending, Deliver, MarkDelivered, Break, ServerNotices,
                 TakeSocket, SendTaskEvent, Restart, vars, netVars
  <1> QED
    BY <1>1, <1>2, <1>3, <1>4, <1>5, <1>6, <1>7, <1>8, <1>9, <1>10 DEF Next, Tab

LEMMA HistoryTypesKept ==
    ASSUME TypeInv, [Next]_vars
    PROVE  HistoryTypes'
  <1> USE TypeParts
  <1>0. /\ handled \in [Messages -> 0..2] /\ excused \subseteq Messages
        /\ doubtful \subseteq Messages /\ pending \subseteq Messages
        /\ offline \subseteq Messages
        /\ raised \subseteq Messages /\ swallowed \subseteq Messages
    BY DEF HistoryTypes, TabTypes
  <1>1. ASSUME NEW c \in Conns, Handled(c) PROVE HistoryTypes'
    <2>1. at[c] = "running" /\ UNCHANGED <<excused, doubtful, swallowed>>
          /\ raised' \subseteq raised
          /\ handled' = [handled EXCEPT ![msg[c]] = IF @ = 2 THEN 2 ELSE @ + 1]
      BY <1>1 DEF Handled, Goto
    <2>2. msg[c] \in Messages BY <2>1 DEF HandlerTypes
    <2>3. handled' \in [Messages -> 0..2] BY <1>0, <2>1, <2>2
    <2> QED BY <1>0, <2>1, <2>3 DEF HistoryTypes
  <1>2. ASSUME NEW c \in Conns, NotHandled(c) PROVE HistoryTypes'
    <2>1. msg[c] \in Messages BY <1>2 DEF NotHandled, HandlerTypes
    <2>2. /\ UNCHANGED <<handled, excused, doubtful>>
          /\ raised' \subseteq raised \cup {msg[c]}
          /\ swallowed' \subseteq swallowed \cup {msg[c]}
      BY <1>2 DEF NotHandled, Swallow
    <2> QED BY <1>0, <2>1, <2>2 DEF HistoryTypes
  <1>3. ASSUME NEW c \in Conns, NEW m \in Messages, Receive(c, m) PROVE HistoryTypes'
    <2>1. /\ handled' = handled /\ doubtful' \in {doubtful, doubtful \cup {m}}
          /\ excused' = excused \/ Drop({m})
          /\ UNCHANGED retryHistory
      BY <1>3 DEF Receive
    <2> QED BY <1>0, <2>1 DEF Drop, HistoryTypes, retryHistory
  <1>4. ASSUME NEW m \in Messages, TypeMessage(m) \/ AckTimeout(m) \/ DropStale(m)
        PROVE HistoryTypes'
    <2>1. /\ handled' = handled /\ doubtful' \in {doubtful, doubtful \cup {m}}
          /\ excused' \in {excused, excused \cup {m}} /\ UNCHANGED retryHistory
      BY <1>4 DEF TypeMessage, AckTimeout, DropStale
    <2> QED BY <1>0, <2>1 DEF HistoryTypes, retryHistory
  <1>5. CASE ReadSyncAck
    <2>1. /\ UNCHANGED <<handled, doubtful, retryHistory>>
          /\ excused' \subseteq excused \cup pending \cup offline
      BY <1>5 DEF ReadSyncAck
    <2> QED BY <1>0, <2>1 DEF HistoryTypes, retryHistory
  <1>6. CASE FlushAnyway
    BY <1>0, <1>6 DEF FlushAnyway, HistoryTypes, retryHistory
  <1>7. ASSUME NEW c \in Conns, Break(c) PROVE HistoryTypes'
    <2>1. /\ UNCHANGED <<handled, doubtful, retryHistory>>
          /\ \E s : excused' = excused \cup (ChatsIn(s) \ (pending \cup offline))
      BY <1>7 DEF Break, Drop
    <2> QED BY <1>0, <2>1 DEF HistoryTypes, ChatsIn, retryHistory
  <1>8. CASE Restart
    BY <1>0, <1>8 DEF Restart, Drop, HistoryTypes, retryHistory
  <1>9. CASE UNCHANGED msgHistory
    BY <1>0, <1>9 DEF msgHistory, HistoryTypes, retryHistory
  <1>10. ASSUME \/ \E c \in Conns :
                    \/ Enter(c) \/ SessionSync(c) \/ ListAllPending(c)
                    \/ MarkDelivered(c) \/ \E e \in Events : Deliver(c, e)
                    \/ ServerNotices(c)
                \/ \E e \in Events : TakeSocket(e) \/ SendTaskEvent(e)
                \/ Connect \/ OnClose \/ UNCHANGED vars
         PROVE  UNCHANGED msgHistory
    BY <1>10 DEF Enter, SessionSync, ListAllPending, MarkDelivered, Deliver,
                 ServerNotices, TakeSocket, SendTaskEvent, Connect, OnClose, vars
  <1>11. CASE ReadAck
    <2>1. UNCHANGED <<handled, excused, doubtful, raised>> /\ swallowed' \subseteq swallowed \cup raised
      BY <1>11 DEF ReadAck, Swallow
    <2> QED BY <1>0, <2>1 DEF HistoryTypes
  <1> QED
    BY <1>1, <1>2, <1>3, <1>4, <1>5, <1>6, <1>7, <1>8, <1>9, <1>10, <1>11
       DEF Next, Handler, Tab

LEMMA TypeInvInductive ==
    ASSUME TypeInv, [Next]_vars
    PROVE  TypeInv'
  <1>1. HandlerTypes' /\ StoreTypes' /\ NetTypes' /\ TabTypes' /\ HistoryTypes'
    BY HandlerTypesKept, StoreTypesKept, NetTypesKept, TabTypesKept, HistoryTypesKept
  <1>2. TypeOK'
    BY <1>1 DEF TypeOK, HandlerTypes, StoreTypes, NetTypes, TabTypes, TabShape,
                HistoryTypes, Frames, Replies
  <1>3. LinkShape' /\ TabShape'
    BY <1>1 DEF LinkShape, HandlerTypes, NetTypes, TabTypes, TabShape
  <1> QED BY <1>2, <1>3 DEF TypeInv

(* A handler reads pending results only while it delivers them and holds   *)
(* one only while it removes it, whatever breaks or restarts               *)
(* (main.py:254).                                                          *)
THEOREM TypeCorrect == Spec => []TypeOK
  <1>1. Init => TypeInv BY TypeInit
  <1>2. TypeInv /\ [Next]_vars => TypeInv' BY TypeInvInductive
  <1>3. TypeInv => TypeOK BY DEF TypeInv
  <1> QED BY <1>1, <1>2, <1>3, PTL DEF Spec


-----------------------------------------------------------------------------
(* What is under way, under each step.                                     *)

(* The steps that neither send nor receive a message.                      *)
NoTraffic == UNCHANGED <<msg, up>>

LEMMA UnderwayStays ==
    ASSUME NEW m \in Messages, NoTraffic
    PROVE  Underway(m)' <=> Underway(m)
  BY DEF NoTraffic, Underway, ChatsIn

LEMMA UnderwayAtReceive ==
    ASSUME TypeInv, NEW c \in Conns, NEW m \in Messages, Receive(c, m)
    PROVE  /\ Underway(m) /\ msg[c] = None
           /\ \A d \in Conns \ {c} : msg'[d] = msg[d]
           /\ msg'[c] = IF ~Raises(c) /\ m \notin seen THEN m ELSE None
           /\ \A k \in Messages : Underway(k)' => Underway(k)
           /\ \A k \in Messages \ {m} : Underway(k) => Underway(k)'
  <1>1. /\ up[c] # <<>> /\ Head(up[c]) = Chat(m) /\ up' = [up EXCEPT ![c] = Tail(@)]
        /\ msg' = [msg EXCEPT ![c] = IF ~Raises(c) /\ m \notin seen THEN m ELSE None]
        /\ at[c] = "idle"
    BY DEF Receive, Goto
  <1>2. /\ up \in [Conns -> Seq(Frames)] /\ msg \in [Conns -> Messages \cup {None}]
        /\ msg[c] = None
    BY <1>1, TypeParts DEF NetTypes, HandlerTypes
  <1>3. /\ ChatsIn(up'[c]) \subseteq ChatsIn(up[c]) /\ m \in ChatsIn(up[c])
        /\ \A k \in ChatsIn(up[c]) : k \in ChatsIn(up'[c]) \/ Chat(m) = Chat(k)
    BY <1>1, <1>2, ChatsInTail
  <1>4. \A k \in ChatsIn(up[c]) : k \in ChatsIn(up'[c]) \/ k = m
    BY <1>3 DEF Chat
  <1>5. /\ \A d \in Conns \ {c} : msg'[d] = msg[d] /\ up'[d] = up[d]
        /\ msg'[c] = IF ~Raises(c) /\ m \notin seen THEN m ELSE None
    BY <1>1, <1>2
  <1>6. Underway(m) BY <1>3 DEF Underway
  <1>7. ASSUME NEW k \in Messages, Underway(k)' PROVE Underway(k)
    <2>1. PICK d \in Conns : msg'[d] = k \/ k \in ChatsIn(up'[d])
      BY <1>7 DEF Underway, ChatsIn
    <2>2. CASE d # c BY <1>5, <2>1, <2>2 DEF Underway
    <2>3. CASE d = c
      <3>1. k # None BY ClientLinkAssumption
      <3>2. k = m \/ k \in ChatsIn(up[c]) BY <1>3, <1>5, <2>1, <2>3, <3>1
      <3> QED BY <1>6, <3>2 DEF Underway
    <2> QED BY <2>2, <2>3
  <1>8. ASSUME NEW k \in Messages \ {m}, Underway(k) PROVE Underway(k)'
    <2>1. PICK d \in Conns : msg[d] = k \/ k \in ChatsIn(up[d])
      BY <1>8 DEF Underway
    <2>2. k # None BY ClientLinkAssumption
    <2>3. msg'[d] = k \/ k \in ChatsIn(up'[d])
      BY <1>2, <1>4, <1>5, <2>1, <2>2
    <2> QED BY <2>3 DEF Underway, ChatsIn
  <1> QED BY <1>2, <1>5, <1>6, <1>7, <1>8

LEMMA UnderwayAtEnd ==
    ASSUME TypeInv, NEW c \in Conns, Handled(c) \/ NotHandled(c)
    PROVE  /\ msg[c] \in Messages /\ Underway(msg[c]) /\ msg'[c] = None
           /\ \A d \in Conns \ {c} : msg'[d] = msg[d]
           /\ \A k \in Messages : Underway(k)' => Underway(k)
           /\ \A k \in Messages \ {msg[c]} : Underway(k) => Underway(k)'
  <1>1. /\ at[c] \in {"entering", "running"} /\ up' = up
        /\ msg' = [msg EXCEPT ![c] = None]
    BY DEF Handled, NotHandled, Goto, netVars
  <1>2. msg[c] \in Messages /\ msg \in [Conns -> Messages \cup {None}]
    BY <1>1, TypeParts DEF HandlerTypes
  <1>3. \A k \in Messages : k # None BY ClientLinkAssumption
  <1>4. msg'[c] = None /\ \A d \in Conns \ {c} : msg'[d] = msg[d]
    BY <1>1, <1>2
  <1> QED BY <1>1, <1>2, <1>3, <1>4 DEF Underway, ChatsIn

LEMMA UnderwayAtSync ==
    ASSUME TypeInv, NEW c \in Conns, SessionSync(c)
    PROVE  \A k \in Messages : Underway(k)' <=> Underway(k)
  <1>1. /\ up[c] # <<>> /\ Head(up[c]) = Sync /\ up' = [up EXCEPT ![c] = Tail(@)]
        /\ msg' = msg
    BY DEF SessionSync
  <1>2. up \in [Conns -> Seq(Frames)] BY TypeParts DEF NetTypes
  <1>3. \A k \in Messages : Sync # Chat(k) BY DEF Sync, Chat
  <1>4. ChatsIn(up[c]) \subseteq Messages BY DEF ChatsIn
  <1>5. ChatsIn(up'[c]) = ChatsIn(up[c])
    BY <1>1, <1>2, <1>3, <1>4, ChatsInTail
  <1>6. \A d \in Conns : ChatsIn(up'[d]) = ChatsIn(up[d])
    BY <1>1, <1>2, <1>5
  <1>7. \A k \in Messages : Underway(k)' <=>
                \E d \in Conns : msg'[d] = k \/ k \in ChatsIn(up'[d])
    BY DEF Underway, ChatsIn
  <1> QED BY <1>1, <1>6, <1>7 DEF Underway

LEMMA UnderwayAtUpload ==
    ASSUME TypeInv, cur # None, NEW ms, Arrive(ms), msg' = msg
    PROVE  \A k \in Messages :
                Underway(k)' <=> Underway(k) \/ (link[cur] = "open" /\ k \in ms)
  <1>1. cur \in Conns BY TypeParts DEF TabTypes
  <1>2. \A k \in Messages : Underway(k)' <=>
                \E d \in Conns : msg'[d] = k \/ k \in ChatsIn(up'[d])
    BY DEF Underway, ChatsIn
  <1> QED BY <1>1, <1>2 DEF Underway, Arrive

LEMMA UnderwayAtConnect ==
    ASSUME TypeInv, Connect
    PROVE  \A k \in Messages : Underway(k)' <=> Underway(k)
  <1>1. /\ up' = [up EXCEPT ![made + 1] = <<Sync>>] /\ msg' = msg
    BY DEF Connect
  <1>2. made \in Nat /\ up \in [Conns -> Seq(Frames)]
        /\ \A c \in Conns : c > made => up[c] = <<>>
    BY TypeParts, ClientLinkAssumption DEF NetTypes
  <1>3. \A k \in Messages : Sync # Chat(k) BY DEF Sync, Chat
  <1>4. ChatsIn(<<Sync>>) = {} /\ ChatsIn(<<>>) = {} BY <1>3 DEF ChatsIn
  <1>5. ASSUME NEW d \in Conns PROVE ChatsIn(up'[d]) = ChatsIn(up[d])
    <2>1. CASE d = made + 1
      <3>1. d > made BY <1>2, <2>1
      <3>2. up[d] = <<>> BY <1>2, <3>1
      <3>3. up'[d] = <<Sync>> BY <1>1, <1>2, <2>1
      <3> QED BY <1>4, <3>2, <3>3
    <2>2. CASE d # made + 1
      <3>1. up'[d] = up[d] BY <1>1, <1>2, <2>2
      <3> QED BY <3>1
    <2> QED BY <2>1, <2>2
  <1>6. \A k \in Messages : Underway(k)' <=>
                \E d \in Conns : msg'[d] = k \/ k \in ChatsIn(up'[d])
    BY DEF Underway, ChatsIn
  <1> QED BY <1>1, <1>5, <1>6 DEF Underway

LEMMA UnderwayAtBreak ==
    ASSUME TypeInv, NEW c \in Conns, Break(c)
    PROVE  \A k \in Messages :
                /\ Underway(k)' => Underway(k)
                /\ Underway(k) => Underway(k)' \/ k \in excused' \cup pending \cup offline
  <1>1. PICK n \in 0..Len(up[c]) :
            /\ up' = [up EXCEPT ![c] = SubSeq(@, 1, n)]
            /\ Drop(ChatsIn(SubSeq(up[c], n + 1, Len(up[c]))))
    BY DEF Break
  <1>2. up \in [Conns -> Seq(Frames)] /\ msg' = msg
    BY TypeParts DEF NetTypes, Break, handlerVars
  <1>3. /\ ChatsIn(up'[c]) \subseteq ChatsIn(up[c])
        /\ ChatsIn(up[c]) \subseteq ChatsIn(up'[c])
                                \cup ChatsIn(SubSeq(up[c], n + 1, Len(up[c])))
    BY <1>1, <1>2, ChatsInParts
  <1>4. \A d \in Conns \ {c} : up'[d] = up[d] BY <1>1, <1>2
  <1>5. \A k \in ChatsIn(SubSeq(up[c], n + 1, Len(up[c]))) :
            k \in excused' \cup pending \cup offline
    BY <1>1 DEF Drop
  <1>6. \A k \in Messages : Underway(k)' <=>
                \E d \in Conns : msg'[d] = k \/ k \in ChatsIn(up'[d])
    BY DEF Underway, ChatsIn
  <1> QED BY <1>2, <1>3, <1>4, <1>5, <1>6 DEF Underway

LEMMA UnderwayAtRestart ==
    ASSUME Restart
    PROVE  \A k \in Messages :
                /\ ~Underway(k)'
                /\ Underway(k) => k \in excused' \cup pending \cup offline
  <1>1. /\ up' = [c \in Conns |-> <<>>] /\ msg' = [c \in Conns |-> None]
        /\ Drop({m \in Messages : Underway(m)})
    BY DEF Restart
  <1>2. \A k \in Messages : k # None BY ClientLinkAssumption
  <1>3. ChatsIn(<<>>) = {} BY DEF ChatsIn
  <1>4. \A k \in Messages : Underway(k)' <=>
                \E d \in Conns : msg'[d] = k \/ k \in ChatsIn(up'[d])
    BY DEF Underway, ChatsIn
  <1>5. \A k \in Messages : ~Underway(k)' BY <1>1, <1>2, <1>3, <1>4
  <1>6. \A k \in Messages : Underway(k) => k \in excused' \cup pending \cup offline
    BY <1>1 DEF Drop
  <1> QED BY <1>5, <1>6

-----------------------------------------------------------------------------
(* What the tab sends.                                                     *)

LEMMA SetsAreFinite ==
    ASSUME TypeInv, NEW ms \in SUBSET (pending \cup offline)
    PROVE  IsFiniteSet(ms) /\ ms \in SUBSET Messages
  <1>1. ms \subseteq typed /\ IsFiniteSet(typed) /\ typed \subseteq Messages
    BY TypeParts DEF TabTypes, TabShape
  <1> QED BY <1>1, FS_Subset

LEMMA TypeMessageArrives ==
    ASSUME TypeInv, NEW m \in Messages, TypeMessage(m), cur # None
    PROVE  Arrive({m}) /\ msg' = msg
  <1>1. Upload({m}) /\ msg' = msg BY DEF TypeMessage, handlerVars
  <1>2. IsFiniteSet({m}) BY FS_Singleton
  <1> QED BY <1>1, <1>2, UploadArrives

LEMMA AckTimeoutArrives ==
    ASSUME TypeInv, NEW m \in Messages, AckTimeout(m), cur # None
    PROVE  Arrive({m}) /\ msg' = msg
  <1>1. Upload({m}) /\ msg' = msg BY DEF AckTimeout, handlerVars
  <1>2. IsFiniteSet({m}) BY FS_Singleton
  <1> QED BY <1>1, <1>2, UploadArrives

LEMMA FlushAnywayArrives ==
    ASSUME TypeInv, FlushAnyway
    PROVE  Arrive(pending \cup offline) /\ msg' = msg
  <1>1. Flush(pending, offline) /\ msg' = msg /\ cur # None
    BY DEF FlushAnyway, handlerVars
  <1>2. /\ IsFiniteSet(pending) /\ pending \in SUBSET Messages
        /\ IsFiniteSet(offline) /\ offline \in SUBSET Messages
    BY SetsAreFinite
  <1> QED BY <1>1, <1>2, FlushArrives

(* What the tab keeps when it reads a start-up id.                         *)
StillKept == Kept(lastBoot', pending \cup offline)

LEMMA ReadSyncAckArrives ==
    ASSUME TypeInv, ReadSyncAck
    PROVE  /\ Arrive(StillKept) /\ msg' = msg
           /\ pending' \subseteq StillKept
           /\ (pending \cup offline) \ StillKept \subseteq excused'
           /\ StillKept # {} => lastBoot \in {None, lastBoot'}
  <1>1. /\ Flush(Kept(lastBoot', pending), Kept(lastBoot', offline)) /\ msg' = msg
        /\ pending' = Kept(lastBoot', pending)
        /\ excused' = excused \cup ((pending \cup offline) \ StillKept)
        /\ cur # None
    BY DEF ReadSyncAck, handlerVars, Incoming, StillKept
  <1> DEFINE p == Kept(lastBoot', pending)
             o == Kept(lastBoot', offline)
  <1>2. /\ p \subseteq pending \cup offline /\ o \subseteq pending \cup offline
        /\ p \cup o = StillKept /\ p \subseteq StillKept
        /\ StillKept # {} => lastBoot \in {None, lastBoot'}
    BY DEF Kept, StillKept
  <1>3. Flush(p, o) BY <1>1
  <1> HIDE DEF p, o
  <1>4. /\ IsFiniteSet(p) /\ p \in SUBSET Messages
        /\ IsFiniteSet(o) /\ o \in SUBSET Messages
    BY <1>2, SetsAreFinite
  <1>5. Arrive(p \cup o) BY <1>1, <1>3, <1>4, FlushArrives
  <1>6. pending' = p BY <1>1 DEF p
  <1> QED BY <1>1, <1>2, <1>5, <1>6

-----------------------------------------------------------------------------
(* Start-up ids.                                                           *)

BootFrames ==
    \A c \in Conns : \A i \in DOMAIN down[c] :
            down[c][i][1] = "boot" => down[c][i][2] = boot

(* A send adds its frame or nothing.                                       *)
LEMMA SentFrames ==
    ASSUME TypeInv, NEW c \in Conns, NEW t \in Replies, Send(c, t)
    PROVE  \A d \in Conns : \A i \in DOMAIN down'[d] :
                \/ i \in DOMAIN down[d] /\ down'[d][i] = down[d][i]
                \/ down'[d][i] = t
  <1>1. down \in [Conns -> Seq(Replies)] BY TypeParts DEF NetTypes
  <1>2. CASE link[c] = "open"
    <2>1. down' = [down EXCEPT ![c] = Append(down[c], t)] BY <1>2 DEF Send
    <2>2. ASSUME NEW d \in Conns, NEW i \in DOMAIN down'[d]
          PROVE  \/ i \in DOMAIN down[d] /\ down'[d][i] = down[d][i]
                 \/ down'[d][i] = t
      <3>1. CASE d = c
        <4>1. down'[d] = Append(down[c], t) /\ down[c] \in Seq(Replies)
          BY <1>1, <2>1, <3>1
        <4> QED BY <3>1, <4>1
      <3>2. CASE d # c
        <4>1. down'[d] = down[d] BY <1>1, <2>1, <3>2
        <4> QED BY <4>1
      <3> QED BY <3>1, <3>2
    <2> QED BY <2>2
  <1>3. CASE link[c] # "open"
    <2>1. down' = down BY <1>3 DEF Send
    <2> QED BY <2>1
  <1> QED BY <1>2, <1>3

(* A read takes the first frame away.                                      *)
LEMMA ReadFrames ==
    ASSUME TypeInv, NEW kind, Incoming(kind)
    PROVE  \A d \in Conns : \A i \in DOMAIN down'[d] :
                \E j \in DOMAIN down[d] : down'[d][i] = down[d][j]
  <1>1. down' = [down EXCEPT ![cur] = Tail(down[cur])] BY DEF Incoming
  <1>2. down \in [Conns -> Seq(Replies)] BY TypeParts DEF NetTypes
  <1>3. ASSUME NEW d \in Conns, NEW i \in DOMAIN down'[d]
        PROVE  \E j \in DOMAIN down[d] : down'[d][i] = down[d][j]
    <2>1. CASE d = cur
      <3>1. down'[d] = Tail(down[cur]) BY <1>1, <1>2, <2>1
      <3>2. i + 1 \in DOMAIN down[d] /\ down'[d][i] = down[d][i + 1]
        BY <2>1, <3>1, IncomingReply
      <3> QED BY <3>2
    <2>2. CASE d # cur
      <3>1. down'[d] = down[d] BY <1>1, <1>2, <2>2
      <3> QED BY <3>1
    <2> QED BY <2>1, <2>2
  <1> QED BY <1>3

LEMMA BootInvInductive ==
    ASSUME TypeInv, BootInv, [Next]_vars
    PROVE  BootInv'
  <1>0. BootFrames BY DEF BootInv, BootFrames
  <1>1. ASSUME NEW c \in Conns, NEW m \in Messages, Receive(c, m) PROVE BootInv'
    <2>1. /\ UNCHANGED <<boot, lastBoot, cur, link, sync>>
          /\ down' = down \/ Send(c, <<"ack", m>>)
      BY <1>1 DEF Receive, tabVars
    <2>2. <<"ack", m>> \in Replies /\ <<"ack", m>>[1] # "boot" BY DEF Replies
    <2>3. BootFrames'
      BY <1>0, <2>1, <2>2, SentFrames DEF BootFrames
    <2> QED BY <2>1, <2>3 DEF BootInv, BootFrames
  <1>2. ASSUME NEW c \in Conns, SessionSync(c) PROVE BootInv'
    <2>1. /\ UNCHANGED <<boot, lastBoot, cur, link, sync>>
          /\ down' = down \/ Send(c, <<"boot", boot>>)
      BY <1>2 DEF SessionSync, tabVars
    <2>2. boot \in Boots BY TypeParts DEF HandlerTypes
    <2>3. <<"boot", boot>> \in Replies /\ <<"boot", boot>>[2] = boot
      BY <2>2 DEF Replies
    <2>4. BootFrames'
      BY <1>0, <2>1, <2>3, SentFrames DEF BootFrames
    <2> QED BY <2>1, <2>4 DEF BootInv, BootFrames
  <1>3. CASE ReadAck
    <2>1. /\ UNCHANGED <<boot, lastBoot, cur, link, sync>> /\ Incoming("ack")
      BY <1>3 DEF ReadAck
    <2>2. BootFrames' BY <1>0, <2>1, ReadFrames DEF BootFrames
    <2> QED BY <2>1, <2>2 DEF BootInv, BootFrames
  <1>4. CASE ReadSyncAck
    <2>1. /\ UNCHANGED <<boot, cur, link>> /\ Incoming("boot")
          /\ lastBoot' = Head(down[cur])[2]
      BY <1>4 DEF ReadSyncAck
    <2>2. BootFrames' BY <1>0, <2>1, ReadFrames DEF BootFrames
    <2>3. lastBoot' = boot BY <1>0, <2>1, IncomingReply DEF BootFrames
    <2>4. boot' <= boot' BY <2>1, TypeParts DEF HandlerTypes, Boots
    <2> QED BY <2>1, <2>2, <2>3, <2>4 DEF BootInv, BootFrames
  <1>5. CASE Connect
    <2>1. UNCHANGED <<boot, lastBoot, down>> /\ sync' = "waiting"
      BY <1>5 DEF Connect
    <2> QED BY <2>1 DEF BootInv
  <1>6. CASE FlushAnyway
    <2>1. UNCHANGED <<boot, lastBoot, down>> /\ sync' = "overdue"
      BY <1>6 DEF FlushAnyway
    <2> QED BY <2>1 DEF BootInv
  <1>7. ASSUME NEW c \in Conns, Break(c) PROVE BootInv'
    <2>1. /\ UNCHANGED <<boot, lastBoot, cur, sync>>
          /\ link' = [link EXCEPT ![c] = "lost"] /\ down' = [down EXCEPT ![c] = <<>>]
      BY <1>7 DEF Break, tabVars
    <2>2. /\ link \in [Conns -> {"none", "open", "lost", "closed"}]
          /\ down \in [Conns -> Seq(Replies)] /\ cur \in Conns \cup {None}
      BY TypeParts DEF NetTypes, TabTypes
    <2>3. BootFrames' BY <1>0, <2>1, <2>2 DEF BootFrames
    <2>4. cur' # None /\ link'[cur'] = "open" => link[cur] = "open"
      BY <2>1, <2>2
    <2> QED BY <2>1, <2>3, <2>4 DEF BootInv, BootFrames
  <1>8. ASSUME NEW c \in Conns, ServerNotices(c) PROVE BootInv'
    <2>1. /\ UNCHANGED <<boot, lastBoot, cur, sync, down>>
          /\ link' = [link EXCEPT ![c] = "closed"]
      BY <1>8 DEF ServerNotices, tabVars
    <2>2. /\ link \in [Conns -> {"none", "open", "lost", "closed"}]
          /\ cur \in Conns \cup {None}
      BY TypeParts DEF NetTypes, TabTypes
    <2>4. cur' # None /\ link'[cur'] = "open" => link[cur] = "open"
      BY <2>1, <2>2
    <2> QED BY <2>1, <2>4 DEF BootInv
  <1>9. CASE Restart
    <2>1. /\ UNCHANGED <<lastBoot, cur, sync, made>> /\ boot' = boot + 1
          /\ link' = [c \in Conns |-> IF c <= made THEN "closed" ELSE "none"]
          /\ down' = [c \in Conns |-> <<>>]
      BY <1>9 DEF Restart, tabVars
    <2>2. cur \in Conns \cup {None} BY TypeParts DEF TabTypes
    <2>3. lastBoot' <= boot'
      <3>1. lastBoot \in Boots \cup {None} /\ boot \in Boots
        BY TypeParts DEF TabTypes, HandlerTypes
      <3>2. lastBoot \in Nat /\ boot \in Nat BY <3>1 DEF Boots, None
      <3>3. lastBoot <= boot BY DEF BootInv
      <3> QED BY <2>1, <3>2, <3>3
    <2> QED BY <2>1, <2>2, <2>3 DEF BootInv
  <1>10. CASE OnClose
    <2>1. UNCHANGED <<boot, lastBoot, down>> /\ cur' = None
      BY <1>10 DEF OnClose, netVars
    <2> QED BY <2>1 DEF BootInv
  <1>11. CASE UNCHANGED <<boot, lastBoot, down, cur, link, sync>>
    BY <1>11 DEF BootInv
  <1>12. ASSUME \/ \E c \in Conns :
                    \/ Enter(c) \/ Handled(c) \/ NotHandled(c) \/ ListAllPending(c)
                    \/ MarkDelivered(c) \/ \E e \in Events : Deliver(c, e)
                \/ \E e \in Events : TakeSocket(e) \/ SendTaskEvent(e)
                \/ \E m \in Messages : TypeMessage(m) \/ AckTimeout(m) \/ DropStale(m)
                \/ UNCHANGED vars
         PROVE  UNCHANGED <<boot, lastBoot, down, cur, link, sync>>
    BY <1>12 DEF Enter, Handled, NotHandled, ListAllPending, MarkDelivered, Deliver,
                 TakeSocket, SendTaskEvent, TypeMessage, AckTimeout, DropStale,
                 tabVars, netVars, vars
  <1> QED
    BY <1>1, <1>2, <1>3, <1>4, <1>5, <1>6, <1>7, <1>8, <1>9, <1>10, <1>11, <1>12
       DEF Next, Handler, Tab

-----------------------------------------------------------------------------
(* What the tab sends is all that comes under way.                         *)

Sends(k) ==
    /\ cur # None /\ link[cur] = "open"
    /\ \/ TypeMessage(k)
       \/ AckTimeout(k)
       \/ ReadSyncAck /\ k \in StillKept
       \/ FlushAnyway /\ k \in pending \cup offline

(* The steps of the tab that send nothing new and end no handling.         *)
LEMMA OnlySent ==
    ASSUME TypeInv, [Next]_vars, NEW k \in Messages, Underway(k)'
    PROVE  Underway(k) \/ Sends(k)
  <1>1. ASSUME NEW c \in Conns, NEW m \in Messages, Receive(c, m)
        PROVE Underway(k)
    BY <1>1, UnderwayAtReceive
  <1>2. ASSUME NEW c \in Conns, Handled(c) \/ NotHandled(c) PROVE Underway(k)
    BY <1>2, UnderwayAtEnd
  <1>3. ASSUME NEW c \in Conns, SessionSync(c) PROVE Underway(k)
    BY <1>3, UnderwayAtSync
  <1>4. ASSUME NEW m \in Messages, TypeMessage(m) \/ AckTimeout(m)
        PROVE Underway(k) \/ Sends(k)
    <2>1. CASE cur = None
      <3>1. NoTraffic
        BY <1>4, <2>1 DEF TypeMessage, AckTimeout, NoTraffic, handlerVars
      <3> QED BY <3>1, UnderwayStays
    <2>2. CASE cur # None
      <3>1. Arrive({m}) /\ msg' = msg
        BY <1>4, <2>2, TypeMessageArrives, AckTimeoutArrives
      <3>2. Underway(k) \/ (link[cur] = "open" /\ k = m)
        BY <2>2, <3>1, UnderwayAtUpload
      <3> QED BY <1>4, <2>2, <3>2 DEF Sends
    <2> QED BY <2>1, <2>2
  <1>5. CASE ReadSyncAck
    <2>1. cur # None BY <1>5 DEF ReadSyncAck, Incoming
    <2>2. Arrive(StillKept) /\ msg' = msg BY <1>5, ReadSyncAckArrives
    <2>3. Underway(k) \/ (link[cur] = "open" /\ k \in StillKept)
      BY <2>1, <2>2, UnderwayAtUpload
    <2> QED BY <1>5, <2>1, <2>3 DEF Sends
  <1>6. CASE FlushAnyway
    <2>1. cur # None BY <1>6 DEF FlushAnyway
    <2>2. Arrive(pending \cup offline) /\ msg' = msg BY <1>6, FlushAnywayArrives
    <2>3. Underway(k) \/ (link[cur] = "open" /\ k \in pending \cup offline)
      BY <2>1, <2>2, UnderwayAtUpload
    <2> QED BY <1>6, <2>1, <2>3 DEF Sends
  <1>7. CASE Connect
    BY <1>7, UnderwayAtConnect
  <1>8. ASSUME NEW c \in Conns, Break(c) PROVE Underway(k)
    BY <1>8, UnderwayAtBreak
  <1>9. CASE Restart
    BY <1>9, UnderwayAtRestart
  <1>10. CASE NoTraffic
    BY <1>10, UnderwayStays
  <1>11. ASSUME \/ \E c \in Conns :
                    \/ Enter(c) \/ ListAllPending(c) \/ MarkDelivered(c)
                    \/ \E e \in Events : Deliver(c, e)
                    \/ ServerNotices(c)
                \/ \E e \in Events : TakeSocket(e) \/ SendTaskEvent(e)
                \/ \E m \in Messages : DropStale(m)
                \/ ReadAck \/ OnClose \/ UNCHANGED vars
         PROVE  NoTraffic
    BY <1>11 DEF Enter, ListAllPending, MarkDelivered, Deliver, ServerNotices,
                 TakeSocket, SendTaskEvent, DropStale, ReadAck, OnClose,
                 netVars, handlerVars, vars, NoTraffic
  <1> QED
    BY <1>1, <1>2, <1>3, <1>4, <1>5, <1>6, <1>7, <1>8, <1>9, <1>10, <1>11
       DEF Next, Handler, Tab

(* The counter of a message moves when its handler ends.                   *)
LEMMA HandledMoves ==
    ASSUME TypeInv, [Next]_vars
    PROVE  \/ handled' = handled
           \/ \E c \in Conns : Handled(c)
  BY DEF Next, Handler, Tab, Receive, Enter, NotHandled, SessionSync,
         ListAllPending, Deliver, MarkDelivered, Break, ServerNotices, TakeSocket,
         SendTaskEvent, TypeMessage, AckTimeout, DropStale, Connect, ReadAck,
         ReadSyncAck, OnClose, FlushAnyway, Restart, vars, msgHistory

LEMMA TypedGrows ==
    ASSUME [Next]_vars
    PROVE  /\ \/ typed' = typed
              \/ \E m \in Messages : TypeMessage(m)
           /\ typed \subseteq typed' /\ doubtful \subseteq doubtful'
  BY DEF Next, Handler, Tab, Receive, Enter, Handled, NotHandled, SessionSync,
         ListAllPending, Deliver, MarkDelivered, Break, ServerNotices, TakeSocket,
         SendTaskEvent, TypeMessage, AckTimeout, DropStale, Connect, ReadAck,
         ReadSyncAck, OnClose, FlushAnyway, Restart, vars, msgHistory, tabVars

LEMMA SentWasTyped ==
    ASSUME TypeInv, NEW k \in Messages, Sends(k)
    PROVE  /\ k \in typed'
           /\ TypeMessage(k) \/ k \in pending \cup offline
  <1>1. TypeMessage(k) => k \in typed' BY DEF TypeMessage
  <1>2. AckTimeout(k) => k \in pending /\ typed' = typed
    BY TypeParts DEF AckTimeout, TabTypes, TabShape
  <1>3. ReadSyncAck /\ k \in StillKept => k \in pending \cup offline /\ typed' = typed
    BY DEF ReadSyncAck, StillKept, Kept
  <1>4. FlushAnyway => typed' = typed BY DEF FlushAnyway
  <1>5. pending \cup offline \subseteq typed BY TypeParts DEF TabTypes, TabShape
  <1> QED BY <1>1, <1>2, <1>3, <1>4, <1>5 DEF Sends

LEMMA UntypedInductive ==
    ASSUME TypeInv, Untyped, [Next]_vars
    PROVE  Untyped'
  <1> SUFFICES ASSUME NEW k \in Messages, k \notin typed'
               PROVE  handled'[k] = 0 /\ ~Underway(k)'
    BY DEF Untyped
  <1>1. k \notin typed BY TypedGrows
  <1>2. handled[k] = 0 /\ ~Underway(k) BY <1>1 DEF Untyped
  <1>3. handled'[k] = handled[k]
    <2>1. CASE handled' = handled BY <2>1
    <2>2. ASSUME NEW c \in Conns, Handled(c) PROVE handled'[k] = handled[k]
      <3>1. msg[c] # k BY <1>2 DEF Underway
      <3>2. handled \in [Messages -> 0..2] BY TypeParts DEF HistoryTypes
      <3>3. handled' = [handled EXCEPT ![msg[c]] = IF @ = 2 THEN 2 ELSE @ + 1]
        BY <2>2 DEF Handled
      <3> QED BY <3>1, <3>2, <3>3
    <2> QED BY <2>1, <2>2, HandledMoves
  <1>4. ~Underway(k)' BY <1>2, OnlySent, SentWasTyped
  <1> QED BY <1>2, <1>3, <1>4

-----------------------------------------------------------------------------
(* Once: what each step may do to one message.                             *)

Once(m) ==
    /\ handled[m] <= 1
    /\ Underway(m) => lastBoot = boot
    /\ \A c \in Conns : msg[c] = m =>
            /\ handled[m] = 0 /\ \A d \in Conns \ {c} : msg[d] # m
    /\ handled[m] = 1 => /\ lastBoot # None
                         /\ \/ m \in seen
                            \/ /\ ~Underway(m)
                               /\ m \in pending \cup offline => lastBoot # boot

(* A handler takes up a message it has read and not seen.                  *)
LEMMA HandlerTakes ==
    ASSUME TypeInv, [Next]_vars, NEW d \in Conns, NEW k \in Messages, msg'[d] = k
    PROVE  msg[d] = k \/ (Receive(d, k) /\ k \notin seen)
  <1>0. k # None BY ClientLinkAssumption
  <1>1. ASSUME NEW c \in Conns, NEW m \in Messages, Receive(c, m)
        PROVE  msg[d] = k \/ (Receive(d, k) /\ k \notin seen)
    <2>1. CASE d # c BY <1>1, <2>1, UnderwayAtReceive
    <2>2. CASE d = c
      <3>1. m \notin seen /\ k = m BY <1>0, <1>1, <2>2, UnderwayAtReceive
      <3> QED BY <1>1, <2>2, <3>1
    <2> QED BY <2>1, <2>2
  <1>2. ASSUME NEW c \in Conns, Handled(c) \/ NotHandled(c) PROVE msg[d] = k
    BY <1>0, <1>2, UnderwayAtEnd
  <1>3. CASE Restart
    <2>1. msg' = [c \in Conns |-> None] BY <1>3 DEF Restart
    <2> QED BY <1>0, <2>1
  <1>4. CASE msg' = msg BY <1>4
  <1>5. ASSUME \/ \E c \in Conns :
                    \/ Enter(c) \/ SessionSync(c) \/ ListAllPending(c)
                    \/ MarkDelivered(c) \/ \E e \in Events : Deliver(c, e)
                    \/ Break(c) \/ ServerNotices(c)
               \/ \E e \in Events : TakeSocket(e) \/ SendTaskEvent(e)
               \/ \E m \in Messages : TypeMessage(m) \/ AckTimeout(m) \/ DropStale(m)
               \/ Tab \/ FlushAnyway \/ UNCHANGED vars
        PROVE  msg' = msg
    BY <1>5 DEF Enter, SessionSync, ListAllPending, MarkDelivered, Deliver, Break,
                ServerNotices, TakeSocket, SendTaskEvent, TypeMessage, AckTimeout,
                DropStale, Tab, Connect, ReadAck, ReadSyncAck, OnClose, FlushAnyway,
                handlerVars, vars
  <1> QED BY <1>1, <1>2, <1>3, <1>4, <1>5 DEF Next, Handler

(* What the tab has, it had before, or the user has just typed it.         *)
LEMMA TabKeeps ==
    ASSUME TypeInv, [Next]_vars, NEW k \in Messages, k \in pending' \cup offline'
    PROVE  k \in pending \cup offline \/ TypeMessage(k)
  <1>1. ASSUME NEW m \in Messages, TypeMessage(m)
        PROVE  k \in pending \cup offline \/ TypeMessage(k)
    BY <1>1 DEF TypeMessage
  <1>2. ASSUME NEW m \in Messages, AckTimeout(m) PROVE k \in pending \cup offline
    <2>1. m \in pending BY <1>2, TypeParts DEF AckTimeout, TabTypes, TabShape
    <2> QED BY <1>2, <2>1 DEF AckTimeout
  <1>3. CASE ReadSyncAck
    BY <1>3 DEF ReadSyncAck, Kept
  <1>4. CASE pending' \subseteq pending /\ offline' \subseteq offline BY <1>4
  <1>5. ASSUME \/ \E c \in Conns : Handler(c) \/ Break(c) \/ ServerNotices(c)
               \/ \E e \in Events : TakeSocket(e) \/ SendTaskEvent(e)
               \/ \E m \in Messages : DropStale(m)
               \/ Connect \/ ReadAck \/ OnClose \/ FlushAnyway \/ Restart
               \/ UNCHANGED vars
        PROVE  pending' \subseteq pending /\ offline' \subseteq offline
    BY <1>5 DEF Handler, Receive, Enter, Handled, NotHandled, SessionSync,
                ListAllPending, MarkDelivered, Deliver, Break, ServerNotices,
                TakeSocket, SendTaskEvent, DropStale, Connect, ReadAck, OnClose,
                FlushAnyway, Restart, tabVars, vars
  <1> QED BY <1>1, <1>2, <1>3, <1>4, <1>5 DEF Next, Tab

(* Who changes what a process and a tab remember.                          *)
LEMMA Remembered ==
    ASSUME [Next]_vars
    PROVE  \/ Restart \/ ReadSyncAck \/ \E c \in Conns : Handled(c)
           \/ UNCHANGED <<boot, lastBoot, seen, handled>>
  <1>1. ASSUME NEW c \in Conns, Handler(c), ~Handled(c)
        PROVE  UNCHANGED <<boot, lastBoot, seen, handled>>
    BY <1>1 DEF Handler, Receive, Enter, NotHandled, SessionSync, ListAllPending,
                Deliver, MarkDelivered, msgHistory, tabVars
  <1>2. ASSUME \/ \E c \in Conns : Break(c) \/ ServerNotices(c)
               \/ \E e \in Events : TakeSocket(e) \/ SendTaskEvent(e)
               \/ \E m \in Messages : TypeMessage(m) \/ AckTimeout(m) \/ DropStale(m)
               \/ Connect \/ ReadAck \/ OnClose \/ FlushAnyway \/ UNCHANGED vars
        PROVE  UNCHANGED <<boot, lastBoot, seen, handled>>
    BY <1>2 DEF Break, ServerNotices, TakeSocket, SendTaskEvent, TypeMessage,
                AckTimeout, DropStale, Connect, ReadAck, OnClose, FlushAnyway,
                vars, msgHistory, handlerVars, tabVars
  <1> QED BY <1>1, <1>2 DEF Next, Tab

(* A message sent in time goes to a process that knows what it handled.    *)
LEMMA SentInTime ==
    ASSUME TypeInv, BootInv, Untyped, NEW k \in Messages \ doubtful', Once(k),
           Sends(k), ~ReadSyncAck
    PROVE  lastBoot = boot /\ (handled[k] = 1 => k \in seen)
  <1>1. CASE TypeMessage(k)
    <2>1. k \notin typed /\ sync = "received" BY <1>1 DEF TypeMessage, Sends
    <2>2. handled[k] = 0 BY <2>1 DEF Untyped
    <2>3. lastBoot = boot BY <2>1 DEF BootInv, Sends
    <2> QED BY <2>2, <2>3
  <1>2. CASE AckTimeout(k)
    <2>1. k \in pending /\ sync = "received"
      BY <1>2, TypeParts DEF AckTimeout, Sends, TabTypes, TabShape
    <2>2. lastBoot = boot BY <2>1 DEF BootInv, Sends
    <2> QED BY <2>1, <2>2 DEF Once
  <1>3. CASE FlushAnyway /\ k \in pending \cup offline
    BY <1>3 DEF FlushAnyway
  <1> QED BY <1>1, <1>2, <1>3 DEF Sends

(* The steps that leave the message and both memories alone.               *)
LEMMA OnceFrame ==
    ASSUME NEW k \in Messages, Once(k), UNCHANGED <<boot, lastBoot>>,
           seen \subseteq seen', handled'[k] = handled[k],
           \A c \in Conns : msg'[c] = k => msg[c] = k,
           Underway(k)' => \/ Underway(k)
                           \/ lastBoot = boot /\ (handled[k] = 1 => k \in seen),
           k \in pending' \cup offline' =>
                k \in pending \cup offline \/ handled[k] = 0
    PROVE  Once(k)'
  <1>1. handled'[k] <= 1 BY DEF Once
  <1>2. Underway(k)' => lastBoot' = boot' BY DEF Once
  <1>3. \A c \in Conns : msg'[c] = k =>
            /\ handled'[k] = 0 /\ \A d \in Conns \ {c} : msg'[d] # k
    BY DEF Once
  <1>4. handled'[k] = 1 =>
            /\ lastBoot' # None
            /\ \/ k \in seen'
               \/ ~Underway(k)' /\ (k \in pending' \cup offline' => lastBoot' # boot')
    BY DEF Once
  <1> QED BY <1>1, <1>2, <1>3, <1>4 DEF Once, Underway, ChatsIn

LEMMA OnceInvInductive ==
    ASSUME TypeInv, BootInv, Untyped, OnceInv, [Next]_vars
    PROVE  OnceInv'
  <1> SUFFICES ASSUME NEW k \in Messages, k \notin doubtful'
               PROVE  Once(k)'
    BY DEF OnceInv, Once, Underway, ChatsIn
  <1>1. Once(k) BY TypedGrows DEF OnceInv, Once
  <1>2. handled \in [Messages -> 0..2] BY TypeParts DEF HistoryTypes
  <1>3. k # None BY ClientLinkAssumption
  <1>4. CASE Restart
    <2>1. /\ UNCHANGED <<lastBoot, handled>> /\ boot' = boot + 1
          /\ msg' = [c \in Conns |-> None]
      BY <1>4 DEF Restart, tabVars
    <2>2. ~Underway(k)' BY <1>4, UnderwayAtRestart
    <2>3. lastBoot' # boot'
      <3>1. lastBoot \in Boots \cup {None} /\ boot \in Boots
        BY TypeParts DEF TabTypes, HandlerTypes
      <3>2. lastBoot \in Nat /\ boot \in Nat BY <3>1 DEF Boots, None
      <3> QED BY <2>1, <3>2 DEF BootInv
    <2>4. \A c \in Conns : msg'[c] # k BY <1>3, <2>1
    <2>5. handled'[k] <= 1 /\ (handled'[k] = 1 => lastBoot' # None)
      BY <1>1, <2>1 DEF Once
    <2> QED BY <2>2, <2>3, <2>4, <2>5 DEF Once, Underway, ChatsIn
  <1>5. CASE ReadSyncAck
    <2>1. /\ UNCHANGED <<boot, handled, msg, seen>> /\ offline' = {}
          /\ Incoming("boot") /\ lastBoot' = Head(down[cur])[2]
      BY <1>5 DEF ReadSyncAck, handlerVars
    <2>2. lastBoot' = boot' /\ boot' # None
      <3>1. lastBoot' = boot BY <2>1, IncomingReply DEF BootInv
      <3>2. boot \in Boots BY TypeParts DEF HandlerTypes
      <3> QED BY <2>1, <3>1, <3>2 DEF Boots, None
    <2>3. Underway(k)' => Underway(k) \/ k \in StillKept
      <3>1. cur # None /\ Arrive(StillKept) /\ msg' = msg
        BY <1>5, <2>1, ReadSyncAckArrives DEF Incoming
      <3> QED BY <3>1, UnderwayAtUpload
    <2>4. k \in pending' \cup offline' => k \in StillKept
      BY <1>5, <2>1, ReadSyncAckArrives
    <2>5. k \in StillKept => k \in pending \cup offline /\ lastBoot \in {None, boot}
      <3>1. k \in StillKept => lastBoot \in {None, lastBoot'}
        BY <1>5, ReadSyncAckArrives
      <3>2. StillKept \subseteq pending \cup offline BY DEF StillKept, Kept
      <3> QED BY <2>1, <2>2, <3>1, <3>2
    <2>6. handled'[k] = 1 /\ k \notin seen' =>
                ~Underway(k)' /\ k \notin pending' \cup offline'
      BY <1>1, <2>1, <2>3, <2>4, <2>5 DEF Once
    <2>7. /\ handled'[k] <= 1
          /\ \A c \in Conns : msg'[c] = k =>
                /\ handled'[k] = 0 /\ \A d \in Conns \ {c} : msg'[d] # k
      BY <1>1, <2>1 DEF Once
    <2> QED BY <2>2, <2>6, <2>7 DEF Once, Underway, ChatsIn
  <1>6. ASSUME NEW c \in Conns, Handled(c), msg[c] = k PROVE Once(k)'
    <2>1. /\ UNCHANGED <<boot, lastBoot>>
          /\ seen' = seen \cup {k}
          /\ handled' = [handled EXCEPT ![k] = IF @ = 2 THEN 2 ELSE @ + 1]
      BY <1>6 DEF Handled, tabVars
    <2>2. Underway(k) /\ handled[k] = 0 /\ \A d \in Conns \ {c} : msg[d] # k
      BY <1>1, <1>6 DEF Once, Underway
    <2>3. handled'[k] = 1 BY <1>2, <2>1, <2>2
    <2>4. boot \in Boots BY TypeParts DEF HandlerTypes
    <2>5. lastBoot' = boot' /\ lastBoot' # None
      BY <1>1, <2>1, <2>2, <2>4 DEF Once, Boots, None
    <2>6. \A d \in Conns : msg'[d] # k
      BY <1>3, <1>6, <2>2, UnderwayAtEnd
    <2>7. k \in seen' BY <2>1
    <2> QED BY <2>3, <2>5, <2>6, <2>7 DEF Once, Underway, ChatsIn
  <1>7. ASSUME NEW c \in Conns, Receive(c, k), k \notin seen, msg'[c] = k
        PROVE  Once(k)'
    <2>1. /\ UNCHANGED <<boot, lastBoot, handled>>
      BY <1>7 DEF Receive, tabVars
    <2>2. Underway(k) /\ \A d \in Conns \ {c} : msg'[d] = msg[d]
      BY <1>7, UnderwayAtReceive
    <2>3. ~Raises(c) BY <1>3, <1>7, UnderwayAtReceive
    <2>4. ASSUME NEW d \in Conns, msg[d] = k PROVE FALSE
      <3>1. at[d] \in {"entering", "running"}
        BY <1>3, <2>4, TypeParts DEF HandlerTypes
      <3>2. k \in doubtful' BY <1>7, <2>3, <2>4, <3>1 DEF Receive
      <3> QED BY <3>2
    <2>5. handled[k] = 0
      BY <1>1, <1>2, <1>7, <2>2 DEF Once
    <2>6. lastBoot' = boot' /\ handled'[k] = 0
      BY <1>1, <2>1, <2>2, <2>5 DEF Once
    <2>7. \A d \in Conns \ {c} : msg'[d] # k BY <2>2, <2>4
    <2> QED BY <2>6, <2>7 DEF Once, Underway, ChatsIn
  <1>8. ASSUME ~Restart, ~ReadSyncAck,
               \A c \in Conns : ~(Handled(c) /\ msg[c] = k),
               \A c \in Conns : ~(Receive(c, k) /\ k \notin seen /\ msg'[c] = k)
        PROVE  Once(k)'
    <2>1. /\ UNCHANGED <<boot, lastBoot>> /\ seen \subseteq seen'
          /\ handled'[k] = handled[k]
      <3>1. CASE UNCHANGED <<boot, lastBoot, seen, handled>> BY <3>1
      <3>2. ASSUME NEW c \in Conns, Handled(c)
            PROVE  /\ UNCHANGED <<boot, lastBoot>> /\ seen \subseteq seen'
                   /\ handled'[k] = handled[k]
        <4>1. /\ UNCHANGED <<boot, lastBoot>> /\ seen \subseteq seen'
              /\ handled' = [handled EXCEPT ![msg[c]] = IF @ = 2 THEN 2 ELSE @ + 1]
          BY <3>2 DEF Handled, tabVars
        <4>2. msg[c] # k BY <1>8, <3>2
        <4> QED BY <1>2, <4>1, <4>2
      <3> QED BY <1>8, <3>1, <3>2, Remembered
    <2>2. \A c \in Conns : msg'[c] = k => msg[c] = k
      BY <1>8, HandlerTakes
    <2>3. Underway(k)' => \/ Underway(k)
                          \/ lastBoot = boot /\ (handled[k] = 1 => k \in seen)
      BY <1>1, <1>8, OnlySent, SentInTime
    <2>4. k \in pending' \cup offline' =>
                k \in pending \cup offline \/ handled[k] = 0
      <3>1. TypeMessage(k) => handled[k] = 0 BY DEF TypeMessage, Untyped
      <3> QED BY <3>1, TabKeeps
    <2> QED BY <1>1, <2>1, <2>2, <2>3, <2>4, OnceFrame
  <1> QED BY <1>4, <1>5, <1>6, <1>7, <1>8

(* However often a message is sent again, it is handled once, over any     *)
(* number of connections and restarts (main.py:61, useWebSocket.ts:77).    *)
THEOREM HandledOnce == Spec => []RunOnce
  <1> DEFINE Inv == TypeInv /\ BootInv /\ Untyped /\ OnceInv
  <1>1. Init => Inv
    <2> SUFFICES ASSUME Init PROVE Inv OBVIOUS
    <2>1. TypeInv BY TypeInit
    <2>2. \A k \in Messages : handled[k] = 0 /\ ~Underway(k)
      <3>1. \A k \in Messages : k # None BY ClientLinkAssumption
      <3> QED BY <3>1 DEF Init, Underway, ChatsIn
    <2>3. BootInv BY DEF Init, BootInv, None
    <2>4. Untyped BY <2>2 DEF Untyped
    <2>5. OnceInv BY <2>2 DEF OnceInv, Underway
    <2> QED BY <2>1, <2>3, <2>4, <2>5
  <1>2. Inv /\ [Next]_vars => Inv'
    BY TypeInvInductive, BootInvInductive, UntypedInductive, OnceInvInductive
  <1>3. Inv => RunOnce BY DEF OnceInv, RunOnce
  <1> QED BY <1>1, <1>2, <1>3, PTL DEF Spec

-----------------------------------------------------------------------------
(* Acknowledged.                                                           *)

Acked(m) == \/ m \in excused \cup raised \/ handled[m] > 0
            \/ \E d \in Conns : msg[d] = m

AckFrames ==
    \A c \in Conns : \A i \in DOMAIN down[c] :
            down[c][i][1] = "ack" => Acked(down[c][i][2])

LEMMA AckParts == AckInv <=> AckFrames /\ \A m \in seen : handled[m] > 0
  BY DEF AckInv, AckFrames, Acked

(* What is given up stays given up.                                        *)
LEMMA ExcusedGrows ==
    ASSUME [Next]_vars
    PROVE  excused \subseteq excused'
  BY DEF Next, Handler, Tab, Receive, Enter, Handled, NotHandled, SessionSync,
         ListAllPending, Deliver, MarkDelivered, Break, ServerNotices, TakeSocket,
         SendTaskEvent, TypeMessage, AckTimeout, DropStale, Connect, ReadAck,
         ReadSyncAck, OnClose, FlushAnyway, Restart, vars, msgHistory, Drop

(* So does what is swallowed.                                              *)
LEMMA SwallowedGrows ==
    ASSUME [Next]_vars
    PROVE  swallowed \subseteq swallowed'
  BY DEF Next, Handler, Tab, Receive, Enter, Handled, NotHandled, SessionSync,
         ListAllPending, Deliver, MarkDelivered, Break, ServerNotices, TakeSocket,
         SendTaskEvent, TypeMessage, AckTimeout, DropStale, Connect, ReadAck,
         ReadSyncAck, OnClose, FlushAnyway, Restart, vars, msgHistory, retryHistory,
         Swallow

LEMMA HandledGrows ==
    ASSUME TypeInv, [Next]_vars, NEW k \in Messages, handled[k] > 0
    PROVE  handled'[k] > 0
  <1>1. CASE handled' = handled BY <1>1
  <1>2. ASSUME NEW c \in Conns, Handled(c) PROVE handled'[k] > 0
    <2>1. handled' = [handled EXCEPT ![msg[c]] = IF @ = 2 THEN 2 ELSE @ + 1]
      BY <1>2 DEF Handled
    <2>2. handled \in [Messages -> 0..2] BY TypeParts DEF HistoryTypes
    <2>3. handled[k] \in Nat BY <2>2
    <2>4. handled'[k] \in {handled[k], 2, handled[k] + 1} BY <2>1, <2>2
    <2> QED BY <2>3, <2>4
  <1> QED BY <1>1, <1>2, HandledMoves

(* A handler that ends has handled its message, now or before, or raised.  *)
LEMMA HandlerEnds ==
    ASSUME TypeInv, NEW c \in Conns, Handled(c) \/ NotHandled(c)
    PROVE  \/ handled'[msg[c]] > 0
           \/ NotHandled(c) /\ msg[c] \in raised'
  <1>1. msg[c] \in Messages BY UnderwayAtEnd
  <1>2. handled \in [Messages -> 0..2] BY TypeParts DEF HistoryTypes
  <1>3. handled[msg[c]] \in Nat BY <1>1, <1>2
  <1>4. CASE Handled(c)
    <2>1. handled' = [handled EXCEPT ![msg[c]] = IF @ = 2 THEN 2 ELSE @ + 1]
      BY <1>4 DEF Handled
    <2>2. handled'[msg[c]] \in {2, handled[msg[c]] + 1} BY <1>1, <1>2, <2>1
    <2> QED BY <1>3, <2>2
  <1>5. CASE NotHandled(c)
    BY <1>3, <1>5 DEF NotHandled
  <1> QED BY <1>4, <1>5

(* Only success clears the mark of a handling that raised.                 *)
LEMMA RaisedStays ==
    ASSUME TypeInv, [Next]_vars, NEW k \in raised
    PROVE  k \in raised' \/ handled'[k] > 0
  <1>1. ASSUME NEW c \in Conns, Handled(c) PROVE k \in raised' \/ handled'[k] > 0
    <2>1. raised' = raised \ {msg[c]} BY <1>1 DEF Handled
    <2>2. handled'[msg[c]] > 0 \/ NotHandled(c) BY <1>1, HandlerEnds
    <2>3. ~NotHandled(c) \/ raised \subseteq raised' BY DEF NotHandled
    <2> QED BY <2>1, <2>2, <2>3
  <1>2. ASSUME ~\E c \in Conns : Handled(c) PROVE raised \subseteq raised'
    BY <1>2 DEF Next, Handler, Tab, Receive, Enter, NotHandled, SessionSync,
         ListAllPending, Deliver, MarkDelivered, Break, ServerNotices, TakeSocket,
         SendTaskEvent, TypeMessage, AckTimeout, DropStale, Connect, ReadAck,
         ReadSyncAck, OnClose, FlushAnyway, Restart, vars, msgHistory, retryHistory
  <1> QED BY <1>1, <1>2

(* A message leaves its handler when that ends, or the process does.       *)
LEMMA HandlerKeeps ==
    ASSUME TypeInv, [Next]_vars, ~Restart, NEW d \in Conns, NEW k \in Messages,
           msg[d] = k
    PROVE  msg'[d] = k \/ handled'[k] > 0 \/ k \in raised'
  <1>0. k # None BY ClientLinkAssumption
  <1>1. ASSUME NEW c \in Conns, NEW m \in Messages, Receive(c, m)
        PROVE  msg'[d] = k
    BY <1>0, <1>1, UnderwayAtReceive
  <1>2. ASSUME NEW c \in Conns, Handled(c) \/ NotHandled(c)
        PROVE  msg'[d] = k \/ handled'[k] > 0 \/ k \in raised'
    <2>1. CASE d = c BY <1>2, <2>1, HandlerEnds
    <2>2. CASE d # c BY <1>2, <2>2, UnderwayAtEnd
    <2> QED BY <2>1, <2>2
  <1>3. ASSUME \/ \E c \in Conns :
                    \/ Enter(c) \/ SessionSync(c) \/ ListAllPending(c)
                    \/ MarkDelivered(c) \/ \E e \in Events : Deliver(c, e)
                    \/ Break(c) \/ ServerNotices(c)
               \/ \E e \in Events : TakeSocket(e) \/ SendTaskEvent(e)
               \/ \E m \in Messages : TypeMessage(m) \/ AckTimeout(m) \/ DropStale(m)
               \/ Tab \/ FlushAnyway \/ UNCHANGED vars
        PROVE  msg' = msg
    BY <1>3 DEF Enter, SessionSync, ListAllPending, MarkDelivered, Deliver, Break,
                ServerNotices, TakeSocket, SendTaskEvent, TypeMessage, AckTimeout,
                DropStale, Tab, Connect, ReadAck, ReadSyncAck, OnClose, FlushAnyway,
                handlerVars, vars
  <1>4. CASE msg' = msg BY <1>4
  <1> QED BY <1>1, <1>2, <1>3, <1>4 DEF Next, Handler

LEMMA AckedStays ==
    ASSUME TypeInv, [Next]_vars, ~Restart, NEW k \in Messages, Acked(k)
    PROVE  Acked(k)'
  BY ExcusedGrows, RaisedStays, HandledGrows, HandlerKeeps DEF Acked

(* What the memory holds was handled.                                      *)
LEMMA SeenHandled ==
    ASSUME TypeInv, [Next]_vars, \A m \in seen : handled[m] > 0
    PROVE  \A m \in seen' : handled'[m] > 0
  <1> SUFFICES ASSUME NEW k \in seen' PROVE handled'[k] > 0 OBVIOUS
  <1>0. seen \subseteq Messages BY TypeParts DEF HandlerTypes
  <1>1. CASE k \in seen BY <1>0, <1>1, HandledGrows
  <1>2. CASE k \notin seen
    <2>1. ~Restart BY DEF Restart
    <2>2. ~ReadSyncAck BY <1>2 DEF ReadSyncAck, handlerVars
    <2>3. PICK c \in Conns : Handled(c) BY <1>2, <2>1, <2>2, Remembered
    <2>4. k = msg[c] BY <1>2, <2>3 DEF Handled
    <2>5. k \in Messages BY <2>3, <2>4, UnderwayAtEnd
    <2>6. handled' = [handled EXCEPT ![k] = IF @ = 2 THEN 2 ELSE @ + 1]
      BY <2>3, <2>4 DEF Handled
    <2>7. handled \in [Messages -> 0..2] BY TypeParts DEF HistoryTypes
    <2>8. handled[k] \in Nat BY <2>5, <2>7
    <2>9. handled'[k] \in {2, handled[k] + 1} BY <2>5, <2>6, <2>7
    <2> QED BY <2>8, <2>9
  <1> QED BY <1>1, <1>2

LEMMA AckFramesKept ==
    ASSUME TypeInv, AckInv, [Next]_vars, ~Restart,
           \A d \in Conns : \A i \in DOMAIN down'[d] :
               \/ \E j \in DOMAIN down[d] : down'[d][i] = down[d][j]
               \/ down'[d][i][1] = "ack" =>
                      \E k \in Messages : down'[d][i][2] = k /\ Acked(k)'
    PROVE  AckInv'
  <1>1. \A m \in seen' : handled'[m] > 0 BY AckParts, SeenHandled
  <1>2. ASSUME NEW d \in Conns, NEW i \in DOMAIN down'[d], down'[d][i][1] = "ack"
        PROVE  \E k \in Messages : down'[d][i][2] = k /\ Acked(k)'
    <2>1. CASE \E j \in DOMAIN down[d] : down'[d][i] = down[d][j]
      <3>1. PICK j \in DOMAIN down[d] : down'[d][i] = down[d][j] BY <2>1
      <3>2. down \in [Conns -> Seq(Replies)] BY TypeParts DEF NetTypes
      <3>3. down[d][j] \in Replies BY <3>2
      <3>4. down[d][j][2] \in Messages BY <1>2, <3>1, <3>3 DEF Replies
      <3>5. Acked(down[d][j][2]) BY <1>2, <3>1, AckParts DEF AckFrames
      <3>6. PICK k \in Messages : down[d][j][2] = k /\ Acked(k) BY <3>4, <3>5
      <3>7. Acked(k)' BY <3>6, AckedStays
      <3> QED BY <3>1, <3>6, <3>7
    <2> QED BY <1>2, <2>1
  <1>3. \A d \in Conns : \A i \in DOMAIN down'[d] : down'[d][i][1] = "ack" =>
            \/ down'[d][i][2] \in excused' \cup raised'
            \/ handled'[down'[d][i][2]] > 0
            \/ \E e \in Conns : msg'[e] = down'[d][i][2]
    BY <1>2 DEF Acked
  <1> QED BY <1>1, <1>3 DEF AckInv

LEMMA AckInvInductive ==
    ASSUME TypeInv, AckInv, [Next]_vars
    PROVE  AckInv'
  <1>1. CASE Restart
    <2>1. down' = [c \in Conns |-> <<>>] /\ seen' = {} BY <1>1 DEF Restart
    <2> QED BY <2>1 DEF AckInv
  <1>2. ASSUME NEW c \in Conns, NEW m \in Messages, Receive(c, m), ~Restart
        PROVE  AckInv'
    <2>1. CASE Raises(c)
      <3>1. down' = down BY <1>2, <2>1 DEF Receive
      <3> QED BY <1>2, <3>1, AckFramesKept
    <2>2. CASE ~Raises(c)
      <3>1. Send(c, <<"ack", m>>) /\ handled' = handled BY <1>2, <2>2 DEF Receive
      <3>2. <<"ack", m>> \in Replies BY DEF Replies
      <3>3. m \in seen \/ msg'[c] = m BY <1>2, <2>2, UnderwayAtReceive
      <3>4. Acked(m)' BY <3>1, <3>3 DEF Acked, AckInv
      <3>5. \A d \in Conns : \A i \in DOMAIN down'[d] :
                \/ i \in DOMAIN down[d] /\ down'[d][i] = down[d][i]
                \/ down'[d][i] = <<"ack", m>>
        BY <3>1, <3>2, SentFrames
      <3>6. \A d \in Conns : \A i \in DOMAIN down'[d] :
                \/ \E j \in DOMAIN down[d] : down'[d][i] = down[d][j]
                \/ \E k \in Messages : down'[d][i][2] = k /\ Acked(k)'
        BY <3>4, <3>5
      <3> QED BY <1>2, <3>6, AckFramesKept
    <2> QED BY <2>1, <2>2
  <1>3. ASSUME NEW c \in Conns, SessionSync(c), ~Restart PROVE AckInv'
    <2>1. CASE Raises(c)
      <3>1. down' = down BY <1>3, <2>1 DEF SessionSync
      <3> QED BY <1>3, <3>1, AckFramesKept
    <2>2. CASE ~Raises(c)
      <3>1. Send(c, <<"boot", boot>>) BY <1>3, <2>2 DEF SessionSync
      <3>2. boot \in Boots BY TypeParts DEF HandlerTypes
      <3>3. <<"boot", boot>> \in Replies BY <3>2 DEF Replies
      <3>4. \A d \in Conns : \A i \in DOMAIN down'[d] :
                \/ i \in DOMAIN down[d] /\ down'[d][i] = down[d][i]
                \/ down'[d][i] = <<"boot", boot>>
        BY <3>1, <3>3, SentFrames
      <3>5. \A d \in Conns : \A i \in DOMAIN down'[d] :
                \/ \E j \in DOMAIN down[d] : down'[d][i] = down[d][j]
                \/ down'[d][i][1] # "ack"
        BY <3>4
      <3> QED BY <1>3, <3>5, AckFramesKept
    <2> QED BY <2>1, <2>2
  <1>4. ASSUME ReadAck \/ ReadSyncAck, ~Restart PROVE AckInv'
    <2>1. Incoming("ack") \/ Incoming("boot") BY <1>4 DEF ReadAck, ReadSyncAck
    <2>2. \A d \in Conns : \A i \in DOMAIN down'[d] :
                \E j \in DOMAIN down[d] : down'[d][i] = down[d][j]
      BY <2>1, ReadFrames
    <2> QED BY <1>4, <2>2, AckFramesKept
  <1>5. ASSUME NEW c \in Conns, Break(c), ~Restart PROVE AckInv'
    <2>1. down' = [down EXCEPT ![c] = <<>>] BY <1>5 DEF Break
    <2>2. down \in [Conns -> Seq(Replies)] BY TypeParts DEF NetTypes
    <2>3. \A d \in Conns : \A i \in DOMAIN down'[d] :
                \E j \in DOMAIN down[d] : down'[d][i] = down[d][j]
      BY <2>1, <2>2
    <2> QED BY <1>5, <2>3, AckFramesKept
  <1>6. ASSUME down' = down, ~Restart PROVE AckInv'
    BY <1>6, AckFramesKept
  <1>7. ASSUME \/ \E c \in Conns :
                    \/ Enter(c) \/ Handled(c) \/ NotHandled(c) \/ ListAllPending(c)
                    \/ MarkDelivered(c) \/ \E e \in Events : Deliver(c, e)
                    \/ ServerNotices(c)
               \/ \E e \in Events : TakeSocket(e) \/ SendTaskEvent(e)
               \/ \E m \in Messages : TypeMessage(m) \/ AckTimeout(m) \/ DropStale(m)
               \/ Connect \/ OnClose \/ FlushAnyway \/ UNCHANGED vars
        PROVE  down' = down
    BY <1>7 DEF Enter, Handled, NotHandled, ListAllPending, MarkDelivered, Deliver,
                ServerNotices, TakeSocket, SendTaskEvent, TypeMessage, AckTimeout,
                DropStale, Connect, OnClose, FlushAnyway, netVars, vars
  <1> QED
    BY <1>1, <1>2, <1>3, <1>4, <1>5, <1>6, <1>7 DEF Next, Handler, Tab

-----------------------------------------------------------------------------
(* Not forgotten: what each step does to one message.                      *)

Held(m) ==
    \/ m \in pending \cup offline \cup excused \cup swallowed
    \/ handled[m] > 0 \/ Underway(m)

(* What the tab sends and the connection takes is under way.               *)
LEMMA SentIsUnderway ==
    ASSUME TypeInv, NEW k \in Messages, Sends(k)
    PROVE  Underway(k)'
  <1>1. cur # None /\ link[cur] = "open" BY DEF Sends
  <1>2. ASSUME NEW ms, k \in ms, Arrive(ms), msg' = msg PROVE Underway(k)'
    BY <1>1, <1>2, UnderwayAtUpload
  <1>3. CASE TypeMessage(k) \/ AckTimeout(k)
    <2>1. Arrive({k}) /\ msg' = msg
      BY <1>1, <1>3, TypeMessageArrives, AckTimeoutArrives
    <2> QED BY <1>2, <2>1
  <1>4. CASE ReadSyncAck /\ k \in StillKept
    BY <1>2, <1>4, ReadSyncAckArrives
  <1>5. CASE FlushAnyway /\ k \in pending \cup offline
    BY <1>2, <1>5, FlushAnywayArrives
  <1> QED BY <1>3, <1>4, <1>5 DEF Sends

(* A message whose handling raises is swallowed only with its last copy.   *)
LEMMA RaisedIsHeld ==
    ASSUME TypeInv, NEW c \in Conns, NEW k \in Messages, NotHandled(c), msg[c] = k
    PROVE  \/ Underway(k)' \/ k \in swallowed' \/ handled'[k] > 0
           \/ k \in pending \cup offline /\ UNCHANGED <<pending, offline>>
  <1>1. /\ Swallow(k) /\ UNCHANGED <<pending, offline>>
    BY DEF NotHandled, tabVars
  <1>2. handled'[k] > 0 \/ k \in raised' BY HandlerEnds
  <1>3. (\E d \in Conns : msg'[d] = k \/ k \in ChatsIn(up'[d])) => Underway(k)'
    BY DEF Underway, ChatsIn
  <1> QED BY <1>1, <1>2, <1>3 DEF Swallow

(* What leaves the connections is with its handler's outcome, or kept, or  *)
(* given up, or swallowed.                                                 *)
LEMMA UnderwayIsHeld ==
    ASSUME TypeInv, AckInv, [Next]_vars, NEW k \in Messages, Underway(k)
    PROVE  \/ Underway(k)' \/ k \in excused' \cup swallowed' \/ handled'[k] > 0
           \/ k \in pending \cup offline /\ UNCHANGED <<pending, offline>>
  <1>1. ASSUME NEW c \in Conns, NEW m \in Messages, Receive(c, m)
        PROVE  \/ Underway(k)' \/ k \in excused' \/ handled'[k] > 0
               \/ k \in pending \cup offline /\ UNCHANGED <<pending, offline>>
    <2>1. CASE k # m BY <1>1, <2>1, UnderwayAtReceive
    <2>2. CASE k = m
      <3>1. CASE Raises(c)
        <4>1. Drop({k}) /\ UNCHANGED <<pending, offline>>
          BY <1>1, <2>2, <3>1 DEF Receive, tabVars
        <4> QED BY <4>1 DEF Drop
      <3>2. CASE ~Raises(c) /\ m \in seen
        <4>1. handled[k] > 0 BY <2>2, <3>2 DEF AckInv
        <4> QED BY <4>1, HandledGrows
      <3>3. CASE ~Raises(c) /\ m \notin seen
        <4>1. msg'[c] = k BY <1>1, <2>2, <3>3, UnderwayAtReceive
        <4>2. Underway(k)' BY <4>1 DEF Underway
        <4> QED BY <4>2
      <3> QED BY <3>1, <3>2, <3>3
    <2> QED BY <2>1, <2>2
  <1>2. ASSUME NEW c \in Conns, Handled(c) \/ NotHandled(c)
        PROVE  \/ Underway(k)' \/ k \in swallowed' \/ handled'[k] > 0
               \/ k \in pending \cup offline /\ UNCHANGED <<pending, offline>>
    <2>1. CASE k # msg[c] BY <1>2, <2>1, UnderwayAtEnd
    <2>2. CASE k = msg[c] /\ NotHandled(c)
      BY <2>2, RaisedIsHeld
    <2>3. CASE k = msg[c] /\ ~NotHandled(c) BY <1>2, <2>3, HandlerEnds
    <2> QED BY <2>1, <2>2, <2>3
  <1>3. ASSUME NEW c \in Conns, SessionSync(c) PROVE Underway(k)'
    BY <1>3, UnderwayAtSync
  <1>4. ASSUME NEW m \in Messages, TypeMessage(m) \/ AckTimeout(m)
        PROVE Underway(k)'
    <2>1. CASE cur = None
      <3>1. NoTraffic
        BY <1>4, <2>1 DEF TypeMessage, AckTimeout, NoTraffic, handlerVars
      <3> QED BY <3>1, UnderwayStays
    <2>2. CASE cur # None
      <3>1. Arrive({m}) /\ msg' = msg
        BY <1>4, <2>2, TypeMessageArrives, AckTimeoutArrives
      <3> QED BY <2>2, <3>1, UnderwayAtUpload
    <2> QED BY <2>1, <2>2
  <1>5. CASE ReadSyncAck
    <2>1. cur # None BY <1>5 DEF ReadSyncAck, Incoming
    <2>2. Arrive(StillKept) /\ msg' = msg BY <1>5, ReadSyncAckArrives
    <2> QED BY <2>1, <2>2, UnderwayAtUpload
  <1>6. CASE FlushAnyway
    <2>1. cur # None BY <1>6 DEF FlushAnyway
    <2>2. Arrive(pending \cup offline) /\ msg' = msg BY <1>6, FlushAnywayArrives
    <2> QED BY <2>1, <2>2, UnderwayAtUpload
  <1>7. CASE Connect
    BY <1>7, UnderwayAtConnect
  <1>8. ASSUME NEW c \in Conns, Break(c)
        PROVE  \/ Underway(k)' \/ k \in excused'
               \/ k \in pending \cup offline /\ UNCHANGED <<pending, offline>>
    <2>1. UNCHANGED <<pending, offline>> BY <1>8 DEF Break, tabVars
    <2> QED BY <1>8, <2>1, UnderwayAtBreak
  <1>9. CASE Restart
    <2>1. UNCHANGED <<pending, offline>> BY <1>9 DEF Restart, tabVars
    <2> QED BY <1>9, <2>1, UnderwayAtRestart
  <1>10. CASE NoTraffic
    BY <1>10, UnderwayStays
  <1>11. ASSUME \/ \E c \in Conns :
                    \/ Enter(c) \/ ListAllPending(c) \/ MarkDelivered(c)
                    \/ \E e \in Events : Deliver(c, e)
                    \/ ServerNotices(c)
                \/ \E e \in Events : TakeSocket(e) \/ SendTaskEvent(e)
                \/ \E m \in Messages : DropStale(m)
                \/ ReadAck \/ OnClose \/ UNCHANGED vars
         PROVE  NoTraffic
    BY <1>11 DEF Enter, ListAllPending, MarkDelivered, Deliver, ServerNotices,
                 TakeSocket, SendTaskEvent, DropStale, ReadAck, OnClose,
                 netVars, handlerVars, vars, NoTraffic
  <1> QED
    BY <1>1, <1>2, <1>3, <1>4, <1>5, <1>6, <1>7, <1>8, <1>9, <1>10, <1>11
       DEF Next, Handler, Tab

(* What leaves the tab was handled, is under way, given up or swallowed.   *)
LEMMA KeptIsHeld ==
    ASSUME TypeInv, AckInv, [Next]_vars, NEW k \in Messages,
           k \in pending \cup offline
    PROVE  Held(k)'
  <1>1. ASSUME NEW m \in Messages, TypeMessage(m) PROVE Held(k)'
    BY <1>1 DEF TypeMessage, Held
  <1>2. ASSUME NEW m \in Messages, AckTimeout(m) PROVE Held(k)'
    <2>1. CASE k # m BY <1>2, <2>1 DEF AckTimeout, Held
    <2>2. CASE k = m /\ cur = None BY <1>2, <2>2 DEF AckTimeout, Held
    <2>3. CASE k = m /\ cur # None /\ link[cur] = "open"
      <3>1. Underway(k)' BY <1>2, <2>3, SentIsUnderway DEF Sends
      <3> QED BY <3>1 DEF Held, Underway, ChatsIn
    <2>4. CASE k = m /\ cur # None /\ link[cur] # "open"
      BY <1>2, <2>4 DEF AckTimeout, Held
    <2> QED BY <2>1, <2>2, <2>3, <2>4
  <1>3. CASE ReadAck
    <2>1. /\ Incoming("ack") /\ pending' = pending \ {Head(down[cur])[2]}
          /\ UNCHANGED <<offline, msg, up, handled, excused, raised>>
          /\ Swallow(Head(down[cur])[2])
      BY <1>3 DEF ReadAck, handlerVars
    <2>2. CASE k # Head(down[cur])[2]
      <3>1. k \in pending' \cup offline' BY <2>1, <2>2
      <3> QED BY <3>1 DEF Held
    <2>3. CASE k = Head(down[cur])[2]
      <3>1. Acked(k)
        BY <2>1, <2>3, IncomingReply, AckParts DEF AckFrames
      <3>2. (\E d \in Conns : msg'[d] = k \/ k \in ChatsIn(up'[d])) => Underway(k)'
        BY DEF Underway, ChatsIn
      <3>3. k \in raised => \/ k \in swallowed' \cup pending' \cup offline'
                            \/ Underway(k)'
        BY <2>1, <2>3, <3>2 DEF Swallow
      <3>4. k \in excused' \cup raised \/ handled'[k] > 0 \/ Underway(k)'
        BY <2>1, <3>1 DEF Acked, Underway
      <3> QED BY <3>3, <3>4 DEF Held, Underway, ChatsIn
    <2> QED BY <2>2, <2>3
  <1>4. CASE ReadSyncAck
    <2>1. (pending \cup offline) \ StillKept \subseteq excused'
      BY <1>4, ReadSyncAckArrives
    <2>2. cur # None /\ link[cur] = "open"
      BY <1>4, IncomingReply DEF ReadSyncAck
    <2>3. k \in StillKept => Underway(k)'
      BY <1>4, <2>2, SentIsUnderway DEF Sends
    <2> QED BY <2>1, <2>3 DEF Held, Underway, ChatsIn
  <1>5. CASE FlushAnyway
    <2>1. /\ cur # None /\ pending' = pending
          /\ link[cur] # "open" => offline \ pending \subseteq excused'
      BY <1>5 DEF FlushAnyway
    <2>2. link[cur] = "open" => Underway(k)'
      BY <1>5, <2>1, SentIsUnderway DEF Sends
    <2> QED BY <2>1, <2>2 DEF Held, Underway, ChatsIn
  <1>6. ASSUME NEW m \in Messages, DropStale(m) PROVE Held(k)'
    BY <1>6 DEF DropStale, Held
  <1>7. CASE UNCHANGED <<pending, offline>>
    BY <1>7 DEF Held
  <1>8. ASSUME \/ \E c \in Conns : Handler(c) \/ Break(c) \/ ServerNotices(c)
               \/ \E e \in Events : TakeSocket(e) \/ SendTaskEvent(e)
               \/ Connect \/ OnClose \/ Restart \/ UNCHANGED vars
        PROVE  UNCHANGED <<pending, offline>>
    BY <1>8 DEF Handler, Receive, Enter, Handled, NotHandled, SessionSync,
                ListAllPending, MarkDelivered, Deliver, Break, ServerNotices,
                TakeSocket, SendTaskEvent, Connect, OnClose, Restart, tabVars, vars
  <1> QED
    BY <1>1, <1>2, <1>3, <1>4, <1>5, <1>6, <1>7, <1>8 DEF Next, Tab

LEMMA HeldStays ==
    ASSUME TypeInv, AckInv, [Next]_vars, NEW k \in Messages, Held(k)
    PROVE  Held(k)'
  <1>1. CASE k \in pending \cup offline BY <1>1, KeptIsHeld
  <1>2. CASE k \in excused \cup swallowed
    BY <1>2, ExcusedGrows, SwallowedGrows DEF Held
  <1>3. CASE handled[k] > 0 BY <1>3, HandledGrows DEF Held
  <1>4. CASE Underway(k)
    <2>1. \/ Underway(k)' \/ k \in excused' \cup swallowed' \/ handled'[k] > 0
          \/ k \in pending' \cup offline'
      BY <1>4, UnderwayIsHeld
    <2> QED BY <2>1 DEF Held, Underway, ChatsIn
  <1> QED BY <1>1, <1>2, <1>3, <1>4 DEF Held

(* What raised or was swallowed was typed.                                 *)
RaisedTyped == raised \cup swallowed \subseteq typed

LEMMA RaisedGrows ==
    ASSUME [Next]_vars
    PROVE  \A k \in raised' \ raised : \E c \in Conns : NotHandled(c) /\ k = msg[c]
  BY DEF Next, Handler, Tab, Receive, Enter, Handled, NotHandled, SessionSync,
         ListAllPending, Deliver, MarkDelivered, Break, ServerNotices, TakeSocket,
         SendTaskEvent, TypeMessage, AckTimeout, DropStale, Connect, ReadAck,
         ReadSyncAck, OnClose, FlushAnyway, Restart, vars, msgHistory, retryHistory

LEMMA SwallowedLast ==
    ASSUME [Next]_vars
    PROVE  \A k \in swallowed' \ swallowed :
                /\ k \in raised' /\ k \notin pending' \cup offline'
                /\ \A d \in Conns : msg'[d] # k /\ k \notin ChatsIn(up'[d])
  <1>1. ASSUME \E m : Swallow(m)
        PROVE  \A k \in swallowed' \ swallowed :
                    /\ k \in raised' /\ k \notin pending' \cup offline'
                    /\ \A d \in Conns : msg'[d] # k /\ k \notin ChatsIn(up'[d])
    BY <1>1 DEF Swallow
  <1>2. swallowed' = swallowed \/ \E m : Swallow(m)
    BY DEF Next, Handler, Tab, Receive, Enter, Handled, NotHandled, SessionSync,
         ListAllPending, Deliver, MarkDelivered, Break, ServerNotices, TakeSocket,
         SendTaskEvent, TypeMessage, AckTimeout, DropStale, Connect, ReadAck,
         ReadSyncAck, OnClose, FlushAnyway, Restart, vars, msgHistory, retryHistory
  <1> QED BY <1>1, <1>2

LEMMA RaisedTypedInductive ==
    ASSUME TypeInv, Untyped, RaisedTyped, [Next]_vars
    PROVE  RaisedTyped'
  <1>1. typed \subseteq typed' BY TypedGrows
  <1>2. ASSUME NEW k \in raised', k \notin raised PROVE k \in typed
    <2>1. PICK c \in Conns : NotHandled(c) /\ k = msg[c] BY <1>2, RaisedGrows
    <2>2. k \in Messages BY <2>1, UnderwayAtEnd
    <2> QED BY <2>1, <2>2 DEF Untyped, Underway
  <1>3. \A k \in swallowed' : k \in swallowed \cup raised' BY SwallowedLast
  <1> QED BY <1>1, <1>2, <1>3 DEF RaisedTyped

(* What was swallowed does not come back.                                  *)
LEMMA SwallowedIsGone ==
    ASSUME TypeInv, RaisedTyped, NotForgotten, [Next]_vars, NEW k \in swallowed'
    PROVE  k \notin pending' \cup offline' /\ ~Underway(k)'
  <1>1. CASE k \notin swallowed
    <2>1. ~Underway(k)' BY <1>1, SwallowedLast DEF Underway, ChatsIn
    <2> QED BY <1>1, <2>1, SwallowedLast
  <1>2. CASE k \in swallowed
    <2>1. k \in Messages /\ k \in typed /\ k \notin pending \cup offline /\ ~Underway(k)
      BY <1>2, TypeParts DEF HistoryTypes, RaisedTyped, NotForgotten
    <2>2. ~TypeMessage(k) BY <2>1 DEF TypeMessage
    <2>3. ~Underway(k)' BY <2>1, <2>2, OnlySent, SentWasTyped
    <2>4. pending' \cup offline' \subseteq pending \cup offline
                \/ \E m \in Messages : /\ TypeMessage(m) \/ m \in timers
                                       /\ pending' \cup offline' \subseteq pending \cup offline \cup {m}
      BY DEF Next, Handler, Tab, Receive, Enter, Handled, NotHandled, SessionSync,
         ListAllPending, Deliver, MarkDelivered, Break, ServerNotices, TakeSocket,
         SendTaskEvent, TypeMessage, AckTimeout, DropStale, Connect, ReadAck,
         ReadSyncAck, OnClose, FlushAnyway, Restart, vars, tabVars, Kept
    <2>5. k \notin timers BY <2>1, TypeParts DEF TabTypes, TabShape
    <2> QED BY <2>1, <2>2, <2>3, <2>4, <2>5
  <1> QED BY <1>1, <1>2

LEMMA NotForgottenInductive ==
    ASSUME TypeInv, AckInv, RaisedTyped, NotForgotten, [Next]_vars
    PROVE  NotForgotten'
  <1>1. ASSUME NEW k \in typed' PROVE Held(k)'
    <2>1. CASE k \in typed
      <3>1. k \in Messages /\ Held(k)
        BY <2>1, TypeParts DEF TabTypes, NotForgotten, Held
      <3> QED BY <3>1, HeldStays
    <2>2. CASE k \notin typed
      <3>1. PICK m \in Messages : TypeMessage(m) BY <2>2, TypedGrows
      <3>2. k \in pending' BY <1>1, <2>2, <3>1 DEF TypeMessage
      <3> QED BY <3>2 DEF Held
    <2> QED BY <2>1, <2>2
  <1> QED BY <1>1, SwallowedIsGone DEF NotForgotten, Held, Underway, ChatsIn

(* A message the user typed is kept by the tab, under way, handled, given  *)
(* up for one of the named reasons, or swallowed: its handling raised, and *)
(* nobody, the tab least of all (useWebSocket.ts:77), has a copy left.     *)
(* So it is over any number of connections and restarts.                   *)
THEOREM NothingForgotten == Spec => []NotForgotten
  <1> DEFINE Inv == TypeInv /\ Untyped /\ AckInv /\ RaisedTyped /\ NotForgotten
  <1>1. Init => Inv
    <2> SUFFICES ASSUME Init PROVE Untyped /\ AckInv /\ RaisedTyped /\ NotForgotten
      BY TypeInit
    <2>1. Untyped
      <3>1. \A m \in Messages : handled[m] = 0 /\ m # None
        BY ClientLinkAssumption DEF Init
      <3>2. \A c \in Conns : msg[c] = None /\ up[c] = <<>> BY DEF Init
      <3> QED BY <3>1, <3>2 DEF Untyped, Underway, ChatsIn
    <2> QED BY <2>1 DEF Init, AckInv, RaisedTyped, NotForgotten
  <1>2. Inv /\ [Next]_vars => Inv'
    BY TypeInvInductive, UntypedInductive, AckInvInductive, RaisedTypedInductive,
       NotForgottenInductive
  <1> QED BY <1>1, <1>2, PTL DEF Spec

=============================================================================
