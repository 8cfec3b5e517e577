------------------------ MODULE CallbackTurnsProofs ------------------------
(***************************************************************************)
(* Theorems about CallbackTurns, for any number of completions, user turns *)
(* and direct re-triggers, and any bound of the buffer and of a peek.      *)
(***************************************************************************)
EXTENDS CallbackTurns, FiniteSetTheorems, SequenceTheorems, TLAPS

Places == {"idle", "sleeping", "waiting", "gone"} \cup Holding

-----------------------------------------------------------------------------
(* Lemmas about the sequences of the model.                                *)

(* A new event enters the deque: it is the last, and at most the first one *)
(* makes room for it.                                                      *)
LEMMA BoundedAppend ==
    ASSUME NEW b \in Seq(Events), Len(b) <= MaxEvents, NEW e \in Events
    PROVE  /\ Bounded(Append(b, e)) \in Seq(Events)
           /\ Len(Bounded(Append(b, e))) <= MaxEvents
           /\ Len(b) < MaxEvents => Bounded(Append(b, e)) = Append(b, e)
  <1> DEFINE a == Append(b, e)
  <1>1. a \in Seq(Events) /\ a # <<>> /\ Len(a) = Len(b) + 1
    BY AppendProperties
  <1>2. Tail(a) \in Seq(Events) /\ Len(Tail(a)) = Len(a) - 1
    BY <1>1, HeadTailProperties
  <1>3. MaxEvents \in Nat /\ Len(b) \in Nat
    BY TurnsAssumption, LenProperties
  <1> HIDE DEF a
  <1> QED BY <1>1, <1>2, <1>3 DEF Bounded, a

(* Events acknowledged at the front leave the rest in place.               *)
LEMMA Rest ==
    ASSUME NEW S, NEW s \in Seq(S), NEW n \in 0..Len(s)
    PROVE  LET r == SubSeq(s, n + 1, Len(s)) IN
           /\ r \in Seq(S)
           /\ Len(r) = Len(s) - n
           /\ \A i \in 1..Len(r) : r[i] = s[n + i]
  <1>1. Len(s) \in Nat BY LenProperties
  <1>2. \A i \in n + 1..Len(s) : s[i] \in S BY <1>1, ElementOfSeq
  <1>3. n + 1 \in Int /\ Len(s) \in Int BY <1>1
  <1> DEFINE r == SubSeq(s, n + 1, Len(s))
  <1>4. /\ r \in Seq(S)
        /\ Len(r) = IF n + 1 <= Len(s) THEN Len(s) - (n + 1) + 1 ELSE 0
        /\ \A i \in 1..Len(s) - (n + 1) + 1 : r[i] = s[n + 1 + i - 1]
    BY <1>2, <1>3, SubSeqProperties
  <1> HIDE DEF r
  <1>5. Len(r) = Len(s) - n BY <1>1, <1>4
  <1>6. \A i \in 1..Len(r) : r[i] = s[n + i] BY <1>1, <1>4, <1>5
  <1> QED BY <1>4, <1>5, <1>6 DEF r

(* A waiter that gives up leaves the order of the others.                  *)
LEMMA Removed ==
    ASSUME NEW S, NEW s \in Seq(S), NEW i \in 1..Len(s)
    PROVE  /\ RemoveAt(s, i) \in Seq(S)
           /\ Len(RemoveAt(s, i)) = Len(s) - 1
           /\ \A j \in 1..Len(s) - 1 :
                RemoveAt(s, i)[j] = IF j < i THEN s[j] ELSE s[j + 1]
  <1>1. Len(s) \in Nat BY LenProperties
  <1>2. \A j \in 1..Len(s) : s[j] \in S BY ElementOfSeq
  <1> DEFINE front == SubSeq(s, 1, i - 1)
             rear == SubSeq(s, i + 1, Len(s))
  <1>3. /\ front \in Seq(S)
        /\ Len(front) = i - 1
        /\ \A j \in 1..i - 1 : front[j] = s[j]
    <2>1. \A j \in 1..i - 1 : s[j] \in S BY <1>1, <1>2
    <2>2. /\ front \in Seq(S)
          /\ Len(front) = IF 1 <= i - 1 THEN (i - 1) - 1 + 1 ELSE 0
          /\ \A j \in 1..(i - 1) - 1 + 1 : front[j] = s[1 + j - 1]
      BY <1>1, <2>1, SubSeqProperties
    <2> HIDE DEF front
    <2> QED BY <1>1, <2>2
  <1>4. /\ rear \in Seq(S)
        /\ Len(rear) = Len(s) - i
        /\ \A j \in 1..Len(rear) : rear[j] = s[i + j]
    BY <1>1, Rest
  <1> HIDE DEF front, rear
  <1>5. /\ front \o rear \in Seq(S)
        /\ Len(front \o rear) = Len(s) - 1
        /\ \A j \in 1..Len(s) - 1 :
             (front \o rear)[j] = IF j <= i - 1 THEN front[j] ELSE rear[j - (i - 1)]
    <2>1. Len(front) + Len(rear) = Len(s) - 1 BY <1>1, <1>3, <1>4
    <2>2. /\ front \o rear \in Seq(S)
          /\ Len(front \o rear) = Len(front) + Len(rear)
          /\ \A j \in 1..Len(front) + Len(rear) :
               (front \o rear)[j] = IF j <= Len(front) THEN front[j]
                                                       ELSE rear[j - Len(front)]
      BY <1>3, <1>4, ConcatProperties
    <2> QED BY <1>3, <2>1, <2>2
  <1>6. ASSUME NEW j \in 1..Len(s) - 1
        PROVE  (front \o rear)[j] = IF j < i THEN s[j] ELSE s[j + 1]
    <2>1. CASE j < i BY <1>1, <1>3, <1>5, <2>1
    <2>2. CASE ~(j < i)
      <3>1. j - (i - 1) \in 1..Len(rear) BY <1>1, <1>4, <2>2
      <3>2. rear[j - (i - 1)] = s[j + 1] BY <1>1, <1>4, <3>1
      <3> QED BY <1>1, <1>5, <2>2, <3>2
    <2> QED BY <2>1, <2>2
  <1> QED BY <1>5, <1>6 DEF RemoveAt, front, rear

-----------------------------------------------------------------------------
(* Type correctness.  The generation is bounded because it counts the user *)
(* turns that have entered, and the lock's queue is a sequence because the *)
(* turn that leaves is its first: the strengthening.                       *)

Entered == {u \in Users : pc[u] # "idle"}

TypeInv == TypeOK /\ gen = Cardinality(Entered)

\* The lock is held by one turn, the first of its queue; the others wait, and
\* none of them is lost.
InQueue(t) == \E i \in 1..Len(lockQueue) : lockQueue[i] = t

LockInv ==
    /\ \A t \in Turns : pc[t] \in Holding => lockQueue # <<>> /\ lockQueue[1] = t
    /\ \A t \in Turns : pc[t] = "waiting" => InQueue(t)
    /\ \A i \in 1..Len(lockQueue) : pc[lockQueue[i]] \in Holding \cup {"waiting"}
    /\ \A i, j \in 1..Len(lockQueue) : lockQueue[i] = lockQueue[j] => i = j

LEMMA UsersFinite ==
    /\ IsFiniteSet(Users) /\ Cardinality(Users) \in Nat
    /\ \A U \in SUBSET Users : IsFiniteSet(U) /\ Cardinality(U) \in 0..Cardinality(Users)
  <1>1. IsFiniteSet(Users) BY TurnsAssumption, FS_Subset DEF Turns
  <1> QED BY <1>1, FS_CardinalityType, FS_Subset

LEMMA TypeInit == Init => TypeInv
  <1> SUFFICES ASSUME Init PROVE TypeInv
    OBVIOUS
  <1>1. Entered = {} BY DEF Init, Entered, Turns
  <1>2. gen = Cardinality(Entered) /\ gen \in 0..Cardinality(Users)
    BY <1>1, FS_EmptySet, UsersFinite DEF Init
  <1>3. buffer \in Seq(Events) /\ Len(buffer) <= MaxEvents /\ lockQueue \in Seq(Turns)
    BY TurnsAssumption, EmptySeq DEF Init
  <1>4. count \in [Turns -> 0..PeekLimit] /\ pc \in [Turns -> Places]
    BY TurnsAssumption DEF Init, Places
  <1>5. peeked \in [Turns -> SUBSET Events] /\ snap \in [Turns -> 0..Cardinality(Users)]
    BY UsersFinite DEF Init
  <1> QED BY <1>2, <1>3, <1>4, <1>5 DEF Init, TypeInv, TypeOK, Places

(* A step that starts no user turn leaves the count.                       *)
LEMMA GenKept ==
    ASSUME TypeInv, gen' = gen, \A u \in Users : pc'[u] = "idle" <=> pc[u] = "idle"
    PROVE  gen' = Cardinality(Entered') /\ gen' \in 0..Cardinality(Users)
  <1>1. Entered' = Entered BY DEF Entered
  <1> QED BY <1>1 DEF TypeInv, TypeOK

(* The lock's queue grows by the turn that enters.                         *)
LEMMA EnqueueTyped ==
    ASSUME TypeOK, NEW t \in Turns, Enqueue(t)
    PROVE  /\ lockQueue' \in Seq(Turns)
           /\ pc' \in [Turns -> Places]
           /\ pc'[t] \in {"resolving", "waiting"}
           /\ \A u \in Turns \ {t} : pc'[u] = pc[u]
  <1>1. lockQueue' \in Seq(Turns)
    BY AppendProperties DEF TypeOK, Enqueue
  <1> QED BY <1>1 DEF TypeOK, Enqueue, Goto, Places, Holding

LEMMA TypeNext == TypeInv /\ LockInv /\ [Next]_vars => TypeInv'
  <1> SUFFICES ASSUME TypeInv, LockInv, [Next]_vars PROVE TypeInv'
    OBVIOUS
  <1>0. Users \subseteq Turns /\ Events \subseteq Turns /\ Callbacks \subseteq Turns
        /\ Events \subseteq Callbacks /\ Users \cap Callbacks = {}
    BY TurnsAssumption DEF Turns, Callbacks
  <1> USE <1>0 DEF Goto, At, Holding, bufVars, chatVars
  <1>1. ASSUME NEW e \in Events, Record(e) PROVE TypeInv'
    <2>1. buffer' \in Seq(Events) /\ Len(buffer') <= MaxEvents
      BY <1>1, BoundedAppend DEF Record, TypeInv, TypeOK
    <2>2. /\ pc' \in [Turns -> Places] /\ armed' \in SUBSET Events
          /\ \A u \in Users : pc'[u] = "idle" <=> pc[u] = "idle"
      BY <1>1 DEF Record, TypeInv, TypeOK, Places
    <2>3. gen' = Cardinality(Entered') /\ gen' \in 0..Cardinality(Users)
      BY <1>1, <2>2, GenKept DEF Record
    <2> QED BY <1>1, <2>1, <2>2, <2>3 DEF Record, TypeInv, TypeOK, Places
  <1>2. ASSUME NEW e \in Events, SkipCallback(e) PROVE TypeInv'
    <2>1. \A u \in Users : pc'[u] = "idle" <=> pc[u] = "idle"
      BY <1>2 DEF SkipCallback, TypeInv, TypeOK
    <2>2. gen' = Cardinality(Entered') /\ gen' \in 0..Cardinality(Users)
      BY <1>2, <2>1, GenKept DEF SkipCallback
    <2> QED BY <1>2, <2>2 DEF SkipCallback, TypeInv, TypeOK
  <1>3. ASSUME NEW c \in Callbacks, EnterCallback(c) PROVE TypeInv'
    <2>1. lockQueue' \in Seq(Turns) /\ pc' \in [Turns -> Places]
          /\ \A u \in Users : pc'[u] = "idle" <=> pc[u] = "idle"
      BY <1>3, EnqueueTyped DEF EnterCallback, TypeInv
    <2>2. gen' = Cardinality(Entered') /\ gen' \in 0..Cardinality(Users)
      BY <1>3, <2>1, GenKept DEF EnterCallback
    <2> QED BY <1>3, <2>1, <2>2 DEF EnterCallback, TypeInv, TypeOK, Places
  <1>4. ASSUME NEW u \in Users, EnterUser(u) PROVE TypeInv'
    <2>1. /\ lockQueue' \in Seq(Turns) /\ pc' \in [Turns -> Places]
          /\ pc'[u] # "idle" /\ \A t \in Turns \ {u} : pc'[t] = pc[t]
      BY <1>4, EnqueueTyped DEF EnterUser, TypeInv
    <2>2. Entered' = Entered \cup {u} /\ u \notin Entered
      BY <1>4, <2>1 DEF EnterUser, Entered
    <2>3. gen' = Cardinality(Entered')
      BY <1>4, <2>2, UsersFinite, FS_AddElement DEF EnterUser, TypeInv, Entered
    <2>4. gen' \in 0..Cardinality(Users)
      BY <2>3, UsersFinite DEF Entered
    <2>5. snap' \in [Turns -> 0..Cardinality(Users)]
      BY <1>4, <2>4 DEF EnterUser, TypeInv, TypeOK
    <2> QED BY <1>4, <2>1, <2>3, <2>4, <2>5 DEF EnterUser, TypeInv, TypeOK, Places
  <1>5. ASSUME NEW t \in Turns, Peek(t) PROVE TypeInv'
    <2>1. \A u \in Users : pc'[u] = "idle" <=> pc[u] = "idle"
      BY <1>5 DEF Peek, TypeInv, TypeOK
    <2>2. gen' = Cardinality(Entered') /\ gen' \in 0..Cardinality(Users)
      BY <1>5, <2>1, GenKept DEF Peek
    <2>3. Peeked \in 0..PeekLimit /\ Peeked <= Len(buffer)
      BY TurnsAssumption, LenProperties DEF Peeked, TypeInv, TypeOK
    <2>4. {buffer[i] : i \in 1..Peeked} \in SUBSET Events
      BY <2>3, ElementOfSeq, LenProperties DEF TypeInv, TypeOK
    <2> QED BY <1>5, <2>2, <2>3, <2>4 DEF Peek, TypeInv, TypeOK
  <1>6. ASSUME NEW c \in Callbacks, FinishCallback(c) PROVE TypeInv'
    <2>1. \A u \in Users : pc'[u] = "idle" <=> pc[u] = "idle"
      BY <1>6 DEF FinishCallback, TypeInv, TypeOK
    <2>2. gen' = Cardinality(Entered') /\ gen' \in 0..Cardinality(Users)
      BY <1>6, <2>1, GenKept DEF FinishCallback
    <2>3. Acknowledged(c) \in 0..Len(buffer)
      BY TurnsAssumption, LenProperties DEF Acknowledged, TypeInv, TypeOK
    <2>4. {buffer[i] : i \in 1..Acknowledged(c)} \in SUBSET Events
      BY <2>3, ElementOfSeq, LenProperties DEF TypeInv, TypeOK
    <2>5. buffer' \in Seq(Events) /\ Len(buffer') <= Len(buffer)
      <3>1. buffer \in Seq(Events) /\ Len(buffer) \in Nat
        BY LenProperties DEF TypeInv, TypeOK
      <3>2. buffer' = SubSeq(buffer, Acknowledged(c) + 1, Len(buffer))
        BY <1>6 DEF FinishCallback
      <3>3. buffer' \in Seq(Events) /\ Len(buffer') = Len(buffer) - Acknowledged(c)
        BY <2>3, <3>1, <3>2, Rest
      <3> QED BY <2>3, <3>1, <3>3
    <2>6. Len(buffer') <= MaxEvents
      <3>1. Len(buffer') \in Nat BY <2>5, LenProperties
      <3>2. Len(buffer) \in Nat /\ Len(buffer) <= MaxEvents
        BY LenProperties DEF TypeInv, TypeOK
      <3>3. MaxEvents \in Nat BY TurnsAssumption
      <3> QED BY <2>5, <3>1, <3>2, <3>3
    <2> QED BY <1>6, <2>2, <2>4, <2>5, <2>6 DEF FinishCallback, TypeInv, TypeOK
  <1>7. ASSUME NEW t \in Turns,
               \/ t \in Users /\ (StreamToken(t) \/ EndUserStream(t) \/ FinishUser(t))
               \/ t \in Callbacks /\ (EndCallbackStream(t) \/ Flush(t) \/ Interrupt(t))
               \/ Acquire(t) \/ Fail(t)
        PROVE TypeInv'
    <2>1. gen' = gen /\ \A u \in Users : pc'[u] = "idle" <=> pc[u] = "idle"
      BY <1>7 DEF StreamToken, EndUserStream, FinishUser, EndCallbackStream, Flush,
                  Interrupt, Acquire, Fail, TypeInv, TypeOK
    <2>2. gen' = Cardinality(Entered') /\ gen' \in 0..Cardinality(Users)
      BY <2>1, GenKept
    <2>3. peeked[t] \in SUBSET Events BY DEF TypeInv, TypeOK
    <2> QED
      BY <1>7, <2>2, <2>3
         DEF StreamToken, EndUserStream, FinishUser, EndCallbackStream, Flush,
             Interrupt, Acquire, Fail, TypeInv, TypeOK
  <1>8. ASSUME NEW t \in Turns, Leave(t) \/ GiveUp(t) PROVE TypeInv'
    <2>1. gen' = gen /\ \A u \in Users : pc'[u] = "idle" <=> pc[u] = "idle"
      BY <1>8 DEF Leave, GiveUp, Depart, TypeInv, TypeOK
    <2>2. gen' = Cardinality(Entered') /\ gen' \in 0..Cardinality(Users)
      BY <2>1, GenKept
    <2>3. lockQueue' \in Seq(Turns)
      <3>1. CASE Leave(t)
        BY <3>1, HeadTailProperties DEF Leave, LockInv, TypeInv, TypeOK
      <3>2. CASE GiveUp(t)
        BY <3>2, Removed DEF GiveUp, TypeInv, TypeOK
      <3> QED BY <1>8, <3>1, <3>2
    <2>4. /\ Depart(t) /\ failed' \in BOOLEAN
          /\ UNCHANGED <<buffer, rendered, acked, snap, replied>>
      BY <1>8 DEF Leave, GiveUp, TypeInv, TypeOK
    <2> QED BY <2>1, <2>2, <2>3, <2>4, TurnsAssumption DEF Depart, TypeInv, TypeOK
  <1>9. CASE UNCHANGED vars
    <2>1. Entered' = Entered BY <1>9 DEF vars, Entered
    <2> QED BY <1>9, <2>1 DEF vars, TypeInv, TypeOK
  <1> QED
    BY <1>1, <1>2, <1>3, <1>4, <1>5, <1>6, <1>7, <1>8, <1>9
       DEF Next, CallbackStep, UserStep, TurnStep

-----------------------------------------------------------------------------
(* The chat lock.                                                          *)

LEMMA LockInit == Init => LockInv
  BY EmptySeq DEF Init, LockInv, InQueue, Holding

(* A step of the lock's holder, or of a turn that is not in the queue, that*)
(* leaves the queue as it is.                                              *)
LEMMA LockKept ==
    ASSUME TypeOK, LockInv, lockQueue' = lockQueue,
           \A t \in Turns :
              /\ pc'[t] \in Holding => pc[t] \in Holding
              /\ pc'[t] = "waiting" => pc[t] = "waiting"
              /\ pc[t] \in Holding \cup {"waiting"} => pc'[t] \in Holding \cup {"waiting"}
    PROVE  LockInv'
  <1>1. \A i \in 1..Len(lockQueue) : lockQueue[i] \in Turns
    BY ElementOfSeq DEF TypeOK
  <1> QED BY <1>1 DEF LockInv, InQueue

LEMMA LockEntered ==
    ASSUME TypeOK, LockInv, NEW t \in Turns,
           pc[t] \notin Holding \cup {"waiting"}, Enqueue(t)
    PROVE  LockInv'
  <1>1. Len(lockQueue) \in Nat /\ \A i \in 1..Len(lockQueue) : lockQueue[i] \in Turns \ {t}
    BY ElementOfSeq, LenProperties DEF TypeOK, LockInv
  <1>2. /\ lockQueue' # <<>> /\ Len(lockQueue') = Len(lockQueue) + 1
        /\ \A i \in 1..Len(lockQueue) : lockQueue'[i] = lockQueue[i]
        /\ lockQueue'[Len(lockQueue) + 1] = t
    <2>1. lockQueue \in Seq(Turns) BY DEF TypeOK
    <2>2. lockQueue' = Append(lockQueue, t) BY DEF Enqueue
    <2> QED BY <2>1, <2>2, AppendProperties
  <1>3. /\ pc'[t] = IF lockQueue = <<>> THEN "resolving" ELSE "waiting"
        /\ \A u \in Turns \ {t} : pc'[u] = pc[u]
    BY DEF Enqueue, Goto, TypeOK
  <1>4. lockQueue = <<>> <=> Len(lockQueue) = 0
    BY EmptySeq DEF TypeOK
  <1>5. ASSUME NEW u \in Turns, pc'[u] \in Holding
        PROVE  lockQueue' # <<>> /\ lockQueue'[1] = u
    <2>1. CASE u = t
      <3>1. lockQueue = <<>> BY <1>3, <1>5, <2>1 DEF Holding
      <3> QED BY <1>2, <1>4, <2>1, <3>1
    <2>2. CASE u # t
      <3>1. lockQueue # <<>> /\ lockQueue[1] = u BY <1>3, <1>5, <2>2 DEF LockInv
      <3>2. 1 \in 1..Len(lockQueue) BY <1>1, <1>4, <3>1
      <3> QED BY <1>2, <3>1, <3>2
    <2> QED BY <2>1, <2>2
  <1>6. \A i \in 1..Len(lockQueue') : pc'[lockQueue'[i]] \in Holding \cup {"waiting"}
    BY <1>1, <1>2, <1>3 DEF LockInv, Holding
  <1>7. \A i, j \in 1..Len(lockQueue') : lockQueue'[i] = lockQueue'[j] => i = j
    BY <1>1, <1>2 DEF LockInv
  <1>8. ASSUME NEW u \in Turns, pc'[u] = "waiting" PROVE InQueue(u)'
    <2>1. CASE u = t BY <1>1, <1>2, <2>1 DEF InQueue
    <2>2. CASE u # t
      <3>1. InQueue(u) BY <1>3, <1>8, <2>2 DEF LockInv
      <3> QED BY <1>1, <1>2, <3>1 DEF InQueue
    <2> QED BY <2>1, <2>2
  <1> QED BY <1>5, <1>6, <1>7, <1>8 DEF LockInv

(* The turn at position i is out: the first gives the lock up, any other   *)
(* one its place.                                                          *)
LEMMA LockLeft ==
    ASSUME TypeOK, LockInv, NEW t \in Turns, NEW i \in 1..Len(lockQueue),
           lockQueue[i] = t, i = 1 \/ pc[t] = "waiting", Goto(t, "gone"),
           lockQueue' \in Seq(Turns), Len(lockQueue') = Len(lockQueue) - 1,
           \A j \in 1..Len(lockQueue) - 1 :
             lockQueue'[j] = IF j < i THEN lockQueue[j] ELSE lockQueue[j + 1]
    PROVE  LockInv'
  <1>1. Len(lockQueue) \in Nat /\ \A j \in 1..Len(lockQueue) : lockQueue[j] \in Turns
    BY ElementOfSeq, LenProperties DEF TypeOK
  <1>2. pc'[t] = "gone" /\ \A u \in Turns \ {t} : pc'[u] = pc[u]
    BY DEF Goto, TypeOK
  <1>3. \A j \in 1..Len(lockQueue') : lockQueue'[j] # t
    BY <1>1 DEF LockInv
  <1>4. \A j \in 1..Len(lockQueue') : pc'[lockQueue'[j]] \in Holding \cup {"waiting"}
    BY <1>1, <1>2, <1>3 DEF LockInv
  <1>5. \A j, k \in 1..Len(lockQueue') : lockQueue'[j] = lockQueue'[k] => j = k
    BY <1>1 DEF LockInv
  <1>6. ASSUME NEW u \in Turns, pc'[u] \in Holding
        PROVE  lockQueue' # <<>> /\ lockQueue'[1] = u
    <2>1. u # t /\ pc[u] \in Holding BY <1>2, <1>6 DEF Holding
    <2>2. lockQueue[1] = u BY <2>1 DEF LockInv
    <2>3. i # 1 BY <2>1, <2>2
    <2>4. 1 \in 1..Len(lockQueue) - 1 BY <1>1, <2>3
    <2>5. lockQueue'[1] = u BY <1>1, <2>2, <2>3, <2>4
    <2>6. lockQueue' # <<>> BY <2>4, EmptySeq
    <2> QED BY <2>5, <2>6
  <1>7. ASSUME NEW u \in Turns, pc'[u] = "waiting" PROVE InQueue(u)'
    <2>1. u # t /\ InQueue(u) BY <1>2, <1>7 DEF LockInv
    <2>2. PICK j \in 1..Len(lockQueue) : lockQueue[j] = u /\ j # i
      BY <2>1 DEF InQueue
    <2>3. CASE j < i
      <3>1. j \in 1..Len(lockQueue) - 1 /\ lockQueue'[j] = u
        BY <1>1, <2>2, <2>3
      <3> QED BY <3>1 DEF InQueue
    <2>4. CASE j > i
      <3>1. j - 1 \in 1..Len(lockQueue) - 1 /\ ~(j - 1 < i) /\ (j - 1) + 1 = j
        BY <1>1, <2>4
      <3>2. lockQueue'[j - 1] = u BY <2>2, <3>1
      <3> QED BY <3>1, <3>2 DEF InQueue
    <2> QED BY <2>2, <2>3, <2>4
  <1> QED BY <1>4, <1>5, <1>6, <1>7 DEF LockInv

LEMMA LockNext == TypeInv /\ LockInv /\ [Next]_vars => LockInv'
  <1> SUFFICES ASSUME TypeInv, LockInv, [Next]_vars PROVE LockInv'
    OBVIOUS
  <1>0. Users \subseteq Turns /\ Events \subseteq Turns /\ Callbacks \subseteq Turns
    BY DEF Turns, Callbacks
  <1> USE <1>0 DEF Goto, At, TypeInv
  <1>1. ASSUME NEW e \in Events, Record(e) \/ SkipCallback(e) PROVE LockInv'
    <2>1. /\ lockQueue' = lockQueue
          /\ \A t \in Turns : \/ pc'[t] = pc[t]
                             \/ /\ pc[t] \in {"idle", "sleeping"}
                                /\ pc'[t] \in {"sleeping", "gone"}
      BY <1>1 DEF Record, SkipCallback, TypeOK
    <2> QED BY <2>1, LockKept DEF Holding
  <1>2. ASSUME NEW c \in Callbacks, EnterCallback(c) PROVE LockInv'
    BY <1>2, LockEntered DEF EnterCallback, Holding
  <1>3. ASSUME NEW u \in Users, EnterUser(u) PROVE LockInv'
    BY <1>3, LockEntered DEF EnterUser, Holding
  <1>4. ASSUME NEW t \in Turns, Acquire(t) PROVE LockInv'
    <2>1. pc[t] = "waiting" /\ t = Head(lockQueue) /\ lockQueue' = lockQueue
          /\ pc'[t] = "resolving" /\ \A u \in Turns \ {t} : pc'[u] = pc[u]
      BY <1>4 DEF Acquire, TypeOK
    <2>2. t = lockQueue[1] BY <2>1 DEF TypeOK
    <2>3. lockQueue # <<>> BY <2>1, EmptySeq DEF LockInv, InQueue
    <2>4. \A u \in Turns : pc[u] \in Holding => u = t
      BY <2>2 DEF LockInv
    <2>5. \A u \in Turns : pc'[u] \in Holding => lockQueue' # <<>> /\ lockQueue'[1] = u
      BY <2>1, <2>2, <2>3, <2>4
    <2>6. \A i \in 1..Len(lockQueue) : lockQueue[i] \in Turns
      BY ElementOfSeq DEF TypeOK
    <2>7. \A i \in 1..Len(lockQueue') : pc'[lockQueue'[i]] \in Holding \cup {"waiting"}
      BY <2>1, <2>6 DEF LockInv, Holding
    <2> QED BY <2>1, <2>5, <2>7 DEF LockInv, InQueue
  <1>5. ASSUME NEW t \in Turns,
               \/ t \in Users /\ (StreamToken(t) \/ EndUserStream(t) \/ FinishUser(t))
               \/ /\ t \in Callbacks
                  /\ EndCallbackStream(t) \/ Flush(t) \/ FinishCallback(t) \/ Interrupt(t)
               \/ Peek(t) \/ Fail(t)
        PROVE LockInv'
    <2>1. lockQueue' = lockQueue /\ pc[t] \in Holding /\ pc'[t] \in Holding
          /\ \A u \in Turns \ {t} : pc'[u] = pc[u]
      BY <1>5 DEF StreamToken, EndUserStream, FinishUser, EndCallbackStream, Flush,
                  FinishCallback, Interrupt, Peek, Fail, TypeOK, Holding
    <2> QED BY <2>1, LockKept DEF Holding
  <1>6. ASSUME NEW t \in Turns, Leave(t) PROVE LockInv'
    <2>1. lockQueue # <<>> /\ lockQueue[1] = t
      BY <1>6 DEF Leave, LockInv, Holding
    <2>2. 1 \in 1..Len(lockQueue) BY <2>1, EmptySeq DEF TypeOK
    <2>3. /\ lockQueue' \in Seq(Turns)
          /\ Len(lockQueue') = Len(lockQueue) - 1
          /\ \A j \in 1..Len(lockQueue) - 1 : lockQueue'[j] = lockQueue[j + 1]
      BY <1>6, <2>1, HeadTailProperties DEF Leave, TypeOK
    <2>4. \A j \in 1..Len(lockQueue) - 1 :
             lockQueue'[j] = IF j < 1 THEN lockQueue[j] ELSE lockQueue[j + 1]
      BY <2>3
    <2>5. Goto(t, "gone") BY <1>6 DEF Leave, Depart
    <2> HIDE DEF Goto
    <2> QED BY <2>1, <2>2, <2>3, <2>4, <2>5, LockLeft
  <1>7. ASSUME NEW t \in Turns, GiveUp(t) PROVE LockInv'
    <2>1. pc[t] = "waiting" /\ Goto(t, "gone")
      BY <1>7 DEF GiveUp, Depart
    <2>2. PICK i \in 1..Len(lockQueue) :
             lockQueue[i] = t /\ lockQueue' = RemoveAt(lockQueue, i)
      BY <1>7 DEF GiveUp
    <2>3. /\ lockQueue' \in Seq(Turns) /\ Len(lockQueue') = Len(lockQueue) - 1
          /\ \A j \in 1..Len(lockQueue) - 1 :
               lockQueue'[j] = IF j < i THEN lockQueue[j] ELSE lockQueue[j + 1]
      BY <2>2, Removed DEF TypeOK
    <2> HIDE DEF Goto
    <2> QED BY <2>1, <2>2, <2>3, LockLeft
  <1>8. CASE UNCHANGED vars
    BY <1>8 DEF vars, LockInv, InQueue
  <1> QED
    BY <1>1, <1>2, <1>3, <1>4, <1>5, <1>6, <1>7, <1>8
       DEF Next, CallbackStep, UserStep, TurnStep

LEMMA LockHeldByOne == Spec => [](TypeInv /\ LockInv)
  BY TypeInit, TypeNext, LockInit, LockNext, PTL DEF Spec

(* Every state of the chat has its type; the generation stays within the   *)
(* number of user turns (chat_orchestration.py, handle_message).           *)
THEOREM TypeCorrect == Spec => []TypeOK
  <1>1. TypeInv => TypeOK BY DEF TypeInv
  <1> QED BY <1>1, LockHeldByOne, PTL

-----------------------------------------------------------------------------
(* Debouncers.                                                             *)

LEMMA DebouncerNext ==
    ASSUME TypeInv, OneDebouncer, [Next]_vars
    PROVE  OneDebouncer'
  <1>0. Users \cap Events = {} /\ Events \subseteq Turns /\ Users \subseteq Turns
        /\ Callbacks \subseteq Turns /\ Directs \cap Events = {}
    BY TurnsAssumption DEF Turns, Callbacks
  <1> USE <1>0 DEF TypeInv, TypeOK, Goto, At
  <1>1. ASSUME NEW e \in Events, Record(e) PROVE OneDebouncer'
    <2>1. CASE e \in AtCap BY <1>1, <2>1 DEF Record, OneDebouncer
    <2>2. CASE e \notin AtCap BY <1>1, <2>2 DEF Record, OneDebouncer
    <2> QED BY <2>1, <2>2
  <1>2. ASSUME NEW e \in Events, SkipCallback(e) PROVE OneDebouncer'
    <2>1. pc'[e] # "sleeping" /\ \A a \in Events \ {e} : pc'[a] = pc[a]
      BY <1>2 DEF SkipCallback
    <2>2. armed' = armed \ {e} BY <1>2 DEF SkipCallback
    <2> QED BY <2>1, <2>2 DEF OneDebouncer
  <1>3. ASSUME NEW t \in Turns, Leave(t) \/ GiveUp(t) PROVE OneDebouncer'
    <2>1. pc'[t] # "sleeping" /\ (\A a \in Turns \ {t} : pc'[a] = pc[a])
          /\ armed' = armed \ {t}
      BY <1>3 DEF Leave, GiveUp, Depart
    <2> QED BY <2>1 DEF OneDebouncer
  <1>4. ASSUME NEW t \in Turns,
               \/ /\ t \in Users
                  /\ EnterUser(t) \/ StreamToken(t) \/ EndUserStream(t) \/ FinishUser(t)
               \/ /\ t \in Callbacks
                  /\ \/ EnterCallback(t) \/ EndCallbackStream(t) \/ Flush(t)
                     \/ FinishCallback(t) \/ Interrupt(t)
               \/ Acquire(t) \/ Peek(t) \/ Fail(t)
        PROVE OneDebouncer'
    <2>1. armed' = armed /\ \A a \in Turns : pc'[a] = "sleeping" => pc[a] = "sleeping"
      BY <1>4 DEF EnterUser, StreamToken, EndUserStream, FinishUser, EnterCallback,
                  EndCallbackStream, Flush, FinishCallback, Interrupt, Acquire, Peek,
                  Fail, Enqueue
    <2> QED BY <2>1 DEF OneDebouncer
  <1>5. CASE UNCHANGED vars
    BY <1>5 DEF vars, OneDebouncer
  <1> QED
    BY <1>1, <1>2, <1>3, <1>4, <1>5 DEF Next, CallbackStep, UserStep, TurnStep

(* However many workers finish while turns come and go, at most one         *)
(* debounced callback is asleep, and it is the one the chat has registered *)
(* (worker_events.py, schedule_dispatcher_callback).                       *)
THEOREM OneDebouncerHolds == Spec => []OneDebouncer
  <1>1. Init => OneDebouncer
    BY DEF Init, OneDebouncer, Turns, Callbacks
  <1>2. TypeInv /\ OneDebouncer /\ [Next]_vars => OneDebouncer'
    BY DebouncerNext
  <1> QED BY <1>1, <1>2, LockHeldByOne, PTL DEF Spec

-----------------------------------------------------------------------------
(* Generations.  No turn is ahead of the chat's generation, so one that a  *)
(* user turn has overtaken is never current again: the invariant.          *)

SnapInv == \A t \in Turns : snap[t] <= gen

LEMMA SnapNext ==
    ASSUME TypeInv, SnapInv, [Next]_vars
    PROVE  SnapInv'
  <1>0. Users \subseteq Turns /\ Callbacks \subseteq Turns
    BY DEF Turns, Callbacks
  <1>1. gen \in Nat /\ \A t \in Turns : snap[t] \in Nat
    BY UsersFinite DEF TypeInv, TypeOK
  <1>2. ASSUME NEW t \in Turns, gen' = gen \/ gen' = gen + 1,
               snap' = [snap EXCEPT ![t] = gen']
        PROVE SnapInv'
    BY <1>1, <1>2 DEF SnapInv, TypeInv, TypeOK
  <1>3. CASE UNCHANGED <<gen, snap>>
    BY <1>3 DEF SnapInv
  <1>4. ASSUME NEW c \in Callbacks, EnterCallback(c) PROVE SnapInv'
    BY <1>0, <1>2, <1>4 DEF EnterCallback
  <1>5. ASSUME NEW u \in Users, EnterUser(u) PROVE SnapInv'
    BY <1>0, <1>2, <1>5 DEF EnterUser
  <1>6. \/ UNCHANGED <<gen, snap>>
        \/ \E c \in Callbacks : EnterCallback(c)
        \/ \E u \in Users : EnterUser(u)
    BY DEF Next, CallbackStep, UserStep, TurnStep, Record, SkipCallback, StreamToken,
           EndUserStream, FinishUser, EndCallbackStream, Flush, FinishCallback,
           Interrupt, Acquire, Peek, Fail, Leave, GiveUp, vars, chatVars
  <1> QED BY <1>3, <1>4, <1>5, <1>6

(* A step that adds to the chat, or lets a callback finish its reply, is a *)
(* step of a turn that is current.                                         *)
LEMMA SpeakerIsCurrent ==
    ASSUME TypeInv, [Next]_vars, NEW c \in Callbacks,
           \/ c \in replied' /\ c \notin replied
           \/ pc'[c] = "finishing" /\ pc[c] # "finishing"
    PROVE  Current(c)
  <1>0. Users \cap Callbacks = {} /\ Events \subseteq Callbacks
        /\ Users \subseteq Turns /\ Callbacks \subseteq Turns
    BY TurnsAssumption DEF Turns, Callbacks
  <1> USE <1>0 DEF TypeInv, TypeOK, Goto, At
  <1>1. ASSUME NEW e \in Events, Record(e) \/ SkipCallback(e) PROVE FALSE
    BY <1>1 DEF Record, SkipCallback
  <1>2. ASSUME NEW u \in Users, EnterUser(u) \/ StreamToken(u) \/ UserStep(u)
        PROVE  FALSE
    BY <1>2 DEF EnterUser, StreamToken, UserStep, EndUserStream, FinishUser, Enqueue
  <1>3. ASSUME NEW t \in Turns, TurnStep(t) \/ Fail(t) \/ GiveUp(t) PROVE FALSE
    BY <1>3 DEF TurnStep, Acquire, Peek, Leave, Depart, Fail, GiveUp
  <1>4. ASSUME NEW b \in Callbacks,
               EnterCallback(b) \/ FinishCallback(b) \/ Interrupt(b)
        PROVE  FALSE
    BY <1>4 DEF EnterCallback, FinishCallback, Interrupt, Enqueue
  <1>5. ASSUME NEW b \in Callbacks, EndCallbackStream(b) PROVE Current(c)
    BY <1>5 DEF EndCallbackStream
  <1>6. ASSUME NEW b \in Callbacks, Flush(b) PROVE Current(c)
    BY <1>6 DEF Flush
  <1>7. CASE UNCHANGED vars
    BY <1>7 DEF vars
  <1> QED BY <1>1, <1>2, <1>3, <1>4, <1>5, <1>6, <1>7 DEF Next, CallbackStep

(* A callback that a user turn has overtaken stays silent                  *)
(* (layer_runners.py, _run_fast_layer; chat_orchestration.py,              *)
(* is_turn_current).                                                       *)
THEOREM OvertakenStaysSilent == Spec => OvertakenIsSilent
  <1>1. Init => SnapInv
    BY DEF Init, SnapInv
  <1>2. TypeInv /\ SnapInv /\ [Next]_vars => SnapInv'
    BY SnapNext
  <1>3. ASSUME TypeInv, SnapInv, [Next]_vars,
               NEW c \in Callbacks, NEW u \in Users, snap[c] < snap[u]
        PROVE  /\ c \in replied' => c \in replied
               /\ pc'[c] = "finishing" => pc[c] = "finishing"
    <2>1. u \in Turns /\ c \in Turns BY DEF Turns
    <2>2. gen \in Nat /\ snap[u] \in Nat /\ snap[c] \in Nat
      BY <1>3, <2>1, UsersFinite DEF TypeInv, TypeOK
    <2>3. snap[u] <= gen BY <1>3, <2>1 DEF SnapInv
    <2>4. ~Current(c) BY <1>3, <2>2, <2>3 DEF Current
    <2> QED BY <1>3, <2>4, SpeakerIsCurrent
  <1>4. TypeInv /\ SnapInv /\ [Next]_vars =>
          [\A c \in Callbacks, u \in Users :
             /\ snap[c] < snap[u]
             /\ pc[u] \notin {"idle", "waiting"}
             => /\ c \in replied' => c \in replied
                /\ pc'[c] = "finishing" => pc[c] = "finishing"]_vars
    BY <1>3
  <1> QED BY <1>1, <1>2, <1>4, LockHeldByOne, PTL DEF Spec, OvertakenIsSilent

-----------------------------------------------------------------------------
(* The buffer as an inbox.  An event is received once, and never again     *)
(* once it has been in the buffer, in a prompt or before the model.        *)

Known == {buffer[i] : i \in 1..Len(buffer)} \cup rendered \cup UNION {peeked[t] : t \in Turns}

StockInv ==
    /\ \A i, j \in 1..Len(buffer) : buffer[i] = buffer[j] => i = j
    /\ \A e \in Known : pc[e] # "idle"

(* A turn that has peeked holds the lock, so that nothing leaves the front *)
(* of the buffer before it acknowledges; a callback that has a reply to    *)
(* flush has been shown what it peeked.                                    *)
PromptInv ==
    /\ \A t \in Turns : pc[t] \in {"streaming", "flushing", "finishing"} =>
          /\ count[t] <= Len(buffer)
          /\ peeked[t] = {buffer[i] : i \in 1..count[t]}
    /\ \A c \in Callbacks : pc[c] \in {"flushing", "finishing"} =>
          peeked[c] \subseteq rendered

(* No completion arrives at a full deque.                                  *)
NothingEvicted == [][\A e \in Events : Record(e) => Len(buffer) < MaxEvents]_vars

LEMMA TurnSets ==
    /\ Users \subseteq Turns /\ Events \subseteq Turns /\ Callbacks \subseteq Turns
    /\ Events \subseteq Callbacks /\ Users \cap Callbacks = {}
  BY TurnsAssumption DEF Turns, Callbacks

(* A turn begins once.                                                     *)
LEMMA NeverIdleAgain ==
    ASSUME TypeInv, [Next]_vars, NEW t \in Turns, pc'[t] = "idle"
    PROVE  pc[t] = "idle"
  <1> USE TurnSets DEF TypeInv, TypeOK, Goto, At
  <1>1. ASSUME NEW e \in Events, Record(e) \/ SkipCallback(e) PROVE pc[t] = "idle"
    BY <1>1 DEF Record, SkipCallback
  <1>2. ASSUME NEW u \in Turns,
               \/ EnterCallback(u) \/ EndCallbackStream(u) \/ Flush(u)
               \/ FinishCallback(u) \/ Interrupt(u)
        PROVE  pc[t] = "idle"
    BY <1>2 DEF EnterCallback, EndCallbackStream, Flush, FinishCallback, Interrupt,
                Enqueue
  <1>3. ASSUME NEW u \in Turns,
               EnterUser(u) \/ StreamToken(u) \/ EndUserStream(u) \/ FinishUser(u)
        PROVE  pc[t] = "idle"
    BY <1>3 DEF EnterUser, StreamToken, EndUserStream, FinishUser, Enqueue
  <1>4. ASSUME NEW u \in Turns,
               Acquire(u) \/ Peek(u) \/ Leave(u) \/ Fail(u) \/ GiveUp(u)
        PROVE  pc[t] = "idle"
    BY <1>4 DEF Acquire, Peek, Leave, Fail, GiveUp, Depart
  <1>5. CASE UNCHANGED vars
    BY <1>5 DEF vars
  <1> QED BY <1>1, <1>2, <1>3, <1>4, <1>5 DEF Next, CallbackStep, UserStep, TurnStep

(* What a step does to the buffer, to the prompts and to what was shown.   *)
LEMMA BufferSteps ==
    ASSUME TypeInv, [Next]_vars
    PROVE  \/ \E e \in Events : Record(e)
           \/ \E t \in Turns : Peek(t)
           \/ \E c \in Callbacks : FinishCallback(c)
           \/ \E t \in Turns : /\ At(t, "streaming")
                               /\ rendered' = rendered \cup peeked[t]
                               /\ UNCHANGED <<buffer, peeked, count>>
           \/ \E t \in Turns : /\ Goto(t, "gone")
                               /\ peeked' = [peeked EXCEPT ![t] = {}]
                               /\ count' = [count EXCEPT ![t] = 0]
                               /\ UNCHANGED <<buffer, rendered>>
           \/ UNCHANGED <<buffer, peeked, count, rendered>>
  <1> USE TurnSets
  <1>1. ASSUME NEW u \in Users, EndUserStream(u)
        PROVE  /\ At(u, "streaming") /\ rendered' = rendered \cup peeked[u]
               /\ UNCHANGED <<buffer, peeked, count>>
    BY <1>1 DEF EndUserStream
  <1>2. ASSUME NEW c \in Callbacks, EndCallbackStream(c)
        PROVE  /\ At(c, "streaming") /\ rendered' = rendered \cup peeked[c]
               /\ UNCHANGED <<buffer, peeked, count>>
    BY <1>2 DEF EndCallbackStream
  <1>3. ASSUME NEW t \in Turns, Leave(t) \/ GiveUp(t)
        PROVE  /\ Goto(t, "gone") /\ peeked' = [peeked EXCEPT ![t] = {}]
               /\ count' = [count EXCEPT ![t] = 0]
               /\ UNCHANGED <<buffer, rendered>>
    BY <1>3 DEF Leave, GiveUp, Depart
  <1>4. ASSUME \/ \E e \in Events : SkipCallback(e)
               \/ \E c \in Callbacks : EnterCallback(c) \/ Flush(c) \/ Interrupt(c)
               \/ \E u \in Users : EnterUser(u) \/ StreamToken(u) \/ FinishUser(u)
               \/ \E t \in Turns : Acquire(t) \/ Fail(t)
               \/ UNCHANGED vars
        PROVE  UNCHANGED <<buffer, peeked, count, rendered>>
    BY <1>4 DEF SkipCallback, EnterCallback, Flush, Interrupt, EnterUser, StreamToken,
                FinishUser, Acquire, Fail, bufVars, vars
  <1> QED BY <1>1, <1>2, <1>3, <1>4 DEF Next, CallbackStep, UserStep, TurnStep

(* The events a peek or an acknowledgement takes from the front.           *)
LEMMA FrontOfBuffer ==
    ASSUME TypeInv
    PROVE  /\ Len(buffer) \in Nat
           /\ \A i \in 1..Len(buffer) : buffer[i] \in Events
           /\ Peeked \in 0..Len(buffer)
           /\ \A t \in Turns : Acknowledged(t) \in 0..Len(buffer)
           /\ \A t \in Turns : count[t] \in Nat
  <1>1. Len(buffer) \in Nat /\ \A i \in 1..Len(buffer) : buffer[i] \in Events
    BY LenProperties, ElementOfSeq DEF TypeInv, TypeOK
  <1>2. PeekLimit \in Nat /\ \A t \in Turns : count[t] \in Nat
    BY TurnsAssumption DEF TypeInv, TypeOK
  <1> QED BY <1>1, <1>2 DEF Peeked, Acknowledged

LEMMA StockNext ==
    ASSUME TypeInv, StockInv, [Next]_vars
    PROVE  StockInv'
  <1>0. Len(buffer) \in Nat /\ \A i \in 1..Len(buffer) : buffer[i] \in Events
    BY FrontOfBuffer
  <1>k. ASSUME Known' \subseteq Known PROVE \A e \in Known' : pc'[e] # "idle"
    <2>1. Known \subseteq Turns
      BY <1>0, TurnSets DEF Known, TypeInv, TypeOK
    <2> QED BY <1>k, <2>1, NeverIdleAgain DEF StockInv
  <1>1. ASSUME NEW e \in Events, Record(e) PROVE StockInv'
    <2>1. /\ pc[e] = "idle" /\ pc'[e] # "idle" /\ e \notin Known
          /\ UNCHANGED <<rendered, peeked>>
      BY <1>1, TurnSets DEF Record, StockInv, Goto, TypeInv, TypeOK
    <2> DEFINE a == Append(buffer, e)
    <2>2. /\ a \in Seq(Events) /\ a # <<>> /\ Len(a) = Len(buffer) + 1
          /\ \A i \in 1..Len(buffer) : a[i] = buffer[i]
          /\ a[Len(buffer) + 1] = e
      BY AppendProperties DEF TypeInv, TypeOK
    <2>3. /\ Len(Tail(a)) = Len(buffer)
          /\ \A i \in 1..Len(buffer) : Tail(a)[i] = a[i + 1]
      BY <1>0, <2>2, HeadTailProperties
    <2>4. buffer' = a \/ buffer' = Tail(a)
      BY <1>1 DEF Record, Bounded
    <2> HIDE DEF a
    <2>5. \A i \in 1..Len(buffer) : buffer[i] # e
      BY <2>1 DEF Known
    <2>6. \A i, j \in 1..Len(a) : a[i] = a[j] => i = j
      BY <1>0, <2>2, <2>5 DEF StockInv
    <2>7. \A i, j \in 1..Len(buffer') : buffer'[i] = buffer'[j] => i = j
      <3>1. CASE buffer' = a BY <2>6, <3>1
      <3>2. CASE buffer' = Tail(a) BY <1>0, <2>2, <2>3, <2>6, <3>2
      <3> QED BY <2>4, <3>1, <3>2
    <2>8. \A i \in 1..Len(buffer') : \E j \in 1..Len(a) : buffer'[i] = a[j]
      <3>1. CASE buffer' = a BY <3>1
      <3>2. CASE buffer' = Tail(a)
        <4>1. \A i \in 1..Len(buffer') : i + 1 \in 1..Len(a) /\ buffer'[i] = a[i + 1]
          BY <1>0, <2>2, <2>3, <3>2
        <4> QED BY <4>1
      <3> QED BY <2>4, <3>1, <3>2
    <2>9. \A j \in 1..Len(a) : a[j] \in Known \cup {e}
      BY <1>0, <2>2 DEF Known
    <2>10. Known' \subseteq Known \cup {e}
      BY <2>1, <2>8, <2>9 DEF Known
    <2>11. Known \subseteq Turns
      BY <1>0, TurnSets DEF Known, TypeInv, TypeOK
    <2>12. \A d \in Known' : pc'[d] # "idle"
      BY <2>1, <2>10, <2>11, NeverIdleAgain DEF StockInv
    <2> QED BY <2>7, <2>12 DEF StockInv
  <1>2. ASSUME NEW t \in Turns, Peek(t) PROVE StockInv'
    <2>1. /\ UNCHANGED <<buffer, rendered>>
          /\ peeked' = [peeked EXCEPT ![t] = {buffer[i] : i \in 1..Peeked}]
      BY <1>2 DEF Peek
    <2>2. {buffer[i] : i \in 1..Peeked} \subseteq {buffer[i] : i \in 1..Len(buffer)}
      BY FrontOfBuffer
    <2>3. Known' \subseteq Known
      BY <2>1, <2>2 DEF Known, TypeInv, TypeOK
    <2> QED BY <1>k, <2>1, <2>3 DEF StockInv
  <1>3. ASSUME NEW c \in Callbacks, FinishCallback(c) PROVE StockInv'
    <2>1. Acknowledged(c) \in 0..Len(buffer) BY FrontOfBuffer, TurnSets
    <2>2. /\ Len(buffer') = Len(buffer) - Acknowledged(c)
          /\ \A i \in 1..Len(buffer') : buffer'[i] = buffer[Acknowledged(c) + i]
      BY <1>3, <2>1, Rest DEF FinishCallback, TypeInv, TypeOK
    <2>3. \A i \in 1..Len(buffer') : Acknowledged(c) + i \in 1..Len(buffer)
      BY <1>0, <2>1, <2>2
    <2>4. \A i, j \in 1..Len(buffer') : buffer'[i] = buffer'[j] => i = j
      BY <1>0, <2>1, <2>2, <2>3 DEF StockInv
    <2>5. UNCHANGED <<rendered, peeked>>
      BY <1>3 DEF FinishCallback
    <2>6. Known' \subseteq Known
      BY <2>2, <2>3, <2>5 DEF Known
    <2> QED BY <1>k, <2>4, <2>6 DEF StockInv
  <1>4. ASSUME NEW t \in Turns, rendered' = rendered \cup peeked[t],
               UNCHANGED <<buffer, peeked, count>>
        PROVE  StockInv'
    <2>1. Known' \subseteq Known BY <1>4 DEF Known
    <2> QED BY <1>4, <1>k, <2>1 DEF StockInv
  <1>5. ASSUME NEW t \in Turns, peeked' = [peeked EXCEPT ![t] = {}],
               UNCHANGED <<buffer, rendered>>
        PROVE  StockInv'
    <2>1. Known' \subseteq Known BY <1>5 DEF Known, TypeInv, TypeOK
    <2> QED BY <1>5, <1>k, <2>1 DEF StockInv
  <1>6. CASE UNCHANGED <<buffer, peeked, count, rendered>>
    <2>1. Known' \subseteq Known BY <1>6 DEF Known
    <2> QED BY <1>6, <1>k, <2>1 DEF StockInv
  <1> QED BY <1>1, <1>2, <1>3, <1>4, <1>5, <1>6, BufferSteps

(* One holder of the lock: while one turn acknowledges no other has a      *)
(* prompt that depends on the front of the buffer.                         *)
LEMMA OneHolder ==
    ASSUME LockInv, NEW t \in Turns, NEW u \in Turns,
           pc[t] \in Holding, pc[u] \in Holding
    PROVE  t = u
  BY DEF LockInv

LEMMA PromptNext ==
    ASSUME TypeInv, LockInv, PromptInv, [Next]_vars,
           \A e \in Events : Record(e) => Len(buffer) < MaxEvents
    PROVE  PromptInv'
  <1> DEFINE Prompted == {"streaming", "flushing", "finishing"}
  <1>0. /\ Len(buffer) \in Nat /\ \A i \in 1..Len(buffer) : buffer[i] \in Events
        /\ \A t \in Turns : count[t] \in Nat
    BY FrontOfBuffer
  <1> USE TurnSets DEF TypeInv, TypeOK, Goto, At
  \* A step after which every turn with a prompt had it before, and none has
  \* begun to flush.
  <1>k. ASSUME UNCHANGED <<buffer, peeked, count, rendered>>,
               \A t \in Turns : /\ pc'[t] \in Prompted => pc[t] \in Prompted
                                /\ pc'[t] \in {"flushing", "finishing"} /\ t \in Callbacks
                                      => pc[t] \in {"flushing", "finishing"}
        PROVE  PromptInv'
    BY <1>k DEF PromptInv
  <1>1. ASSUME NEW e \in Events, Record(e) PROVE PromptInv'
    <2>1. buffer' = Append(buffer, e)
      BY <1>1, BoundedAppend DEF Record
    <2>2. /\ Len(buffer') = Len(buffer) + 1
          /\ \A i \in 1..Len(buffer) : buffer'[i] = buffer[i]
      BY <2>1, AppendProperties
    <2>3. /\ UNCHANGED <<peeked, count, rendered>>
          /\ \A t \in Turns : pc'[t] \in Prompted => pc[t] = pc'[t]
      BY <1>1 DEF Record
    <2>4. ASSUME NEW t \in Turns, pc'[t] \in Prompted
          PROVE  count'[t] <= Len(buffer') /\ peeked'[t] = {buffer'[i] : i \in 1..count'[t]}
      <3>1. count[t] <= Len(buffer) /\ peeked[t] = {buffer[i] : i \in 1..count[t]}
        BY <2>3, <2>4 DEF PromptInv
      <3>2. \A i \in 1..count[t] : buffer'[i] = buffer[i]
        BY <1>0, <2>2, <3>1
      <3>3. {buffer'[i] : i \in 1..count[t]} = {buffer[i] : i \in 1..count[t]}
        BY <3>2
      <3>4. count'[t] = count[t] /\ peeked'[t] = peeked[t] BY <2>3
      <3>5. count[t] <= Len(buffer') BY <1>0, <2>2, <3>1
      <3> QED BY <3>1, <3>3, <3>4, <3>5
    <2>5. \A c \in Callbacks : pc'[c] \in {"flushing", "finishing"} =>
             peeked'[c] \subseteq rendered'
      BY <2>3 DEF PromptInv
    <2> QED BY <2>4, <2>5 DEF PromptInv
  <1>2. ASSUME NEW e \in Events, SkipCallback(e) PROVE PromptInv'
    BY <1>2, <1>k DEF SkipCallback, bufVars
  <1>3. ASSUME NEW t \in Turns, t \in Callbacks \/ t \in Users,
               EnterCallback(t) \/ EnterUser(t) \/ Acquire(t) \/ Fail(t) \/ Interrupt(t)
        PROVE  PromptInv'
    <2>1. UNCHANGED <<buffer, peeked, count, rendered>>
      BY <1>3 DEF EnterCallback, EnterUser, Acquire, Fail, Interrupt, bufVars
    <2>2. pc'[t] \notin Prompted /\ \A u \in Turns \ {t} : pc'[u] = pc[u]
      BY <1>3 DEF EnterCallback, EnterUser, Acquire, Fail, Interrupt, Enqueue
    <2> QED BY <1>k, <2>1, <2>2
  <1>4. ASSUME NEW t \in Turns, Peek(t) PROVE PromptInv'
    <2>1. /\ pc'[t] = "streaming" /\ count'[t] = Peeked
          /\ peeked'[t] = {buffer[i] : i \in 1..Peeked}
          /\ UNCHANGED <<buffer, rendered>>
          /\ \A u \in Turns \ {t} : /\ pc'[u] = pc[u] /\ count'[u] = count[u]
                                    /\ peeked'[u] = peeked[u]
      BY <1>4 DEF Peek
    <2>2. Peeked <= Len(buffer) BY <1>0, FrontOfBuffer
    <2>3. ASSUME NEW u \in Turns, pc'[u] \in Prompted
          PROVE  count'[u] <= Len(buffer') /\ peeked'[u] = {buffer'[i] : i \in 1..count'[u]}
      <3>1. CASE u = t BY <2>1, <2>2, <3>1
      <3>2. CASE u # t
        <4>1. count[u] <= Len(buffer) /\ peeked[u] = {buffer[i] : i \in 1..count[u]}
          BY <2>1, <2>3, <3>2 DEF PromptInv
        <4>2. count'[u] = count[u] /\ peeked'[u] = peeked[u] /\ buffer' = buffer
          BY <2>1, <3>2
        <4> QED BY <4>1, <4>2
      <3> QED BY <3>1, <3>2
    <2>4. \A c \in Callbacks : pc'[c] \in {"flushing", "finishing"} =>
             peeked'[c] \subseteq rendered'
      BY <2>1 DEF PromptInv
    <2> QED BY <2>3, <2>4 DEF PromptInv
  <1>5. ASSUME NEW u \in Users, StreamToken(u) \/ FinishUser(u) PROVE PromptInv'
    BY <1>5, <1>k DEF StreamToken, FinishUser, bufVars
  <1>6. ASSUME NEW t \in Turns,
               \/ t \in Users /\ EndUserStream(t)
               \/ t \in Callbacks /\ EndCallbackStream(t)
        PROVE  PromptInv'
    <2>1. /\ UNCHANGED <<buffer, peeked, count>> /\ rendered' = rendered \cup peeked[t]
          /\ pc[t] = "streaming" /\ \A u \in Turns \ {t} : pc'[u] = pc[u]
      BY <1>6 DEF EndUserStream, EndCallbackStream
    <2> QED BY <2>1 DEF PromptInv
  <1>7. ASSUME NEW c \in Callbacks, Flush(c) PROVE PromptInv'
    BY <1>7, <1>k DEF Flush, bufVars
  <1>8. ASSUME NEW c \in Callbacks, FinishCallback(c) PROVE PromptInv'
    <2>1. pc[c] = "finishing" /\ pc'[c] = "leaving" /\ \A u \in Turns \ {c} : pc'[u] = pc[u]
      BY <1>8 DEF FinishCallback
    <2>2. \A u \in Turns : pc'[u] \notin Prompted
      BY <2>1, OneHolder DEF Holding
    <2> QED BY <2>2 DEF PromptInv
  <1>9. ASSUME NEW t \in Turns, Leave(t) \/ GiveUp(t) PROVE PromptInv'
    <2>1. /\ pc'[t] = "gone" /\ UNCHANGED <<buffer, rendered>>
          /\ \A u \in Turns \ {t} : /\ pc'[u] = pc[u] /\ count'[u] = count[u]
                                    /\ peeked'[u] = peeked[u]
      BY <1>9 DEF Leave, GiveUp, Depart
    <2>2. ASSUME NEW u \in Turns, pc'[u] \in Prompted
          PROVE  count'[u] <= Len(buffer') /\ peeked'[u] = {buffer'[i] : i \in 1..count'[u]}
      <3>1. u # t BY <2>1, <2>2
      <3>2. count[u] <= Len(buffer) /\ peeked[u] = {buffer[i] : i \in 1..count[u]}
        BY <2>1, <2>2, <3>1 DEF PromptInv
      <3>3. count'[u] = count[u] /\ peeked'[u] = peeked[u] /\ buffer' = buffer
        BY <2>1, <3>1
      <3> QED BY <3>2, <3>3
    <2>3. \A c \in Callbacks : pc'[c] \in {"flushing", "finishing"} =>
             peeked'[c] \subseteq rendered'
      BY <2>1 DEF PromptInv
    <2> QED BY <2>2, <2>3 DEF PromptInv
  <1>10. CASE UNCHANGED vars
    BY <1>10, <1>k DEF vars, bufVars
  <1> HIDE DEF TypeInv, TypeOK, Goto, At, Prompted
  <1>11. ASSUME NEW c \in Callbacks, CallbackStep(c) PROVE PromptInv'
    BY <1>3, <1>6, <1>7, <1>8, <1>11 DEF CallbackStep
  <1>12. ASSUME NEW u \in Users, EnterUser(u) \/ StreamToken(u) \/ UserStep(u)
         PROVE  PromptInv'
    <2>1. CASE EnterUser(u) BY <1>3, <2>1
    <2>2. CASE StreamToken(u) \/ FinishUser(u) BY <1>5, <2>2
    <2>3. CASE EndUserStream(u) BY <1>6, <2>3
    <2> QED BY <1>12, <2>1, <2>2, <2>3 DEF UserStep
  <1>13. ASSUME NEW t \in Turns, TurnStep(t) \/ Fail(t) \/ GiveUp(t) PROVE PromptInv'
    BY <1>3, <1>4, <1>9, <1>13 DEF TurnStep, Turns
  <1> QED BY <1>1, <1>2, <1>10, <1>11, <1>12, <1>13 DEF Next

(* Each step of the chat is a step of the inbox, or none.                  *)
LEMMA InboxStep ==
    ASSUME TypeInv, StockInv, PromptInv, [Next]_vars,
           \A e \in Events : Record(e) => Len(buffer) < MaxEvents
    PROVE  [Inbox!InboxNext]_(Inbox!inboxVars)
  <1> DEFINE held == {buffer[i] : i \in 1..Len(buffer)}
  <1>0. Len(buffer) \in Nat /\ \A i \in 1..Len(buffer) : buffer[i] \in Events
    BY FrontOfBuffer
  <1>1. ASSUME NEW e \in Events, Record(e) PROVE Inbox!Receive(e)
    <2>1. buffer' = Append(buffer, e)
      BY <1>1, BoundedAppend DEF Record, TypeInv, TypeOK
    <2>2. /\ Len(buffer') = Len(buffer) + 1
          /\ \A i \in 1..Len(buffer) : buffer'[i] = buffer[i]
          /\ buffer'[Len(buffer) + 1] = e
      BY <2>1, AppendProperties DEF TypeInv, TypeOK
    <2>3. held' = held \cup {e}
      BY <1>0, <2>2
    <2>4. e \notin held \cup rendered /\ rendered' = rendered
      BY <1>1 DEF Record, StockInv, Known
    <2> QED BY <2>3, <2>4 DEF Inbox!Receive
  <1>2. ASSUME NEW t \in Turns, At(t, "streaming"), rendered' = rendered \cup peeked[t],
               UNCHANGED <<buffer, peeked, count>>
        PROVE  \E es \in SUBSET Events : Inbox!Show(es)
    <2>1. count[t] <= Len(buffer) /\ peeked[t] = {buffer[i] : i \in 1..count[t]}
          /\ count[t] \in Nat
      BY <1>2, FrontOfBuffer DEF PromptInv, At
    <2>2. peeked[t] \subseteq held BY <1>0, <2>1
    <2>3. peeked[t] \in SUBSET Events BY <1>0, <2>2
    <2>4. Inbox!Show(peeked[t]) BY <1>2, <2>2 DEF Inbox!Show
    <2> QED BY <2>3, <2>4
  <1>3. ASSUME NEW c \in Callbacks, FinishCallback(c)
        PROVE  \E es \in SUBSET Events : Inbox!Discard(es)
    <2> DEFINE n == Acknowledged(c)
               taken == {buffer[i] : i \in 1..n}
    <2>1. c \in Turns /\ pc[c] = "finishing" BY <1>3 DEF FinishCallback, At, Turns
    <2>2. /\ count[c] <= Len(buffer) /\ count[c] \in Nat
          /\ peeked[c] = {buffer[i] : i \in 1..count[c]}
          /\ peeked[c] \subseteq rendered
      BY <2>1, FrontOfBuffer DEF PromptInv
    <2>3. n = count[c] /\ n \in 0..Len(buffer)
      BY <1>0, <2>2 DEF Acknowledged
    <2>4. taken \subseteq held \cap rendered BY <1>0, <2>2, <2>3
    <2>5. taken \in SUBSET Events BY <1>0, <2>4
    <2>6. buffer' = SubSeq(buffer, n + 1, Len(buffer)) /\ rendered' = rendered
      BY <1>3 DEF FinishCallback
    <2>7. /\ Len(buffer') = Len(buffer) - n
          /\ \A i \in 1..Len(buffer') : buffer'[i] = buffer[n + i]
      BY <2>3, <2>6, Rest DEF TypeInv, TypeOK
    <2> HIDE DEF n
    <2>8. held' = held \ taken
      <3>1. ASSUME NEW x \in held' PROVE x \in held \ taken
        <4>1. PICK i \in 1..Len(buffer') : x = buffer'[i] OBVIOUS
        <4>2. n + i \in 1..Len(buffer)
          BY <1>0, <2>3, <2>7
        <4>3. x = buffer[n + i]
          BY <2>7, <4>1
        <4>4. \A j \in 1..n : j \in 1..Len(buffer) /\ j # n + i
          BY <1>0, <2>3
        <4>5. \A j \in 1..n : buffer[j] # x
          BY <4>2, <4>3, <4>4 DEF StockInv
        <4> QED BY <4>2, <4>3, <4>5
      <3>2. ASSUME NEW x \in held \ taken PROVE x \in held'
        <4>1. PICK j \in 1..Len(buffer) : x = buffer[j] OBVIOUS
        <4>2. j > n BY <1>0, <2>3, <3>2, <4>1
        <4>3. j - n \in 1..Len(buffer') /\ n + (j - n) = j
          BY <1>0, <2>3, <2>7, <4>2
        <4>4. x = buffer'[j - n] BY <2>7, <4>1, <4>3
        <4> QED BY <4>3, <4>4
      <3> QED BY <3>1, <3>2
    <2> HIDE DEF taken
    <2> QED BY <2>4, <2>5, <2>6, <2>8 DEF Inbox!Discard
  <1>4. ASSUME UNCHANGED <<buffer, rendered>>
        PROVE  UNCHANGED Inbox!inboxVars
    BY <1>4 DEF Inbox!inboxVars
  <1>5. ASSUME NEW t \in Turns, Peek(t) PROVE UNCHANGED <<buffer, rendered>>
    BY <1>5 DEF Peek
  <1> QED BY <1>1, <1>2, <1>3, <1>4, <1>5, BufferSteps DEF Inbox!InboxNext

LEMMA InboxStart ==
    Init => StockInv /\ PromptInv /\ Inbox!InboxInit
  BY DEF Init, StockInv, PromptInv, Known, Inbox!InboxInit, Callbacks, Turns

(* As long as no completion arrives at a full deque the buffer implements  *)
(* the inbox: no event is removed that the model has not been shown,       *)
(* whatever completions and turns interleave (worker_events.py,            *)
(* ack_worker_events; layer_runners.py).                                   *)
THEOREM BufferIsInbox == Spec /\ NothingEvicted => InboxKept
  <1>1. TypeInv /\ StockInv /\ [Next]_vars => StockInv'
    BY StockNext
  <1>2. TypeInv /\ LockInv /\ PromptInv /\ [Next]_vars
          /\ [\A e \in Events : Record(e) => Len(buffer) < MaxEvents]_vars
          => PromptInv'
    <2>1. ASSUME TypeInv, PromptInv, UNCHANGED vars PROVE PromptInv'
      BY <2>1 DEF PromptInv, vars, bufVars
    <2> QED BY <2>1, PromptNext
  <1>3. TypeInv /\ StockInv /\ PromptInv /\ [Next]_vars
          /\ [\A e \in Events : Record(e) => Len(buffer) < MaxEvents]_vars
          => [Inbox!InboxNext]_(Inbox!inboxVars)
    <2>1. UNCHANGED vars => UNCHANGED Inbox!inboxVars
      BY DEF vars, bufVars, Inbox!inboxVars
    <2> QED BY <2>1, InboxStep
  <1> QED
    BY <1>1, <1>2, <1>3, InboxStart, LockHeldByOne, PTL
       DEF Spec, NothingEvicted, InboxKept, Inbox!InboxSpec

(* A buffer with room for every completion of the chat never overflows: it *)
(* has no event twice, and the one that arrives is not in it.              *)
LEMMA RoomForAll ==
    ASSUME TypeInv, StockInv, Cardinality(Events) <= MaxEvents,
           NEW e \in Events, Record(e)
    PROVE  Len(buffer) < MaxEvents
  <1>1. /\ Len(buffer) \in Nat /\ MaxEvents \in Nat
        /\ \A i \in 1..Len(buffer) : buffer[i] \in Events
    BY FrontOfBuffer, TurnsAssumption
  <1>2. \A i \in 1..Len(buffer) : buffer[i] # e
    BY <1>1 DEF Record, StockInv, Known
  <1>3. buffer \in [1..Len(buffer) -> Events \ {e}]
    BY <1>1, <1>2, LenProperties DEF TypeInv, TypeOK
  <1>4. /\ IsFiniteSet(Events \ {e}) /\ IsFiniteSet(Events)
        /\ Cardinality(Events \ {e}) = Cardinality(Events) - 1
        /\ Cardinality(Events) \in Nat /\ Cardinality(Events \ {e}) \in Nat
    <2>1. IsFiniteSet(Events) BY TurnsAssumption, TurnSets, FS_Subset
    <2> QED BY <2>1, FS_RemoveElement, FS_CardinalityType
  <1>5. IsFiniteSet(1..Len(buffer)) /\ Cardinality(1..Len(buffer)) = Len(buffer)
    <2> DEFINE n == Len(buffer)
    <2>1. n \in Nat BY <1>1
    <2> HIDE DEF n
    <2>2. /\ IsFiniteSet(1..n)
          /\ Cardinality(1..n) = IF 1 > n THEN 0 ELSE n - 1 + 1
      BY <2>1, FS_Interval
    <2>3. Cardinality(1..n) = n BY <2>1, <2>2
    <2> QED BY <2>2, <2>3 DEF n
  <1>6. ~(Cardinality(Events \ {e}) < Len(buffer))
    <2>1. SUFFICES ASSUME Cardinality(Events \ {e}) < Len(buffer) PROVE FALSE
      BY <1>1
    <2>2. \E i, j \in 1..Len(buffer) : i # j /\ buffer[i] = buffer[j]
      BY <1>3, <1>4, <1>5, <2>1, FS_PigeonHole
    <2> QED BY <2>2 DEF StockInv
  <1> QED BY <1>1, <1>4, <1>6

(* A chat with at most MaxEvents completions loses none: the instance that *)
(* is model-checked, for any number of turns (worker_events.py).           *)
THEOREM RoomyBufferIsInbox ==
    ASSUME Cardinality(Events) <= MaxEvents
    PROVE  Spec => InboxKept
  <1>1. TypeInv /\ StockInv /\ [Next]_vars => StockInv'
    BY StockNext
  <1>2. TypeInv /\ StockInv /\ [Next]_vars =>
          [\A e \in Events : Record(e) => Len(buffer) < MaxEvents]_vars
    BY RoomForAll
  <1> QED
    BY <1>1, <1>2, InboxStart, LockHeldByOne, BufferIsInbox, PTL
       DEF Spec, NothingEvicted

=============================================================================
