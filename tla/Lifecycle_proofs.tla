---------------------------- MODULE Lifecycle_proofs ----------------------------
(***************************************************************************)
(* Theorems about module Lifecycle, for any number of application tasks,   *)
(* loops and connections and any capacity of the channel.                  *)
(***************************************************************************)
EXTENDS Lifecycle, TLAPS

-----------------------------------------------------------------------------
(* The mutex around the channel's receiver is a FIFO queue: it holds       *)
(* exactly the senders between their lock and their exit, each once, and   *)
(* only the holder, its head, has taken an event that ends a connection.   *)
MutexQueue ==
    /\ \A i, j \in DOMAIN rxQueue : rxQueue[i] = rxQueue[j] => i = j
    /\ \A c \in Conn :
          snd[c] \in {"off", "spawned"} <=> \A i \in DOMAIN rxQueue : rxQueue[i] # c
    /\ \A i \in DOMAIN rxQueue : i # 1 => snd[rxQueue[i]] = "ready"

(* A free entry of the connection pool has no task.                        *)
FreeEntries == \A c \in Conn : sock[c] = "none" => snd[c] = "off" /\ rcv[c] = "off"

(* TypeOK is not inductive alone: SenderExit takes the head of the queue,  *)
(* which must not be empty.                                                *)
TypeInv == TypeOK /\ MutexQueue /\ FreeEntries

(* The four kinds of event the code queues are well typed.                 *)
LEMMA EventTypes ==
    /\ SendMsg \in Event
    /\ \A t \in Task : HeaderSubscribe(t) \in Event
    /\ \A c \in Conn : Close(c) \in Event
    /\ \A u \in User : Stop(u) \in Event
BY DEF SendMsg, HeaderSubscribe, Close, Stop, Event, Task

(* Queueing a well-typed event leaves a well-typed channel.                *)
LEMMA TrySendType ==
    ASSUME TypeOK, NEW e \in Event, TrySend(e)
    PROVE  chan' \in Seq(Event) /\ Len(chan') <= ChanCap
BY LifecycleAssumption DEF TypeOK, TrySend, Room

(* A task may go to any point of try_connect().                            *)
LEMMA GotoTry ==
    ASSUME TypeOK, NEW t \in Task, NEW l \in TryPc, Goto(t, l)
    PROVE  /\ pc' \in [Task -> UserPc \cup LoopPc \cup TryPc]
           /\ \A u \in User : pc'[u] \in UserPc \cup TryPc
           /\ \A m \in Loop : pc'[m] \in LoopPc \cup TryPc
BY DEF TypeOK, Goto, Task

(* Taking the oldest event leaves a well-typed channel.                    *)
LEMMA TakesType ==
    ASSUME TypeOK, NEW c \in Conn, NEW ev, Takes(c, ev)
    PROVE  chan' \in Seq(Event) /\ Len(chan') <= ChanCap /\ Head(chan) \in Event
<1>1. chan \in Seq(Event) /\ chan # <<>> /\ chan' = Tail(chan) /\ Len(chan) <= ChanCap
  BY DEF TypeOK, Takes
<1>2. Tail(chan) \in Seq(Event) /\ Len(Tail(chan)) = Len(chan) - 1 /\ Head(chan) \in Event
  BY <1>1
<1> QED
  BY <1>1, <1>2, LifecycleAssumption

(* What an action that leaves the mutex alone needs to preserve MutexQueue.*)
LEMMA MutexQueueStays ==
    ASSUME TypeInv, UNCHANGED rxQueue,
           \A c \in Conn : \/ snd'[c] = snd[c]
                           \/ snd[c] \in {"off", "spawned"} /\ snd'[c] \in {"off", "spawned"}
                           \/ /\ snd[c] \notin {"off", "spawned"}
                              /\ snd'[c] \notin {"off", "spawned"}
                              /\ rxQueue # <<>> /\ rxQueue[1] = c
    PROVE  MutexQueue'
<1>1. rxQueue \in Seq(Conn) /\ rxQueue' = rxQueue
  BY DEF TypeInv, TypeOK
<1>2. \A i \in DOMAIN rxQueue : rxQueue[i] \in Conn
  BY <1>1
<1>3. \A i, j \in DOMAIN rxQueue : rxQueue'[i] = rxQueue'[j] => i = j
  BY <1>1 DEF TypeInv, MutexQueue
<1>4. ASSUME NEW c \in Conn
      PROVE  snd'[c] \in {"off", "spawned"} <=> \A i \in DOMAIN rxQueue : rxQueue'[i] # c
  BY <1>1 DEF TypeInv, MutexQueue
<1>5. ASSUME NEW i \in DOMAIN rxQueue, i # 1
      PROVE  snd'[rxQueue'[i]] = "ready"
  <2>1. rxQueue[i] \in Conn /\ snd[rxQueue[i]] = "ready"
    BY <1>2, <1>5 DEF TypeInv, MutexQueue
  <2>2. 1 \in DOMAIN rxQueue
    BY <1>1, <1>5
  <2>3. rxQueue[1] # rxQueue[i]
    BY <2>2, <1>5 DEF TypeInv, MutexQueue
  <2> QED
    BY <1>1, <2>1, <2>3
<1> QED
  BY <1>1, <1>3, <1>4, <1>5 DEF MutexQueue

(* The invariant holds initially.                                          *)
LEMMA InitTypeInv == Init => TypeInv
<1> SUFFICES ASSUME Init PROVE TypeInv
  OBVIOUS
<1> USE DEF Init
<1>1. status \in Status /\ chan \in Seq(Event) /\ Len(chan) <= ChanCap /\ rxQueue \in Seq(Conn)
  BY LifecycleAssumption DEF Status
<1>2. /\ addr \in 0 .. MaxCalls /\ proxy \in 0 .. MaxCalls /\ calls \in 0 .. MaxCalls
      /\ local \in [Task -> (0 .. MaxCalls) \X (0 .. MaxCalls)]
      /\ peer \in [Conn -> (0 .. MaxCalls) \X (0 .. MaxCalls)]
  BY LifecycleAssumption
<1>3. /\ pc \in [Task -> UserPc \cup LoopPc \cup TryPc]
      /\ \A u \in User : pc[u] \in UserPc \cup TryPc
      /\ \A l \in Loop : pc[l] \in LoopPc \cup TryPc
  BY LifecycleAssumption DEF Task, UserPc, LoopPc, TryPc
<1>4. /\ snd \in [Conn -> SenderPc] /\ rcv \in [Conn -> ReceiverPc]
      /\ sock \in [Conn -> {"none", "open", "closed"}] /\ asked \in [Conn -> SUBSET Task]
  BY DEF SenderPc, ReceiverPc
<1>5. MutexQueue
  BY DEF MutexQueue
<1>6. FreeEntries
  BY DEF FreeEntries
<1> QED
  BY <1>1, <1>2, <1>3, <1>4, <1>5, <1>6 DEF TypeInv, TypeOK

(* Every step keeps the types.  The queue and the channel need an argument *)
(* in the steps that change them; the rest is substitution.                *)
LEMMA StepTypeOK == TypeInv /\ [Next]_vars => TypeOK'
<1> SUFFICES ASSUME TypeInv, [Next]_vars PROVE TypeOK'
  OBVIOUS
<1> USE LifecycleAssumption
<1> USE DEF TypeInv, TypeOK, Goto, cells, taskVars, connVars, Task, UserPc, LoopPc, TryPc, Status
<1>1. ASSUME NEW u \in User, NEW b \in BOOLEAN, Connect(u, b)
      PROVE  TypeOK'
  <2>1. calls \in 0 .. MaxCalls /\ calls < MaxCalls /\ calls' = calls + 1 /\ scheduled' \in BOOLEAN
    BY <1>1 DEF Connect
  <2>3. calls' \in 0 .. MaxCalls
    BY ONLY <2>1, LifecycleAssumption
  <2>2. /\ pc' \in [Task -> UserPc \cup LoopPc \cup TryPc]
        /\ \A v \in User : pc'[v] \in UserPc \cup TryPc
        /\ \A l \in Loop : pc'[l] \in LoopPc \cup TryPc
    BY <1>1 DEF Connect
  <2> QED
    BY <1>1, <2>1, <2>2, <2>3 DEF Connect
<1>2. ASSUME NEW u \in User, NEW b \in BOOLEAN, CallStop(u, b)
      PROVE  TypeOK'
  <2>1. calls \in 0 .. MaxCalls /\ calls < MaxCalls /\ calls' = calls + 1 /\ MaxCalls \in Nat
    BY <1>2 DEF CallStop
  <2>2. calls' \in 0 .. MaxCalls /\ calls + 1 \in 0 .. MaxCalls
    BY ONLY <2>1
  <2>3. /\ pc' \in [Task -> UserPc \cup LoopPc \cup TryPc]
        /\ \A v \in User : pc'[v] \in UserPc \cup TryPc
        /\ \A l \in Loop : pc'[l] \in LoopPc \cup TryPc
    BY <1>2 DEF CallStop
  <2>4. local' \in [Task -> (0 .. MaxCalls) \X (0 .. MaxCalls)] /\ scheduled' \in BOOLEAN
    BY <1>2, <2>2 DEF CallStop
  <2> QED
    BY <1>2, <2>2, <2>3, <2>4 DEF CallStop
<1>3. ASSUME NEW u \in User, CheckStatus(u)
      PROVE  TypeOK'
  BY <1>3 DEF CheckStatus
<1>4. ASSUME NEW u \in User, SetDown(u)
      PROVE  TypeOK'
  BY <1>4 DEF SetDown
<1>5. ASSUME NEW u \in User, ReadStatusForStop(u)
      PROVE  TypeOK'
  BY <1>5 DEF ReadStatusForStop
<1>6. ASSUME NEW u \in User, SendStop(u)
      PROVE  TypeOK'
  BY <1>6, TrySendType, EventTypes DEF SendStop
<1>7. ASSUME NEW u \in User, SubscribeStop(u)
      PROVE  TypeOK'
  BY <1>7 DEF SubscribeStop
<1>8. ASSUME NEW u \in User, LagStop(u)
      PROVE  TypeOK'
  BY <1>8 DEF LagStop
<1>9. ASSUME NEW u \in User, WriteAddr(u)
      PROVE  TypeOK'
  BY <1>9 DEF WriteAddr
<1>10. ASSUME NEW u \in User, WriteProxy(u)
      PROVE  TypeOK'
  BY <1>10 DEF WriteProxy
<1>11. ASSUME NEW u \in User, Restart(u)
      PROVE  TypeOK'
  BY <1>11 DEF Restart
<1>12. ASSUME NEW u \in User, NEW l \in Loop, SpawnLoop(u, l)
      PROVE  TypeOK'
  BY <1>12 DEF SpawnLoop
<1>13. ASSUME NEW l \in Loop, LoopTop(l)
      PROVE  TypeOK'
  BY <1>13 DEF LoopTop
<1>14. ASSUME NEW l \in Loop, LoopSetStopped(l)
      PROVE  TypeOK'
  BY <1>14 DEF LoopSetStopped
<1>15. ASSUME NEW l \in Loop, LoopClearFlag(l)
      PROVE  TypeOK'
  BY <1>15 DEF LoopClearFlag
<1>16. ASSUME NEW l \in Loop, LoopCheck(l)
      PROVE  TypeOK'
  BY <1>16 DEF LoopCheck
<1>17. ASSUME NEW t \in Task, ReadAddr(t)
      PROVE  TypeOK'
  BY <1>17 DEF ReadAddr
<1>18. ASSUME NEW t \in Task, ReadProxy(t)
      PROVE  TypeOK'
  BY <1>18 DEF ReadProxy
<1>19. ASSUME NEW t \in Task, SetConnecting(t)
      PROVE  TypeOK'
  BY <1>19 DEF SetConnecting
<1>20. ASSUME NEW t \in Task, DialFail(t)
      PROVE  TypeOK'
  BY <1>20 DEF DialFail, Return
<1>21. ASSUME NEW t \in Task, NEW c \in Conn, DialOk(t, c)
      PROVE  TypeOK'
  BY <1>21 DEF DialOk, SenderPc, ReceiverPc
<1>22. ASSUME NEW t \in Task, ResubscribeHeaders(t)
      PROVE  TypeOK'
  <2>1. chan' \in Seq(Event) /\ Len(chan') <= ChanCap
    BY <1>22, TrySendType, EventTypes DEF ResubscribeHeaders
  <2>2. /\ pc' \in [Task -> UserPc \cup LoopPc \cup TryPc]
        /\ \A u \in User : pc'[u] \in UserPc \cup TryPc
        /\ \A l \in Loop : pc'[l] \in LoopPc \cup TryPc
    <3> HIDE DEF Goto, TypeOK
    <3>1. Goto(t, "subscribeAnswer") \/ Goto(t, "scripts")
      BY <1>22 DEF ResubscribeHeaders
    <3> QED
      BY <3>1, GotoTry
  <2> QED
    BY <1>22, <2>1, <2>2 DEF ResubscribeHeaders
<1>23. ASSUME NEW t \in Task, SubscribeAnswer(t)
      PROVE  TypeOK'
  BY <1>23 DEF SubscribeAnswer
<1>24. ASSUME NEW t \in Task, LagAnswer(t)
      PROVE  TypeOK'
  <2> DEFINE unwaited(i) == IF chan[i] = HeaderSubscribe(t) THEN SendMsg ELSE chan[i]
  <2>1. \A i \in 1 .. Len(chan) : unwaited(i) \in Event
    BY EventTypes
  <2>2. chan' = [i \in 1 .. Len(chan) |-> unwaited(i)]
    BY <1>24 DEF LagAnswer
  <2>3. Len(chan) \in Nat
    OBVIOUS
  <2>4. chan' \in Seq(Event) /\ Len(chan') = Len(chan)
    BY ONLY <2>1, <2>2, <2>3
  <2>5. asked' \in [Conn -> SUBSET Task]
    BY <1>24 DEF LagAnswer
  <2> QED
    BY <1>24, <2>4, <2>5 DEF LagAnswer
<1>25. ASSUME NEW t \in Task, ResubscribeScripts(t)
      PROVE  TypeOK'
  <2>1. chan' \in Seq(Event) /\ Len(chan') <= ChanCap
    BY <1>25, TrySendType, EventTypes DEF ResubscribeScripts
  <2>2. Return(t) \in UserPc \cup LoopPc /\ (t \in User => Return(t) \in UserPc) /\ (t \in Loop => Return(t) \in LoopPc)
    BY DEF Return
  <2> QED
    BY <1>25, <2>1, <2>2 DEF ResubscribeScripts
<1>26. ASSUME SetHeaders
      PROVE  TypeOK'
  BY <1>26 DEF SetHeaders
<1>27. ASSUME QueueRequest
      PROVE  TypeOK'
  BY <1>27, TrySendType, EventTypes DEF QueueRequest
<1>28. ASSUME NEW c \in Conn, LockReceiver(c)
      PROVE  TypeOK'
  BY <1>28 DEF LockReceiver, SenderPc
<1>29. ASSUME NEW c \in Conn, TakeMsg(c)
      PROVE  TypeOK'
  <2>1. chan' \in Seq(Event) /\ Len(chan') <= ChanCap
    BY <1>29, TakesType DEF TakeMsg
  <2>2. asked' \in [Conn -> SUBSET Task]
    BY <1>29 DEF TakeMsg
  <2> QED
    BY <1>29, <2>1, <2>2 DEF TakeMsg, Takes
<1>30. ASSUME NEW c \in Conn, WriteFails(c)
      PROVE  TypeOK'
  <2>1. chan' \in Seq(Event) /\ Len(chan') <= ChanCap
    BY <1>30, TakesType DEF WriteFails
  <2> QED
    BY <1>30, <2>1 DEF WriteFails, Takes, SenderPc
<1>31. ASSUME NEW c \in Conn, TakeClose(c)
      PROVE  TypeOK'
  <2>1. chan' \in Seq(Event) /\ Len(chan') <= ChanCap
    BY <1>31, TakesType DEF TakeClose
  <2> QED
    BY <1>31, <2>1 DEF TakeClose, Takes, SenderPc
<1>32. ASSUME NEW c \in Conn, TakeStop(c)
      PROVE  TypeOK'
  <2>1. chan' \in Seq(Event) /\ Len(chan') <= ChanCap
    BY <1>32, TakesType DEF TakeStop
  <2> QED
    BY <1>32, <2>1 DEF TakeStop, Takes, SenderPc
<1>33. ASSUME NEW c \in Conn, SenderSetStatus(c)
      PROVE  TypeOK'
  BY <1>33 DEF SenderSetStatus, SenderPc
<1>34. ASSUME NEW c \in Conn, SenderClearFlag(c)
      PROVE  TypeOK'
  BY <1>34 DEF SenderClearFlag, SenderPc
<1>35. ASSUME NEW c \in Conn, SenderNotify(c)
      PROVE  TypeOK'
  BY <1>35 DEF SenderNotify, SenderPc
<1>36. ASSUME NEW c \in Conn, SenderExit(c)
      PROVE  TypeOK'
  <2>1. rxQueue # <<>>
    <3>1. snd[c] \notin {"off", "spawned"}
      BY <1>36 DEF SenderExit
    <3>2. PICK i \in DOMAIN rxQueue : rxQueue[i] = c
      BY <3>1 DEF MutexQueue
    <3> QED
      BY <3>2
  <2>2. Tail(rxQueue) \in Seq(Conn)
    BY <2>1
  <2> QED
    BY <1>36, <2>2 DEF SenderExit, SenderPc
<1>37. ASSUME NEW c \in Conn, ReadEof(c) \/ ReceiverPanics(c)
      PROVE  TypeOK'
  BY <1>37 DEF ReadEof, ReceiverPanics, ReceiverPc
<1>38. ASSUME NEW c \in Conn, ReceiverReadStatus(c)
      PROVE  TypeOK'
  BY <1>38 DEF ReceiverReadStatus, ReceiverPc
<1>39. ASSUME NEW c \in Conn, ReceiverSendClose(c)
      PROVE  TypeOK'
  BY <1>39, TrySendType, EventTypes DEF ReceiverSendClose, ReceiverPc
<1>40. ASSUME NEW c \in Conn, ReceiverAborted(c)
      PROVE  TypeOK'
  BY <1>40 DEF ReceiverAborted, ReceiverPc
<1>41. ASSUME NEW c \in Conn, Ping(c)
      PROVE  TypeOK'
  BY <1>41, TrySendType, EventTypes DEF Ping
<1>42. ASSUME NEW c \in Conn, PeerClose(c)
      PROVE  TypeOK'
  BY <1>42 DEF PeerClose
<1>43. ASSUME NEW c \in Conn, DropSocket(c)
      PROVE  TypeOK'
  BY <1>43 DEF DropSocket
<1>44. ASSUME NEW c \in Conn, NEW t \in Task, Answer(c, t)
      PROVE  TypeOK'
  BY <1>44 DEF Answer
<1>45. CASE UNCHANGED vars
  BY <1>45 DEF vars
<1> HIDE DEF TypeInv, TypeOK, Goto, cells, taskVars, connVars, Task, UserPc, LoopPc, TryPc, Status
<1> QED
  BY <1>1, <1>2, <1>3, <1>4, <1>5, <1>6, <1>7, <1>8, <1>9, <1>10, <1>11,
     <1>12, <1>13, <1>14, <1>15, <1>16, <1>17, <1>18, <1>19, <1>20, <1>21,
     <1>22, <1>23, <1>24, <1>25, <1>26, <1>27, <1>28, <1>29, <1>30, <1>31,
     <1>32, <1>33, <1>34, <1>35, <1>36, <1>37, <1>38, <1>39, <1>40, <1>41,
     <1>42, <1>43, <1>44, <1>45
     DEF Next, UserStep, LoopStep, TryConnect, Dial, SenderStep, ReceiverStep, ReceiverEnds

(* No step gives a task to a free entry but DialOk, which takes the entry. *)
LEMMA StepFreeEntries == TypeInv /\ [Next]_vars => FreeEntries'
<1> SUFFICES ASSUME TypeInv, [Next]_vars, NEW d \in Conn, sock'[d] = "none"
             PROVE  snd'[d] = "off" /\ rcv'[d] = "off"
  BY DEF FreeEntries
<1> USE DEF TypeInv, TypeOK, FreeEntries, connVars
<1>1. CASE \E u \in User, b \in BOOLEAN : Connect(u, b) \/ CallStop(u, b)
  BY <1>1 DEF Connect, CallStop
<1>2. CASE \E u \in User : UserStep(u) \/ LagStop(u)
  BY <1>2 DEF UserStep, LagStop, CheckStatus, SetDown, SpawnLoop, ReadStatusForStop,
        SendStop, SubscribeStop, WriteAddr, WriteProxy, Restart
<1>3. CASE \E l \in Loop : LoopStep(l)
  BY <1>3 DEF LoopStep, LoopTop, LoopSetStopped, LoopClearFlag, LoopCheck
<1>4. CASE \E t \in Task, c \in Conn : DialOk(t, c)
  BY <1>4 DEF DialOk
<1>5. CASE \E t \in Task : (TryConnect(t) /\ ~\E c \in Conn : DialOk(t, c)) \/ LagAnswer(t)
  BY <1>5 DEF TryConnect, LagAnswer, ReadAddr, ReadProxy, SetConnecting, Dial, DialFail,
        ResubscribeHeaders, SubscribeAnswer, ResubscribeScripts
<1>6. CASE SetHeaders \/ QueueRequest
  BY <1>6 DEF SetHeaders, QueueRequest
<1>7. CASE \E c \in Conn : SenderStep(c)
  BY <1>7 DEF SenderStep, LockReceiver, Takes, TakeMsg, WriteFails, TakeClose, TakeStop,
        SenderSetStatus, SenderClearFlag, SenderNotify, SenderExit
<1>8. CASE \E c \in Conn : ReceiverStep(c)
  BY <1>8 DEF ReceiverStep, ReceiverEnds, ReadEof, ReceiverPanics,
    ReceiverReadStatus, ReceiverSendClose, ReceiverAborted
<1>9. CASE \E c \in Conn : Ping(c) \/ PeerClose(c) \/ DropSocket(c)
  BY <1>9 DEF Ping, PeerClose, DropSocket
<1>10. CASE \E c \in Conn, t \in Task : Answer(c, t)
  BY <1>10 DEF Answer
<1>11. CASE UNCHANGED vars
  BY <1>11 DEF vars
<1> HIDE DEF TypeInv, TypeOK, FreeEntries, connVars
<1> QED
  BY <1>1, <1>2, <1>3, <1>4, <1>5, <1>6, <1>7, <1>8, <1>9, <1>10, <1>11 DEF Next, TryConnect, Dial

(* Only the sender tasks touch the queue: they append themselves when they *)
(* lock and leave as its head.                                             *)
LEMMA StepMutexQueue == TypeInv /\ [Next]_vars => MutexQueue'
<1> SUFFICES ASSUME TypeInv, [Next]_vars PROVE MutexQueue'
  OBVIOUS
<1>1. CASE UNCHANGED <<snd, rxQueue>>
  BY <1>1 DEF TypeInv, MutexQueue
<1>2. ASSUME NEW t \in Task, NEW c \in Conn, DialOk(t, c)
      PROVE  MutexQueue'
  <2>1. snd[c] = "off" /\ snd'[c] = "spawned" /\ \A d \in Conn \ {c} : snd'[d] = snd[d]
    BY <1>2 DEF DialOk, TypeInv, TypeOK, FreeEntries
  <2>2. UNCHANGED rxQueue
    BY <1>2 DEF DialOk
  <2> QED
    BY <2>1, <2>2, MutexQueueStays
<1>3. ASSUME NEW c \in Conn, LockReceiver(c)
      PROVE  MutexQueue'
  <2>1. rxQueue \in Seq(Conn) /\ rxQueue' = Append(rxQueue, c)
    BY <1>3 DEF LockReceiver, TypeInv, TypeOK
  <2> DEFINE n == Len(rxQueue)
  <2>2. /\ n \in Nat /\ DOMAIN rxQueue = 1 .. n /\ DOMAIN rxQueue' = 1 .. n + 1
        /\ rxQueue'[n + 1] = c /\ \A i \in 1 .. n : rxQueue'[i] = rxQueue[i]
    BY <2>1
  <2>3. snd[c] = "spawned" /\ snd'[c] = "ready" /\ \A d \in Conn \ {c} : snd'[d] = snd[d]
    BY <1>3 DEF LockReceiver, TypeInv, TypeOK
  <2>4. \A i \in 1 .. n : rxQueue[i] # c /\ rxQueue[i] \in Conn
    BY <2>1, <2>2, <2>3 DEF TypeInv, MutexQueue
  <2>5. \A i \in 1 .. n : i # 1 => snd[rxQueue[i]] = "ready"
    BY <2>2 DEF TypeInv, MutexQueue
  <2>6. \A i, j \in 1 .. n : rxQueue[i] = rxQueue[j] => i = j
    BY <2>2 DEF TypeInv, MutexQueue
  <2>7. \A d \in Conn : snd[d] \in {"off", "spawned"} <=> \A i \in 1 .. n : rxQueue[i] # d
    BY <2>2 DEF TypeInv, MutexQueue
  <2> HIDE DEF n
  <2>8. \A i, j \in DOMAIN rxQueue' : rxQueue'[i] = rxQueue'[j] => i = j
    BY <2>2, <2>4, <2>6
  <2>9. ASSUME NEW d \in Conn
        PROVE  snd'[d] \in {"off", "spawned"} <=> \A i \in DOMAIN rxQueue' : rxQueue'[i] # d
    BY <2>2, <2>3, <2>7
  <2>10. \A i \in DOMAIN rxQueue' : i # 1 => snd'[rxQueue'[i]] = "ready"
    BY <2>2, <2>3, <2>4, <2>5
  <2> QED
    BY <2>8, <2>9, <2>10 DEF MutexQueue
<1>4. ASSUME NEW c \in Conn, TakeMsg(c) \/ WriteFails(c) \/ TakeClose(c) \/ TakeStop(c)
      PROVE  MutexQueue'
  <2>1. /\ UNCHANGED rxQueue /\ rxQueue # <<>> /\ rxQueue[1] = c /\ snd[c] = "ready"
        /\ snd'[c] \notin {"off", "spawned"} /\ \A d \in Conn \ {c} : snd'[d] = snd[d]
    BY <1>4 DEF TakeMsg, WriteFails, TakeClose, TakeStop, Takes, TypeInv, TypeOK
  <2> QED
    BY <2>1, MutexQueueStays
<1>5. ASSUME NEW c \in Conn, snd[c] \notin {"off", "spawned", "ready"}
      PROVE  rxQueue # <<>> /\ rxQueue[1] = c
  <2>1. PICK i \in DOMAIN rxQueue : rxQueue[i] = c
    BY <1>5 DEF TypeInv, MutexQueue
  <2>2. i = 1
    BY <2>1, <1>5 DEF TypeInv, MutexQueue
  <2> QED
    BY <2>1, <2>2
<1>6. ASSUME NEW c \in Conn, SenderSetStatus(c) \/ SenderClearFlag(c) \/ SenderNotify(c)
      PROVE  MutexQueue'
  <2>1. /\ UNCHANGED rxQueue /\ snd[c] \notin {"off", "spawned", "ready"}
        /\ snd'[c] \notin {"off", "spawned"} /\ \A d \in Conn \ {c} : snd'[d] = snd[d]
    BY <1>6 DEF SenderSetStatus, SenderClearFlag, SenderNotify, TypeInv, TypeOK
  <2> QED
    BY <2>1, <1>5, MutexQueueStays
<1>7. ASSUME NEW c \in Conn, SenderExit(c)
      PROVE  MutexQueue'
  <2>1. rxQueue \in Seq(Conn) /\ rxQueue # <<>> /\ rxQueue[1] = c /\ rxQueue' = Tail(rxQueue)
    BY <1>7, <1>5 DEF SenderExit, TypeInv, TypeOK
  <2> DEFINE n == Len(rxQueue)
  <2>2. /\ n \in Nat \ {0} /\ DOMAIN rxQueue = 1 .. n /\ DOMAIN rxQueue' = 1 .. n - 1
        /\ \A i \in 1 .. n - 1 : rxQueue'[i] = rxQueue[i + 1]
    BY <2>1
  <2>3. snd'[c] = "off" /\ \A d \in Conn \ {c} : snd'[d] = snd[d]
    BY <1>7 DEF SenderExit, TypeInv, TypeOK
  <2>4. \A i \in 1 .. n : rxQueue[i] \in Conn
    BY <2>1, <2>2
  <2>5. \A i \in 1 .. n : i # 1 => snd[rxQueue[i]] = "ready"
    BY <2>2 DEF TypeInv, MutexQueue
  <2>6. \A i, j \in 1 .. n : rxQueue[i] = rxQueue[j] => i = j
    BY <2>2 DEF TypeInv, MutexQueue
  <2>7. \A d \in Conn : snd[d] \in {"off", "spawned"} <=> \A i \in 1 .. n : rxQueue[i] # d
    BY <2>2 DEF TypeInv, MutexQueue
  <2> HIDE DEF n
  <2>8. \A i, j \in DOMAIN rxQueue' : rxQueue'[i] = rxQueue'[j] => i = j
    BY <2>2, <2>6
  <2>9. \A i \in DOMAIN rxQueue' : rxQueue'[i] # c /\ rxQueue'[i] \in Conn /\ snd[rxQueue'[i]] = "ready"
    BY <2>1, <2>2, <2>4, <2>5, <2>6
  <2>10. ASSUME NEW d \in Conn, d # c
         PROVE  (\A i \in 1 .. n : rxQueue[i] # d) <=> \A i \in DOMAIN rxQueue' : rxQueue'[i] # d
    <3>1. ASSUME NEW i \in 1 .. n, rxQueue[i] = d
          PROVE  i - 1 \in 1 .. n - 1 /\ rxQueue'[i - 1] = d
      BY <3>1, <2>1, <2>2, <2>10
    <3>2. ASSUME NEW i \in 1 .. n - 1, rxQueue'[i] = d
          PROVE  i + 1 \in 1 .. n /\ rxQueue[i + 1] = d
      BY <3>2, <2>2
    <3> QED
      BY <3>1, <3>2, <2>2
  <2>11. ASSUME NEW d \in Conn
         PROVE  snd'[d] \in {"off", "spawned"} <=> \A i \in DOMAIN rxQueue' : rxQueue'[i] # d
    BY <2>3, <2>7, <2>9, <2>10
  <2>12. \A i \in DOMAIN rxQueue' : i # 1 => snd'[rxQueue'[i]] = "ready"
    BY <2>3, <2>9
  <2> QED
    BY <2>8, <2>11, <2>12 DEF MutexQueue
<1>8. \/ UNCHANGED <<snd, rxQueue>>
      \/ \E t \in Task, c \in Conn : DialOk(t, c)
      \/ \E c \in Conn : LockReceiver(c)
      \/ \E c \in Conn : TakeMsg(c) \/ WriteFails(c) \/ TakeClose(c) \/ TakeStop(c)
      \/ \E c \in Conn : SenderSetStatus(c) \/ SenderClearFlag(c) \/ SenderNotify(c)
      \/ \E c \in Conn : SenderExit(c)
  <2>1. CASE \E u \in User, b \in BOOLEAN : Connect(u, b) \/ CallStop(u, b)
    BY <2>1 DEF Connect, CallStop, connVars
  <2>2. CASE \E u \in User : UserStep(u) \/ LagStop(u)
    BY <2>2 DEF UserStep, LagStop, CheckStatus, SetDown, SpawnLoop, ReadStatusForStop,
          SendStop, SubscribeStop, WriteAddr, WriteProxy, Restart, connVars
  <2>3. CASE \E l \in Loop : LoopStep(l)
    BY <2>3 DEF LoopStep, LoopTop, LoopSetStopped, LoopClearFlag, LoopCheck, connVars
  <2>4. CASE \E t \in Task : TryConnect(t) \/ LagAnswer(t)
    BY <2>4 DEF TryConnect, LagAnswer, ReadAddr, ReadProxy, SetConnecting, Dial, DialFail,
          ResubscribeHeaders, SubscribeAnswer, ResubscribeScripts, connVars
  <2>5. CASE SetHeaders \/ QueueRequest
    BY <2>5 DEF SetHeaders, QueueRequest, connVars
  <2>6. CASE \E c \in Conn : SenderStep(c)
    BY <2>6 DEF SenderStep
  <2>7. CASE \E c \in Conn : ReceiverStep(c)
    BY <2>7 DEF ReceiverStep, ReceiverEnds, ReadEof, ReceiverPanics,
      ReceiverReadStatus, ReceiverSendClose, ReceiverAborted
  <2>8. CASE \E c \in Conn : Ping(c) \/ PeerClose(c) \/ DropSocket(c)
    BY <2>8 DEF Ping, PeerClose, DropSocket, connVars
  <2>9. CASE \E c \in Conn, t \in Task : Answer(c, t)
    BY <2>9 DEF Answer
  <2>10. CASE UNCHANGED vars
    BY <2>10 DEF vars, connVars
  <2> QED
    BY <2>1, <2>2, <2>3, <2>4, <2>5, <2>6, <2>7, <2>8, <2>9, <2>10 DEF Next
<1> QED
  BY <1>1, <1>2, <1>3, <1>4, <1>6, <1>7, <1>8

(* The inductive invariant behind TypeOK.                                  *)
THEOREM TypeInvariant == Spec => []TypeInv
<1>1. Init => TypeInv
  BY InitTypeInv
<1>2. TypeInv /\ [Next]_vars => TypeInv'
  BY StepTypeOK, StepMutexQueue, StepFreeEntries DEF TypeInv
<1> QED
  BY <1>1, <1>2, PTL DEF Spec

(* Every shared cell, task and connection keeps its type, whatever the     *)
(* calls and the faults.                                                   *)
THEOREM TypeCorrect == Spec => []TypeOK
BY TypeInvariant, PTL DEF TypeInv

-----------------------------------------------------------------------------
(* The steps that change the sender of a connection.                       *)
LEMMA SenderSteps ==
    ASSUME [Next]_vars
    PROVE  \/ UNCHANGED snd
           \/ \E t \in Task, c \in Conn : DialOk(t, c)
           \/ \E c \in Conn : \/ LockReceiver(c) \/ TakeMsg(c) \/ WriteFails(c)
                              \/ TakeClose(c) \/ TakeStop(c) \/ SenderSetStatus(c)
                              \/ SenderClearFlag(c) \/ SenderNotify(c) \/ SenderExit(c)
<1>1. CASE \E u \in User, b \in BOOLEAN : Connect(u, b) \/ CallStop(u, b)
  BY <1>1 DEF Connect, CallStop, connVars
<1>2. CASE \E u \in User : UserStep(u) \/ LagStop(u)
  BY <1>2 DEF UserStep, LagStop, CheckStatus, SetDown, SpawnLoop, ReadStatusForStop,
        SendStop, SubscribeStop, WriteAddr, WriteProxy, Restart, connVars
<1>3. CASE \E l \in Loop : LoopStep(l)
  BY <1>3 DEF LoopStep, LoopTop, LoopSetStopped, LoopClearFlag, LoopCheck, connVars
<1>4. CASE \E t \in Task : TryConnect(t) \/ LagAnswer(t)
  BY <1>4 DEF TryConnect, LagAnswer, ReadAddr, ReadProxy, SetConnecting, Dial, DialFail,
        ResubscribeHeaders, SubscribeAnswer, ResubscribeScripts, connVars
<1>5. CASE SetHeaders \/ QueueRequest
  BY <1>5 DEF SetHeaders, QueueRequest, connVars
<1>6. CASE \E c \in Conn : SenderStep(c)
  BY <1>6 DEF SenderStep
<1>7. CASE \E c \in Conn : ReceiverStep(c)
  BY <1>7 DEF ReceiverStep, ReceiverEnds, ReadEof, ReceiverPanics,
    ReceiverReadStatus, ReceiverSendClose, ReceiverAborted
<1>8. CASE \E c \in Conn : Ping(c) \/ PeerClose(c) \/ DropSocket(c)
  BY <1>8 DEF Ping, PeerClose, DropSocket, connVars
<1>9. CASE \E c \in Conn, t \in Task : Answer(c, t)
  BY <1>9 DEF Answer
<1>10. CASE UNCHANGED vars
  BY <1>10 DEF vars, connVars
<1> QED
  BY <1>1, <1>2, <1>3, <1>4, <1>5, <1>6, <1>7, <1>8, <1>9, <1>10 DEF Next

(* Only a successful dial makes the client Connected.                      *)
LEMMA ConnectedByDial ==
    ASSUME [Next]_vars, status # "Connected", status' = "Connected"
    PROVE  \E t \in Task, c \in Conn : DialOk(t, c)
<1>1. CASE \E u \in User, b \in BOOLEAN : Connect(u, b) \/ CallStop(u, b)
  BY <1>1 DEF Connect, CallStop, cells
<1>2. CASE \E u \in User : UserStep(u) \/ LagStop(u)
  BY <1>2 DEF UserStep, LagStop, CheckStatus, SetDown, SpawnLoop, ReadStatusForStop,
        SendStop, SubscribeStop, WriteAddr, WriteProxy, Restart, cells
<1>3. CASE \E l \in Loop : LoopStep(l)
  BY <1>3 DEF LoopStep, LoopTop, LoopSetStopped, LoopClearFlag, LoopCheck, cells
<1>4. CASE \E t \in Task : TryConnect(t) \/ LagAnswer(t)
  BY <1>4 DEF TryConnect, LagAnswer, ReadAddr, ReadProxy, SetConnecting, Dial, DialFail,
        ResubscribeHeaders, SubscribeAnswer, ResubscribeScripts, cells
<1>5. CASE SetHeaders \/ QueueRequest
  BY <1>5 DEF SetHeaders, QueueRequest, cells
<1>6. CASE \E c \in Conn : SenderStep(c)
  BY <1>6 DEF SenderStep, LockReceiver, Takes, TakeMsg, WriteFails, TakeClose, TakeStop,
        SenderSetStatus, SenderClearFlag, SenderNotify, SenderExit, cells
<1>7. CASE \E c \in Conn : ReceiverStep(c)
  BY <1>7 DEF ReceiverStep, ReceiverEnds, ReadEof, ReceiverPanics,
    ReceiverReadStatus, ReceiverSendClose, ReceiverAborted, cells
<1>8. CASE \E c \in Conn : Ping(c) \/ PeerClose(c) \/ DropSocket(c)
  BY <1>8 DEF Ping, PeerClose, DropSocket, cells
<1>9. CASE \E c \in Conn, t \in Task : Answer(c, t)
  BY <1>9 DEF Answer, cells
<1>10. CASE UNCHANGED vars
  BY <1>10 DEF vars, cells
<1> QED
  BY <1>1, <1>2, <1>3, <1>4, <1>5, <1>6, <1>7, <1>8, <1>9, <1>10 DEF Next

(* When a write to a broken connection never fails, a Connected client has *)
(* a connection in service: the sender of a connection writes the final    *)
(* status before it stops serving.  Stops and address changes included.    *)
THEOREM ConnectedServed ==
    ASSUME "write" \notin Faults
    PROVE  Spec => []ConnectedIsServed
<1>1. Init => ConnectedIsServed
  BY DEF Init, ConnectedIsServed
<1>2. ASSUME TypeInv, ConnectedIsServed, [Next]_vars
      PROVE  ConnectedIsServed'
  <2> SUFFICES ASSUME status' = "Connected"
               PROVE  \E c \in Conn : Serving(c)'
    BY DEF ConnectedIsServed
  <2> USE DEF TypeInv, TypeOK, Serving, cells, connVars
  <2>1. ASSUME NEW t \in Task, NEW c \in Conn, DialOk(t, c)
        PROVE  Serving(c)'
    BY <1>2, <2>1 DEF DialOk
  <2>2. CASE status = "Connected"
    <3>1. PICK c \in Conn : Serving(c)
      BY <1>2, <2>2 DEF ConnectedIsServed
    <3>2. CASE UNCHANGED snd
      BY <3>1, <3>2
    <3>3. ASSUME NEW d \in Conn, LockReceiver(d) \/ TakeMsg(d) \/ TakeClose(d) \/ TakeStop(d)
          PROVE  Serving(c)'
      BY <1>2, <3>1, <3>3 DEF LockReceiver, TakeMsg, TakeClose, TakeStop, Takes, SenderPc
    <3>4. ASSUME NEW d \in Conn, SenderSetStatus(d)
          PROVE  FALSE
      BY <3>4 DEF SenderSetStatus
    <3>5. ASSUME NEW d \in Conn, SenderClearFlag(d) \/ SenderNotify(d) \/ SenderExit(d)
          PROVE  Serving(c)'
      BY <1>2, <3>1, <3>5 DEF SenderClearFlag, SenderNotify, SenderExit
    <3>6. \A d \in Conn : ~WriteFails(d)
      BY DEF WriteFails
    <3> HIDE DEF TypeInv, TypeOK, Serving, cells, connVars
    <3> QED
      BY <3>2, <3>3, <3>4, <3>5, <3>6, <2>1, <1>2, SenderSteps
  <2>3. CASE status # "Connected"
    <3>1. \E t \in Task, c \in Conn : DialOk(t, c)
      BY <1>2, <2>3, ConnectedByDial
    <3> QED
      BY <2>1, <3>1
  <2> QED
    BY <2>2, <2>3
<1> QED
  BY <1>1, <1>2, TypeInvariant, PTL DEF Spec

-----------------------------------------------------------------------------
(* Clients that are never stopped.                                         *)

NoStop == Ops \cap {"stop", "change"} = {}

(* What every task finds when nobody calls stop() or change_address(): the *)
(* flag is down, no task is on its way to Stopped, and the client leaves   *)
(* Initialized before it has a sender.                                     *)
NeverStopped ==
    /\ scheduled = FALSE /\ status # "Stopped"
    /\ \A u \in User : pc[u] \in {"idle", "checkWait", "checkStart", "setDown", "spawn"} \cup TryPc
    /\ \A l \in Loop : pc[l] \notin {"setStopped", "clearFlag"}
    /\ \A c \in Conn : snd[c] \notin {"stopping", "clearFlag", "notify"}
    /\ status = "Initialized" => \A c \in Conn : snd[c] = "off"

(* Where a task stands once it has left Initialized behind.                *)
Dialed == {"dialing", "headers", "subscribeAnswer", "waitAnswer", "scripts"}

ManagedInv ==
    /\ NeverStopped
    /\ LoopManagesConnection
    /\ \A t \in Task : pc[t] \in Dialed => status # "Initialized"

(* A client that was just created needs no loop.                           *)
LEMMA InitManaged == Init => ManagedInv
<1> SUFFICES ASSUME Init PROVE ManagedInv
  OBVIOUS
<1>1. \A t \in Task : pc[t] = IF t \in User THEN "idle" ELSE "off"
  BY DEF Init
<1>2. NeverStopped
  BY <1>1, LifecycleAssumption DEF Init, NeverStopped, Task
<1>3. LoopManagesConnection
  BY DEF Init, LoopManagesConnection
<1> QED
  BY <1>1, <1>2, <1>3 DEF ManagedInv, Dialed

(* No step of a client that is never stopped ends its loop.                *)
LEMMA StepManaged ==
    ASSUME NoStop, TypeInv, ManagedInv, [Next]_vars
    PROVE  ManagedInv'
<1> USE LifecycleAssumption
<1> USE DEF TypeInv, TypeOK, ManagedInv, NeverStopped, LoopManagesConnection, LoopAlive,
            WillSpawn, Dialed, Goto, Task, TryPc, cells, taskVars, connVars
<1>1. ASSUME NEW u \in User, NEW b \in BOOLEAN, Connect(u, b) \/ CallStop(u, b)
      PROVE  ManagedInv'
  <2>1. Connect(u, b)
    BY <1>1 DEF CallStop, NoStop
  <2>2. /\ pc[u] = "idle" /\ pc' = [pc EXCEPT ![u] = IF b THEN "checkWait" ELSE "checkStart"]
        /\ scheduled' = FALSE /\ UNCHANGED <<status, snd>>
    BY <2>1 DEF Connect
  <2> QED
    BY <2>2
<1>2. ASSUME NEW u \in User, CheckStatus(u)
      PROVE  ManagedInv'
  BY <1>2 DEF CheckStatus
<1>3. ASSUME NEW u \in User, SetDown(u)
      PROVE  ManagedInv'
  BY <1>3 DEF SetDown, FreeEntries, MutexQueue
<1>4. ASSUME NEW u \in User, NEW l \in Loop, SpawnLoop(u, l)
      PROVE  ManagedInv'
  BY <1>4 DEF SpawnLoop
<1>5. ASSUME NEW u \in User, \/ ReadStatusForStop(u) \/ SendStop(u) \/ SubscribeStop(u) \/ LagStop(u)
                            \/ WriteAddr(u) \/ WriteProxy(u) \/ Restart(u)
      PROVE  ManagedInv'
  BY <1>5 DEF ReadStatusForStop, SendStop, SubscribeStop, LagStop, WriteAddr, WriteProxy, Restart
<1>6. ASSUME NEW l \in Loop, LoopTop(l) \/ LoopSetStopped(l) \/ LoopClearFlag(l)
      PROVE  ManagedInv'
  BY <1>6 DEF LoopTop, LoopSetStopped, LoopClearFlag
<1>7. ASSUME NEW l \in Loop, LoopCheck(l)
      PROVE  ManagedInv'
  BY <1>7 DEF LoopCheck
<1>8. ASSUME NEW t \in Task, ReadAddr(t)
      PROVE  ManagedInv'
  BY <1>8 DEF ReadAddr
<1>9. ASSUME NEW t \in Task, ReadProxy(t)
      PROVE  ManagedInv'
  BY <1>9 DEF ReadProxy
<1>10. ASSUME NEW t \in Task, SetConnecting(t)
      PROVE  ManagedInv'
  BY <1>10 DEF SetConnecting
<1>11. ASSUME NEW t \in Task, NEW c \in Conn, DialOk(t, c)
      PROVE  ManagedInv'
  BY <1>11 DEF DialOk
<1>12. ASSUME NEW t \in Task, DialFail(t)
      PROVE  ManagedInv'
  BY <1>12 DEF DialFail, Return
<1>13. ASSUME NEW t \in Task, ResubscribeHeaders(t)
      PROVE  ManagedInv'
  <2>1. /\ pc[t] = "headers" /\ UNCHANGED <<status, scheduled, snd>>
        /\ \E l \in {"subscribeAnswer", "scripts"} : pc' = [pc EXCEPT ![t] = l]
    BY <1>13 DEF ResubscribeHeaders
  <2> QED
    BY <2>1
<1>14. ASSUME NEW t \in Task, SubscribeAnswer(t)
      PROVE  ManagedInv'
  BY <1>14 DEF SubscribeAnswer
<1>15. ASSUME NEW t \in Task, LagAnswer(t)
      PROVE  ManagedInv'
  BY <1>15 DEF LagAnswer
<1>16. ASSUME NEW t \in Task, ResubscribeScripts(t)
      PROVE  ManagedInv'
  BY <1>16 DEF ResubscribeScripts, Return
<1>17. ASSUME SetHeaders \/ QueueRequest
      PROVE  ManagedInv'
  BY <1>17 DEF SetHeaders, QueueRequest
<1>18. ASSUME NEW c \in Conn, LockReceiver(c)
      PROVE  ManagedInv'
  BY <1>18 DEF LockReceiver
<1>19. ASSUME NEW c \in Conn, TakeMsg(c) \/ WriteFails(c) \/ TakeClose(c) \/ TakeStop(c)
      PROVE  ManagedInv'
  BY <1>19 DEF TakeMsg, WriteFails, TakeClose, TakeStop, Takes
<1>20. ASSUME NEW c \in Conn, SenderSetStatus(c)
      PROVE  ManagedInv'
  BY <1>20 DEF SenderSetStatus
<1>21. ASSUME NEW c \in Conn, SenderClearFlag(c) \/ SenderNotify(c) \/ SenderExit(c)
      PROVE  ManagedInv'
  BY <1>21 DEF SenderClearFlag, SenderNotify, SenderExit
<1>22. ASSUME NEW c \in Conn, ReceiverStep(c)
      PROVE  ManagedInv'
  BY <1>22 DEF ReceiverStep, ReceiverEnds, ReadEof, ReceiverPanics,
    ReceiverReadStatus, ReceiverSendClose, ReceiverAborted
<1>23. ASSUME NEW c \in Conn, Ping(c) \/ PeerClose(c) \/ DropSocket(c)
      PROVE  ManagedInv'
  BY <1>23 DEF Ping, PeerClose, DropSocket
<1>24. ASSUME NEW c \in Conn, NEW t \in Task, Answer(c, t)
      PROVE  ManagedInv'
  BY <1>24 DEF Answer
<1>25. CASE UNCHANGED vars
  BY <1>25 DEF vars
<1> HIDE DEF TypeInv, TypeOK, ManagedInv, NeverStopped, LoopManagesConnection, LoopAlive,
             WillSpawn, Dialed, Goto, Task, TryPc, cells, taskVars, connVars
<1> QED
  BY <1>1, <1>2, <1>3, <1>4, <1>5, <1>6, <1>7, <1>8, <1>9, <1>10, <1>11,
     <1>12, <1>13, <1>14, <1>15, <1>16, <1>17, <1>18, <1>19, <1>20, <1>21,
     <1>22, <1>23, <1>24, <1>25
     DEF Next, UserStep, LoopStep, TryConnect, Dial, SenderStep

(* With any number of tasks that call connect(), in every status in which  *)
(* connect() refuses to start a loop, a loop is running or will be spawned.*)
THEOREM AlwaysManaged ==
    ASSUME NoStop
    PROVE  Spec => []LoopManagesConnection
<1>1. Init => ManagedInv
  BY InitManaged
<1>2. TypeInv /\ ManagedInv /\ [Next]_vars => ManagedInv'
  BY StepManaged
<1>3. ManagedInv => LoopManagesConnection
  BY DEF ManagedInv
<1> QED
  BY <1>1, <1>2, <1>3, TypeInvariant, PTL DEF Spec

(* With one task calling connect(), no loop is alive before the call that  *)
(* leaves Initialized has spawned it, and that call finds none.            *)
SingleInv ==
    /\ \A l, m \in Loop : LoopAlive(l) /\ LoopAlive(m) => l = m
    /\ \A u \in User : WillSpawn(u) \/ pc[u] = "setDown" \/ status = "Initialized"
                         => \A l \in Loop : ~LoopAlive(l)
    /\ \A u \in User : pc[u] \in Dialed \cup {"spawn"} => status # "Initialized"

OneUser == \A u, v \in User : u = v

(* No step adds a loop to the one the single task has spawned.             *)
LEMMA StepSingle ==
    ASSUME NoStop, OneUser, TypeInv, ManagedInv, SingleInv, [Next]_vars
    PROVE  SingleInv'
<1> USE LifecycleAssumption
<1> USE DEF TypeInv, TypeOK, ManagedInv, SingleInv, NeverStopped, LoopAlive, OneUser,
            WillSpawn, Dialed, Goto, Task, TryPc, cells, taskVars, connVars
<1>1. ASSUME NEW u \in User, NEW b \in BOOLEAN, Connect(u, b) \/ CallStop(u, b)
      PROVE  SingleInv'
  <2>1. Connect(u, b)
    BY <1>1 DEF CallStop, NoStop
  <2>2. /\ pc[u] = "idle" /\ pc' = [pc EXCEPT ![u] = IF b THEN "checkWait" ELSE "checkStart"]
        /\ UNCHANGED status
    BY <2>1 DEF Connect
  <2> QED
    BY <2>2
<1>2. ASSUME NEW u \in User, CheckStatus(u)
      PROVE  SingleInv'
  <2>1. /\ pc[u] \in {"checkWait", "checkStart"} /\ UNCHANGED status
        /\ \/ pc' = [pc EXCEPT ![u] = "idle"]
           \/ status = "Initialized" /\ pc' = [pc EXCEPT ![u] = "readAddr"]
           \/ status = "Initialized" /\ pc' = [pc EXCEPT ![u] = "setDown"]
    <3>1. CASE status = "Initialized"
      BY <1>2, <3>1 DEF CheckStatus
    <3>2. CASE status # "Initialized"
      <4>1. status \notin {"Initialized", "Stopped"}
        BY <3>2
      <4>2. Goto(u, "idle") /\ UNCHANGED status /\ pc[u] \in {"checkWait", "checkStart"}
        BY <4>1, <1>2 DEF CheckStatus
      <4> QED
        BY <4>2
    <3> QED
      BY <3>1, <3>2
  <2>2. CASE pc' = [pc EXCEPT ![u] = "idle"]
    BY <2>1, <2>2
  <2>3. CASE status = "Initialized" /\ pc' = [pc EXCEPT ![u] = "readAddr"]
    BY <2>1, <2>3
  <2>4. CASE status = "Initialized" /\ pc' = [pc EXCEPT ![u] = "setDown"]
    BY <2>1, <2>4
  <2> QED
    BY <2>1, <2>2, <2>3, <2>4
<1>3. ASSUME NEW u \in User, SetDown(u)
      PROVE  SingleInv'
  BY <1>3 DEF SetDown
<1>4. ASSUME NEW u \in User, NEW l \in Loop, SpawnLoop(u, l)
      PROVE  SingleInv'
  BY <1>4 DEF SpawnLoop
<1>5. ASSUME NEW u \in User, \/ ReadStatusForStop(u) \/ SendStop(u) \/ SubscribeStop(u) \/ LagStop(u)
                            \/ WriteAddr(u) \/ WriteProxy(u) \/ Restart(u)
      PROVE  SingleInv'
  BY <1>5 DEF ReadStatusForStop, SendStop, SubscribeStop, LagStop, WriteAddr, WriteProxy, Restart
<1>6. ASSUME NEW l \in Loop, LoopTop(l) \/ LoopSetStopped(l) \/ LoopClearFlag(l)
      PROVE  SingleInv'
  <2>1. pc[l] = "top" /\ pc' = [pc EXCEPT ![l] = "check"] /\ UNCHANGED status
    BY <1>6 DEF LoopTop, LoopSetStopped, LoopClearFlag
  <2> QED
    BY <2>1
<1>7. ASSUME NEW l \in Loop, LoopCheck(l)
      PROVE  SingleInv'
  BY <1>7 DEF LoopCheck
<1>8. ASSUME NEW t \in Task, ReadAddr(t)
      PROVE  SingleInv'
  BY <1>8 DEF ReadAddr
<1>9. ASSUME NEW t \in Task, ReadProxy(t)
      PROVE  SingleInv'
  BY <1>9 DEF ReadProxy
<1>10. ASSUME NEW t \in Task, SetConnecting(t)
      PROVE  SingleInv'
  BY <1>10 DEF SetConnecting
<1>11. ASSUME NEW t \in Task, NEW c \in Conn, DialOk(t, c)
      PROVE  SingleInv'
  BY <1>11 DEF DialOk
<1>12. ASSUME NEW t \in Task, DialFail(t)
      PROVE  SingleInv'
  BY <1>12 DEF DialFail, Return
<1>13. ASSUME NEW t \in Task, ResubscribeHeaders(t)
      PROVE  SingleInv'
  <2>1. /\ pc[t] = "headers" /\ UNCHANGED status
        /\ \E l \in {"subscribeAnswer", "scripts"} : pc' = [pc EXCEPT ![t] = l]
    BY <1>13 DEF ResubscribeHeaders
  <2> QED
    BY <2>1
<1>14. ASSUME NEW t \in Task, SubscribeAnswer(t)
      PROVE  SingleInv'
  BY <1>14 DEF SubscribeAnswer
<1>15. ASSUME NEW t \in Task, LagAnswer(t)
      PROVE  SingleInv'
  BY <1>15 DEF LagAnswer
<1>16. ASSUME NEW t \in Task, ResubscribeScripts(t)
      PROVE  SingleInv'
  <2>1. /\ pc[t] = "scripts" /\ UNCHANGED status
        /\ pc' = [pc EXCEPT ![t] = IF t \in Loop THEN "top" ELSE "spawn"]
    BY <1>16 DEF ResubscribeScripts, Return
  <2> QED
    BY <2>1
<1>17. ASSUME SetHeaders \/ QueueRequest
      PROVE  SingleInv'
  BY <1>17 DEF SetHeaders, QueueRequest
<1>18. ASSUME NEW c \in Conn, \/ LockReceiver(c) \/ TakeMsg(c) \/ WriteFails(c) \/ TakeClose(c) \/ TakeStop(c)
                          \/ SenderClearFlag(c) \/ SenderExit(c)
      PROVE  SingleInv'
  BY <1>18 DEF LockReceiver, TakeMsg, WriteFails, TakeClose, TakeStop, Takes,
         SenderClearFlag, SenderExit
<1>19. ASSUME NEW c \in Conn, SenderSetStatus(c)
      PROVE  SingleInv'
  BY <1>19 DEF SenderSetStatus
<1>20. ASSUME NEW c \in Conn, SenderNotify(c)
      PROVE  SingleInv'
  BY <1>20 DEF SenderNotify
<1>21. ASSUME NEW c \in Conn, ReceiverStep(c)
      PROVE  SingleInv'
  BY <1>21 DEF ReceiverStep, ReceiverEnds, ReadEof, ReceiverPanics,
    ReceiverReadStatus, ReceiverSendClose, ReceiverAborted
<1>22. ASSUME NEW c \in Conn, Ping(c) \/ PeerClose(c) \/ DropSocket(c)
      PROVE  SingleInv'
  BY <1>22 DEF Ping, PeerClose, DropSocket
<1>23. ASSUME NEW c \in Conn, NEW t \in Task, Answer(c, t)
      PROVE  SingleInv'
  BY <1>23 DEF Answer
<1>24. CASE UNCHANGED vars
  BY <1>24 DEF vars
<1> HIDE DEF TypeInv, TypeOK, ManagedInv, SingleInv, NeverStopped, LoopAlive, OneUser,
             WillSpawn, Dialed, Goto, Task, TryPc, cells, taskVars, connVars
<1> QED
  BY <1>1, <1>2, <1>3, <1>4, <1>5, <1>6, <1>7, <1>8, <1>9, <1>10, <1>11,
     <1>12, <1>13, <1>14, <1>15, <1>16, <1>17, <1>18, <1>19, <1>20, <1>21,
     <1>22, <1>23, <1>24
     DEF Next, UserStep, LoopStep, TryConnect, Dial, SenderStep

(* At first no loop is alive.                                              *)
LEMMA InitSingle == Init => SingleInv
<1> SUFFICES ASSUME Init PROVE SingleInv
  OBVIOUS
<1>1. \A t \in Task : pc[t] = IF t \in User THEN "idle" ELSE "off"
  BY DEF Init
<1> QED
  BY <1>1, LifecycleAssumption
     DEF Init, SingleInv, LoopAlive, WillSpawn, Dialed, Task, TryPc

(* A single task that calls connect(), however often, and never stops the  *)
(* client, is served by one loop at most.                                  *)
THEOREM SingleLoop ==
    ASSUME NoStop, OneUser
    PROVE  Spec => []OneLoop
<1>1. Init => SingleInv
  BY InitSingle
<1>2. TypeInv /\ ManagedInv /\ SingleInv /\ [Next]_vars => SingleInv'
  BY StepSingle
<1>3. TypeInv /\ ManagedInv /\ [Next]_vars => ManagedInv'
  BY StepManaged
<1>4. Init => ManagedInv
  BY InitManaged
<1>5. SingleInv => OneLoop
  <2> SUFFICES ASSUME SingleInv, NEW t \in Task, NEW r \in Task,
                      IF t \in Loop THEN Redials(t) ELSE WillSpawn(t),
                      IF r \in Loop THEN Redials(r) ELSE WillSpawn(r)
               PROVE  t = r
    BY DEF OneLoop
  <2>1. \A l \in Loop : Redials(l) => LoopAlive(l)
    BY DEF Redials, LoopAlive
  <2>2. CASE t \in Loop /\ r \in Loop
    BY <2>1, <2>2 DEF SingleInv
  <2>3. CASE t \in Loop /\ r \notin Loop
    BY <2>1, <2>3 DEF SingleInv, Task
  <2>4. CASE t \notin Loop /\ r \in Loop
    BY <2>1, <2>4 DEF SingleInv, Task
  <2>5. CASE t \notin Loop /\ r \notin Loop
    BY <2>5 DEF OneUser, Task
  <2> QED
    BY <2>2, <2>3, <2>4, <2>5
<1> QED
  BY <1>1, <1>2, <1>3, <1>4, <1>5, TypeInvariant, PTL DEF Spec

-----------------------------------------------------------------------------
(* One connection in service.                                              *)

(* The steps of a dial up to its outcome, and of start(), which writes a   *)
(* status as a dial does.                                                  *)
Calling == {"readAddr", "readProxy", "setConnecting", "dialing", "setDown"}

(* A connection in service is the only one, the status is Connected, and   *)
(* no task is on its way to another connection.                            *)
ServingInv ==
    /\ \A c \in Conn : Serving(c) => status = "Connected"
    /\ OneServing
    /\ \A t \in Task : pc[t] \in Calling => \A c \in Conn : ~Serving(c)

(* Steps that start no dial, serve no further connection and leave the     *)
(* status alone.                                                           *)
LEMMA QuietServing ==
    ASSUME ServingInv, UNCHANGED status,
           \A c \in Conn : Serving(c)' => Serving(c),
           \A t \in Task : pc'[t] \in Calling => pc[t] \in Calling
    PROVE  ServingInv'
  BY DEF ServingInv, OneServing

(* Only the task that dials leads to a connection.                         *)
LEMMA OneCaller ==
    ASSUME OneUser, SingleInv, NEW t \in Task, NEW s \in Task,
           pc[t] = "dialing", pc[s] \in Calling
    PROVE  s = t
<1>1. \A l \in Loop : l \in {t, s} => LoopAlive(l)
  BY DEF LoopAlive, Calling
<1>2. \A u \in User : u \in {t, s} => WillSpawn(u) \/ pc[u] = "setDown"
  BY DEF WillSpawn, Calling, TryPc
<1>3. t \in Loop \/ t \in User
  BY DEF Task
<1>4. s \in Loop \/ s \in User
  BY DEF Task
<1> QED
  BY <1>1, <1>2, <1>3, <1>4 DEF SingleInv, OneUser

(* No step puts a second connection in service.                            *)
LEMMA StepServing ==
    ASSUME NoStop, OneUser, TypeInv, ManagedInv, SingleInv, ServingInv, [Next]_vars
    PROVE  ServingInv'
<1> USE DEF Goto
<1>t. /\ pc \in [Task -> UserPc \cup LoopPc \cup TryPc] /\ snd \in [Conn -> SenderPc]
      /\ User \subseteq Task /\ Loop \subseteq Task
  BY DEF TypeInv, TypeOK, Task
<1>1. ASSUME NEW u \in User, NEW b \in BOOLEAN, Connect(u, b) \/ CallStop(u, b)
      PROVE  ServingInv'
  <2>1. /\ pc' = [pc EXCEPT ![u] = IF b THEN "checkWait" ELSE "checkStart"]
        /\ UNCHANGED <<status, snd>>
    BY <1>1 DEF Connect, CallStop, NoStop, connVars
  <2> QED
    BY <2>1, <1>t, QuietServing DEF Calling, Serving
<1>2. ASSUME NEW u \in User, CheckStatus(u)
      PROVE  ServingInv'
  <2>1. UNCHANGED <<status, snd>>
    BY <1>2 DEF CheckStatus, cells, connVars
  <2>2. CASE status = "Initialized"
    <3>1. \A c \in Conn : ~Serving(c) /\ ~Serving(c)'
      BY <2>1, <2>2 DEF ManagedInv, NeverStopped, Serving
    <3> QED
      BY <3>1 DEF ServingInv, OneServing
  <2>3. CASE status # "Initialized"
    <3>1. pc' = [pc EXCEPT ![u] = "idle"]
      BY <1>2, <2>3 DEF CheckStatus, ManagedInv, NeverStopped
    <3> QED
      BY <2>1, <3>1, <1>t, QuietServing DEF Calling, Serving
  <2> QED
    BY <2>2, <2>3
<1>3. ASSUME NEW t \in Task,
             (t \in User /\ SetDown(t)) \/ SetConnecting(t) \/ DialFail(t)
      PROVE  ServingInv'
  <2>1. pc[t] \in Calling /\ UNCHANGED snd
    BY <1>3 DEF SetDown, SetConnecting, DialFail, Calling, connVars
  <2>2. \A c \in Conn : ~Serving(c) /\ ~Serving(c)'
    BY <2>1 DEF ServingInv, Serving
  <2> QED
    BY <2>2 DEF ServingInv, OneServing
<1>4. ASSUME NEW t \in Task, NEW c \in Conn, DialOk(t, c)
      PROVE  ServingInv'
  <2>1. /\ pc[t] = "dialing" /\ status' = "Connected"
        /\ pc' = [pc EXCEPT ![t] = "headers"] /\ snd' = [snd EXCEPT ![c] = "spawned"]
    BY <1>4 DEF DialOk
  <2>2. \A d \in Conn : Serving(d)' => d = c
    BY <2>1, <1>t DEF ServingInv, Serving, Calling
  <2>3. \A s \in Task : pc'[s] \notin Calling
    <3> SUFFICES ASSUME NEW s \in Task, pc'[s] \in Calling PROVE FALSE
      OBVIOUS
    <3>1. s # t /\ pc[s] \in Calling
      BY <2>1, <1>t DEF Calling
    <3> QED
      BY <2>1, <3>1, OneCaller
  <2> QED
    BY <2>1, <2>2, <2>3 DEF ServingInv, OneServing
<1>5. ASSUME NEW l \in Loop, LoopStep(l)
      PROVE  ServingInv'
  <2>1. UNCHANGED <<status, snd>>
    BY <1>5 DEF LoopStep, LoopTop, LoopSetStopped, LoopClearFlag, LoopCheck, ManagedInv,
          NeverStopped, cells, connVars
  <2>2. CASE LoopCheck(l) /\ status = "Disconnected"
    <3>1. \A c \in Conn : ~Serving(c) /\ ~Serving(c)'
      BY <2>1, <2>2 DEF ServingInv, Serving
    <3> QED
      BY <3>1 DEF ServingInv, OneServing
  <2>3. CASE ~(LoopCheck(l) /\ status = "Disconnected")
    <3>1. \E p \in {"top", "check", "off", "setStopped", "clearFlag"} : pc' = [pc EXCEPT ![l] = p]
      BY <1>5, <2>3 DEF LoopStep, LoopTop, LoopSetStopped, LoopClearFlag, LoopCheck
    <3> QED
      BY <2>1, <3>1, <1>t, QuietServing DEF Calling, Serving
  <2> QED
    BY <2>2, <2>3
<1>6. ASSUME NEW t \in Task, ReadAddr(t) \/ ReadProxy(t)
      PROVE  ServingInv'
  <2>1. /\ pc[t] \in {"readAddr", "readProxy"} /\ UNCHANGED <<status, snd>>
        /\ \E p \in {"readProxy", "setConnecting"} : pc' = [pc EXCEPT ![t] = p]
    BY <1>6 DEF ReadAddr, ReadProxy, cells, connVars
  <2> QED
    BY <2>1, <1>t, QuietServing DEF Calling, Serving
<1>7. ASSUME NEW t \in Task, \/ ResubscribeHeaders(t) \/ SubscribeAnswer(t) \/ LagAnswer(t)
                             \/ ResubscribeScripts(t)
      PROVE  ServingInv'
  <2>1. /\ UNCHANGED <<status, snd>>
        /\ \E p \in {"subscribeAnswer", "waitAnswer", "scripts", "top", "spawn"} :
              pc' = [pc EXCEPT ![t] = p]
    BY <1>7 DEF ResubscribeHeaders, SubscribeAnswer, LagAnswer, ResubscribeScripts, Return,
          cells, connVars
  <2> QED
    BY <2>1, <1>t, QuietServing DEF Calling, Serving
<1>8. ASSUME NEW u \in User, NEW l \in Loop, SpawnLoop(u, l)
      PROVE  ServingInv'
  BY <1>8, <1>t, QuietServing DEF SpawnLoop, Calling, Serving, cells, connVars
<1>9. ASSUME NEW u \in User, \/ ReadStatusForStop(u) \/ SendStop(u) \/ SubscribeStop(u) \/ LagStop(u)
                            \/ WriteAddr(u) \/ WriteProxy(u) \/ Restart(u)
      PROVE  FALSE
  BY <1>9, <1>t DEF ReadStatusForStop, SendStop, SubscribeStop, LagStop, WriteAddr, WriteProxy,
        Restart, ManagedInv, NeverStopped, TryPc
<1>10. ASSUME NEW c \in Conn, SenderSetStatus(c)
       PROVE  ServingInv'
  <2>1. snd[c] = "closing" /\ snd' = [snd EXCEPT ![c] = "exit"] /\ UNCHANGED pc
    BY <1>10 DEF SenderSetStatus, ManagedInv, NeverStopped, taskVars
  <2>2. \A d \in Conn : ~Serving(d)'
    BY <2>1, <1>t DEF ServingInv, OneServing, Serving
  <2> QED
    BY <2>2 DEF ServingInv, OneServing
<1>11. ASSUME NEW c \in Conn, LockReceiver(c) \/ TakeMsg(c) \/ WriteFails(c) \/ TakeClose(c) \/ TakeStop(c)
       PROVE  ServingInv'
  <2>1. UNCHANGED <<status, pc>> /\ snd[c] \in {"spawned", "ready"}
    BY <1>11 DEF LockReceiver, TakeMsg, WriteFails, TakeClose, TakeStop, Takes, cells, taskVars
  <2>2. \/ UNCHANGED snd
        \/ \E p \in SenderPc : snd' = [snd EXCEPT ![c] = p]
    BY <1>11 DEF LockReceiver, TakeMsg, WriteFails, TakeClose, TakeStop, SenderPc
  <2> QED
    BY <2>1, <2>2, <1>t, QuietServing DEF Serving
<1>12. ASSUME NEW c \in Conn, SenderClearFlag(c) \/ SenderNotify(c) \/ SenderExit(c)
       PROVE  ServingInv'
  <2>1. UNCHANGED <<status, pc>> /\ snd' = [snd EXCEPT ![c] = "off"]
    BY <1>12 DEF SenderClearFlag, SenderNotify, SenderExit, ManagedInv, NeverStopped, cells, taskVars
  <2> QED
    BY <2>1, <1>t, QuietServing DEF Serving
<1>13. ASSUME \/ SetHeaders \/ QueueRequest \/ UNCHANGED vars
              \/ \E c \in Conn : ReceiverStep(c) \/ Ping(c) \/ PeerClose(c) \/ DropSocket(c)
       PROVE  ServingInv'
  <2>1. UNCHANGED <<status, snd, pc>>
    BY <1>13 DEF SetHeaders, QueueRequest, ReceiverStep, ReceiverEnds,
          ReadEof, ReceiverPanics, ReceiverReadStatus, ReceiverSendClose, ReceiverAborted,
          Ping, PeerClose, DropSocket, vars, cells,
          taskVars, connVars
  <2> QED
    BY <2>1, QuietServing DEF Serving
<1>14. ASSUME NEW c \in Conn, NEW t \in Task, Answer(c, t)
       PROVE  ServingInv'
  <2>1. UNCHANGED <<status, snd>> /\ pc' = [pc EXCEPT ![t] = IF pc[t] = "waitAnswer" THEN "scripts" ELSE pc[t]]
    BY <1>14 DEF Answer, cells
  <2> QED
    BY <2>1, <1>t, QuietServing DEF Calling, Serving
<1> QED
  BY <1>1, <1>2, <1>3, <1>4, <1>5, <1>6, <1>7, <1>8, <1>9, <1>10, <1>11, <1>12, <1>13,
     <1>14 DEF Next, UserStep, TryConnect, Dial, SenderStep, Task

(* With one task that never stops the client, failed writes, lag and a     *)
(* full channel included, two connections are never in service at once.    *)
THEOREM SingleService ==
    ASSUME NoStop, OneUser
    PROVE  Spec => []OneServing
<1>1. Init => ServingInv
  BY LifecycleAssumption DEF Init, ServingInv, OneServing, Serving, Calling, Task
<1>2. TypeInv /\ ManagedInv /\ SingleInv /\ ServingInv /\ [Next]_vars => ServingInv'
  BY StepServing
<1>3. TypeInv /\ ManagedInv /\ SingleInv /\ [Next]_vars => ManagedInv' /\ SingleInv'
  BY StepManaged, StepSingle
<1>4. Init => ManagedInv /\ SingleInv
  BY InitManaged, InitSingle
<1>5. ServingInv => OneServing
  BY DEF ServingInv
<1> QED
  BY <1>1, <1>2, <1>3, <1>4, <1>5, TypeInvariant, PTL DEF Spec
=============================================================================
