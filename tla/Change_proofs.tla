----------------------------- MODULE Change_proofs -----------------------------
(***************************************************************************)
(* The address of a client whose application changes it once, before,      *)
(* between or after any number of calls of connect() and start(): the      *)
(* change finds the client stopped and out of service, and every           *)
(* connection in service is one to the address last set.                   *)
(***************************************************************************)
EXTENDS Lifecycle_proofs, SequenceTheorems

CONSTANT ChangeAt       \* the number of calls made before the change

In(S) == \E u \in User : pc[u] \in S

Asked == calls > ChangeAt

(* One call is change_address().  What comes before and after it is open.  *)
OneChange == \A u \in User : CallStop(u, TRUE) => calls = ChangeAt

(* The application calls connect(), start() and change_address(), and its  *)
(* subscription to the notifications does not lag.                         *)
OnlyChanges == ChangeAt \in Nat /\ "stop" \notin Ops /\ "lagStop" \notin Faults

Waiting == In({"subscribeStop", "waitStop"})
Writing == In({"writeAddr", "writeProxy"})

(* Up to the Stop notification that lets the change go on.                 *)
Prior == ~Asked \/ In({"changeRead", "changeSend"}) \/ Waiting

(* The application is in a change only after it has asked for one, and     *)
(* nothing is, or is about to be, stopped before.                          *)
AppInv ==
    /\ \A u \in User : pc[u] \notin {"stopRead", "stopSend"}
    /\ In({"changeRead", "changeSend", "subscribeStop", "waitStop", "writeAddr", "writeProxy",
           "restart"}) => Asked
    /\ ~Asked => /\ scheduled = FALSE /\ status # "Stopped"
                 /\ \A l \in Loop : pc[l] \notin {"setStopped", "clearFlag"}
                 /\ status = "Initialized" => ~In(Dialed \cup {"spawn"})

(* Whoever dials has read the address and the proxy that are set, and      *)
(* whoever serves is connected to them.                                    *)
CurrentInv ==
    /\ \A t \in Task : /\ pc[t] = "readProxy" => local[t][1] = addr
                       /\ pc[t] \in {"setConnecting", "dialing"} => local[t] = <<addr, proxy>>
    /\ \A c \in Conn : Serving(c) => peer[c] = <<addr, proxy>>

(* Up to the notification there is one loop at most, and none while the    *)
(* application dials; there is one connection in service at most, and none *)
(* while anybody dials.                                                    *)
Dialing == TryPc \cup {"spawn", "setDown"}

Orderly ==
    /\ \A l, m \in Loop : LoopAlive(l) /\ LoopAlive(m) => l = m
    /\ In(Dialing) \/ status = "Initialized" => \A l \in Loop : ~LoopAlive(l)
    /\ \A c \in Conn : Serving(c) => status \in {"Connected", "Stopped"}
    /\ OneServing
    /\ \A t \in Task : pc[t] \in Calling => \A c \in Conn : ~Serving(c)

PriorInv == Prior => Orderly

(* There is one Stop event at most, queued or being carried out, and the   *)
(* change waits for it.                                                    *)
StopsIn(q) == {n \in DOMAIN q : q[n].ev = "Stop"}
Stops == StopsIn(chan)
Stopping == {c \in Conn : snd[c] \in {"stopping", "clearFlag", "notify"}}

StopInv ==
    /\ Stops # {} \/ Stopping # {} => Waiting
    /\ Stops = {} \/ Stopping = {}
    /\ \A m, n \in Stops : m = n
    /\ \A c, d \in Stopping : c = d

(* From the Stop that a sender carries out to the last write of the change *)
(* nobody serves or dials.                                                 *)
Committed == Writing \/ \E c \in Conn : snd[c] \in {"clearFlag", "notify"}

Quiet ==
    /\ status = "Stopped" /\ \A c \in Conn : ~Serving(c)
    /\ \A t \in Task : pc[t] \notin Calling

QuietInv == Committed => Quiet

ChangeInv == AppInv /\ CurrentInv /\ PriorInv /\ StopInv /\ QuietInv

-----------------------------------------------------------------------------
(* Before the change there is no Stop event.                               *)
LEMMA NoStopBefore ==
    ASSUME AppInv, StopInv, ~Asked
    PROVE  Stops = {} /\ Stopping = {} /\ ~Waiting /\ ~Writing
  BY DEF AppInv, StopInv, Waiting, Writing, In, TryPc

(* A change asked for is not forgotten, and no other is asked for.         *)
LEMMA AskedStays ==
    ASSUME OnlyChanges, TypeInv, [Next]_vars
    PROVE  /\ Asked => Asked'
           /\ UNCHANGED calls => Asked' = Asked
<1>1. UNCHANGED calls \/ calls' = calls + 1
  BY DEF Next, Connect, CallStop, UserStep, LagStop, CheckStatus, SetDown, SpawnLoop,
        ReadStatusForStop, SendStop, SubscribeStop, WriteAddr, WriteProxy, Restart, LoopStep,
        LoopTop, LoopSetStopped, LoopClearFlag, LoopCheck, TryConnect, LagAnswer, ReadAddr,
        ReadProxy, SetConnecting, Dial, DialOk, DialFail, ResubscribeHeaders, SubscribeAnswer,
        ResubscribeScripts, SetHeaders, QueueRequest, SenderStep, LockReceiver, TakeMsg,
        WriteFails, TakeClose, TakeStop, Takes, SenderSetStatus, SenderClearFlag, SenderNotify,
        SenderExit, ReceiverStep, ReceiverEnds, ReadEof, ReceiverPanics,
        ReceiverReadStatus, ReceiverSendClose,
        ReceiverAborted, Ping, PeerClose, DropSocket, Answer, vars, taskVars
<1> QED
  BY <1>1 DEF Asked, OnlyChanges, TypeInv, TypeOK

(* The application stands where AppInv says.                               *)
LEMMA StepApp ==
    ASSUME OnlyChanges, OneUser, TypeInv, AppInv, PriorInv, StopInv, [Next]_vars, OneChange
    PROVE  AppInv'
<1> USE DEF Goto
<1>t. /\ pc \in [Task -> UserPc \cup LoopPc \cup TryPc]
      /\ User \subseteq Task /\ Loop \subseteq Task /\ User \cap Loop = {}
      /\ \A l \in Loop : pc[l] \in LoopPc \cup TryPc
  BY LifecycleAssumption DEF TypeInv, TypeOK, Task
<1>k. /\ Asked => Asked'
      /\ UNCHANGED calls => Asked' = Asked
  BY AskedStays
<1> DEFINE InChange == {"changeRead", "changeSend", "subscribeStop", "waitStop", "writeAddr",
                        "writeProxy", "restart"}
<1>q. ASSUME UNCHANGED <<scheduled, pc, calls>>,
             status' = status \/ status' \notin {"Initialized", "Stopped"}
      PROVE  AppInv'
  BY <1>q, <1>k DEF AppInv, In
<1>a. ASSUME Asked, \A u \in User : pc'[u] \notin {"stopRead", "stopSend"}
      PROVE  AppInv'
  BY <1>a, <1>k DEF AppInv
<1>l. ASSUME NEW l \in Loop, NEW p, pc' = [pc EXCEPT ![l] = p],
             p \notin {"setStopped", "clearFlag"} \/ Asked,
             UNCHANGED <<status, calls>>, scheduled' = scheduled \/ Asked
      PROVE  AppInv'
  <2>1. \A u \in User : pc'[u] = pc[u]
    BY <1>l, <1>t
  <2> QED
    BY <1>l, <1>k, <1>t, <2>1 DEF AppInv, In
<1>u. ASSUME NEW u \in User, NEW p, pc' = [pc EXCEPT ![u] = p],
             p \notin {"stopRead", "stopSend"} \cup InChange,
             \/ status' \notin {"Initialized", "Stopped"}
             \/ status' = status /\ (p \in Dialed \cup {"spawn"} => pc[u] \in Dialed \cup {"spawn"}),
             ~scheduled' \/ UNCHANGED scheduled, UNCHANGED calls
      PROVE  AppInv'
  <2>1. \A l \in Loop : pc'[l] = pc[l]
    BY <1>u, <1>t
  <2>2. \A v \in User : v = u /\ pc'[v] = p
    BY <1>u, <1>t DEF OneUser
  <2>3. ~In(InChange)'
    BY <1>u, <2>2 DEF In
  <2>4. CASE Asked
    BY <1>a, <1>u, <2>2, <2>4
  <2>5. CASE ~Asked
    <3>1. status' # "Stopped" /\ scheduled' = FALSE
      BY <1>u, <2>5 DEF AppInv, TypeInv, TypeOK
    <3>2. status' = "Initialized" => ~In(Dialed \cup {"spawn"})'
      BY <1>u, <2>2, <2>5 DEF AppInv, In
    <3> QED
      BY <1>u, <2>1, <2>2, <2>3, <2>5, <3>1, <3>2 DEF AppInv
  <2> QED
    BY <2>4, <2>5
<1>1. ASSUME NEW u \in User, NEW b \in BOOLEAN, Connect(u, b)
      PROVE  AppInv'
  <2>1. /\ pc' = [pc EXCEPT ![u] = IF b THEN "checkWait" ELSE "checkStart"]
        /\ scheduled' = FALSE /\ UNCHANGED status
    BY <1>1 DEF Connect
  <2>2. \A v \in User : pc'[v] \in {"checkWait", "checkStart"}
    BY <2>1, <1>t DEF OneUser
  <2>3. \A l \in Loop : pc'[l] = pc[l]
    BY <2>1, <1>t
  <2>4. ~In(Dialed \cup {"spawn"})' /\ ~In(InChange)'
    BY <2>2 DEF In, Dialed
  <2>5. CASE Asked
    BY <1>a, <2>2, <2>5
  <2>6. CASE ~Asked
    BY <2>1, <2>2, <2>3, <2>4, <2>6 DEF AppInv
  <2> QED
    BY <2>5, <2>6
<1>2. ASSUME NEW u \in User, NEW b \in BOOLEAN, CallStop(u, b)
      PROVE  AppInv'
  <2>1. b = TRUE
    BY <1>2 DEF CallStop, OnlyChanges
  <2>2. calls = ChangeAt /\ calls' = calls + 1 /\ pc' = [pc EXCEPT ![u] = "changeRead"]
    BY <1>2, <2>1 DEF CallStop, OneChange
  <2>3. Asked'
    BY <2>2 DEF Asked, OnlyChanges
  <2>4. \A v \in User : pc'[v] = "changeRead"
    BY <2>2, <1>t DEF OneUser
  <2> QED
    BY <2>3, <2>4 DEF AppInv
<1>3. ASSUME NEW u \in User, CheckStatus(u)
      PROVE  AppInv'
  <2>1. /\ \E p \in {"idle", "readAddr", "setDown"} : pc' = [pc EXCEPT ![u] = p]
        /\ UNCHANGED <<scheduled, status, calls>>
    BY <1>3 DEF CheckStatus, cells
  <2> QED
    BY <2>1, <1>u DEF Dialed
<1>4. ASSUME NEW u \in User, SetDown(u)
      PROVE  AppInv'
  BY <1>4, <1>u DEF SetDown
<1>5. ASSUME NEW u \in User, NEW l \in Loop, SpawnLoop(u, l)
      PROVE  AppInv'
  <2>1. /\ pc' = [pc EXCEPT ![u] = "idle", ![l] = "top"]
        /\ UNCHANGED <<scheduled, status, calls>>
    BY <1>5 DEF SpawnLoop, cells
  <2>2. \A v \in User : pc'[v] = "idle"
    BY <2>1, <1>t DEF OneUser
  <2>3. \A m \in Loop : pc'[m] = pc[m] \/ pc'[m] = "top"
    BY <2>1, <1>t
  <2>4. ~In(InChange)' /\ ~In(Dialed \cup {"spawn"})'
    BY <2>2 DEF In, Dialed
  <2> QED
    BY <2>1, <2>2, <2>3, <2>4, <1>k DEF AppInv
<1>6. ASSUME NEW u \in User, \/ ReadStatusForStop(u) \/ SendStop(u) \/ SubscribeStop(u)
                             \/ WriteAddr(u) \/ WriteProxy(u) \/ Restart(u)
      PROVE  AppInv'
  <2>1. pc[u] \in {"stopRead", "stopSend"} \cup InChange
    BY <1>6 DEF ReadStatusForStop, SendStop, SubscribeStop, WriteAddr, WriteProxy, Restart
  <2>2. Asked /\ pc[u] \notin {"stopRead", "stopSend"}
    BY <2>1 DEF AppInv, In
  <2>3. \E p \in {"changeSend", "subscribeStop", "waitStop", "idle", "writeProxy", "restart",
                  "checkStart"} : pc' = [pc EXCEPT ![u] = p]
    BY <1>6, <2>2 DEF ReadStatusForStop, SendStop, SubscribeStop, WriteAddr, WriteProxy, Restart
  <2>4. \A v \in User : pc'[v] \notin {"stopRead", "stopSend"}
    BY <2>3, <1>t DEF OneUser
  <2> QED
    BY <1>a, <2>2, <2>4
<1>7. ASSUME NEW u \in User, LagStop(u)
      PROVE  AppInv'
  BY <1>7 DEF LagStop, OnlyChanges
<1>8. ASSUME NEW l \in Loop, LoopTop(l) \/ LoopCheck(l) \/ LoopClearFlag(l)
      PROVE  AppInv'
  <2>1. CASE LoopTop(l) \/ LoopCheck(l)
    <3>1. /\ \E p \in {"setStopped", "check", "readAddr", "off", "top"} :
                pc' = [pc EXCEPT ![l] = p] /\ (p = "setStopped" => scheduled)
          /\ UNCHANGED <<status, scheduled, calls>>
      BY <2>1 DEF LoopTop, LoopCheck, cells
    <3> QED
      BY <3>1, <1>l DEF AppInv
  <2>2. CASE LoopClearFlag(l)
    <3>1. Asked /\ pc' = [pc EXCEPT ![l] = "off"]
      BY <2>2 DEF LoopClearFlag, AppInv
    <3> QED
      BY <3>1, <1>a, <1>t DEF AppInv
  <2> QED
    BY <1>8, <2>1, <2>2
<1>9. ASSUME NEW l \in Loop, LoopSetStopped(l)
      PROVE  AppInv'
  <2>1. Asked /\ pc' = [pc EXCEPT ![l] = "clearFlag"]
    BY <1>9 DEF LoopSetStopped, AppInv
  <2> QED
    BY <2>1, <1>a, <1>t DEF AppInv
<1>10. ASSUME NEW t \in Task, TryConnect(t) \/ LagAnswer(t)
       PROVE  AppInv'
  <2>1. /\ UNCHANGED <<scheduled, calls>>
        /\ \E p \in TryPc \cup {"top", "spawn"} :
              /\ pc' = [pc EXCEPT ![t] = p]
              /\ p \in {"top", "spawn"} => p = IF t \in Loop THEN "top" ELSE "spawn"
              /\ \/ status' \in {"Connecting", "Connected", "Disconnected"}
                 \/ UNCHANGED status /\ (p \in Dialed \cup {"spawn"} => pc[t] \in Dialed)
    BY <1>10 DEF TryConnect, LagAnswer, ReadAddr, ReadProxy, SetConnecting, Dial, DialOk, DialFail,
          ResubscribeHeaders, SubscribeAnswer, ResubscribeScripts, Return, cells, TryPc, Dialed
  <2>2. CASE t \in User
    <3>1. t \notin Loop
      BY <2>2, <1>t
    <3> QED
      BY <2>1, <2>2, <3>1, <1>u DEF TryPc
  <2>3. CASE t \notin User
    <3>1. t \in Loop /\ \A u \in User : pc'[u] = pc[u]
      BY <2>1, <2>3, <1>t DEF Task
    <3>2. \A l \in Loop : pc'[l] \in {"setStopped", "clearFlag"} => pc'[l] = pc[l]
      BY <2>1, <1>t DEF TryPc
    <3>3. In(InChange)' = In(InChange) /\ In(Dialed \cup {"spawn"})' = In(Dialed \cup {"spawn"})
      BY <3>1 DEF In
    <3>4. status' = status \/ status' \notin {"Initialized", "Stopped"}
      BY <2>1
    <3> QED
      BY <2>1, <3>1, <3>2, <3>3, <3>4, <1>k DEF AppInv
  <2> QED
    BY <2>2, <2>3
<1>11. ASSUME NEW c \in Conn, SenderSetStatus(c)
       PROVE  AppInv'
  <2>1. UNCHANGED <<scheduled, pc, calls>>
    BY <1>11 DEF SenderSetStatus, taskVars
  <2>2. CASE snd[c] = "closing"
    BY <1>11, <2>1, <2>2, <1>q DEF SenderSetStatus
  <2>3. CASE snd[c] # "closing"
    <3>1. Asked
      BY <1>11, <2>3, NoStopBefore DEF SenderSetStatus, Stopping
    <3> QED
      BY <2>1, <3>1, <1>a DEF AppInv
  <2> QED
    BY <2>2, <2>3
<1>12. ASSUME NEW c \in Conn, SenderClearFlag(c) \/ SenderNotify(c)
       PROVE  AppInv'
  <2>1. /\ snd[c] \in {"clearFlag", "notify"}
        /\ \A t \in Task : pc'[t] = pc[t] \/ pc'[t] = "writeAddr"
    BY <1>12 DEF SenderClearFlag, SenderNotify, taskVars
  <2>2. Asked
    BY <2>1, NoStopBefore DEF Stopping
  <2> QED
    BY <2>1, <2>2, <1>a, <1>t DEF AppInv
<1>13. ASSUME \/ \E c \in Conn : \/ LockReceiver(c) \/ TakeMsg(c) \/ WriteFails(c) \/ TakeClose(c)
                                 \/ TakeStop(c) \/ SenderExit(c) \/ ReceiverStep(c) \/ Ping(c)
                                 \/ PeerClose(c) \/ DropSocket(c)
              \/ SetHeaders \/ QueueRequest \/ UNCHANGED vars
       PROVE  AppInv'
  <2>1. UNCHANGED <<scheduled, status, pc, calls>>
    BY <1>13 DEF LockReceiver, TakeMsg, WriteFails, TakeClose, TakeStop, Takes, SenderExit,
          ReceiverStep, ReceiverEnds,
          ReadEof, ReceiverPanics, ReceiverReadStatus, ReceiverSendClose, ReceiverAborted, Ping,
          PeerClose, DropSocket, SetHeaders, QueueRequest, vars, cells, taskVars
  <2> QED
    BY <2>1, <1>q
<1>14. ASSUME NEW c \in Conn, NEW t \in Task, Answer(c, t)
       PROVE  AppInv'
  <2>1. /\ pc' = [pc EXCEPT ![t] = IF pc[t] = "waitAnswer" THEN "scripts" ELSE pc[t]]
        /\ UNCHANGED <<scheduled, status, calls>>
    BY <1>14 DEF Answer, cells
  <2> QED
    BY <2>1, <1>k, <1>t DEF AppInv, In, Dialed
<1> QED
  BY <1>1, <1>2, <1>3, <1>4, <1>5, <1>6, <1>7, <1>8, <1>9, <1>10, <1>11, <1>12, <1>13, <1>14
     DEF Next, UserStep, LoopStep, SenderStep

(* Steps after which nobody new dials or serves.                           *)
LEMMA QuietCurrent ==
    ASSUME CurrentInv, UNCHANGED <<addr, proxy, peer>>,
           \A c \in Conn : Serving(c)' => Serving(c),
           \A t \in Task : pc'[t] \in {"readProxy", "setConnecting", "dialing"}
                              => pc'[t] = pc[t] /\ local'[t] = local[t]
    PROVE  CurrentInv'
  BY DEF CurrentInv

(* Who dials, and who serves, has the address and the proxy last set.      *)
LEMMA StepCurrent ==
    ASSUME OnlyChanges, TypeInv, CurrentInv, QuietInv, [Next]_vars
    PROVE  CurrentInv'
<1> USE DEF Goto
<1>t. /\ pc \in [Task -> UserPc \cup LoopPc \cup TryPc] /\ snd \in [Conn -> SenderPc]
      /\ local \in [Task -> (0 .. MaxCalls) \X (0 .. MaxCalls)]
      /\ peer \in [Conn -> (0 .. MaxCalls) \X (0 .. MaxCalls)]
      /\ User \subseteq Task /\ Loop \subseteq Task
  BY DEF TypeInv, TypeOK, Task
<1>q. ASSUME NEW t \in Task, NEW p, p \notin {"readProxy", "setConnecting", "dialing"},
             pc' = [pc EXCEPT ![t] = p], UNCHANGED <<addr, proxy, local, snd, peer>>
      PROVE  CurrentInv'
  BY <1>q, <1>t, QuietCurrent DEF Serving
<1>1. ASSUME NEW u \in User, NEW b \in BOOLEAN, Connect(u, b) \/ CallStop(u, b)
      PROVE  CurrentInv'
  <2>1. /\ \E p \in {"checkWait", "checkStart", "changeRead", "stopRead"} :
              pc' = [pc EXCEPT ![u] = p]
        /\ \A t \in Task : t # u => local'[t] = local[t]
        /\ UNCHANGED <<addr, proxy, snd, peer>>
    BY <1>1, <1>t DEF Connect, CallStop, connVars
  <2> QED
    BY <2>1, <1>t, QuietCurrent DEF Serving
<1>2. ASSUME NEW u \in User, \/ CheckStatus(u) \/ SetDown(u) \/ ReadStatusForStop(u)
                             \/ SendStop(u) \/ SubscribeStop(u) \/ LagStop(u) \/ Restart(u)
      PROVE  CurrentInv'
  <2>1. /\ UNCHANGED <<addr, proxy, local, snd, peer>>
        /\ \E p \in {"readAddr", "setDown", "idle", "spawn", "stopSend", "changeSend",
                     "subscribeStop", "waitStop", "writeAddr", "checkStart"} :
              pc' = [pc EXCEPT ![u] = p]
    BY <1>2 DEF CheckStatus, SetDown, ReadStatusForStop, SendStop, SubscribeStop, LagStop, Restart,
          cells, connVars
  <2> QED
    BY <2>1, <1>q, <1>t
<1>3. ASSUME NEW u \in User, NEW l \in Loop, SpawnLoop(u, l)
      PROVE  CurrentInv'
  <2>1. /\ pc' = [pc EXCEPT ![u] = "idle", ![l] = "top"]
        /\ UNCHANGED <<addr, proxy, local, snd, peer>>
    BY <1>3 DEF SpawnLoop, cells, connVars
  <2> QED
    BY <2>1, <1>t, QuietCurrent DEF Serving
<1>4. ASSUME NEW u \in User, WriteAddr(u) \/ WriteProxy(u)
      PROVE  CurrentInv'
  <2>1. /\ pc[u] \in {"writeAddr", "writeProxy"} /\ UNCHANGED snd
        /\ \E p \in {"writeProxy", "restart"} : pc' = [pc EXCEPT ![u] = p]
    BY <1>4 DEF WriteAddr, WriteProxy, connVars
  <2>2. Quiet
    BY <2>1 DEF QuietInv, Committed, Writing, In
  <2>3. \A t \in Task : pc'[t] \notin {"readProxy", "setConnecting", "dialing"}
    BY <2>1, <2>2, <1>t DEF Quiet, Calling
  <2>4. \A c \in Conn : ~Serving(c)'
    BY <2>1, <2>2 DEF Quiet, Serving
  <2> QED
    BY <2>3, <2>4 DEF CurrentInv
<1>5. ASSUME NEW l \in Loop, LoopStep(l)
      PROVE  CurrentInv'
  <2>1. /\ UNCHANGED <<addr, proxy, local, snd, peer>>
        /\ \E p \in {"setStopped", "check", "clearFlag", "off", "readAddr", "top"} :
              pc' = [pc EXCEPT ![l] = p]
    BY <1>5 DEF LoopStep, LoopTop, LoopSetStopped, LoopClearFlag, LoopCheck, cells, connVars
  <2> QED
    BY <2>1, <1>q, <1>t
<1>6. ASSUME NEW t \in Task, ReadAddr(t)
      PROVE  CurrentInv'
  <2>1. /\ local'[t][1] = addr /\ pc'[t] = "readProxy"
        /\ \A s \in Task : s # t => local'[s] = local[s] /\ pc'[s] = pc[s]
        /\ UNCHANGED <<addr, proxy, snd, peer>>
    BY <1>6, <1>t DEF ReadAddr, cells, connVars
  <2> QED
    BY <2>1 DEF CurrentInv, Serving
<1>7. ASSUME NEW t \in Task, ReadProxy(t)
      PROVE  CurrentInv'
  <2>1. local[t][1] = addr
    BY <1>7 DEF ReadProxy, CurrentInv
  <2>2. /\ local'[t] = <<addr, proxy>> /\ pc'[t] = "setConnecting"
        /\ \A s \in Task : s # t => local'[s] = local[s] /\ pc'[s] = pc[s]
        /\ UNCHANGED <<addr, proxy, snd, peer>>
    BY <1>7, <2>1, <1>t DEF ReadProxy, cells, connVars
  <2> QED
    BY <2>2 DEF CurrentInv, Serving
<1>8. ASSUME NEW t \in Task, SetConnecting(t)
      PROVE  CurrentInv'
  <2>1. /\ pc[t] = "setConnecting" /\ pc' = [pc EXCEPT ![t] = "dialing"]
        /\ UNCHANGED <<addr, proxy, local, snd, peer>>
    BY <1>8 DEF SetConnecting, connVars
  <2> QED
    BY <2>1, <1>t DEF CurrentInv, Serving
<1>9. ASSUME NEW t \in Task, NEW c \in Conn, DialOk(t, c)
      PROVE  CurrentInv'
  <2>1. /\ pc[t] = "dialing" /\ pc' = [pc EXCEPT ![t] = "headers"]
        /\ peer' = [peer EXCEPT ![c] = local[t]] /\ snd' = [snd EXCEPT ![c] = "spawned"]
        /\ UNCHANGED <<addr, proxy, local>>
    BY <1>9 DEF DialOk
  <2>2. peer'[c] = <<addr, proxy>>
    BY <2>1, <1>t DEF CurrentInv
  <2>3. \A d \in Conn : d # c => peer'[d] = peer[d] /\ snd'[d] = snd[d]
    BY <2>1, <1>t
  <2>4. \A s \in Task : pc'[s] \in {"readProxy", "setConnecting", "dialing"} => pc'[s] = pc[s]
    BY <2>1, <1>t
  <2> QED
    BY <2>1, <2>2, <2>3, <2>4 DEF CurrentInv, Serving
<1>10. ASSUME NEW t \in Task, \/ DialFail(t) \/ ResubscribeHeaders(t) \/ SubscribeAnswer(t)
                              \/ LagAnswer(t) \/ ResubscribeScripts(t)
       PROVE  CurrentInv'
  <2>1. /\ UNCHANGED <<addr, proxy, local, snd, peer>>
        /\ \E p \in {"top", "spawn", "subscribeAnswer", "waitAnswer", "scripts"} :
              pc' = [pc EXCEPT ![t] = p]
    BY <1>10 DEF DialFail, ResubscribeHeaders, SubscribeAnswer, LagAnswer, ResubscribeScripts,
          Return, cells, connVars
  <2> QED
    BY <2>1, <1>q
<1>11. ASSUME NEW c \in Conn, SenderNotify(c)
       PROVE  CurrentInv'
  <2>1. /\ pc' = [t \in Task |-> IF pc[t] = "waitStop" THEN "writeAddr" ELSE pc[t]]
        /\ snd' = [snd EXCEPT ![c] = "exit"]
        /\ UNCHANGED <<addr, proxy, local, peer>>
    BY <1>11 DEF SenderNotify, cells
  <2>2. \A t \in Task : pc'[t] \in {"readProxy", "setConnecting", "dialing"} => pc'[t] = pc[t]
    BY <2>1
  <2>3. \A d \in Conn : Serving(d)' => Serving(d)
    BY <2>1, <1>t DEF Serving
  <2> QED
    BY <2>1, <2>2, <2>3, QuietCurrent
<1>12. ASSUME NEW c \in Conn, \/ LockReceiver(c) \/ TakeMsg(c) \/ WriteFails(c) \/ TakeClose(c)
                              \/ TakeStop(c) \/ SenderSetStatus(c) \/ SenderClearFlag(c)
                              \/ SenderExit(c)
       PROVE  CurrentInv'
  <2>1. /\ UNCHANGED <<addr, proxy, local, pc, peer>>
        /\ \/ UNCHANGED snd
           \/ Serving(c) /\ \E p \in SenderPc : snd' = [snd EXCEPT ![c] = p]
           \/ \E p \in {"notify", "off"} : snd' = [snd EXCEPT ![c] = p]
    BY <1>12 DEF LockReceiver, TakeMsg, WriteFails, TakeClose, TakeStop, Takes, SenderSetStatus,
          SenderClearFlag, SenderExit, Serving, SenderPc, cells, taskVars
  <2>2. \A d \in Conn : Serving(d)' => Serving(d)
    BY <2>1, <1>t DEF Serving
  <2> QED
    BY <2>1, <2>2, QuietCurrent
<1>13. ASSUME \/ SetHeaders \/ QueueRequest \/ UNCHANGED vars
              \/ \E c \in Conn : ReceiverStep(c) \/ Ping(c) \/ PeerClose(c)
       PROVE  CurrentInv'
  <2>1. UNCHANGED <<addr, proxy, local, pc, snd, peer>>
    BY <1>13 DEF SetHeaders, QueueRequest, ReceiverStep, ReceiverEnds,
          ReadEof, ReceiverPanics, ReceiverReadStatus, ReceiverSendClose, ReceiverAborted,
          Ping, PeerClose, vars, cells, taskVars, connVars
  <2> QED
    BY <2>1, QuietCurrent DEF Serving
<1>14. ASSUME NEW c \in Conn, DropSocket(c)
       PROVE  CurrentInv'
  <2>1. /\ snd[c] = "off" /\ UNCHANGED <<addr, proxy, local, pc, snd>>
        /\ \A d \in Conn : d # c => peer'[d] = peer[d]
    BY <1>14, <1>t DEF DropSocket, cells, taskVars
  <2> QED
    BY <2>1 DEF CurrentInv, Serving
<1>15. ASSUME NEW c \in Conn, NEW t \in Task, Answer(c, t)
       PROVE  CurrentInv'
  <2>1. /\ \E p \in {"scripts", pc[t]} : pc' = [pc EXCEPT ![t] = p]
        /\ UNCHANGED <<addr, proxy, local, snd, peer>>
    BY <1>15 DEF Answer, cells
  <2> QED
    BY <2>1, <1>t, QuietCurrent DEF Serving
<1> QED
  BY <1>1, <1>2, <1>3, <1>4, <1>5, <1>6, <1>7, <1>8, <1>9, <1>10, <1>11, <1>12, <1>13, <1>14,
     <1>15 DEF Next, UserStep, TryConnect, Dial, SenderStep

-----------------------------------------------------------------------------
(* What the operations on the channel do to the Stop events in it.         *)

Unique(S) == \A m, n \in S : m = n

(* p has a Stop only if q has, and no more than one if q has no more.      *)
NoMoreStops(p, q) ==
    /\ StopsIn(q) = {} => StopsIn(p) = {}
    /\ Unique(StopsIn(q)) => Unique(StopsIn(p))

(* Taking an event brings no Stop, and a Stop that is taken was the only   *)
(* one if there was one at most.                                           *)
LEMMA StopsInTail ==
    ASSUME NEW q \in Seq(Event), q # <<>>
    PROVE  /\ NoMoreStops(Tail(q), q)
           /\ Head(q).ev = "Stop" => StopsIn(q) # {}
           /\ Head(q).ev = "Stop" /\ Unique(StopsIn(q)) => StopsIn(Tail(q)) = {}
<1>1. /\ Len(q) \in Nat \ {0} /\ DOMAIN q = 1 .. Len(q) /\ Head(q) = q[1]
      /\ DOMAIN Tail(q) = 1 .. Len(q) - 1
      /\ \A n \in 1 .. Len(q) - 1 : Tail(q)[n] = q[n + 1]
  OBVIOUS
<1>2. \A n \in StopsIn(Tail(q)) : n \in Nat \ {0} /\ n + 1 \in StopsIn(q)
  BY <1>1 DEF StopsIn
<1>3. Head(q).ev = "Stop" => 1 \in StopsIn(q)
  BY <1>1 DEF StopsIn
<1>4. ASSUME Unique(StopsIn(q)), NEW m \in StopsIn(Tail(q)), NEW n \in StopsIn(Tail(q))
      PROVE  m = n
  <2>1. m + 1 = n + 1
    BY <1>2, <1>4 DEF Unique
  <2> QED
    BY <1>2, <2>1
<1>5. ASSUME Head(q).ev = "Stop", Unique(StopsIn(q)), NEW m \in StopsIn(Tail(q))
      PROVE  FALSE
  <2>1. m + 1 = 1
    BY <1>2, <1>3, <1>5 DEF Unique
  <2> QED
    BY <1>2, <2>1
<1> QED
  BY <1>2, <1>3, <1>4, <1>5 DEF NoMoreStops, Unique

(* A Stop appended to a channel that has none is the only one.             *)
LEMMA StopsInAppend ==
    ASSUME NEW q \in Seq(Event), NEW e \in Event
    PROVE  /\ e.ev # "Stop" => NoMoreStops(Append(q, e), q)
           /\ StopsIn(q) = {} => Unique(StopsIn(Append(q, e)))
<1>1. /\ Len(q) \in Nat /\ DOMAIN q = 1 .. Len(q)
      /\ DOMAIN Append(q, e) = 1 .. Len(q) + 1
      /\ \A n \in 1 .. Len(q) : Append(q, e)[n] = q[n]
      /\ Append(q, e)[Len(q) + 1] = e
  OBVIOUS
<1>2. \A n \in StopsIn(Append(q, e)) : n \in StopsIn(q) \/ (n = Len(q) + 1 /\ e.ev = "Stop")
  BY <1>1 DEF StopsIn
<1> QED
  BY <1>2 DEF NoMoreStops, Unique

(* NoMoreStops is reflexive.                                               *)
LEMMA StopsInSame == \A q : NoMoreStops(q, q)
  BY DEF NoMoreStops

(* Other events bring no Stop, whether there is room for them or not.      *)
LEMMA StopsByTrySend ==
    ASSUME chan \in Seq(Event), NEW e \in Event, e.ev # "Stop", TrySend(e)
    PROVE  NoMoreStops(chan', chan)
  BY StopsInAppend, StopsInSame DEF TrySend

(* Steps that stop nothing, and keep the change waiting.                   *)
LEMMA QuietStop ==
    ASSUME StopInv, NoMoreStops(chan', chan), Stopping' \subseteq Stopping,
           Waiting => Waiting'
    PROVE  StopInv'
<1>1. Stops = StopsIn(chan) /\ Stops' = StopsIn(chan')
  BY DEF Stops, StopsIn
<1> QED
  BY <1>1 DEF StopInv, NoMoreStops, Unique

(* A Stop is followed by the wait for it until it is carried out.          *)
LEMMA StepStop ==
    ASSUME OnlyChanges, OneUser, TypeInv, AppInv, StopInv, [Next]_vars, OneChange
    PROVE  StopInv'
<1> USE DEF Goto
<1>t. /\ pc \in [Task -> UserPc \cup LoopPc \cup TryPc] /\ snd \in [Conn -> SenderPc]
      /\ chan \in Seq(Event) /\ User \subseteq Task /\ Loop \subseteq Task
      /\ User \cap Loop = {}
  BY LifecycleAssumption DEF TypeInv, TypeOK, Task
<1>s. Stops = StopsIn(chan) /\ Stops' = StopsIn(chan')
  BY DEF Stops, StopsIn
<1>e. /\ SendMsg \in Event /\ SendMsg.ev # "Stop"
      /\ \A t \in Task : HeaderSubscribe(t) \in Event /\ HeaderSubscribe(t).ev # "Stop"
      /\ \A c \in Conn : Close(c) \in Event /\ Close(c).ev # "Stop"
      /\ \A u \in User : Stop(u) \in Event /\ Stop(u).ev = "Stop"
  BY EventTypes DEF SendMsg, HeaderSubscribe, Close, Stop
<1>q. ASSUME NEW t \in Task, NEW p, pc' = [pc EXCEPT ![t] = p], UNCHANGED snd,
             NoMoreStops(chan', chan),
             \/ p \in {"subscribeStop", "waitStop"}
             \/ pc[t] \notin {"subscribeStop", "waitStop"}
      PROVE  StopInv'
  <2>1. Waiting => Waiting'
    <3> SUFFICES ASSUME NEW u \in User, pc[u] \in {"subscribeStop", "waitStop"}
                 PROVE  pc'[u] \in {"subscribeStop", "waitStop"}
      BY DEF Waiting, In
    <3> QED
      BY <1>q, <1>t
  <2>2. Stopping' = Stopping
    BY <1>q DEF Stopping
  <2> QED
    BY <1>q, <2>1, <2>2, QuietStop
<1>c. ASSUME UNCHANGED pc, NoMoreStops(chan', chan), Stopping' \subseteq Stopping
      PROVE  StopInv'
  BY <1>c, QuietStop DEF Waiting, In
<1>1. ASSUME NEW u \in User, NEW b \in BOOLEAN, Connect(u, b) \/ CallStop(u, b)
      PROVE  StopInv'
  <2>1. ~Waiting /\ UNCHANGED <<chan, snd>>
    BY <1>1 DEF Connect, CallStop, Waiting, In, OneUser, connVars
  <2>2. Stops' = {} /\ Stopping' = {}
    BY <2>1, <1>s DEF StopInv, Stopping
  <2> QED
    BY <2>2 DEF StopInv
<1>2. ASSUME NEW u \in User, \/ CheckStatus(u) \/ SetDown(u) \/ ReadStatusForStop(u)
                             \/ SubscribeStop(u) \/ WriteAddr(u) \/ WriteProxy(u) \/ Restart(u)
      PROVE  StopInv'
  <2>1. /\ UNCHANGED <<chan, snd>>
        /\ \E p : pc' = [pc EXCEPT ![u] = p] /\ (pc[u] = "subscribeStop" => p = "waitStop")
        /\ pc[u] # "waitStop"
    BY <1>2 DEF CheckStatus, SetDown, ReadStatusForStop, SubscribeStop, WriteAddr, WriteProxy,
          Restart, cells, connVars
  <2> QED
    BY <2>1, <1>q, <1>t, StopsInSame
<1>3. ASSUME NEW u \in User, SendStop(u)
      PROVE  StopInv'
  <2>1. pc[u] = "changeSend" /\ UNCHANGED snd /\ TrySend(Stop(u))
        /\ pc' = [pc EXCEPT ![u] = IF Room THEN "subscribeStop" ELSE "idle"]
    BY <1>3 DEF SendStop, AppInv, connVars
  <2>2. ~Waiting
    BY <2>1 DEF Waiting, In, OneUser
  <2>3. Stops = {} /\ Stopping = {} /\ Stopping' = {}
    BY <2>1, <2>2 DEF StopInv, Stopping
  <2>4. CASE Room
    <3>1. chan' = Append(chan, Stop(u)) /\ pc'[u] = "subscribeStop"
      BY <2>1, <2>4, <1>t DEF TrySend
    <3>2. Unique(Stops')
      BY <2>3, <3>1, <1>s, <1>e, <1>t, StopsInAppend
    <3> QED
      BY <2>3, <3>1, <3>2 DEF StopInv, Waiting, In, Unique
  <2>5. CASE ~Room
    BY <2>1, <2>3, <2>5, <1>s DEF TrySend, StopInv
  <2> QED
    BY <2>4, <2>5
<1>4. ASSUME NEW u \in User, LagStop(u)
      PROVE  StopInv'
  BY <1>4 DEF LagStop, OnlyChanges
<1>5. ASSUME NEW l \in Loop, LoopStep(l)
      PROVE  StopInv'
  <2>1. /\ UNCHANGED <<chan, snd>> /\ pc[l] \in LoopPc
        /\ \E p : pc' = [pc EXCEPT ![l] = p]
    BY <1>5 DEF LoopStep, LoopTop, LoopSetStopped, LoopClearFlag, LoopCheck, LoopPc, cells,
          connVars
  <2> QED
    BY <2>1, <1>q, <1>t, StopsInSame DEF LoopPc
<1>6. ASSUME NEW u \in User, NEW l \in Loop, SpawnLoop(u, l)
      PROVE  StopInv'
  <2>1. /\ pc[u] = "spawn" /\ pc' = [pc EXCEPT ![u] = "idle", ![l] = "top"]
        /\ UNCHANGED <<chan, snd>>
    BY <1>6 DEF SpawnLoop, cells, connVars
  <2>2. ~Waiting
    BY <2>1 DEF Waiting, In, OneUser
  <2> QED
    BY <2>1, <2>2, <1>s, QuietStop, StopsInSame DEF Stopping
<1>7. ASSUME NEW t \in Task, TryConnect(t) \/ LagAnswer(t)
      PROVE  StopInv'
  <2>1. /\ pc[t] \in TryPc /\ \E p : pc' = [pc EXCEPT ![t] = p]
    BY <1>7 DEF TryConnect, LagAnswer, ReadAddr, ReadProxy, SetConnecting, Dial, DialOk, DialFail,
          ResubscribeHeaders, SubscribeAnswer, ResubscribeScripts, TryPc
  <2>2. NoMoreStops(chan', chan)
    <3>1. CASE LagAnswer(t)
      <4>1. DOMAIN chan' = DOMAIN chan /\ \A n \in DOMAIN chan : chan'[n].ev = chan[n].ev
        BY <3>1, <1>e DEF LagAnswer, SendMsg, HeaderSubscribe
      <4> QED
        BY <4>1 DEF NoMoreStops, StopsIn
    <3>2. CASE ResubscribeHeaders(t)
      BY <3>2, <1>e, <1>t, StopsByTrySend, StopsInSame DEF ResubscribeHeaders
    <3>3. CASE ResubscribeScripts(t)
      BY <3>3, <1>e, <1>t, StopsByTrySend, StopsInSame DEF ResubscribeScripts
    <3>4. CASE ReadAddr(t) \/ ReadProxy(t) \/ SetConnecting(t) \/ Dial(t) \/ SubscribeAnswer(t)
      BY <3>4, StopsInSame DEF ReadAddr, ReadProxy, SetConnecting, Dial, DialOk, DialFail,
            SubscribeAnswer, cells
    <3> QED
      BY <1>7, <3>1, <3>2, <3>3, <3>4 DEF TryConnect
  <2>3. Stopping' \subseteq Stopping
    BY <1>7, <1>t DEF TryConnect, LagAnswer, ReadAddr, ReadProxy, SetConnecting, Dial, DialOk,
          DialFail, ResubscribeHeaders, SubscribeAnswer, ResubscribeScripts, connVars, Stopping
  <2>4. Waiting => Waiting'
    <3> SUFFICES ASSUME NEW u \in User, pc[u] \in {"subscribeStop", "waitStop"}
                 PROVE  pc'[u] \in {"subscribeStop", "waitStop"}
      BY DEF Waiting, In
    <3> QED
      BY <2>1, <1>t DEF TryPc
  <2> QED
    BY <2>2, <2>3, <2>4, QuietStop
<1>8. ASSUME \/ QueueRequest
             \/ \E c \in Conn : Ping(c) \/ ReceiverSendClose(c)
      PROVE  StopInv'
  <2>1. UNCHANGED <<pc, snd>> /\ \E e \in Event : e.ev # "Stop" /\ TrySend(e)
    BY <1>8, <1>e DEF QueueRequest, Ping, ReceiverSendClose, taskVars, connVars
  <2> QED
    BY <2>1, <1>c, <1>t, StopsByTrySend DEF Stopping
<1>9. ASSUME \/ SetHeaders \/ UNCHANGED vars
             \/ \E c \in Conn : \/ ReadEof(c) \/ ReceiverPanics(c)
                                \/ ReceiverReadStatus(c) \/ ReceiverAborted(c)
                                \/ PeerClose(c) \/ DropSocket(c)
      PROVE  StopInv'
  <2>1. UNCHANGED <<pc, snd, chan>>
    BY <1>9 DEF SetHeaders, ReadEof, ReceiverPanics, ReceiverReadStatus, ReceiverAborted,
          PeerClose, DropSocket, vars, cells, taskVars, connVars
  <2> QED
    BY <2>1, <1>c, StopsInSame DEF Stopping
<1>10. ASSUME NEW c \in Conn, TakeMsg(c) \/ WriteFails(c) \/ TakeClose(c)
       PROVE  StopInv'
  <2>1. chan # <<>> /\ chan' = Tail(chan) /\ UNCHANGED pc
    BY <1>10 DEF TakeMsg, WriteFails, TakeClose, Takes, taskVars
  <2>2. UNCHANGED snd \/ \E p \in {"exit", "closing"} : snd' = [snd EXCEPT ![c] = p]
    BY <1>10 DEF TakeMsg, WriteFails, TakeClose
  <2>3. Stopping' \subseteq Stopping
    BY <2>2, <1>t DEF Stopping
  <2> QED
    BY <2>1, <2>3, <1>c, <1>t, StopsInTail
<1>11. ASSUME NEW c \in Conn, TakeStop(c)
       PROVE  StopInv'
  <2>1. /\ chan # <<>> /\ chan' = Tail(chan) /\ UNCHANGED pc /\ Head(chan).ev = "Stop"
        /\ \E p \in {"stopping", "ready"} : snd' = [snd EXCEPT ![c] = p]
    BY <1>11 DEF TakeStop, Takes, taskVars
  <2>2. Stops # {} /\ Stops' = {}
    BY <2>1, <1>s, <1>t, StopsInTail DEF StopInv, Unique
  <2>3. Stopping = {} /\ Waiting /\ Waiting'
    BY <2>1, <2>2 DEF StopInv, Waiting, In
  <2>4. Stopping' \subseteq {c}
    BY <2>1, <2>3, <1>t DEF Stopping
  <2> QED
    BY <2>2, <2>3, <2>4 DEF StopInv
<1>12. ASSUME NEW c \in Conn, \/ LockReceiver(c) \/ SenderSetStatus(c) \/ SenderClearFlag(c)
                              \/ SenderExit(c)
       PROVE  StopInv'
  <2>1. /\ UNCHANGED <<pc, chan>>
        /\ \E p \in {"ready", "exit", "clearFlag", "notify", "off"} :
              /\ snd' = [snd EXCEPT ![c] = p]
              /\ p \in {"clearFlag", "notify"} => c \in Stopping
    BY <1>12, <1>t DEF LockReceiver, SenderSetStatus, SenderClearFlag, SenderExit, Stopping, cells,
          taskVars
  <2>2. Stopping' \subseteq Stopping
    BY <2>1, <1>t DEF Stopping
  <2> QED
    BY <2>1, <2>2, <1>c, StopsInSame
<1>13. ASSUME NEW c \in Conn, SenderNotify(c)
       PROVE  StopInv'
  <2>1. snd[c] = "notify" /\ snd' = [snd EXCEPT ![c] = "exit"] /\ UNCHANGED chan
    BY <1>13 DEF SenderNotify, cells
  <2>2. c \in Stopping
    BY <2>1 DEF Stopping
  <2>3. Stops' = {}
    BY <2>1, <2>2, <1>s DEF StopInv
  <2>4. Stopping' = {}
    BY <2>1, <2>2, <1>t DEF StopInv, Stopping
  <2> QED
    BY <2>3, <2>4 DEF StopInv
<1>14. ASSUME NEW c \in Conn, NEW t \in Task, Answer(c, t)
       PROVE  StopInv'
  <2>1. /\ \E p : pc' = [pc EXCEPT ![t] = p] /\ (p = pc[t] \/ pc[t] = "waitAnswer")
        /\ UNCHANGED <<chan, snd>>
    BY <1>14 DEF Answer, cells
  <2> QED
    BY <2>1, <1>q, StopsInSame
<1> QED
  BY <1>1, <1>2, <1>3, <1>4, <1>5, <1>6, <1>7, <1>8, <1>9, <1>10, <1>11, <1>12, <1>13,
     <1>14 DEF Next, UserStep, SenderStep, ReceiverStep, ReceiverEnds

-----------------------------------------------------------------------------
(* The application is inside change_address() while it is committed.       *)
LEMMA CommittedCaller ==
    ASSUME OneUser, StopInv, Committed
    PROVE  \A u \in User : pc[u] \in {"subscribeStop", "waitStop", "writeAddr", "writeProxy"}
<1>1. CASE Writing
  BY <1>1 DEF Writing, In, OneUser
<1>2. CASE \E c \in Conn : snd[c] \in {"clearFlag", "notify"}
  <2>1. Waiting
    BY <1>2 DEF StopInv, Stopping
  <2> QED
    BY <2>1 DEF Waiting, In, OneUser
<1> QED
  BY <1>1, <1>2 DEF Committed

(* Steps after which nobody new dials or serves, the status kept.          *)
LEMMA KeepsQuiet ==
    ASSUME Quiet, status' = "Stopped",
           \A c \in Conn : Serving(c)' => Serving(c),
           \A t \in Task : pc'[t] \in Calling => pc[t] \in Calling
    PROVE  Quiet'
  BY DEF Quiet

(* Once the stop is carried out no step ends the quiet.                    *)
LEMMA StaysQuiet ==
    ASSUME OneUser, TypeInv, StopInv, Committed, Quiet, [Next]_vars
    PROVE  Quiet'
<1> USE DEF Goto
<1>t. /\ pc \in [Task -> UserPc \cup LoopPc \cup TryPc] /\ snd \in [Conn -> SenderPc]
      /\ User \subseteq Task /\ Loop \subseteq Task
  BY DEF TypeInv, TypeOK, Task
<1>u. \A u \in User : pc[u] \in {"subscribeStop", "waitStop", "writeAddr", "writeProxy"}
  BY CommittedCaller
<1>s. status = "Stopped" /\ (\A c \in Conn : ~Serving(c)) /\ \A t \in Task : pc[t] \notin Calling
  BY DEF Quiet
<1>q. ASSUME NEW t \in Task, NEW p, p \notin Calling, pc' = [pc EXCEPT ![t] = p],
             status' = "Stopped", UNCHANGED snd
      PROVE  Quiet'
  BY <1>q, <1>t, KeepsQuiet DEF Serving
<1>1. ASSUME NEW u \in User, \/ \E b \in BOOLEAN : Connect(u, b) \/ CallStop(u, b)
                             \/ CheckStatus(u) \/ SetDown(u) \/ SendStop(u) \/ Restart(u)
                             \/ \E l \in Loop : SpawnLoop(u, l)
      PROVE  FALSE
  BY <1>1, <1>u DEF Connect, CallStop, CheckStatus, SetDown, SendStop, Restart, SpawnLoop
<1>2. ASSUME NEW u \in User, \/ ReadStatusForStop(u) \/ SubscribeStop(u) \/ LagStop(u)
                             \/ WriteAddr(u) \/ WriteProxy(u)
      PROVE  Quiet'
  <2>1. /\ \E p \in {"stopSend", "changeSend", "idle", "subscribeStop", "waitStop", "writeAddr",
                     "writeProxy", "restart"} : pc' = [pc EXCEPT ![u] = p]
        /\ UNCHANGED <<status, snd>>
    BY <1>2 DEF ReadStatusForStop, SubscribeStop, LagStop, WriteAddr, WriteProxy, cells, connVars
  <2> QED
    BY <2>1, <1>q, <1>s, <1>t DEF Calling
<1>3. ASSUME NEW l \in Loop, LoopStep(l)
      PROVE  Quiet'
  <2>1. /\ \E p \in {"top", "check", "off", "setStopped", "clearFlag"} : pc' = [pc EXCEPT ![l] = p]
        /\ status' = "Stopped" /\ UNCHANGED snd
    BY <1>3, <1>s DEF LoopStep, LoopTop, LoopSetStopped, LoopClearFlag, LoopCheck, cells, connVars
  <2> QED
    BY <2>1, <1>q, <1>t DEF Calling
<1>4. ASSUME NEW t \in Task, ReadAddr(t) \/ ReadProxy(t) \/ SetConnecting(t) \/ Dial(t)
      PROVE  FALSE
  BY <1>4, <1>s DEF ReadAddr, ReadProxy, SetConnecting, Dial, DialOk, DialFail, Calling
<1>5. ASSUME NEW t \in Task, \/ ResubscribeHeaders(t) \/ SubscribeAnswer(t) \/ LagAnswer(t)
                             \/ ResubscribeScripts(t)
      PROVE  Quiet'
  <2>1. /\ \E p \in {"subscribeAnswer", "waitAnswer", "scripts", "top", "spawn"} :
              pc' = [pc EXCEPT ![t] = p]
        /\ UNCHANGED <<status, snd>>
    BY <1>5 DEF ResubscribeHeaders, SubscribeAnswer, LagAnswer, ResubscribeScripts, Return, cells,
          connVars
  <2> QED
    BY <2>1, <1>q, <1>s DEF Calling
<1>6. ASSUME NEW c \in Conn, \/ LockReceiver(c) \/ TakeMsg(c) \/ WriteFails(c) \/ TakeClose(c)
                             \/ TakeStop(c) \/ SenderSetStatus(c)
      PROVE  FALSE
  BY <1>6, <1>s DEF LockReceiver, TakeMsg, WriteFails, TakeClose, TakeStop, Takes,
        SenderSetStatus, Serving
<1>7. ASSUME NEW c \in Conn, SenderClearFlag(c) \/ SenderNotify(c) \/ SenderExit(c)
      PROVE  Quiet'
  <2>1. /\ \E p \in {"notify", "exit", "off"} : snd' = [snd EXCEPT ![c] = p]
        /\ UNCHANGED status
        /\ \A t \in Task : pc'[t] \in Calling => pc'[t] = pc[t]
    BY <1>7 DEF SenderClearFlag, SenderNotify, SenderExit, cells, taskVars, Calling
  <2> QED
    BY <2>1, <1>s, <1>t, KeepsQuiet DEF Serving
<1>8. ASSUME \/ SetHeaders \/ QueueRequest \/ UNCHANGED vars
             \/ \E c \in Conn : ReceiverStep(c) \/ Ping(c) \/ PeerClose(c) \/ DropSocket(c)
      PROVE  Quiet'
  <2>1. UNCHANGED <<status, pc, snd>>
    BY <1>8 DEF SetHeaders, QueueRequest, ReceiverStep, ReceiverEnds,
          ReadEof, ReceiverPanics, ReceiverReadStatus, ReceiverSendClose, ReceiverAborted,
          Ping, PeerClose, DropSocket, vars, cells, taskVars,
          connVars
  <2> QED
    BY <2>1, <1>s, KeepsQuiet DEF Serving
<1>9. ASSUME NEW c \in Conn, NEW t \in Task, Answer(c, t)
      PROVE  Quiet'
  <2>1. /\ \E p \in {"scripts", pc[t]} : pc' = [pc EXCEPT ![t] = p]
        /\ UNCHANGED <<status, snd>>
    BY <1>9 DEF Answer, cells
  <2> QED
    BY <2>1, <1>q, <1>s DEF Calling
<1> QED
  BY <1>1, <1>2, <1>3, <1>4, <1>5, <1>6, <1>7, <1>8, <1>9
     DEF Next, UserStep, TryConnect, SenderStep

(* A stop is carried out only by the sender that writes Stopped.           *)
LEMMA CommitsByStop ==
    ASSUME OnlyChanges, TypeInv, ~Committed, Committed', [Next]_vars
    PROVE  \E c \in Conn : SenderSetStatus(c) /\ snd[c] = "stopping"
<1> USE DEF Goto
<1>t. /\ pc \in [Task -> UserPc \cup LoopPc \cup TryPc] /\ snd \in [Conn -> SenderPc]
      /\ User \subseteq Task /\ Loop \subseteq Task
  BY DEF TypeInv, TypeOK, Task
<1>n. /\ \A u \in User : pc[u] \notin {"writeAddr", "writeProxy"}
      /\ \A c \in Conn : snd[c] \notin {"clearFlag", "notify"}
  BY DEF Committed, Writing, In
<1>w. \/ \E u \in User : pc'[u] \in {"writeAddr", "writeProxy"}
      \/ \E c \in Conn : snd'[c] \in {"clearFlag", "notify"}
  BY DEF Committed, Writing, In
<1>q. ASSUME NEW t \in Task, NEW p, p \notin {"writeAddr", "writeProxy"},
             pc' = [pc EXCEPT ![t] = p], UNCHANGED snd
      PROVE  FALSE
  BY <1>q, <1>t, <1>n, <1>w
<1>s. ASSUME UNCHANGED pc, NEW c \in Conn, NEW p, p \notin {"clearFlag", "notify"},
             snd' = [snd EXCEPT ![c] = p]
      PROVE  FALSE
  BY <1>s, <1>t, <1>n, <1>w
<1>1. ASSUME NEW u \in User, NEW b \in BOOLEAN, Connect(u, b) \/ CallStop(u, b)
      PROVE  FALSE
  <2>1. /\ \E p \in {"checkWait", "checkStart", "changeRead", "stopRead"} :
              pc' = [pc EXCEPT ![u] = p]
        /\ UNCHANGED snd
    BY <1>1 DEF Connect, CallStop, connVars
  <2> QED
    BY <2>1, <1>q, <1>t
<1>2. ASSUME NEW u \in User, \/ CheckStatus(u) \/ SetDown(u) \/ ReadStatusForStop(u) \/ SendStop(u)
                             \/ SubscribeStop(u) \/ WriteAddr(u) \/ WriteProxy(u) \/ Restart(u)
                             \/ LagStop(u)
      PROVE  FALSE
  <2>1. /\ \E p \in {"readAddr", "setDown", "idle", "spawn", "stopSend", "changeSend",
                     "subscribeStop", "waitStop", "checkStart"} : pc' = [pc EXCEPT ![u] = p]
        /\ UNCHANGED snd
    BY <1>2, <1>n DEF CheckStatus, SetDown, ReadStatusForStop, SendStop, SubscribeStop, WriteAddr,
          WriteProxy, Restart, LagStop, OnlyChanges, connVars
  <2> QED
    BY <2>1, <1>q, <1>t
<1>3. ASSUME NEW u \in User, NEW l \in Loop, SpawnLoop(u, l)
      PROVE  FALSE
  BY <1>3, <1>t, <1>n, <1>w DEF SpawnLoop, connVars
<1>4. ASSUME NEW l \in Loop, LoopStep(l)
      PROVE  FALSE
  <2>1. /\ \E p \in {"top", "check", "off", "setStopped", "clearFlag", "readAddr"} :
              pc' = [pc EXCEPT ![l] = p]
        /\ UNCHANGED snd
    BY <1>4 DEF LoopStep, LoopTop, LoopSetStopped, LoopClearFlag, LoopCheck, connVars
  <2> QED
    BY <2>1, <1>q, <1>t
<1>5. ASSUME NEW t \in Task, NEW c \in Conn, DialOk(t, c)
      PROVE  FALSE
  BY <1>5, <1>t, <1>n, <1>w DEF DialOk
<1>6. ASSUME NEW t \in Task, \/ ReadAddr(t) \/ ReadProxy(t) \/ SetConnecting(t) \/ DialFail(t)
                             \/ ResubscribeHeaders(t) \/ SubscribeAnswer(t) \/ LagAnswer(t)
                             \/ ResubscribeScripts(t)
      PROVE  FALSE
  <2>1. /\ \E p \in {"readProxy", "setConnecting", "dialing", "top", "spawn", "subscribeAnswer",
                     "waitAnswer", "scripts"} : pc' = [pc EXCEPT ![t] = p]
        /\ UNCHANGED snd
    BY <1>6 DEF ReadAddr, ReadProxy, SetConnecting, DialFail, ResubscribeHeaders, SubscribeAnswer,
          LagAnswer, ResubscribeScripts, Return, connVars
  <2> QED
    BY <2>1, <1>q
<1>7. ASSUME NEW c \in Conn, \/ LockReceiver(c) \/ TakeMsg(c) \/ WriteFails(c) \/ TakeClose(c)
                             \/ TakeStop(c) \/ SenderExit(c)
      PROVE  FALSE
  <2>1. /\ UNCHANGED pc
        /\ UNCHANGED snd \/ \E p \in {"ready", "exit", "closing", "stopping", "off"} :
                               snd' = [snd EXCEPT ![c] = p]
    BY <1>7 DEF LockReceiver, TakeMsg, WriteFails, TakeClose, TakeStop, Takes, SenderExit, taskVars
  <2> QED
    BY <2>1, <1>s, <1>n, <1>w
<1>8. ASSUME NEW c \in Conn, SenderClearFlag(c) \/ SenderNotify(c)
      PROVE  FALSE
  BY <1>8, <1>n DEF SenderClearFlag, SenderNotify
<1>9. ASSUME NEW c \in Conn, SenderSetStatus(c), snd[c] # "stopping"
      PROVE  FALSE
  <2>1. UNCHANGED pc /\ snd' = [snd EXCEPT ![c] = "exit"]
    BY <1>9 DEF SenderSetStatus, taskVars
  <2> QED
    BY <2>1, <1>s
<1>10. ASSUME \/ SetHeaders \/ QueueRequest \/ UNCHANGED vars
              \/ \E c \in Conn : ReceiverStep(c) \/ Ping(c) \/ PeerClose(c) \/ DropSocket(c)
       PROVE  FALSE
  <2>1. UNCHANGED <<pc, snd>>
    BY <1>10 DEF SetHeaders, QueueRequest, ReceiverStep, ReceiverEnds,
          ReadEof, ReceiverPanics, ReceiverReadStatus, ReceiverSendClose, ReceiverAborted,
          Ping, PeerClose, DropSocket, vars, cells, taskVars,
          connVars
  <2> QED
    BY <2>1, <1>n, <1>w
<1>11. ASSUME NEW c \in Conn, NEW t \in Task, Answer(c, t)
       PROVE  FALSE
  <2>1. pc' = [pc EXCEPT ![t] = IF pc[t] = "waitAnswer" THEN "scripts" ELSE pc[t]] /\ UNCHANGED snd
    BY <1>11 DEF Answer
  <2> QED
    BY <2>1, <1>t, <1>n, <1>w
<1> QED
  BY <1>1, <1>2, <1>3, <1>4, <1>5, <1>6, <1>7, <1>8, <1>9, <1>10, <1>11
     DEF Next, UserStep, TryConnect, Dial, SenderStep

(* Nobody serves or dials from the stop to the last write of the change.   *)
LEMMA StepQuiet ==
    ASSUME OnlyChanges, OneUser, TypeInv, PriorInv, StopInv, QuietInv, [Next]_vars
    PROVE  QuietInv'
<1>1. CASE Committed
  BY <1>1, StaysQuiet DEF QuietInv
<1>2. CASE ~Committed /\ Committed'
  <2>1. PICK c \in Conn : SenderSetStatus(c) /\ snd[c] = "stopping"
    BY <1>2, CommitsByStop
  <2>2. /\ status' = "Stopped" /\ UNCHANGED pc /\ snd' = [snd EXCEPT ![c] = "clearFlag"]
        /\ snd \in [Conn -> SenderPc]
    BY <2>1 DEF SenderSetStatus, taskVars, TypeInv, TypeOK
  <2>3. Prior
    BY <2>1 DEF StopInv, Stopping, Prior
  <2>4. Serving(c)
    BY <2>1 DEF Serving
  <2>5. \A d \in Conn : ~Serving(d)'
    BY <2>2, <2>3, <2>4 DEF PriorInv, Orderly, OneServing, Serving
  <2>6. \A t \in Task : pc'[t] \notin Calling
    BY <2>2, <2>3, <2>4 DEF PriorInv, Orderly
  <2> QED
    BY <2>2, <2>5, <2>6 DEF QuietInv, Quiet
<1> QED
  BY <1>1, <1>2 DEF QuietInv

-----------------------------------------------------------------------------
(* What holds up to the notification holds before it all the time.         *)
LEMMA PriorBefore ==
    ASSUME OnlyChanges, OneUser, TypeInv, AppInv, [Next]_vars, OneChange, Prior'
    PROVE  Prior
<1> SUFFICES ASSUME ~Prior PROVE FALSE
  OBVIOUS
<1> USE DEF Goto
<1>t. /\ pc \in [Task -> UserPc \cup LoopPc \cup TryPc]
      /\ User \subseteq Task /\ Loop \subseteq Task /\ User \cap Loop = {}
  BY LifecycleAssumption DEF TypeInv, TypeOK, Task
<1>a. Asked /\ Asked'
  BY AskedStays DEF Prior
<1>b. \A u \in User : pc[u] \notin {"changeRead", "changeSend", "subscribeStop", "waitStop",
                                    "stopRead", "stopSend"}
  BY <1>a DEF AppInv, Prior, Waiting, In
<1>p. \E u \in User : pc'[u] \in {"changeRead", "changeSend", "subscribeStop", "waitStop"}
  BY <1>a DEF Prior, Waiting, In
<1>q. ASSUME NEW t \in Task, NEW p, pc' = [pc EXCEPT ![t] = p],
             p \notin {"changeRead", "changeSend", "subscribeStop", "waitStop"}
      PROVE  FALSE
  BY <1>q, <1>b, <1>p, <1>t
<1>1. ASSUME NEW u \in User, NEW b \in BOOLEAN, Connect(u, b) \/ CallStop(u, b)
      PROVE  FALSE
  <2>1. CASE Connect(u, b)
    <3>1. \E p \in {"checkWait", "checkStart"} : pc' = [pc EXCEPT ![u] = p]
      BY <2>1 DEF Connect
    <3> QED
      BY <3>1, <1>q, <1>t
  <2>2. CASE CallStop(u, b)
    <3>1. calls = ChangeAt
      BY <2>2 DEF CallStop, OnlyChanges, OneChange
    <3> QED
      BY <3>1, <1>a DEF Asked, OnlyChanges
  <2> QED
    BY <1>1, <2>1, <2>2
<1>2. ASSUME NEW u \in User, UserStep(u) \/ LagStop(u)
      PROVE  FALSE
  <2>1. CASE \/ ReadStatusForStop(u) \/ SendStop(u) \/ SubscribeStop(u) \/ LagStop(u)
    BY <2>1, <1>b DEF ReadStatusForStop, SendStop, SubscribeStop, LagStop
  <2>2. CASE \E l \in Loop : SpawnLoop(u, l)
    BY <2>2, <1>b, <1>p, <1>t DEF SpawnLoop
  <2>3. CASE CheckStatus(u) \/ SetDown(u) \/ WriteAddr(u) \/ WriteProxy(u) \/ Restart(u)
    <3>1. \E p \in {"readAddr", "setDown", "idle", "spawn", "writeProxy", "restart", "checkStart"} :
             pc' = [pc EXCEPT ![u] = p]
      BY <2>3 DEF CheckStatus, SetDown, WriteAddr, WriteProxy, Restart
    <3> QED
      BY <3>1, <1>q, <1>t
  <2> QED
    BY <1>2, <2>1, <2>2, <2>3 DEF UserStep
<1>3. ASSUME NEW l \in Loop, LoopStep(l)
      PROVE  FALSE
  <2>1. \E p \in {"top", "check", "off", "setStopped", "clearFlag", "readAddr"} :
           pc' = [pc EXCEPT ![l] = p]
    BY <1>3 DEF LoopStep, LoopTop, LoopSetStopped, LoopClearFlag, LoopCheck
  <2> QED
    BY <2>1, <1>q, <1>t
<1>4. ASSUME NEW t \in Task, TryConnect(t) \/ LagAnswer(t)
      PROVE  FALSE
  <2>1. \E p \in {"readProxy", "setConnecting", "dialing", "headers", "top", "spawn",
                  "subscribeAnswer", "waitAnswer", "scripts"} : pc' = [pc EXCEPT ![t] = p]
    BY <1>4 DEF TryConnect, ReadAddr, ReadProxy, SetConnecting, Dial, DialOk, DialFail,
          ResubscribeHeaders, SubscribeAnswer, LagAnswer, ResubscribeScripts, Return
  <2> QED
    BY <2>1, <1>q
<1>5. ASSUME UNCHANGED pc
      PROVE  FALSE
  BY <1>5, <1>b, <1>p
<1>6. ASSUME \/ SetHeaders \/ QueueRequest \/ UNCHANGED vars
             \/ \E c \in Conn : \/ LockReceiver(c) \/ TakeMsg(c) \/ WriteFails(c) \/ TakeClose(c)
                                \/ TakeStop(c) \/ SenderSetStatus(c) \/ SenderClearFlag(c)
                                \/ SenderExit(c) \/ ReceiverStep(c) \/ Ping(c) \/ PeerClose(c)
                                \/ DropSocket(c)
      PROVE  FALSE
  <2>1. UNCHANGED pc
    BY <1>6 DEF SetHeaders, QueueRequest, LockReceiver, TakeMsg, WriteFails, TakeClose, TakeStop,
          Takes, SenderSetStatus, SenderClearFlag, SenderExit, ReceiverStep, ReceiverEnds,
          ReadEof, ReceiverPanics, ReceiverReadStatus, ReceiverSendClose, ReceiverAborted,
          Ping, PeerClose, DropSocket,
          vars, taskVars
  <2> QED
    BY <2>1, <1>5
<1>7. ASSUME NEW c \in Conn, SenderNotify(c)
      PROVE  FALSE
  BY <1>7, <1>b, <1>p, <1>t DEF SenderNotify
<1>8. ASSUME NEW c \in Conn, NEW t \in Task, Answer(c, t)
      PROVE  FALSE
  BY <1>8, <1>b, <1>p, <1>t DEF Answer
<1> QED
  BY <1>1, <1>2, <1>3, <1>4, <1>6, <1>7, <1>8 DEF Next, SenderStep

(* Steps that leave the status alone and start no dial, loop or service.   *)
LEMMA KeepsOrder ==
    ASSUME Orderly, UNCHANGED status,
           \A c \in Conn : Serving(c)' => Serving(c),
           \A t \in Task : pc'[t] \in Calling => pc[t] \in Calling,
           \A l \in Loop : LoopAlive(l)' => LoopAlive(l),
           \A u \in User : pc'[u] \in Dialing => pc[u] \in Dialing
    PROVE  Orderly'
  BY DEF Orderly, OneServing, In

(* Only the task that dials leads to a connection.                         *)
LEMMA OneDials ==
    ASSUME OneUser, Orderly, NEW t \in Task, NEW s \in Task,
           pc[t] = "dialing", pc[s] \in Calling
    PROVE  s = t
<1>1. \A l \in Loop : l \in {t, s} => LoopAlive(l)
  BY DEF LoopAlive, Calling
<1>2. \A u \in User : u \in {t, s} => In(Dialing)
  BY DEF In, Dialing, Calling, TryPc
<1>3. (t \in Loop \/ t \in User) /\ (s \in Loop \/ s \in User)
  BY DEF Task
<1> QED
  BY <1>1, <1>2, <1>3 DEF Orderly, OneUser

(* Up to the notification the loops and connections are in order.          *)
LEMMA StepPrior ==
    ASSUME OnlyChanges, OneUser, TypeInv, AppInv, PriorInv, StopInv, [Next]_vars, OneChange
    PROVE  PriorInv'
<1> SUFFICES ASSUME Prior' PROVE Orderly'
  BY DEF PriorInv
<1>o. Prior /\ Orderly
  BY PriorBefore DEF PriorInv
<1> USE DEF Goto
<1>t. /\ pc \in [Task -> UserPc \cup LoopPc \cup TryPc] /\ snd \in [Conn -> SenderPc]
      /\ User \subseteq Task /\ Loop \subseteq Task /\ User \cap Loop = {}
  BY LifecycleAssumption DEF TypeInv, TypeOK, Task
<1>n. \A u \in User : pc[u] \in {"checkWait", "checkStart", "setDown", "spawn"} => ~Asked
  BY <1>o DEF Prior, Waiting, In, OneUser
<1>q. ASSUME NEW t \in Task, NEW p, pc' = [pc EXCEPT ![t] = p], UNCHANGED <<status, snd>>,
             p \in Calling => pc[t] \in Calling,
             t \in Loop => p = "off" \/ LoopAlive(t),
             t \in User => (p \in Dialing => pc[t] \in Dialing)
      PROVE  Orderly'
  <2>1. \A l \in Loop : LoopAlive(l)' => LoopAlive(l)
    BY <1>q, <1>t DEF LoopAlive
  <2>2. \A u \in User : pc'[u] \in Dialing => pc[u] \in Dialing
    BY <1>q, <1>t
  <2>3. \A s \in Task : pc'[s] \in Calling => pc[s] \in Calling
    BY <1>q, <1>t
  <2> QED
    BY <1>q, <1>o, <2>1, <2>2, <2>3, KeepsOrder DEF Serving
<1>s. ASSUME UNCHANGED <<status, pc>>, \A c \in Conn : Serving(c)' => Serving(c)
      PROVE  Orderly'
  BY <1>s, <1>o, KeepsOrder DEF LoopAlive
<1>1. ASSUME NEW u \in User, NEW b \in BOOLEAN, Connect(u, b) \/ CallStop(u, b)
      PROVE  Orderly'
  <2>1. /\ \E p \in {"checkWait", "checkStart", "changeRead", "stopRead"} :
              pc' = [pc EXCEPT ![u] = p]
        /\ UNCHANGED <<status, snd>>
    BY <1>1 DEF Connect, CallStop, connVars
  <2> QED
    BY <2>1, <1>q, <1>t DEF Calling, Dialing, TryPc
<1>2. ASSUME NEW u \in User, CheckStatus(u)
      PROVE  Orderly'
  <2>1. UNCHANGED <<status, snd>> /\ status # "Stopped"
    BY <1>2, <1>n DEF CheckStatus, AppInv, cells, connVars
  <2>2. CASE status = "Initialized"
    <3>1. /\ \A c \in Conn : ~Serving(c) /\ ~Serving(c)'
          /\ \A l \in Loop : ~LoopAlive(l)
      BY <1>o, <2>1, <2>2 DEF Orderly, Serving
    <3>2. \A l \in Loop : ~LoopAlive(l)'
      BY <1>2, <1>t, <3>1 DEF CheckStatus, LoopAlive
    <3> QED
      BY <3>1, <3>2 DEF Orderly, OneServing
  <2>3. CASE status # "Initialized"
    <3>1. pc' = [pc EXCEPT ![u] = "idle"]
      BY <1>2, <2>1, <2>3 DEF CheckStatus
    <3> QED
      BY <2>1, <3>1, <1>q, <1>t DEF Calling, Dialing, TryPc
  <2> QED
    BY <2>2, <2>3
<1>3. ASSUME NEW u \in User, SetDown(u)
      PROVE  Orderly'
  <2>1. pc[u] = "setDown" /\ pc' = [pc EXCEPT ![u] = "spawn"] /\ UNCHANGED snd
    BY <1>3 DEF SetDown, connVars
  <2>2. \A l \in Loop : ~LoopAlive(l)
    BY <2>1, <1>o DEF Orderly, In, Dialing
  <2>3. \A l \in Loop : ~LoopAlive(l)'
    BY <2>1, <2>2, <1>t DEF LoopAlive
  <2>4. \A c \in Conn : ~Serving(c)'
    BY <2>1, <1>o, <1>t DEF Orderly, Calling, Serving
  <2> QED
    BY <2>3, <2>4 DEF Orderly, OneServing
<1>4. ASSUME NEW u \in User, NEW l \in Loop, SpawnLoop(u, l)
      PROVE  Orderly'
  <2>1. /\ pc[u] = "spawn" /\ pc' = [pc EXCEPT ![u] = "idle", ![l] = "top"]
        /\ UNCHANGED <<status, snd>>
    BY <1>4 DEF SpawnLoop, cells, connVars
  <2>2. status # "Initialized"
    BY <2>1, <1>n DEF AppInv, In
  <2>3. \A m \in Loop : ~LoopAlive(m)
    BY <2>1, <1>o DEF Orderly, In, Dialing
  <2>4. \A m \in Loop : LoopAlive(m)' => m = l
    BY <2>1, <2>3, <1>t DEF LoopAlive
  <2>5. ~In(Dialing)'
    <3>1. \A v \in User : pc'[v] = "idle"
      BY <2>1, <1>t DEF OneUser
    <3> QED
      BY <3>1 DEF In, Dialing, TryPc
  <2>6. \A t \in Task : pc'[t] \in Calling => pc[t] \in Calling
    BY <2>1, <1>t DEF Calling
  <2> QED
    BY <2>1, <2>2, <2>4, <2>5, <2>6, <1>o DEF Orderly, OneServing, Serving
<1>5. ASSUME NEW u \in User, \/ ReadStatusForStop(u) \/ SendStop(u) \/ SubscribeStop(u)
                             \/ LagStop(u) \/ WriteAddr(u) \/ WriteProxy(u) \/ Restart(u)
      PROVE  Orderly'
  <2>1. /\ \E p \in {"stopSend", "changeSend", "idle", "subscribeStop", "waitStop", "writeAddr",
                     "writeProxy", "restart", "checkStart"} : pc' = [pc EXCEPT ![u] = p]
        /\ UNCHANGED <<status, snd>>
    BY <1>5 DEF ReadStatusForStop, SendStop, SubscribeStop, LagStop, WriteAddr, WriteProxy,
          Restart, cells, connVars
  <2> QED
    BY <2>1, <1>q, <1>t DEF Calling, Dialing, TryPc
<1>6. ASSUME NEW l \in Loop, LoopTop(l) \/ LoopClearFlag(l)
      PROVE  Orderly'
  <2>1. /\ pc[l] \in {"top", "clearFlag"} /\ UNCHANGED <<status, snd>>
        /\ \E p \in {"setStopped", "check", "off"} : pc' = [pc EXCEPT ![l] = p]
    BY <1>6 DEF LoopTop, LoopClearFlag, cells, connVars
  <2> QED
    BY <2>1, <1>q, <1>t DEF LoopAlive, Calling
<1>7. ASSUME NEW l \in Loop, LoopSetStopped(l)
      PROVE  Orderly'
  <2>1. /\ pc[l] = "setStopped" /\ pc' = [pc EXCEPT ![l] = "clearFlag"]
        /\ status' = "Stopped" /\ UNCHANGED snd
    BY <1>7 DEF LoopSetStopped, connVars
  <2>2. \A m \in Loop : LoopAlive(m)' => LoopAlive(m)
    BY <2>1, <1>t DEF LoopAlive
  <2>3. In(Dialing)' => In(Dialing)
    BY <2>1, <1>t DEF In
  <2>4. \A t \in Task : pc'[t] \in Calling => pc[t] \in Calling
    BY <2>1, <1>t DEF Calling
  <2> QED
    BY <2>1, <2>2, <2>3, <2>4, <1>o DEF Orderly, OneServing, Serving
<1>8. ASSUME NEW l \in Loop, LoopCheck(l)
      PROVE  Orderly'
  <2>1. pc[l] = "check" /\ UNCHANGED <<status, snd>>
    BY <1>8 DEF LoopCheck, cells, connVars
  <2>2. CASE status = "Disconnected"
    <3>1. pc' = [pc EXCEPT ![l] = "readAddr"]
      BY <1>8, <2>2 DEF LoopCheck
    <3>2. \A c \in Conn : ~Serving(c)'
      BY <2>1, <2>2, <1>o DEF Orderly, Serving
    <3>3. \A m \in Loop : LoopAlive(m)' => LoopAlive(m)
      BY <2>1, <3>1, <1>t DEF LoopAlive
    <3>4. In(Dialing)' => In(Dialing)
      BY <3>1, <1>t DEF In
    <3> QED
      BY <2>1, <3>2, <3>3, <3>4, <1>o DEF Orderly, OneServing
  <2>3. CASE status # "Disconnected"
    <3>1. \E p \in {"off", "top"} : pc' = [pc EXCEPT ![l] = p]
      BY <1>8, <2>3 DEF LoopCheck
    <3> QED
      BY <2>1, <3>1, <1>q, <1>t DEF LoopAlive, Calling
  <2> QED
    BY <2>2, <2>3
<1>9. ASSUME NEW t \in Task, SetConnecting(t) \/ DialFail(t)
      PROVE  Orderly'
  <2>1. /\ pc[t] \in {"setConnecting", "dialing"} /\ UNCHANGED snd
        /\ status' \in {"Connecting", "Disconnected"}
        /\ \E p \in {"dialing", "top", "spawn"} :
              pc' = [pc EXCEPT ![t] = p] /\ (t \in User \ Loop => p # "top")
    BY <1>9 DEF SetConnecting, DialFail, Return, connVars
  <2>2. \A c \in Conn : ~Serving(c)'
    BY <2>1, <1>o, <1>t DEF Orderly, Calling, Serving
  <2>3. \A l \in Loop : LoopAlive(l)' => LoopAlive(l)
    BY <2>1, <1>t DEF LoopAlive
  <2>4. In(Dialing)' => In(Dialing)
    <3> SUFFICES ASSUME NEW u \in User, pc'[u] \in Dialing PROVE pc[u] \in Dialing
      BY DEF In
    <3> QED
      BY <2>1, <1>t DEF Dialing, TryPc
  <2> QED
    BY <2>1, <2>2, <2>3, <2>4, <1>o DEF Orderly, OneServing
<1>10. ASSUME NEW t \in Task, NEW c \in Conn, DialOk(t, c)
       PROVE  Orderly'
  <2>1. /\ pc[t] = "dialing" /\ pc' = [pc EXCEPT ![t] = "headers"]
        /\ status' = "Connected" /\ snd' = [snd EXCEPT ![c] = "spawned"]
    BY <1>10 DEF DialOk
  <2>2. \A d \in Conn : Serving(d)' => d = c
    BY <2>1, <1>o, <1>t DEF Orderly, Serving, Calling
  <2>3. \A s \in Task : pc'[s] \notin Calling
    <3> SUFFICES ASSUME NEW s \in Task, pc'[s] \in Calling PROVE FALSE
      OBVIOUS
    <3>1. s # t /\ pc[s] \in Calling
      BY <2>1, <1>t DEF Calling
    <3> QED
      BY <2>1, <3>1, <1>o, OneDials
  <2>4. \A l \in Loop : LoopAlive(l)' => LoopAlive(l)
    BY <2>1, <1>t DEF LoopAlive
  <2>5. In(Dialing)' => In(Dialing)
    <3> SUFFICES ASSUME NEW u \in User, pc'[u] \in Dialing PROVE pc[u] \in Dialing
      BY DEF In
    <3> QED
      BY <2>1, <1>t DEF Dialing, TryPc
  <2> QED
    BY <2>1, <2>2, <2>3, <2>4, <2>5, <1>o DEF Orderly, OneServing
<1>11. ASSUME NEW t \in Task, \/ ReadAddr(t) \/ ReadProxy(t) \/ ResubscribeHeaders(t)
                              \/ SubscribeAnswer(t) \/ LagAnswer(t) \/ ResubscribeScripts(t)
       PROVE  Orderly'
  <2>1. /\ pc[t] \in TryPc /\ UNCHANGED <<status, snd>>
        /\ \E p \in {"readProxy", "setConnecting", "subscribeAnswer", "waitAnswer", "scripts",
                     "top", "spawn"} :
              /\ pc' = [pc EXCEPT ![t] = p]
              /\ p \in {"readProxy", "setConnecting"} => pc[t] \in Calling
    BY <1>11 DEF ReadAddr, ReadProxy, ResubscribeHeaders, SubscribeAnswer, LagAnswer,
          ResubscribeScripts, Return, Calling, TryPc, cells, connVars
  <2> QED
    BY <2>1, <1>q DEF LoopAlive, Calling, Dialing, TryPc
<1>12. ASSUME NEW c \in Conn, SenderSetStatus(c)
       PROVE  Orderly'
  <2>1. /\ snd[c] \in {"closing", "stopping"} /\ UNCHANGED pc
        /\ \E p \in {"exit", "clearFlag"} : snd' = [snd EXCEPT ![c] = p]
        /\ status' \in {"Disconnected", "Stopped"}
    BY <1>12 DEF SenderSetStatus, taskVars
  <2>2. \A d \in Conn : ~Serving(d)'
    BY <2>1, <1>o, <1>t DEF Orderly, OneServing, Serving
  <2>3. (In(Dialing)' <=> In(Dialing)) /\ \A l \in Loop : LoopAlive(l)' <=> LoopAlive(l)
    BY <2>1 DEF In, LoopAlive
  <2> QED
    BY <2>1, <2>2, <2>3, <1>o DEF Orderly, OneServing
<1>13. ASSUME NEW c \in Conn, \/ LockReceiver(c) \/ TakeMsg(c) \/ WriteFails(c) \/ TakeClose(c)
                              \/ TakeStop(c) \/ SenderClearFlag(c) \/ SenderExit(c)
       PROVE  Orderly'
  <2>1. /\ UNCHANGED <<status, pc>>
        /\ \/ UNCHANGED snd
           \/ Serving(c) /\ \E p \in SenderPc : snd' = [snd EXCEPT ![c] = p]
           \/ \E p \in {"notify", "off"} : snd' = [snd EXCEPT ![c] = p]
    BY <1>13 DEF LockReceiver, TakeMsg, WriteFails, TakeClose, TakeStop, Takes, SenderClearFlag,
          SenderExit, Serving, SenderPc, cells, taskVars
  <2>2. \A d \in Conn : Serving(d)' => Serving(d)
    BY <2>1, <1>t DEF Serving
  <2> QED
    BY <2>1, <2>2, <1>s
<1>14. ASSUME NEW c \in Conn, SenderNotify(c)
       PROVE  Orderly'
  <2>1. /\ pc' = [t \in Task |-> IF pc[t] = "waitStop" THEN "writeAddr" ELSE pc[t]]
        /\ UNCHANGED status /\ snd' = [snd EXCEPT ![c] = "exit"]
    BY <1>14 DEF SenderNotify, cells
  <2>2. \A d \in Conn : Serving(d)' => Serving(d)
    BY <2>1, <1>t DEF Serving
  <2>3. \A t \in Task : pc'[t] # pc[t] => pc'[t] = "writeAddr" /\ pc[t] = "waitStop"
    BY <2>1
  <2>4. \A l \in Loop : LoopAlive(l)' => LoopAlive(l)
    BY <2>3, <1>t DEF LoopAlive
  <2>5. \A u \in User : pc'[u] \in Dialing => pc[u] \in Dialing
    BY <2>3, <1>t DEF Dialing, TryPc
  <2>6. \A t \in Task : pc'[t] \in Calling => pc[t] \in Calling
    BY <2>3 DEF Calling
  <2> QED
    BY <2>1, <2>2, <2>4, <2>5, <2>6, <1>o, KeepsOrder
<1>15. ASSUME \/ SetHeaders \/ QueueRequest \/ UNCHANGED vars
              \/ \E c \in Conn : ReceiverStep(c) \/ Ping(c) \/ PeerClose(c) \/ DropSocket(c)
       PROVE  Orderly'
  <2>1. UNCHANGED <<status, pc, snd>>
    BY <1>15 DEF SetHeaders, QueueRequest, ReceiverStep, ReceiverEnds,
          ReadEof, ReceiverPanics, ReceiverReadStatus, ReceiverSendClose, ReceiverAborted,
          Ping, PeerClose, DropSocket, vars, cells, taskVars,
          connVars
  <2> QED
    BY <2>1, <1>s DEF Serving
<1>16. ASSUME NEW c \in Conn, NEW t \in Task, Answer(c, t)
       PROVE  Orderly'
  <2>1. /\ \E p : pc' = [pc EXCEPT ![t] = p] /\ (p = pc[t] \/ (p = "scripts" /\ pc[t] = "waitAnswer"))
        /\ UNCHANGED <<status, snd>>
    BY <1>16 DEF Answer, cells
  <2> QED
    BY <2>1, <1>q DEF LoopAlive, Calling, Dialing, TryPc
<1> QED
  BY <1>1, <1>2, <1>3, <1>4, <1>5, <1>6, <1>7, <1>8, <1>9, <1>10, <1>11, <1>12, <1>13, <1>14,
     <1>15, <1>16 DEF Next, UserStep, LoopStep, TryConnect, Dial, SenderStep

-----------------------------------------------------------------------------
(* At first nothing runs and nothing has been asked for.                   *)
LEMMA InitChange == Init => ChangeInv
<1> SUFFICES ASSUME Init PROVE ChangeInv
  OBVIOUS
<1>1. /\ \A t \in Task : local[t] = <<0, 0>> /\ pc[t] = IF t \in User THEN "idle" ELSE "off"
      /\ \A c \in Conn : snd[c] = "off"
      /\ status = "Initialized" /\ addr = 0 /\ proxy = 0 /\ scheduled = FALSE /\ chan = <<>>
      /\ User \subseteq Task /\ Loop \subseteq Task /\ User \cap Loop = {}
  BY LifecycleAssumption DEF Init, Task
<1>2. ~In({"changeRead", "changeSend", "subscribeStop", "waitStop", "writeAddr", "writeProxy",
           "restart"})
  BY <1>1 DEF In
<1>3. AppInv
  BY <1>1, <1>2 DEF AppInv, In, Dialed
<1>4. CurrentInv
  BY <1>1 DEF CurrentInv, Serving
<1>5. PriorInv
  BY <1>1 DEF PriorInv, Orderly, OneServing, LoopAlive, Serving, Calling
<1>6. StopInv
  BY <1>1 DEF StopInv, Stops, StopsIn, Stopping
<1>7. QuietInv
  BY <1>1 DEF QuietInv, Committed, Writing, In
<1> QED
  BY <1>3, <1>4, <1>5, <1>6, <1>7 DEF ChangeInv

(* Every step of an application that changes once preserves the invariant. *)
LEMMA StepChange ==
    ASSUME OnlyChanges, OneUser, TypeInv, ChangeInv, [Next]_vars, [OneChange]_vars
    PROVE  ChangeInv'
<1>1. OneChange
  <2>1. CASE UNCHANGED vars
    <3>1. UNCHANGED calls /\ calls \in Nat
      BY <2>1 DEF vars, taskVars, TypeInv, TypeOK
    <3> QED
      BY <3>1 DEF OneChange, CallStop
  <2> QED
    BY <2>1
<1> QED
  BY <1>1, StepApp, StepCurrent, StepPrior, StepStop, StepQuiet DEF ChangeInv

(* In a client used by one task, which connects as often as it likes and   *)
(* changes the address once, a Connected client is connected to the        *)
(* address and the proxy last set (client.rs:204, :297).                   *)
THEOREM CurrentAddress ==
    ASSUME OnlyChanges, OneUser
    PROVE  Spec /\ [][OneChange]_vars => []ServesCurrentAddress
<1>1. TypeInv /\ ChangeInv /\ [Next]_vars /\ [OneChange]_vars => ChangeInv'
  BY StepChange
<1>2. ChangeInv => ServesCurrentAddress
  BY DEF ChangeInv, CurrentInv, ServesCurrentAddress
<1> QED
  BY <1>1, <1>2, InitChange, TypeInvariant, PTL DEF Spec

(* Such a change writes the address and the proxy while the client is      *)
(* stopped and no connection is in service (client.rs:204).                *)
THEOREM StoppedChange ==
    ASSUME OnlyChanges, OneUser
    PROVE  Spec /\ [][OneChange]_vars => AddressChangesWhileStopped
<1> DEFINE Change == <<addr', proxy'>> # <<addr, proxy>>
                        => status = "Stopped" /\ \A c \in Conn : ~Serving(c)
<1>1. TypeInv /\ ChangeInv /\ [Next]_vars /\ [OneChange]_vars => ChangeInv'
  BY StepChange
<1>2. ASSUME TypeInv, ChangeInv, [Next]_vars
      PROVE  [Change]_vars
  <2>1. ASSUME NEW u \in User, WriteAddr(u) \/ WriteProxy(u)
        PROVE  Change
    <3>1. Committed
      BY <2>1 DEF WriteAddr, WriteProxy, Committed, Writing, In
    <3> QED
      BY <1>2, <3>1 DEF ChangeInv, QuietInv, Quiet
  <2>2. ASSUME ~ \E u \in User : WriteAddr(u) \/ WriteProxy(u)
        PROVE  UNCHANGED <<addr, proxy>>
    <3>1. CASE \E u \in User, b \in BOOLEAN : Connect(u, b) \/ CallStop(u, b)
      BY <3>1 DEF Connect, CallStop
    <3>2. CASE \E u \in User : UserStep(u) \/ LagStop(u)
      BY <2>2, <3>2 DEF UserStep, CheckStatus, SetDown, SpawnLoop, ReadStatusForStop, SendStop,
            SubscribeStop, LagStop, Restart, cells
    <3>3. CASE \E l \in Loop : LoopStep(l)
      BY <3>3 DEF LoopStep, LoopTop, LoopSetStopped, LoopClearFlag, LoopCheck, cells
    <3>4. CASE \E t \in Task : TryConnect(t) \/ LagAnswer(t)
      BY <3>4 DEF TryConnect, ReadAddr, ReadProxy, SetConnecting, Dial, DialOk, DialFail,
            ResubscribeHeaders, SubscribeAnswer, LagAnswer, ResubscribeScripts, cells
    <3>5. CASE SetHeaders \/ QueueRequest \/ UNCHANGED vars
      BY <3>5 DEF SetHeaders, QueueRequest, vars, cells
    <3>6. CASE \E c \in Conn : \/ SenderStep(c) \/ ReceiverStep(c) \/ Ping(c)
                               \/ PeerClose(c) \/ DropSocket(c)
      BY <3>6 DEF SenderStep, LockReceiver, TakeMsg, WriteFails, TakeClose, TakeStop, Takes,
            SenderSetStatus, SenderClearFlag, SenderNotify, SenderExit, ReceiverStep, ReceiverEnds,
            ReadEof, ReceiverPanics, ReceiverReadStatus, ReceiverSendClose, ReceiverAborted,
            Ping, PeerClose, DropSocket,
            cells
    <3>7. CASE \E c \in Conn, t \in Task : Answer(c, t)
      BY <3>7 DEF Answer, cells
    <3> QED
      BY <1>2, <3>1, <3>2, <3>3, <3>4, <3>5, <3>6, <3>7 DEF Next
  <2> QED
    BY <2>1, <2>2
<1>3. AddressChangesWhileStopped <=> [][Change]_vars
  BY DEF AddressChangesWhileStopped
<1> QED
  BY <1>1, <1>2, <1>3, InitChange, TypeInvariant, PTL DEF Spec

=============================================================================
