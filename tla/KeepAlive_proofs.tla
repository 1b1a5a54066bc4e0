---------------------------- MODULE KeepAlive_proofs ---------------------------
(***************************************************************************)
(* Lifecycle takes only the steps of KeepAlive, with the mapping that the  *)
(* runs use, as long as one task uses the client, never stops it, and no   *)
(* write fails.  That the steps are taken in the end is left to TLC.       *)
(***************************************************************************)
EXTENDS Lifecycle_proofs, MCLifecycle

(* What a task on its way to a connection may assume of the status: a call *)
(* of connect() finds a new client, the loop one that is down, and nobody  *)
(* else writes the status while either dials.                              *)
DialingInv ==
    \A t \in Task :
        /\ pc[t] = "dialing" => status = "Connecting"
        /\ pc[t] \in Calling \ {"dialing"}
             => status = IF t \in User THEN "Initialized" ELSE "Disconnected"

CycleInv == ManagedInv /\ SingleInv /\ ServingInv /\ DialingInv

(* One task at most is in start() or dials.                                *)
LEMMA OnlyCaller ==
    ASSUME OneUser, SingleInv, NEW t \in Task, NEW s \in Task,
           pc[t] \in Calling, pc[s] \in Calling
    PROVE  s = t
<1>1. \A l \in Loop : l \in {t, s} => LoopAlive(l)
  BY DEF LoopAlive, Calling
<1>2. \A u \in User : u \in {t, s} => WillSpawn(u) \/ pc[u] = "setDown"
  BY DEF WillSpawn, Calling, TryPc
<1> QED
  BY <1>1, <1>2 DEF SingleInv, OneUser, Task

(* The status and the service change in five places only.                  *)
LEMMA StatusSteps ==
    ASSUME NoStop, "write" \notin Faults, TypeInv, ManagedInv, [Next]_vars
    PROVE  \/ UNCHANGED status /\ \A c \in Conn : Serving(c)' <=> Serving(c)
           \/ \E u \in User : SetDown(u)
           \/ \E t \in Task : SetConnecting(t) \/ Dial(t)
           \/ \E c \in Conn : SenderSetStatus(c)
<1> DEFINE Quiet == UNCHANGED status /\ \A c \in Conn : Serving(c)' <=> Serving(c)
<1>q. UNCHANGED <<status, snd>> => Quiet
  BY DEF Serving
<1>t. snd \in [Conn -> SenderPc]
  BY DEF TypeInv, TypeOK
<1>1. CASE \E u \in User, b \in BOOLEAN : Connect(u, b) \/ CallStop(u, b)
  BY <1>1, <1>q DEF Connect, CallStop, connVars
<1>2. ASSUME NEW u \in User, UserStep(u) \/ LagStop(u), ~SetDown(u)
      PROVE  Quiet
  BY <1>2, <1>q DEF UserStep, LagStop, CheckStatus, SpawnLoop, ReadStatusForStop, SendStop,
        SubscribeStop, WriteAddr, WriteProxy, Restart, cells, connVars
<1>3. ASSUME NEW l \in Loop, LoopStep(l)
      PROVE  Quiet
  BY <1>3, <1>q DEF LoopStep, LoopTop, LoopSetStopped, LoopClearFlag, LoopCheck, ManagedInv,
        NeverStopped, cells, connVars
<1>4. ASSUME NEW t \in Task, TryConnect(t) \/ LagAnswer(t), ~SetConnecting(t), ~Dial(t)
      PROVE  Quiet
  BY <1>4, <1>q DEF TryConnect, LagAnswer, ReadAddr, ReadProxy, ResubscribeHeaders,
        SubscribeAnswer, ResubscribeScripts, cells, connVars
<1>5. ASSUME NEW c \in Conn, SenderStep(c), ~SenderSetStatus(c)
      PROVE  Quiet
  <2>1. CASE LockReceiver(c)
    BY <2>1, <1>t DEF LockReceiver, Serving, cells
  <2>2. CASE TakeMsg(c) \/ TakeClose(c) \/ TakeStop(c)
    <3>1. /\ snd[c] = "ready" /\ UNCHANGED status
          /\ \E p \in {"ready", "closing", "stopping"} : snd' = [snd EXCEPT ![c] = p]
      BY <2>2, <1>t DEF TakeMsg, TakeClose, TakeStop, Takes
    <3> QED
      BY <3>1, <1>t DEF Serving
  <2>3. CASE SenderExit(c)
    BY <2>3, <1>t DEF SenderExit, Serving, cells
  <2>4. ~WriteFails(c) /\ ~SenderClearFlag(c) /\ ~SenderNotify(c)
    BY DEF WriteFails, SenderClearFlag, SenderNotify, ManagedInv, NeverStopped
  <2> QED
    BY <1>5, <2>1, <2>2, <2>3, <2>4 DEF SenderStep
<1>6. ASSUME \/ SetHeaders \/ QueueRequest \/ UNCHANGED vars
             \/ \E c \in Conn : ReceiverStep(c) \/ Ping(c) \/ PeerClose(c) \/ DropSocket(c)
             \/ \E c \in Conn, t \in Task : Answer(c, t)
      PROVE  Quiet
  BY <1>6, <1>q DEF SetHeaders, QueueRequest, ReceiverStep, ReceiverEnds, ReadEof, ReceiverPanics,
        ReceiverReadStatus, ReceiverSendClose, ReceiverAborted,
        Ping, PeerClose, DropSocket, Answer, vars, cells,
        connVars
<1> QED
  BY <1>1, <1>2, <1>3, <1>4, <1>5, <1>6 DEF Next

(* A new call, or the loop, starts a dial from the status it has just read.*)
LEMMA CallerSteps ==
    ASSUME NoStop, TypeInv, ManagedInv, [Next]_vars, NEW t \in Task, pc'[t] \in Calling
    PROVE  \/ pc[t] \in Calling /\ (pc'[t] = "dialing" <=> pc[t] = "dialing" \/ SetConnecting(t))
           \/ /\ UNCHANGED status /\ pc'[t] # "dialing"
              /\ status = IF t \in User THEN "Initialized" ELSE "Disconnected"
<1> DEFINE Goal == \/ pc[t] \in Calling /\ (pc'[t] = "dialing" <=> pc[t] = "dialing" \/ SetConnecting(t))
                   \/ /\ UNCHANGED status /\ pc'[t] # "dialing"
                      /\ status = IF t \in User THEN "Initialized" ELSE "Disconnected"
<1> USE DEF Goto
<1>t. /\ pc \in [Task -> UserPc \cup LoopPc \cup TryPc]
      /\ User \subseteq Task /\ Loop \subseteq Task /\ User \cap Loop = {}
  BY LifecycleAssumption DEF TypeInv, TypeOK, Task
<1>s. SetConnecting(t) => pc[t] = "setConnecting" /\ pc'[t] = "dialing"
  BY <1>t DEF SetConnecting
<1>0. ASSUME NEW s \in Task, NEW p, p \notin Calling, pc' = [pc EXCEPT ![s] = p]
      PROVE  Goal
  BY <1>0, <1>t, <1>s
<1>1. ASSUME NEW u \in User, NEW b \in BOOLEAN, Connect(u, b) \/ CallStop(u, b)
      PROVE  Goal
  <2>1. pc' = [pc EXCEPT ![u] = IF b THEN "checkWait" ELSE "checkStart"]
    BY <1>1 DEF Connect, CallStop, NoStop
  <2> QED
    BY <2>1, <1>0, <1>t, <1>s DEF Calling
<1>2. ASSUME NEW u \in User, CheckStatus(u)
      PROVE  Goal
  <2>1. UNCHANGED status
    BY <1>2 DEF CheckStatus, cells
  <2>2. CASE status \in {"Initialized", "Stopped"}
    <3>1. /\ status = "Initialized"
          /\ \E p \in {"readAddr", "setDown"} : pc' = [pc EXCEPT ![u] = p]
      BY <1>2, <2>2 DEF CheckStatus, ManagedInv, NeverStopped
    <3> QED
      BY <2>1, <3>1, <1>t, <1>s
  <2>3. CASE status \notin {"Initialized", "Stopped"}
    <3>1. pc' = [pc EXCEPT ![u] = "idle"]
      BY <1>2, <2>3 DEF CheckStatus
    <3> QED
      BY <3>1, <1>0, <1>t, <1>s DEF Calling
  <2> QED
    BY <2>2, <2>3
<1>3. ASSUME NEW u \in User, SetDown(u)
      PROVE  Goal
  BY <1>3, <1>0, <1>t DEF SetDown, Calling
<1>4. ASSUME NEW u \in User, NEW l \in Loop, SpawnLoop(u, l)
      PROVE  Goal
  <2>1. pc' = [pc EXCEPT ![u] = "idle", ![l] = "top"]
    BY <1>4 DEF SpawnLoop
  <2> QED
    BY <2>1, <1>t, <1>s DEF Calling
<1>5. ASSUME NEW u \in User, \/ ReadStatusForStop(u) \/ SendStop(u) \/ SubscribeStop(u) \/ LagStop(u)
                            \/ WriteAddr(u) \/ WriteProxy(u) \/ Restart(u)
      PROVE  FALSE
  BY <1>5, <1>t DEF ReadStatusForStop, SendStop, SubscribeStop, LagStop, WriteAddr, WriteProxy,
        Restart, ManagedInv, NeverStopped, TryPc
<1>6. ASSUME NEW l \in Loop, LoopStep(l)
      PROVE  Goal
  <2>1. CASE LoopCheck(l) /\ status = "Disconnected"
    <3>1. pc' = [pc EXCEPT ![l] = "readAddr"] /\ UNCHANGED status
      BY <2>1 DEF LoopCheck, cells
    <3> QED
      BY <2>1, <3>1, <1>t, <1>s
  <2>2. CASE ~(LoopCheck(l) /\ status = "Disconnected")
    <3>1. \E p \in {"top", "check", "off", "setStopped", "clearFlag"} : pc' = [pc EXCEPT ![l] = p]
      BY <1>6, <2>2 DEF LoopStep, LoopTop, LoopSetStopped, LoopClearFlag, LoopCheck
    <3> QED
      BY <3>1, <1>0, <1>t, <1>s DEF Calling
  <2> QED
    BY <2>1, <2>2
<1>7. ASSUME NEW s \in Task, ReadAddr(s) \/ ReadProxy(s)
      PROVE  Goal
  <2>1. /\ pc[s] \in {"readAddr", "readProxy"}
        /\ \E p \in {"readProxy", "setConnecting"} : pc' = [pc EXCEPT ![s] = p]
    BY <1>7 DEF ReadAddr, ReadProxy
  <2> QED
    BY <2>1, <1>t, <1>s DEF Calling
<1>8. ASSUME NEW s \in Task, SetConnecting(s)
      PROVE  Goal
  <2>1. pc[s] = "setConnecting" /\ pc' = [pc EXCEPT ![s] = "dialing"]
    BY <1>8 DEF SetConnecting
  <2> QED
    BY <1>8, <2>1, <1>t, <1>s DEF Calling
<1>9. ASSUME NEW s \in Task, \/ Dial(s) \/ ResubscribeHeaders(s) \/ SubscribeAnswer(s) \/ LagAnswer(s)
                             \/ ResubscribeScripts(s)
      PROVE  Goal
  <2>1. \E p \in {"headers", "subscribeAnswer", "waitAnswer", "scripts", "top", "spawn"} :
           pc' = [pc EXCEPT ![s] = p]
    BY <1>9 DEF Dial, DialOk, DialFail, ResubscribeHeaders, SubscribeAnswer, LagAnswer,
          ResubscribeScripts, Return
  <2> QED
    BY <2>1, <1>0 DEF Calling
<1>10. ASSUME NEW c \in Conn, NEW s \in Task, Answer(c, s)
       PROVE  Goal
  <2>1. pc' = [pc EXCEPT ![s] = IF pc[s] = "waitAnswer" THEN "scripts" ELSE pc[s]]
    BY <1>10 DEF Answer
  <2>2. CASE pc[s] = "waitAnswer"
    BY <2>1, <2>2, <1>0 DEF Calling
  <2>3. CASE pc[s] # "waitAnswer"
    BY <2>1, <2>3, <1>t, <1>s
  <2> QED
    BY <2>2, <2>3
<1>11. ASSUME \/ SetHeaders \/ QueueRequest \/ UNCHANGED vars
              \/ \E c \in Conn : SenderStep(c) \/ ReceiverStep(c) \/ Ping(c) \/ PeerClose(c) \/ DropSocket(c)
       PROVE  Goal
  <2>1. \A c \in Conn : ~SenderNotify(c)
    BY DEF SenderNotify, ManagedInv, NeverStopped
  <2>2. UNCHANGED pc
    BY <1>11, <2>1 DEF SetHeaders, QueueRequest, SenderStep, LockReceiver, TakeMsg, WriteFails,
          TakeClose, TakeStop, Takes, SenderSetStatus, SenderClearFlag, SenderExit, ReceiverStep,
          ReceiverEnds, ReadEof, ReceiverPanics, ReceiverReadStatus, ReceiverSendClose,
          ReceiverAborted, Ping, PeerClose, DropSocket, vars, taskVars
  <2> QED
    BY <2>2, <1>s
<1> QED
  BY <1>1, <1>2, <1>3, <1>4, <1>5, <1>6, <1>7, <1>8, <1>9, <1>10, <1>11
     DEF Next, UserStep, TryConnect

(* While a task is on its way to a connection, only that task writes the  *)
(* status.                                                                 *)
LEMMA StepDialing ==
    ASSUME NoStop, OneUser, "write" \notin Faults, TypeInv, CycleInv, [Next]_vars
    PROVE  DialingInv'
<1> SUFFICES ASSUME NEW t \in Task, pc'[t] \in Calling
             PROVE  /\ pc'[t] = "dialing" => status' = "Connecting"
                    /\ pc'[t] # "dialing"
                         => status' = IF t \in User THEN "Initialized" ELSE "Disconnected"
  BY DEF DialingInv, Calling
<1>i. ManagedInv /\ SingleInv /\ ServingInv /\ DialingInv
  BY DEF CycleInv
<1>t. pc \in [Task -> UserPc \cup LoopPc \cup TryPc] /\ User \subseteq Task
  BY DEF TypeInv, TypeOK, Task
<1>1. CASE ~(pc[t] \in Calling /\ (pc'[t] = "dialing" <=> pc[t] = "dialing" \/ SetConnecting(t)))
  BY <1>1, <1>i, CallerSteps
<1>2. CASE pc[t] \in Calling /\ (pc'[t] = "dialing" <=> pc[t] = "dialing" \/ SetConnecting(t))
  <2>1. CASE SetConnecting(t)
    BY <2>1, <1>t DEF SetConnecting, Goto
  <2>2. CASE ~SetConnecting(t)
    <3>1. \A c \in Conn : ~SenderSetStatus(c)
      BY <1>2, <1>i DEF ServingInv, Serving, SenderSetStatus
    <3>2. \A s \in Task : pc[s] \in Calling => s = t
      BY <1>2, <1>i, OnlyCaller
    <3>3. \A s \in Task : ~(s \in User /\ SetDown(s)) /\ ~Dial(s)
      <4> SUFFICES ASSUME NEW s \in Task, (s \in User /\ SetDown(s)) \/ Dial(s) PROVE FALSE
        OBVIOUS
      <4>1. pc[s] \in Calling
        BY DEF SetDown, Dial, DialOk, DialFail, Calling
      <4>2. \E p \in {"spawn", "top", "headers"} : pc' = [pc EXCEPT ![s] = p]
        BY DEF SetDown, Dial, DialOk, DialFail, Goto, Return
      <4> QED
        BY <3>2, <4>1, <4>2, <1>t DEF Calling
    <3>4. \A s \in Task : ~SetConnecting(s)
      BY <2>2, <3>2 DEF SetConnecting, Calling
    <3>5. UNCHANGED status
      BY <3>1, <3>3, <3>4, <1>i, <1>t, StatusSteps
    <3> QED
      BY <1>2, <2>2, <1>i, <3>5 DEF DialingInv
  <2> QED
    BY <2>1, <2>2
<1> QED
  BY <1>1, <1>2

(* The mapping of the steps: every one is a step of the cycle, or changes  *)
(* neither the status nor the service.                                     *)
LEMMA StepCycle ==
    ASSUME NoStop, OneUser, "write" \notin Faults, TypeInv, CycleInv, [Next]_vars
    PROVE  [KA!Next]_(KA!kvars)
<1>i. ManagedInv /\ ServingInv /\ DialingInv
  BY DEF CycleInv
<1>t. snd \in [Conn -> SenderPc] /\ User \subseteq Task
  BY DEF TypeInv, TypeOK, Task
<1>1. CASE UNCHANGED status /\ \A c \in Conn : Serving(c)' <=> Serving(c)
  BY <1>1 DEF KA!kvars
<1>2. ASSUME NEW u \in User, SetDown(u)
      PROVE  KA!Next
  <2>1. status = "Initialized" /\ status' = "Disconnected" /\ UNCHANGED snd
    BY <1>2, <1>i, <1>t DEF DialingInv, SetDown, Calling, connVars
  <2> QED
    BY <2>1 DEF KA!Next, KA!Start, Serving
<1>3. ASSUME NEW t \in Task, SetConnecting(t)
      PROVE  KA!Next
  <2>1. status \in {"Initialized", "Disconnected"} /\ status' = "Connecting" /\ UNCHANGED snd
    BY <1>3, <1>i DEF DialingInv, SetConnecting, Calling, connVars
  <2> QED
    BY <2>1 DEF KA!Next, KA!StartDialing, Serving
<1>4. ASSUME NEW t \in Task, NEW c \in Conn, DialOk(t, c)
      PROVE  KA!Next
  <2>1. status = "Connecting" /\ status' = "Connected" /\ Serving(c)'
    BY <1>4, <1>i, <1>t DEF DialingInv, DialOk, Serving
  <2> QED
    BY <2>1 DEF KA!Next, KA!Establish
<1>5. ASSUME NEW t \in Task, DialFail(t)
      PROVE  KA!Next
  <2>1. status = "Connecting" /\ status' = "Disconnected" /\ UNCHANGED snd
    BY <1>5, <1>i DEF DialingInv, DialFail, connVars
  <2> QED
    BY <2>1 DEF KA!Next, KA!GiveUp, Serving
<1>6. ASSUME NEW c \in Conn, SenderSetStatus(c)
      PROVE  KA!Next
  <2>1. snd[c] = "closing" /\ status' = "Disconnected" /\ snd' = [snd EXCEPT ![c] = "exit"]
    BY <1>6, <1>i DEF SenderSetStatus, ManagedInv, NeverStopped
  <2>2. status = "Connected" /\ \A d \in Conn : Serving(d) => d = c
    BY <2>1, <1>i DEF ServingInv, OneServing, Serving
  <2>3. \A d \in Conn : ~Serving(d)'
    BY <2>1, <2>2, <1>t DEF Serving
  <2> QED
    BY <2>1, <2>2, <2>3 DEF KA!Next, KA!Lose
<1> QED
  BY <1>1, <1>2, <1>3, <1>4, <1>5, <1>6, <1>i, StatusSteps DEF Dial

(* An application that never stops the client sees the cycle of KeepAlive: *)
(* Connected and the service come and go together, a dial starts only from *)
(* a client that is down, and only a dial brings it up.                    *)
THEOREM FollowsCycle ==
    ASSUME NoStop, OneUser, "write" \notin Faults
    PROVE  Spec => KA!Init /\ [][KA!Next]_(KA!kvars)
<1>1. Init => KA!Init
  BY DEF Init, KA!Init, Serving
<1>2. Init => CycleInv
  <2>1. Init => ServingInv /\ DialingInv
    BY LifecycleAssumption DEF Init, ServingInv, DialingInv, OneServing, Serving, Calling, Task
  <2> QED
    BY <2>1, InitManaged, InitSingle DEF CycleInv
<1>3. TypeInv /\ CycleInv /\ [Next]_vars => CycleInv'
  BY StepManaged, StepSingle, StepServing, StepDialing DEF CycleInv
<1>4. TypeInv /\ CycleInv /\ [Next]_vars => [KA!Next]_(KA!kvars)
  BY StepCycle
<1> QED
  BY <1>1, <1>2, <1>3, <1>4, TypeInvariant, PTL DEF Spec
=============================================================================
