------------------------------- MODULE Lifecycle -------------------------------
(***************************************************************************)
(* The connection lifecycle of the Electrum client (src/client.rs).        *)
(*                                                                         *)
(* `Client` is a bundle of shared cells: the status, the stop flag, the    *)
(* bounded event channel with its one receiver behind a mutex, the server  *)
(* address.  Around them run tasks, each of them one row of `pc`, `snd` or *)
(* `rcv` here:                                                             *)
(*   - application tasks, inside connect(), stop() or change_address();    *)
(*   - auto-connect loops, spawned by connect() and never joined;          *)
(*   - per connection a sender task, which consumes the event channel, a   *)
(*     receiver task, which reads the socket, and a pinger.                *)
(* A step is what a task does between two points where another task can    *)
(* interfere: an await, or an access to a shared cell.  Requests and their *)
(* answers are the subject of module Requests; here they are the traffic   *)
(* that fills the channel and, for the header subscription that            *)
(* try_connect repeats, the answer the task waits for.                     *)
(***************************************************************************)
EXTENDS Naturals, Sequences, FiniteSets

CONSTANTS
    User,       \* application tasks holding a clone of the client
    Loop,       \* pool of auto-connect loop tasks (bound: loops alive at once)
    Conn,       \* pool of connections (bound: connections not yet torn down)
    NoOne,      \* the origin of an event that nobody waits for
    ChanCap,    \* capacity of the event channel (1024 in the code)
    Load,       \* bound: requests and pings are queued below this length only
    MaxCalls,   \* bound: connect, stop and change_address calls made in all
    Ops,        \* the public methods the application uses
    Faults      \* what may go wrong besides the server closing a connection

ASSUME LifecycleAssumption ==
    /\ ChanCap \in Nat \ {0} /\ Load \in 0 .. ChanCap /\ MaxCalls \in Nat
    /\ Ops \subseteq {"connect", "start", "stop", "change", "headers", "msg"}
    /\ Faults \subseteq {"write", "panic", "lagStop", "lagAnswer"}
    /\ User \cap Loop = {} /\ (User \cup Loop) \cap Conn = {}
    /\ NoOne \notin User \cup Loop \cup Conn

Task == User \cup Loop

Status == {"Initialized", "Connected", "Connecting", "Disconnected", "Stopped"}

(* A ClientEvent.  `by` records who sent it: for SendMsg the task waiting  *)
(* for the answer to a header subscription, or NoOne for any other request *)
(* or batch.  The code's Close and Stop carry no origin.                   *)
Event == [ev : {"SendMsg", "Close", "Stop"}, by : Task \cup Conn \cup {NoOne}]
SendMsg == [ev |-> "SendMsg", by |-> NoOne]
HeaderSubscribe(t) == [ev |-> "SendMsg", by |-> t]
Close(c) == [ev |-> "Close", by |-> c]
Stop(u) == [ev |-> "Stop", by |-> u]

(* Where a task stands in try_connect(), in the application's calls, and   *)
(* in the auto-connect loop.                                               *)
TryPc == {"readAddr", "readProxy", "setConnecting", "dialing", "headers",
          "subscribeAnswer", "waitAnswer", "scripts"}
UserPc == {"idle", "checkWait", "checkStart", "setDown", "spawn",
           "stopRead", "stopSend", "changeRead", "changeSend",
           "subscribeStop", "waitStop", "writeAddr", "writeProxy", "restart"}
LoopPc == {"off", "top", "check", "setStopped", "clearFlag"}

SenderPc == {"off", "spawned", "ready", "closing", "stopping", "clearFlag",
             "notify", "exit"}
ReceiverPc == {"off", "reading", "readStatus", "sendClose"}

VARIABLES
    status,     \* Client::status
    scheduled,  \* Schedule::scheduled_for_stop
    headers,    \* ActiveSubscriptions::headers
    addr,       \* Client::addr, as the number of the call that set it
    proxy,      \* Client::proxy, likewise
    chan,       \* the queued ClientEvents, oldest first
    rxQueue,    \* sender tasks at the receiver's mutex; its head holds it
    pc,         \* where each application task and each loop stands
    local,      \* the address and the proxy a task has read, or is to write
    calls,      \* number of calls made, for MaxCalls
    snd,        \* sender task of each connection
    rcv,        \* receiver task of each connection
    sock,       \* the socket: "none", "open", or "closed" by the server
    peer,       \* address and proxy the connection was made with
    asked       \* header subscriptions written and not yet answered

cells == <<status, scheduled, headers, addr, proxy, chan>>
taskVars == <<pc, local, calls>>
connVars == <<snd, rcv, sock, peer, asked>>
vars == <<cells, rxQueue, taskVars, connVars>>

Init ==
    /\ status = "Initialized" /\ scheduled = FALSE /\ headers = FALSE
    /\ addr = 0 /\ proxy = 0
    /\ chan = <<>> /\ rxQueue = <<>>
    /\ pc = [t \in Task |-> IF t \in User THEN "idle" ELSE "off"]
    /\ local = [t \in Task |-> <<0, 0>>]
    /\ calls = 0
    /\ snd = [c \in Conn |-> "off"] /\ rcv = [c \in Conn |-> "off"]
    /\ sock = [c \in Conn |-> "none"] /\ peer = [c \in Conn |-> <<0, 0>>]
    /\ asked = [c \in Conn |-> {}]

-----------------------------------------------------------------------------
Goto(t, l) == pc' = [pc EXCEPT ![t] = l]
Room == Len(chan) < ChanCap

(* Definitions named Wrong... are variants of the definition that follows, *)
(* each with one plausible mistake; no specification uses them.            *)

(* The channel is unbounded.                                               *)
WrongTrySend(e) == chan' = Append(chan, e)

(* send_client_event(): try_send never waits, it fails when there is no    *)
(* room and the event is gone.                                             *)
TrySend(e) == chan' = IF Room THEN Append(chan, e) ELSE chan

(* The status test that disconnect() and stop() share.                     *)
Up == status \notin {"Disconnected", "Stopped"}

-----------------------------------------------------------------------------
(* connect(wait), and start(), which is connect(false).                    *)

Connect(u, wait) ==
    /\ pc[u] = "idle" /\ calls < MaxCalls
    /\ (IF wait THEN "connect" ELSE "start") \in Ops
    /\ calls' = calls + 1
    /\ scheduled' = FALSE
    /\ Goto(u, IF wait THEN "checkWait" ELSE "checkStart")
    /\ UNCHANGED <<status, headers, addr, proxy, chan, rxQueue, local, connVars>>

(* connect() does not look at the status.                                  *)
WrongCheckStatus(u) ==
    /\ pc[u] \in {"checkWait", "checkStart"}
    /\ Goto(u, IF pc[u] = "checkWait" THEN "readAddr" ELSE "setDown")
    /\ UNCHANGED <<cells, rxQueue, local, calls, connVars>>

CheckStatus(u) ==
    /\ pc[u] \in {"checkWait", "checkStart"}
    /\ LET first == IF pc[u] = "checkWait" THEN "readAddr" ELSE "setDown"
       IN  Goto(u, IF status \in {"Initialized", "Stopped"} THEN first ELSE "idle")
    /\ UNCHANGED <<cells, rxQueue, local, calls, connVars>>

SetDown(u) ==
    /\ pc[u] = "setDown"
    /\ status' = "Disconnected"
    /\ Goto(u, "spawn")
    /\ UNCHANGED <<scheduled, headers, addr, proxy, chan, rxQueue, local, calls, connVars>>

SpawnLoop(u, l) ==
    /\ pc[u] = "spawn" /\ pc[l] = "off"
    /\ pc' = [pc EXCEPT ![u] = "idle", ![l] = "top"]
    /\ UNCHANGED <<cells, rxQueue, local, calls, connVars>>

-----------------------------------------------------------------------------
(* stop(), alone or as the first half of change_address().                 *)

CallStop(u, change) ==
    /\ pc[u] = "idle" /\ calls < MaxCalls
    /\ (IF change THEN "change" ELSE "stop") \in Ops
    /\ calls' = calls + 1
    /\ scheduled' = TRUE
    /\ local' = IF change THEN [local EXCEPT ![u] = <<calls + 1, calls + 1>>] ELSE local
    /\ Goto(u, IF change THEN "changeRead" ELSE "stopRead")
    /\ UNCHANGED <<status, headers, addr, proxy, chan, rxQueue, connVars>>

ReadStatusForStop(u) ==
    /\ pc[u] \in {"stopRead", "changeRead"}
    /\ Goto(u, CASE Up /\ pc[u] = "stopRead" -> "stopSend"
                 [] Up /\ pc[u] = "changeRead" -> "changeSend"
                 [] ~Up /\ pc[u] = "stopRead" -> "idle"
                 [] OTHER -> "subscribeStop")
    /\ UNCHANGED <<cells, rxQueue, local, calls, connVars>>

(* With a full channel both calls return MessageNotSent, the flag set.     *)
SendStop(u) ==
    /\ pc[u] \in {"stopSend", "changeSend"}
    /\ TrySend(Stop(u))
    /\ Goto(u, IF pc[u] = "changeSend" /\ Room THEN "subscribeStop" ELSE "idle")
    /\ UNCHANGED <<status, scheduled, headers, addr, proxy, rxQueue, local, calls, connVars>>

(* change_address() does not wait for the Stop notification.               *)
WrongSubscribeStop(u) ==
    /\ pc[u] = "subscribeStop"
    /\ Goto(u, "writeAddr")
    /\ UNCHANGED <<cells, rxQueue, local, calls, connVars>>

(* change_address() subscribes to the notifications only now, and sees no  *)
(* Stop published before.                                                  *)
SubscribeStop(u) ==
    /\ pc[u] = "subscribeStop"
    /\ Goto(u, "waitStop")
    /\ UNCHANGED <<cells, rxQueue, local, calls, connVars>>

(* recv() fails when the subscriber lags behind the broadcast channel, and *)
(* the wait ends as if Stop had come.                                      *)
LagStop(u) ==
    /\ "lagStop" \in Faults
    /\ pc[u] = "waitStop"
    /\ Goto(u, "writeAddr")
    /\ UNCHANGED <<cells, rxQueue, local, calls, connVars>>

WriteAddr(u) ==
    /\ pc[u] = "writeAddr"
    /\ addr' = local[u][1]
    /\ Goto(u, "writeProxy")
    /\ UNCHANGED <<status, scheduled, headers, proxy, chan, rxQueue, local, calls, connVars>>

WriteProxy(u) ==
    /\ pc[u] = "writeProxy"
    /\ proxy' = local[u][2]
    /\ Goto(u, "restart")
    /\ UNCHANGED <<status, scheduled, headers, addr, chan, rxQueue, local, calls, connVars>>

Restart(u) ==
    /\ pc[u] = "restart"
    /\ scheduled' = FALSE
    /\ Goto(u, "checkStart")
    /\ UNCHANGED <<status, headers, addr, proxy, chan, rxQueue, local, calls, connVars>>

-----------------------------------------------------------------------------
(* The auto-connect loop.  Its 20 s sleep is the time it may stay at "top".*)

(* The loop does not look at the stop flag.                                *)
WrongLoopTop(l) ==
    /\ pc[l] = "top"
    /\ Goto(l, "check")
    /\ UNCHANGED <<cells, rxQueue, local, calls, connVars>>

LoopTop(l) ==
    /\ pc[l] = "top"
    /\ Goto(l, IF scheduled THEN "setStopped" ELSE "check")
    /\ UNCHANGED <<cells, rxQueue, local, calls, connVars>>

LoopSetStopped(l) ==
    /\ pc[l] = "setStopped"
    /\ status' = "Stopped"
    /\ Goto(l, "clearFlag")
    /\ UNCHANGED <<scheduled, headers, addr, proxy, chan, rxQueue, local, calls, connVars>>

LoopClearFlag(l) ==
    /\ pc[l] = "clearFlag"
    /\ scheduled' = FALSE
    /\ Goto(l, "off")
    /\ UNCHANGED <<status, headers, addr, proxy, chan, rxQueue, local, calls, connVars>>

(* The loop ends once the client is connected.                             *)
WrongLoopCheck(l) ==
    /\ pc[l] = "check"
    /\ Goto(l, IF status = "Disconnected" THEN "readAddr" ELSE "off")
    /\ UNCHANGED <<cells, rxQueue, local, calls, connVars>>

(* The loop dials whatever the status, unless it is Stopped.               *)
WrongLoopDials(l) ==
    /\ pc[l] = "check"
    /\ Goto(l, IF status = "Stopped" THEN "off" ELSE "readAddr")
    /\ UNCHANGED <<cells, rxQueue, local, calls, connVars>>

LoopCheck(l) ==
    /\ pc[l] = "check"
    /\ Goto(l, CASE status = "Disconnected" -> "readAddr"
                 [] status = "Stopped" -> "off"
                 [] OTHER -> "top")
    /\ UNCHANGED <<cells, rxQueue, local, calls, connVars>>

-----------------------------------------------------------------------------
(* try_connect(), run by a loop or by connect(true).                       *)

(* The loop makes one attempt only.                                        *)
WrongReturn(t) == IF t \in Loop THEN "off" ELSE "spawn"

Return(t) == IF t \in Loop THEN "top" ELSE "spawn"

ReadAddr(t) ==
    /\ pc[t] = "readAddr"
    /\ local' = [local EXCEPT ![t] = <<addr, @[2]>>]
    /\ Goto(t, "readProxy")
    /\ UNCHANGED <<cells, rxQueue, calls, connVars>>

(* The loop keeps the proxy it was created with.                           *)
WrongReadProxy(t) ==
    /\ pc[t] = "readProxy"
    /\ Goto(t, "setConnecting")
    /\ UNCHANGED <<cells, rxQueue, local, calls, connVars>>

ReadProxy(t) ==
    /\ pc[t] = "readProxy"
    /\ local' = [local EXCEPT ![t] = <<@[1], proxy>>]
    /\ Goto(t, "setConnecting")
    /\ UNCHANGED <<cells, rxQueue, calls, connVars>>

(* The status stays what it was while dialing.                             *)
WrongSetConnecting(t) ==
    /\ pc[t] = "setConnecting"
    /\ Goto(t, "dialing")
    /\ UNCHANGED <<cells, rxQueue, local, calls, connVars>>

SetConnecting(t) ==
    /\ pc[t] = "setConnecting"
    /\ status' = "Connecting"
    /\ Goto(t, "dialing")
    /\ UNCHANGED <<scheduled, headers, addr, proxy, chan, rxQueue, local, calls, connVars>>

(* The connection is up: status, and the three tasks are spawned.          *)
DialOk(t, c) ==
    /\ pc[t] = "dialing" /\ sock[c] = "none"
    /\ status' = "Connected"
    /\ snd' = [snd EXCEPT ![c] = "spawned"]
    /\ rcv' = [rcv EXCEPT ![c] = "reading"]
    /\ sock' = [sock EXCEPT ![c] = "open"]
    /\ peer' = [peer EXCEPT ![c] = local[t]]
    /\ Goto(t, "headers")
    /\ UNCHANGED <<scheduled, headers, addr, proxy, chan, rxQueue, local, calls, asked>>

DialFail(t) ==
    /\ pc[t] = "dialing"
    /\ status' = "Disconnected"
    /\ Goto(t, Return(t))
    /\ UNCHANGED <<scheduled, headers, addr, proxy, chan, rxQueue, local, calls, connVars>>

(* _block_headers_subscribe(None): queue the request, then wait for its    *)
(* answer with no timeout; a full channel is only logged.                  *)
ResubscribeHeaders(t) ==
    /\ pc[t] = "headers"
    /\ IF headers
         THEN /\ TrySend(HeaderSubscribe(t))
              /\ Goto(t, IF Room THEN "subscribeAnswer" ELSE "scripts")
         ELSE UNCHANGED chan /\ Goto(t, "scripts")
    /\ UNCHANGED <<status, scheduled, headers, addr, proxy, rxQueue, local, calls, connVars>>

SubscribeAnswer(t) ==
    /\ pc[t] = "subscribeAnswer"
    /\ Goto(t, "waitAnswer")
    /\ UNCHANGED <<cells, rxQueue, local, calls, connVars>>

(* recv() fails on a lagging subscriber; from then on nobody waits for the *)
(* answer to this request.                                                 *)
LagAnswer(t) ==
    /\ "lagAnswer" \in Faults
    /\ pc[t] = "waitAnswer"
    /\ Goto(t, "scripts")
    /\ chan' = [i \in DOMAIN chan |->
                  IF chan[i] = HeaderSubscribe(t) THEN SendMsg ELSE chan[i]]
    /\ asked' = [c \in Conn |-> asked[c] \ {t}]
    /\ UNCHANGED <<status, scheduled, headers, addr, proxy, rxQueue, local, calls,
                   snd, rcv, sock, peer>>

(* One batch for all subscribed scripts, or nothing if there are none.     *)
ResubscribeScripts(t) ==
    /\ pc[t] = "scripts"
    /\ TrySend(SendMsg) \/ UNCHANGED chan
    /\ Goto(t, Return(t))
    /\ UNCHANGED <<status, scheduled, headers, addr, proxy, rxQueue, local, calls, connVars>>

-----------------------------------------------------------------------------
(* Traffic: block_headers_subscribe() raises the flag before it sends; any *)
(* request of the application, and every ping, queues one event.           *)

SetHeaders ==
    /\ "headers" \in Ops /\ ~headers
    /\ headers' = TRUE
    /\ UNCHANGED <<status, scheduled, addr, proxy, chan, rxQueue, taskVars, connVars>>

QueueRequest ==
    /\ "msg" \in Ops /\ Len(chan) < Load
    /\ TrySend(SendMsg)
    /\ UNCHANGED <<status, scheduled, headers, addr, proxy, rxQueue, taskVars, connVars>>

Ping(c) ==
    /\ snd[c] # "off" /\ Len(chan) < Load
    /\ TrySend(SendMsg)
    /\ UNCHANGED <<status, scheduled, headers, addr, proxy, rxQueue, taskVars, connVars>>

-----------------------------------------------------------------------------
(* The sender task of connection c.                                        *)

LockReceiver(c) ==
    /\ snd[c] = "spawned"
    /\ snd' = [snd EXCEPT ![c] = "ready"]
    /\ rxQueue' = Append(rxQueue, c)
    /\ UNCHANGED <<cells, taskVars, rcv, sock, peer, asked>>

(* rx.recv() of the sender that holds the receiver takes an event.         *)
Takes(c, ev) ==
    /\ snd[c] = "ready"
    /\ rxQueue # <<>> /\ Head(rxQueue) = c
    /\ chan # <<>> /\ Head(chan).ev = ev
    /\ chan' = Tail(chan)
    /\ UNCHANGED <<status, scheduled, headers, addr, proxy, rxQueue, taskVars, rcv, sock, peer>>

(* A write to a connection the server has closed may still succeed: the    *)
(* bytes go into the send buffer and nobody reads them.                    *)
TakeMsg(c) ==
    /\ Takes(c, "SendMsg")
    /\ asked' = [asked EXCEPT ![c] = IF sock[c] = "open"
                                       THEN @ \cup ({Head(chan).by} \cap Task)
                                       ELSE @]
    /\ UNCHANGED snd

WriteFails(c) ==
    /\ "write" \in Faults
    /\ sock[c] = "closed"
    /\ Takes(c, "SendMsg")
    /\ snd' = [snd EXCEPT ![c] = "exit"]
    /\ UNCHANGED asked

(* The sender exits on Close without a new status.                         *)
WrongTakeClose(c) ==
    /\ Takes(c, "Close")
    /\ snd' = [snd EXCEPT ![c] = "exit"]
    /\ UNCHANGED asked

TakeClose(c) ==
    /\ Takes(c, "Close")
    /\ snd' = [snd EXCEPT ![c] = "closing"]
    /\ UNCHANGED asked

TakeStop(c) ==
    /\ Takes(c, "Stop")
    /\ snd' = [snd EXCEPT ![c] = IF scheduled THEN "stopping" ELSE "ready"]
    /\ UNCHANGED asked

(* After write.shutdown(): Close ends in Disconnected, Stop in Stopped.    *)
SenderSetStatus(c) ==
    /\ snd[c] \in {"closing", "stopping"}
    /\ status' = IF snd[c] = "closing" THEN "Disconnected" ELSE "Stopped"
    /\ snd' = [snd EXCEPT ![c] = IF @ = "closing" THEN "exit" ELSE "clearFlag"]
    /\ UNCHANGED <<scheduled, headers, addr, proxy, chan, rxQueue, taskVars, rcv, sock, peer, asked>>

SenderClearFlag(c) ==
    /\ snd[c] = "clearFlag"
    /\ scheduled' = FALSE
    /\ snd' = [snd EXCEPT ![c] = "notify"]
    /\ UNCHANGED <<status, headers, addr, proxy, chan, rxQueue, taskVars, rcv, sock, peer, asked>>

(* ClientNotification::Stop reaches the calls already subscribed to it.    *)
SenderNotify(c) ==
    /\ snd[c] = "notify"
    /\ pc' = [t \in Task |-> IF pc[t] = "waitStop" THEN "writeAddr" ELSE pc[t]]
    /\ snd' = [snd EXCEPT ![c] = "exit"]
    /\ UNCHANGED <<cells, rxQueue, local, calls, rcv, sock, peer, asked>>

(* Abort the pinger and the receiver, then drop the receiver's guard.      *)
SenderExit(c) ==
    /\ snd[c] = "exit"
    /\ snd' = [snd EXCEPT ![c] = "off"]
    /\ rxQueue' = Tail(rxQueue)
    /\ UNCHANGED <<cells, taskVars, rcv, sock, peer, asked>>

-----------------------------------------------------------------------------
(* The receiver task of connection c.                                      *)

(* The answer to a header subscription is published; a task that has not   *)
(* subscribed to the notifications yet misses it.                          *)
Answer(c, t) ==
    /\ rcv[c] = "reading" /\ t \in asked[c]
    /\ asked' = [asked EXCEPT ![c] = @ \ {t}]
    /\ Goto(t, IF pc[t] = "waitAnswer" THEN "scripts" ELSE pc[t])
    /\ UNCHANGED <<cells, rxQueue, local, calls, snd, rcv, sock, peer>>

(* An answer with fewer headers than it counts makes the receiver panic    *)
(* (ToResponse of Messages): the task is gone, nobody calls disconnect(),  *)
(* and the sender goes on.                                                 *)
ReceiverPanics(c) ==
    /\ "panic" \in Faults
    /\ rcv[c] = "reading"
    /\ rcv' = [rcv EXCEPT ![c] = "off"]
    /\ asked' = [asked EXCEPT ![c] = {}]
    /\ UNCHANGED <<cells, rxQueue, taskVars, snd, sock, peer>>

ReadEof(c) ==
    /\ rcv[c] = "reading" /\ sock[c] = "closed"
    /\ rcv' = [rcv EXCEPT ![c] = "readStatus"]
    /\ asked' = [asked EXCEPT ![c] = {}]
    /\ UNCHANGED <<cells, rxQueue, taskVars, snd, sock, peer>>

(* disconnect(): read the status, then queue Close.                        *)
ReceiverReadStatus(c) ==
    /\ rcv[c] = "readStatus"
    /\ rcv' = [rcv EXCEPT ![c] = IF Up THEN "sendClose" ELSE "off"]
    /\ UNCHANGED <<cells, rxQueue, taskVars, snd, sock, peer, asked>>

ReceiverSendClose(c) ==
    /\ rcv[c] = "sendClose"
    /\ TrySend(Close(c))
    /\ rcv' = [rcv EXCEPT ![c] = "off"]
    /\ UNCHANGED <<status, scheduled, headers, addr, proxy, rxQueue, taskVars, snd, sock, peer, asked>>

(* An aborted receiver is dropped at its next poll.  One that was being    *)
(* polled when it was aborted goes on up to its next pending await, so the *)
(* steps above stay possible until then.                                   *)
ReceiverAborted(c) ==
    /\ snd[c] = "off" /\ rcv[c] # "off"
    /\ rcv' = [rcv EXCEPT ![c] = "off"]
    /\ asked' = [asked EXCEPT ![c] = {}]
    /\ UNCHANGED <<cells, rxQueue, taskVars, snd, sock, peer>>

-----------------------------------------------------------------------------
(* The server, or the network, ends the connection.                        *)
PeerClose(c) ==
    /\ sock[c] = "open"
    /\ sock' = [sock EXCEPT ![c] = "closed"]
    /\ UNCHANGED <<cells, rxQueue, taskVars, snd, rcv, peer, asked>>

(* Both halves of the stream are dropped: the pool entry is free again.    *)
DropSocket(c) ==
    /\ snd[c] = "off" /\ rcv[c] = "off" /\ sock[c] # "none"
    /\ sock' = [sock EXCEPT ![c] = "none"]
    /\ peer' = [peer EXCEPT ![c] = <<0, 0>>]
    /\ asked' = [asked EXCEPT ![c] = {}]
    /\ UNCHANGED <<cells, rxQueue, taskVars, snd, rcv>>

-----------------------------------------------------------------------------
Dial(t) == DialFail(t) \/ \E c \in Conn : DialOk(t, c)

TryConnect(t) ==
    \/ ReadAddr(t) \/ ReadProxy(t) \/ SetConnecting(t) \/ Dial(t)
    \/ ResubscribeHeaders(t) \/ SubscribeAnswer(t) \/ ResubscribeScripts(t)

(* What a call does once the application has made it.                      *)
UserStep(u) ==
    \/ CheckStatus(u) \/ SetDown(u) \/ (\E l \in Loop : SpawnLoop(u, l))
    \/ ReadStatusForStop(u) \/ SendStop(u) \/ SubscribeStop(u)
    \/ WriteAddr(u) \/ WriteProxy(u) \/ Restart(u)

LoopStep(l) ==
    LoopTop(l) \/ LoopSetStopped(l) \/ LoopClearFlag(l) \/ LoopCheck(l)

SenderStep(c) ==
    \/ LockReceiver(c) \/ TakeMsg(c) \/ WriteFails(c) \/ TakeClose(c)
    \/ TakeStop(c) \/ SenderSetStatus(c) \/ SenderClearFlag(c)
    \/ SenderNotify(c) \/ SenderExit(c)

(* How a receiver ends once its stream has, or when it is aborted.         *)
ReceiverEnds(c) ==
    ReadEof(c) \/ ReceiverReadStatus(c) \/ ReceiverSendClose(c) \/ ReceiverAborted(c)

ReceiverStep(c) == ReceiverEnds(c) \/ ReceiverPanics(c)

Next ==
    \/ \E u \in User, b \in BOOLEAN : Connect(u, b) \/ CallStop(u, b)
    \/ \E u \in User : UserStep(u) \/ LagStop(u)
    \/ \E l \in Loop : LoopStep(l)
    \/ \E t \in Task : TryConnect(t) \/ LagAnswer(t)
    \/ SetHeaders \/ QueueRequest
    \/ \E c \in Conn : \/ SenderStep(c) \/ ReceiverStep(c) \/ Ping(c)
                       \/ PeerClose(c) \/ DropSocket(c)
    \/ \E c \in Conn, t \in Task : Answer(c, t)

(* Tokio polls every ready task again, timers fire and a plain TCP dial    *)
(* ends within its 60 s timeout.  Nothing makes the application call, the  *)
(* server answer or close, a notification lag, or the receiver panic.      *)
Fairness ==
    /\ \A u \in User : WF_vars(UserStep(u))
    /\ \A l \in Loop : WF_vars(LoopStep(l))
    /\ \A t \in Task : WF_vars(TryConnect(t))
    /\ \A c \in Conn : WF_vars(SenderStep(c)) /\ WF_vars(ReceiverEnds(c)) /\ WF_vars(DropSocket(c))

Spec == Init /\ [][Next]_vars /\ Fairness

-----------------------------------------------------------------------------
(* Every shared cell, task and connection has the type of the code's.      *)
TypeOK ==
    /\ status \in Status /\ scheduled \in BOOLEAN /\ headers \in BOOLEAN
    /\ addr \in 0 .. MaxCalls /\ proxy \in 0 .. MaxCalls /\ calls \in 0 .. MaxCalls
    /\ chan \in Seq(Event) /\ Len(chan) <= ChanCap
    /\ rxQueue \in Seq(Conn)
    /\ pc \in [Task -> UserPc \cup LoopPc \cup TryPc]
    /\ \A u \in User : pc[u] \in UserPc \cup TryPc
    /\ \A l \in Loop : pc[l] \in LoopPc \cup TryPc
    /\ local \in [Task -> (0 .. MaxCalls) \X (0 .. MaxCalls)]
    /\ snd \in [Conn -> SenderPc] /\ rcv \in [Conn -> ReceiverPc]
    /\ sock \in [Conn -> {"none", "open", "closed"}]
    /\ peer \in [Conn -> (0 .. MaxCalls) \X (0 .. MaxCalls)]
    /\ asked \in [Conn -> SUBSET Task]

-----------------------------------------------------------------------------
(* Safety.                                                                 *)

(* A connection in service: its sender has been spawned and has not yet    *)
(* written the final status (client.rs:485, :492) or given up on a write.  *)
Serving(c) == snd[c] \in {"spawned", "ready", "closing", "stopping"}

LoopAlive(l) == pc[l] # "off"
Redials(l) == pc[l] \notin {"off", "setStopped", "clearFlag"}

(* A task that entered connect() and will spawn a loop.                    *)
WillSpawn(u) == pc[u] \in TryPc \cup {"spawn"}

(* The status says Connected only while some connection is in service, so  *)
(* the loop, which redials on Disconnected only, never rests on a          *)
(* connection that is gone (client.rs:280-287, :308, :485, :492).          *)
ConnectedIsServed == status = "Connected" => \E c \in Conn : Serving(c)

(* Two connections are never in service at once: the second would wait     *)
(* forever for the receiver's mutex (client.rs:412) while its own receiver *)
(* and pinger run.                                                         *)
OneServing == \A c, d \in Conn : Serving(c) /\ Serving(d) => c = d

(* One task at most dials, now or after its sleep (client.rs:262-291): the *)
(* running loop, unless it is on its way out, or the call that will spawn  *)
(* it.  Two loops dial at the same time.                                   *)
OneLoop ==
    \A t, s \in Task :
        /\ IF t \in Loop THEN Redials(t) ELSE WillSpawn(t)
        /\ IF s \in Loop THEN Redials(s) ELSE WillSpawn(s)
        => t = s

(* In every status in which connect() refuses to start a loop, one is      *)
(* running or about to be spawned (client.rs:254): otherwise no call of    *)
(* the application can bring the client back.                              *)
LoopManagesConnection ==
    status \notin {"Initialized", "Stopped"} =>
        \/ \E l \in Loop : LoopAlive(l)
        \/ \E u \in User : WillSpawn(u)

(* "Connect to electrum server and keep alive connection" (client.rs:250): *)
(* a sender that takes Close hangs up on a connection that the server has  *)
(* ended.  True of a client that is never stopped.  A Close queued behind  *)
(* a Stop stays in the channel when the sender takes Stop and exits, and   *)
(* the sender of the next connection, which may be alive, takes it         *)
(* (client.rs:412, :489-500, :542-544): no run claims this property.       *)
HangsUpOnEnded ==
    [][\A c \in Conn : snd[c] = "ready" /\ snd'[c] = "closing"
                         => sock[c] = "closed"]_vars

(* change_address() writes the new address only while the client is        *)
(* stopped and no connection is in service (client.rs:212-226).  So it is  *)
(* for the first change; it leaves a second loop, which breaks a further   *)
(* one.                                                                    *)
AddressChangesWhileStopped ==
    [][<<addr', proxy'>> # <<addr, proxy>>
         => status = "Stopped" /\ \A c \in Conn : ~Serving(c)]_vars

(* Outside a change, a Connected client is connected to the address and    *)
(* the proxy last set (client.rs:296-304), as long as it is changed once.  *)
ServesCurrentAddress ==
    /\ status = "Connected"
    /\ \A u \in User : pc[u] \notin {"writeAddr", "writeProxy"}
    => \A c \in Conn : Serving(c) => peer[c] = <<addr, proxy>>

-----------------------------------------------------------------------------
(* Liveness.                                                               *)

(* "Connect to electrum server and keep alive connection" (client.rs:250): *)
(* when the server ends the connection, the client is dialing again later. *)
Recovers ==
    \A c \in Conn :
        (Serving(c) /\ sock[c] = "closed")
            ~> (status \in {"Connecting", "Stopped"})

(* A failed dial is retried (client.rs:280-289).                           *)
Retries == status = "Disconnected" ~> status \in {"Connecting", "Stopped"}

(* "Schedule client for termination.  Needed to terminate the auto         *)
(* reconnect loop, also if the client is not connected yet"                *)
(* (client.rs:270-271): after a stop every loop ends, whether the flag     *)
(* comes first to the loop, or to the sender, whose Stopped the loop finds *)
(* later, unless the same task starts the client again.  True of a client  *)
(* with one loop that waits for no header subscription: one flag ends one  *)
(* loop only, and client.rs:513 may wait for ever.                         *)
StopEndsLoops ==
    \A u \in User :
        pc[u] \in {"stopRead", "changeRead"}
            ~> \/ \A l \in Loop : ~LoopAlive(l)
               \/ pc[u] \in {"checkWait", "checkStart"}

(* "Disconnect and set status to 'Stopped'" (client.rs:549): in a client   *)
(* that stays Stopped no connection stays in service.                      *)
StopDisconnects ==
    \A c \in Conn :
        (status = "Stopped" /\ Serving(c)) ~> (status # "Stopped" \/ ~Serving(c))

(* change_address() of a Connected client returns unless the server ends   *)
(* the connection meanwhile, as examples/change-address.rs:16-22 relies on.*)
ChangeReturns ==
    \A u \in User :
        (pc[u] = "changeRead" /\ status = "Connected")
            ~> (pc[u] = "idle" \/ \E c \in Conn : sock[c] = "closed")
=============================================================================
