------------------------------- MODULE Requests --------------------------------
(***************************************************************************)
(* Requests, their answers and their timeouts (src/client.rs, send_msg and *)
(* send_batch_msg to batch_get_history).                                   *)
(*                                                                         *)
(* A call takes an id for each of its requests, files them in the          *)
(* inventory, queues one event, waits for the sender's acknowledgement if  *)
(* it has a timeout, and only then subscribes to the notifications to wait *)
(* for the answers.  The sender writes events to the connection, the       *)
(* receiver decodes answers with the request it finds in the inventory and *)
(* broadcasts them to every subscriber.  Connections come and go as module *)
(* Lifecycle says; here a connection is "up", "broken" (the server closed  *)
(* it, the client has not noticed) or "down".                              *)
(***************************************************************************)
EXTENDS Naturals, Sequences, FiniteSets, SequencesExt

CONSTANTS
    Caller,         \* tasks that call the client; the pinger is one of them
    Nobody,         \* the acknowledgement of an event nobody waits for
    NoId,           \* what is broadcast for a notification of the server
    Uses,           \* calls made: which task makes which
    Answers,        \* how the server answers: "value", "null" or "error"
    ChanCap,        \* capacity of the event channel (1024 in the code)
    BroadcastCap,   \* capacity of the notifications channel (1024)
    MaxId,          \* bound: request ids are 0 .. MaxId - 1
    MaxBatch        \* bound: requests in one batch

(* The answer to a "ping" or to a "send", a batch, is not waited for; those *)
(* to a "call" and to a "batch" are.                                       *)
Op == {"ping", "call", "batch", "send"}

ASSUME RequestsAssumption ==
    /\ Uses \subseteq Caller \X Op
    /\ Answers \subseteq {"value", "null", "error"}
    /\ ChanCap \in Nat \ {0} /\ BroadcastCap \in Nat \ {0}
    /\ MaxId \in Nat /\ MaxBatch \in Nat
    /\ Nobody \notin Caller /\ NoId \notin Nat

Id == 0 .. MaxId - 1

VARIABLES
    lastId,     \* Client::last_id
    inventory,  \* ids of the requests in Client::inventory
    chan,       \* queued SendMsg and SendBatch events: their ids and ack
    link,       \* the connection
    wire,       \* ids written to it and not answered yet
    call        \* the call in progress of each task

vars == <<lastId, inventory, chan, link, wire, call>>

(* The locals of a call: where it stands, what it is, whether it has a     *)
(* timeout, how many of its requests have no id yet, their ids, the        *)
(* oneshot of the sender, the subscription (ids broadcast and not received *)
(* yet, and whether one was lost), and the ids with no answer collected.   *)
(* `result` is how the last call ended.                                    *)
Idle(r) ==
    [pc |-> "idle", op |-> "ping", timed |-> FALSE, todo |-> 0, ids |-> <<>>,
     acked |-> "pending", queue |-> <<>>, lagged |-> FALSE, missing |-> {}, result |-> r]

Init ==
    /\ lastId = 0 /\ inventory = {} /\ chan = <<>>
    /\ link = "down" /\ wire = {}
    /\ call = [k \in Caller |-> Idle("none")]

-----------------------------------------------------------------------------
(* Definitions named Wrong... are variants of the definition that follows, *)
(* each with one plausible mistake; no specification uses them.            *)

At(k, l) == call[k].pc = l
Active(k) == ~At(k, "idle")

Goto(k, l) == call' = [call EXCEPT ![k].pc = l]
Return(k, r) == call' = [call EXCEPT ![k] = Idle(r)]

(* send_msg() and send_batch_msg() have returned Ok: only call() and       *)
(* batch_get_history() go on to wait for answers.                          *)
Sent(k) == IF call[k].op \in {"call", "batch"} THEN Goto(k, "subscribe") ELSE Return(k, "sent")

(* MaxId bounds the requests made in all: those that have an id, and those *)
(* that their call has not numbered yet.                                   *)
Unnumbered == {q \in Caller \X (1 .. MaxBatch \cup {1}) : q[2] <= call[q[1]].todo}
IdsLeft(n) == lastId + Cardinality(Unnumbered) + n <= MaxId

(* A batch may be empty, every other call makes one request.               *)
Call(k, o, t, n) ==
    /\ At(k, "idle") /\ <<k, o>> \in Uses
    /\ IF o \in {"batch", "send"} THEN n <= MaxBatch ELSE n = 1
    /\ IdsLeft(n)
    /\ call' = [call EXCEPT ![k] = [Idle("none") EXCEPT !.op = o, !.timed = t, !.todo = n,
                                      !.pc = IF n = 0 THEN "send" ELSE "assign"]]
    /\ UNCHANGED <<lastId, inventory, chan, link, wire>>

(* send_batch_msg() holds the lock of the inventory from its first id to   *)
(* its last insert; send_msg() takes an id without it.                     *)
IsBatch(k) == call[k].op \in {"batch", "send"}
HoldsInventory(k) ==
    IsBatch(k) /\ (At(k, "insert") \/ (At(k, "assign") /\ call[k].ids # <<>>))
InventoryFree(k) == \A j \in Caller \ {k} : ~HoldsInventory(j)

(* The number of open requests serves as the next id.                      *)
WrongAssign(k) ==
    /\ At(k, "assign") /\ (IsBatch(k) => InventoryFree(k))
    /\ lastId' = lastId + 1
    /\ call' = [call EXCEPT ![k].ids = Append(@, Cardinality(inventory)),
                           ![k].todo = @ - 1, ![k].pc = "insert"]
    /\ UNCHANGED <<inventory, chan, link, wire>>

(* last_id.fetch_add(1)                                                    *)
Assign(k) ==
    /\ At(k, "assign") /\ (IsBatch(k) => InventoryFree(k))
    /\ lastId' = lastId + 1
    /\ call' = [call EXCEPT ![k].ids = Append(@, lastId), ![k].todo = @ - 1, ![k].pc = "insert"]
    /\ UNCHANGED <<inventory, chan, link, wire>>

Insert(k) ==
    /\ At(k, "insert") /\ InventoryFree(k)
    /\ inventory' = inventory \cup {Last(call[k].ids)}
    /\ Goto(k, IF call[k].todo > 0 THEN "assign" ELSE "send")
    /\ UNCHANGED <<lastId, chan, link, wire>>

(* An empty batch queues nothing.  A full channel refuses the event; the   *)
(* requests stay in the inventory.                                         *)
Send(k) ==
    /\ At(k, "send")
    /\ \/ call[k].ids = <<>> /\ Sent(k) /\ UNCHANGED chan
       \/ /\ call[k].ids # <<>> /\ Len(chan) >= ChanCap
          /\ Return(k, "MessageNotSent") /\ UNCHANGED chan
       \/ /\ call[k].ids # <<>> /\ Len(chan) < ChanCap
          /\ chan' = Append(chan, [ids |-> call[k].ids,
                                   ack |-> IF call[k].timed THEN k ELSE Nobody])
          /\ IF call[k].timed THEN Goto(k, "waitAck") ELSE Sent(k)
    /\ UNCHANGED <<lastId, inventory, link, wire>>

TakeAck(k) ==
    /\ At(k, "waitAck") /\ call[k].acked # "pending"
    /\ IF call[k].acked = "sent" THEN Sent(k) ELSE Return(k, "MessageNotSent")
    /\ UNCHANGED <<lastId, inventory, chan, link, wire>>

(* A call that gives up takes its requests out of the inventory.           *)
WrongAckTimeout(k) ==
    /\ At(k, "waitAck") /\ call[k].acked = "pending"
    /\ inventory' = inventory \ ToSet(call[k].ids)
    /\ Return(k, "RecvTimeout")
    /\ UNCHANGED <<lastId, chan, link, wire>>

(* The event stays queued and is written later all the same.               *)
AckTimeout(k) ==
    /\ At(k, "waitAck") /\ call[k].acked = "pending"
    /\ Return(k, "RecvTimeout")
    /\ UNCHANGED <<lastId, inventory, chan, link, wire>>

-----------------------------------------------------------------------------
(* get_response() and get_batch_response(): a subscription sees only what  *)
(* is broadcast after it was made.                                         *)

Subscribe(k) ==
    /\ At(k, "subscribe")
    /\ call' = [call EXCEPT ![k].missing = ToSet(call[k].ids), ![k].pc = "waiting"]
    /\ UNCHANGED <<lastId, inventory, chan, link, wire>>

(* The first answer ends a batch.                                          *)
WrongReceive(k) ==
    /\ At(k, "waiting") /\ call[k].queue # <<>> /\ ~call[k].lagged
    /\ IF Head(call[k].queue) # NoId
         THEN Return(k, "answers")
         ELSE call' = [call EXCEPT ![k].queue = Tail(@)]
    /\ UNCHANGED <<lastId, inventory, chan, link, wire>>

(* An answer ends call() when it has its id, and a batch when it leaves    *)
(* none missing; a batch looks at that only when an answer comes in.       *)
Receive(k) ==
    /\ At(k, "waiting") /\ call[k].queue # <<>> /\ ~call[k].lagged
    /\ LET i == Head(call[k].queue)
           left == call[k].missing \ {i}
       IN  IF i # NoId /\ left = {}
             THEN Return(k, "answers")
             ELSE call' = [call EXCEPT ![k].missing = left, ![k].queue = Tail(@)]
    /\ UNCHANGED <<lastId, inventory, chan, link, wire>>

(* recv() reports the loss and both loops end: no answer for call(), and   *)
(* for a batch Ok with the answers collected so far.                       *)
ReceiveLagged(k) ==
    /\ At(k, "waiting") /\ call[k].lagged
    /\ Return(k, IF call[k].op = "call" THEN "InvalidResponse" ELSE "partial")
    /\ UNCHANGED <<lastId, inventory, chan, link, wire>>

(* Only a single request has a timeout.                                    *)
WrongAnswerTimeout(k) ==
    /\ call[k].op = "call"
    /\ At(k, "waiting") /\ call[k].timed /\ call[k].queue = <<>> /\ ~call[k].lagged
    /\ Return(k, "Timeout")
    /\ UNCHANGED <<lastId, inventory, chan, link, wire>>

(* A timeout fires only when the subscription holds nothing to receive.    *)
AnswerTimeout(k) ==
    /\ At(k, "waiting") /\ call[k].timed /\ call[k].queue = <<>> /\ ~call[k].lagged
    /\ Return(k, "Timeout")
    /\ UNCHANGED <<lastId, inventory, chan, link, wire>>

-----------------------------------------------------------------------------
(* The sender task.  A call that has given up has dropped its oneshot.     *)

Acknowledge(e, report) ==
    call' = [k \in Caller |->
               IF e.ack = k /\ At(k, "waitAck") /\ call[k].ids = e.ids
                 THEN [call[k] EXCEPT !.acked = report] ELSE call[k]]

(* A write to a broken connection may succeed; nobody reads it.            *)
Write ==
    /\ link \in {"up", "broken"} /\ chan # <<>>
    /\ chan' = Tail(chan)
    /\ wire' = IF link = "up" THEN wire \cup ToSet(Head(chan).ids) ELSE wire
    /\ Acknowledge(Head(chan), "sent")
    /\ UNCHANGED <<lastId, inventory, link>>

(* The event waits in the channel for the next connection.                 *)
WrongWriteFails ==
    /\ link = "broken" /\ chan # <<>>
    /\ link' = "down"
    /\ Acknowledge(Head(chan), "failed")
    /\ UNCHANGED <<lastId, inventory, chan, wire>>

(* The event is lost and the sender gives the connection up.               *)
WriteFails ==
    /\ link = "broken" /\ chan # <<>>
    /\ chan' = Tail(chan) /\ link' = "down"
    /\ Acknowledge(Head(chan), "failed")
    /\ UNCHANGED <<lastId, inventory, wire>>

-----------------------------------------------------------------------------
(* The receiver task.                                                      *)

(* A subscription is unbounded.                                            *)
WrongPublish(i) ==
    call' = [k \in Caller |->
               IF At(k, "waiting") THEN [call[k] EXCEPT !.queue = Append(@, i)] ELSE call[k]]

(* A subscription that holds BroadcastCap items loses the oldest one.      *)
Publish(i) ==
    call' = [k \in Caller |->
               IF ~At(k, "waiting") THEN call[k]
               ELSE IF Len(call[k].queue) < BroadcastCap
                 THEN [call[k] EXCEPT !.queue = Append(@, i)]
                 ELSE [call[k] EXCEPT !.queue = Append(Tail(@), i), !.lagged = TRUE]]

(* An answer is broadcast if its request is in the inventory and it is     *)
(* neither an error nor null; the request is removed in any case.          *)
Answer(i, a) ==
    /\ link = "up" /\ i \in wire /\ \A k \in Caller : ~HoldsInventory(k)
    /\ wire' = wire \ {i}
    /\ IF i \in inventory /\ a = "value" THEN Publish(i) ELSE UNCHANGED call
    /\ inventory' = inventory \ {i}
    /\ UNCHANGED <<lastId, chan, link>>

(* A header or a script notification of the server, which every waiting    *)
(* call skips.  One is enough for each subscription to have something to   *)
(* skip.                                                                   *)
Notify ==
    /\ link = "up"
    /\ \E k \in Caller : At(k, "waiting") /\ NoId \notin ToSet(call[k].queue)
    /\ Publish(NoId)
    /\ UNCHANGED <<lastId, inventory, chan, link, wire>>

-----------------------------------------------------------------------------
Reconnect ==
    /\ link = "down" /\ link' = "up"
    /\ UNCHANGED <<lastId, inventory, chan, wire, call>>

(* What the server has not answered is queued again.                       *)
WrongBreak ==
    /\ link = "up" /\ link' = "broken" /\ wire' = {}
    /\ chan' = IF Len(chan) < ChanCap
                 THEN Append(chan, [ids |-> SetToSeq(wire), ack |-> Nobody]) ELSE chan
    /\ UNCHANGED <<lastId, inventory, call>>

(* The server closes the connection; what it has not answered is lost.     *)
Break ==
    /\ link = "up" /\ link' = "broken" /\ wire' = {}
    /\ UNCHANGED <<lastId, inventory, chan, call>>

(* The sender takes Close.                                                 *)
CloseLink ==
    /\ link = "broken" /\ link' = "down"
    /\ UNCHANGED <<lastId, inventory, chan, wire, call>>

-----------------------------------------------------------------------------
CallStep(k) ==
    \/ Assign(k) \/ Insert(k) \/ Send(k) \/ TakeAck(k) \/ Subscribe(k)
    \/ Receive(k) \/ ReceiveLagged(k) \/ AckTimeout(k) \/ AnswerTimeout(k)

Next ==
    \/ \E k \in Caller, o \in Op, t \in BOOLEAN, n \in 0 .. MaxBatch \cup {1} : Call(k, o, t, n)
    \/ \E k \in Caller : CallStep(k)
    \/ Write \/ WriteFails
    \/ \E i \in Id, a \in Answers : Answer(i, a)
    \/ Notify \/ Reconnect \/ Break \/ CloseLink

(* A task whose await is ready is polled again, and timers fire: a passed  *)
(* deadline stays passed, so a stream of notifications cannot hold up the  *)
(* timeout for ever.  Nothing makes the server answer or a connection come *)
(* back.                                                                   *)
Fairness == \A k \in Caller : WF_vars(CallStep(k)) /\ SF_vars(AnswerTimeout(k))

Spec == Init /\ [][Next]_vars /\ Fairness

-----------------------------------------------------------------------------
(* Every cell and every call keeps its type.                               *)
TypeOK ==
    /\ lastId \in 0 .. MaxId /\ inventory \subseteq Id /\ wire \subseteq Id
    /\ chan \in Seq([ids : Seq(Id), ack : Caller \cup {Nobody}]) /\ Len(chan) <= ChanCap
    /\ link \in {"down", "up", "broken"}
    /\ call \in [Caller ->
          [pc : {"idle", "assign", "insert", "send", "waitAck", "subscribe", "waiting"},
           op : Op, timed : BOOLEAN,
           todo : 0 .. MaxBatch \cup {1}, ids : Seq(Id), acked : {"pending", "sent", "failed"},
           queue : Seq(Id \cup {NoId}), lagged : BOOLEAN, missing : SUBSET Id,
           result : {"none", "sent", "answers", "partial", "MessageNotSent", "RecvTimeout",
                     "Timeout", "InvalidResponse"}]]
    /\ \A k \in Caller : Len(call[k].queue) <= BroadcastCap

(* The ids in the channel, and those of calls that have not sent them yet. *)
Queued == UNION {ToSet(chan[n].ids) : n \in DOMAIN chan}
Unsent == UNION {ToSet(call[k].ids) : k \in {j \in Caller : call[j].pc \in {"assign", "insert", "send"}}}

(* Ids are not shared: no two calls in progress hold the same id, and the  *)
(* id of a call not sent yet is unknown to the channel and to the server   *)
(* (client.rs:560, :603).                                                  *)
IdsAreUnique ==
    /\ \A k, j \in Caller :
          Active(k) /\ Active(j) /\ k # j => ToSet(call[k].ids) \cap ToSet(call[j].ids) = {}
    /\ \A k \in Caller : call[k].pc \in {"assign", "insert", "send"} =>
          ToSet(call[k].ids) \cap (wire \cup Queued) = {}

(* Whatever is queued or with the server can be decoded when its answer    *)
(* comes, also if the call has long given up (client.rs:563-566, :347).    *)
PendingIsKnown ==
    wire \cup Queued \subseteq inventory

(* A request that has left the channel, to the server or into a connection *)
(* that was lost, is never queued again: a transaction is not broadcast    *)
(* twice (client.rs:415-482).                                              *)
NeverResent ==
    [][\A i \in 0 .. lastId - 1 : i \notin Queued \cup Unsent => i \notin Queued']_vars

(* A call that reports MessageNotSent leaves nothing behind that could     *)
(* still be written (client.rs:573, :580, :615).                           *)
NotSentIsNotWritten ==
    [][\A k \in Caller :
          Active(k) /\ call'[k] = Idle("MessageNotSent") =>
              /\ ToSet(call[k].ids) \cap wire' = {}
              /\ ToSet(call[k].ids) \cap Queued' = {}]_vars

(* A call with a timeout returns, whatever the server and the connection   *)
(* do (client.rs:574, :647, :671).                                         *)
TimedCallsReturn ==
    \A k \in Caller : (Active(k) /\ call[k].timed) ~> ~Active(k)

(* "Some(Response::Null) => Ok(None)" (client.rs:764): a call that is      *)
(* waiting when the receiver handles its answer is given the answer, null  *)
(* included.                                                               *)
WaitingCallsGetTheirAnswers ==
    [][\A k \in Caller :
          At(k, "waiting") /\ (call[k].missing \cap inventory) \ inventory' # {}
              => call'[k].queue # call[k].queue]_vars
=============================================================================
