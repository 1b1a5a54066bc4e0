------------------------------ MODULE Rpc_proofs -------------------------------
(***************************************************************************)
(* Module Requests implements module Rpc, for any set of callers, any      *)
(* capacities and any number of requests: the ids of Rpc are all the       *)
(* natural numbers, and its variables are the ids the counter has not      *)
(* reached, the requests filed or about to be filed, and each call's ids   *)
(* and outcome.                                                            *)
(***************************************************************************)
EXTENDS Requests_proofs

Inserting == {j \in Caller : At(j, "insert")}
Fresh == Nat \ (0 .. lastId - 1)
Open == inventory \cup {Last(call[k].ids) : k \in Inserting}
Want == [k \in Caller |-> ToSet(call[k].ids)]
Outcome(r) == CASE r.pc # "idle" -> "running"
                [] r = Idle("answers") -> "answered"
                [] OTHER -> "unanswered"
Out == [k \in Caller |-> Outcome(call[k])]

RN == INSTANCE Rpc WITH Id <- Nat, fresh <- Fresh, open <- Open, want <- Want, out <- Out

(* What a call has received is answered: its requests that are still in    *)
(* the inventory are missing, and are not in its subscription.             *)
CallReceived(k) ==
    /\ call[k].pc = "idle" => call[k].ids = <<>>
    /\ call[k].pc # "waiting" => call[k].queue = <<>>
    /\ call[k].pc = "waiting" =>
          \A i \in ToSet(call[k].ids) \cap inventory :
              i \in call[k].missing /\ i \notin ToSet(call[k].queue)

Received == \A k \in Caller : CallReceived(k)

RpcInv == RequestsInv /\ Received

-----------------------------------------------------------------------------
(* How the steps of Requests look to Rpc.                                  *)

(* A step keeps a call, as far as Rpc can see it.                          *)
Kept(k) ==
    \/ call'[k] = call[k]
    \/ /\ call[k].pc # "idle" /\ call'[k].pc # "idle" /\ call'[k].ids = call[k].ids
       /\ call[k].pc = "insert" <=> call'[k].pc = "insert"

(* What Rpc sees of a call.                                                *)
LEMMA OutcomeCases ==
    \A r : /\ r.pc # "idle" => Outcome(r) = "running"
           /\ r.pc = "idle" /\ r = Idle("answers") => Outcome(r) = "answered"
           /\ r.pc = "idle" /\ r # Idle("answers") => Outcome(r) = "unanswered"
BY DEF Outcome, Idle

(* A kept call has the same requests and outcome, and keeps its place.     *)
LEMMA KeptCall ==
    ASSUME NEW k \in Caller, Kept(k)
    PROVE  /\ Out'[k] = Out[k] /\ Want'[k] = Want[k]
           /\ k \in Inserting' <=> k \in Inserting
           /\ call'[k].ids = call[k].ids
<1>1. call'[k].ids = call[k].ids /\ (k \in Inserting' <=> k \in Inserting)
  BY DEF Kept, Inserting, At
<1>2. Out'[k] = Out[k]
  BY OutcomeCases DEF Kept, Out
<1> QED
  BY <1>1, <1>2 DEF Want

(* A step that keeps every call and the inventory is no step of Rpc.       *)
LEMMA KeptState ==
    ASSUME \A k \in Caller : Kept(k), UNCHANGED <<lastId, inventory>>
    PROVE  UNCHANGED RN!rvars
<1>1. Out' = Out /\ Want' = Want
  BY KeptCall DEF Out, Want
<1>2. Open' = Open
  BY KeptCall DEF Open, Inserting
<1>3. Fresh' = Fresh
  BY DEF Fresh
<1> QED
  BY <1>1, <1>2, <1>3 DEF RN!rvars

(* The requests about to be filed are unknown to the server, and no other  *)
(* call holds them.                                                        *)
LEMMA InsertingIds ==
    ASSUME RequestsInv, NEW k \in Inserting
    PROVE  /\ Last(call[k].ids) \in ToSet(call[k].ids)
           /\ Last(call[k].ids) \notin wire
           /\ \A j \in Caller \ {k} : Last(call[k].ids) \notin ToSet(call[j].ids)
<1>1. /\ k \in Caller /\ call[k].pc = "insert" /\ call[k].ids \in Seq(Nat)
      /\ call[k].ids # <<>>
  BY DEF RequestsInv, UnsentIds, Unassigned, Inserting, At, Typed, CallRecord
<1>2. Last(call[k].ids) \in ToSet(call[k].ids)
  BY <1>1, ElementsOfTail
<1> QED
  BY <1>1, <1>2 DEF RequestsInv, UnsentIds, Unassigned, OwnIds

(* A call that returns finishes if it has its answers and gives up if not. *)
LEMMA ReturnRefines ==
    ASSUME RpcInv, NEW k \in Caller, NEW r \in Results, Return(k, r),
           call[k].pc \notin {"idle", "insert"}, UNCHANGED <<lastId, inventory>>,
           r = "answers" => Want[k] \subseteq RN!Answered
    PROVE  RN!Next
<1>1. /\ SameElsewhere(k) /\ call'[k].pc = "idle" /\ call'[k].ids = <<>>
      /\ call'[k] = Idle("answers") <=> r = "answers"
  BY ReturnRecord DEF RpcInv, RequestsInv
<1>2. \A j \in Caller \ {k} : Kept(j)
  BY <1>1 DEF SameElsewhere, Kept
<1>3. /\ Out[k] = "running"
      /\ Out'[k] = IF r = "answers" THEN "answered" ELSE "unanswered"
      /\ Want'[k] = {}
  BY <1>1, ElementsOfEmpty, OutcomeCases DEF Out, Want
<1>4. /\ Out' = [Out EXCEPT ![k] = IF r = "answers" THEN "answered" ELSE "unanswered"]
      /\ Want' = [Want EXCEPT ![k] = {}]
  BY <1>2, <1>3, KeptCall DEF Out, Want
<1>5. Inserting' = Inserting /\ \A j \in Inserting : call'[j].ids = call[j].ids
  BY <1>1, <1>2, KeptCall DEF Inserting, At
<1>6. Open' = Open /\ Fresh' = Fresh
  BY <1>5 DEF Open, Fresh
<1>7. CASE r = "answers"
  BY <1>3, <1>4, <1>6, <1>7 DEF RN!Next, RN!Finish
<1>8. CASE r # "answers"
  BY <1>3, <1>4, <1>6, <1>8 DEF RN!Next, RN!GiveUp
<1> QED
  BY <1>7, <1>8

(* A new call has no requests.                                             *)
LEMMA CallRecordOfCall ==
    ASSUME RpcInv, NEW k \in Caller, NEW o \in Op, NEW t \in BOOLEAN,
           NEW n \in 0 .. MaxBatch \cup {1}, Call(k, o, t, n)
    PROVE  /\ SameElsewhere(k) /\ call[k].pc = "idle" /\ call[k].ids = <<>>
           /\ call'[k].pc \in {"send", "assign"} /\ call'[k].ids = <<>>
           /\ call'[k].queue = <<>>
<1> DEFINE p == IF n = 0 THEN "send" ELSE "assign"
           r == [Idle("none") EXCEPT !.op = o, !.timed = t, !.todo = n, !.pc = p]
<1>1. call' = [call EXCEPT ![k] = r] /\ call[k].pc = "idle"
  BY DEF Call, At
<1>2. r.pc = p /\ r.ids = <<>> /\ r.queue = <<>> /\ p \in {"send", "assign"}
  BY DEF Idle
<1>3. call[k].ids = <<>>
  BY <1>1 DEF RpcInv, Received, CallReceived
<1> HIDE DEF r, p
<1> QED
  BY <1>1, <1>2, <1>3 DEF RpcInv, RequestsInv, Typed, SameElsewhere

(* It begins a call of Rpc.                                                *)
LEMMA CallRefines ==
    ASSUME RpcInv, NEW k \in Caller, NEW o \in Op, NEW t \in BOOLEAN,
           NEW n \in 0 .. MaxBatch \cup {1}, Call(k, o, t, n)
    PROVE  RN!Next
<1>1. /\ SameElsewhere(k) /\ call[k].pc = "idle" /\ call[k].ids = <<>>
      /\ call'[k].pc \in {"send", "assign"} /\ call'[k].ids = <<>>
      /\ UNCHANGED <<lastId, inventory>>
  BY CallRecordOfCall DEF Call
<1>2. \A j \in Caller \ {k} : Kept(j)
  BY <1>1 DEF SameElsewhere, Kept
<1>3. Out[k] # "running" /\ Out'[k] = "running"
  BY <1>1, OutcomeCases DEF Out
<1>4. Out' = [Out EXCEPT ![k] = "running"] /\ Want' = Want
  BY <1>1, <1>2, <1>3, KeptCall DEF Out, Want
<1>5. Inserting' = Inserting /\ \A j \in Inserting : call'[j].ids = call[j].ids
  BY <1>1, <1>2, KeptCall DEF Inserting, At
<1>6. Open' = Open /\ Fresh' = Fresh
  BY <1>1, <1>5 DEF Open, Fresh
<1> QED
  BY <1>3, <1>4, <1>6 DEF RN!Next, RN!Begin

(* An id taken from the counter opens a request of its call.               *)
LEMMA AssignRefines ==
    ASSUME RpcInv, NEW k \in Caller, Assign(k)
    PROVE  RN!Next
<1>1. /\ SameElsewhere(k) /\ call[k].pc = "assign" /\ call'[k].pc = "insert"
      /\ call'[k].ids = Append(call[k].ids, lastId)
      /\ lastId' = lastId + 1 /\ inventory' = inventory
      /\ call[k].ids \in Seq(Nat) /\ lastId \in Nat
  BY AssignRecord DEF RpcInv, RequestsInv, Typed, CallRecord, Assign, At
<1>2. ToSet(call'[k].ids) = ToSet(call[k].ids) \cup {lastId} /\ Last(call'[k].ids) = lastId
  BY <1>1, ElementsOfAppend
<1>3. \A j \in Caller \ {k} : Kept(j)
  BY <1>1 DEF SameElsewhere, Kept
<1>4. Out[k] = "running" /\ Out'[k] = "running"
  BY <1>1, OutcomeCases DEF Out
<1>5. Out' = Out /\ Want' = [Want EXCEPT ![k] = @ \cup {lastId}]
  BY <1>2, <1>3, <1>4, KeptCall DEF Out, Want
<1>6. Inserting' = Inserting \cup {k} /\ \A j \in Inserting : call'[j].ids = call[j].ids
  BY <1>1, <1>3, KeptCall DEF Inserting, At
<1>7. Open' = Open \cup {lastId}
  BY <1>1, <1>2, <1>6 DEF Open
<1>8. lastId \in Fresh /\ Fresh' = Fresh \ {lastId}
  BY <1>1 DEF Fresh
<1> QED
  BY <1>1, <1>4, <1>5, <1>7, <1>8 DEF RN!Next, RN!Ask

(* Filing a request that is open already changes nothing.                  *)
LEMMA InsertRefines ==
    ASSUME RpcInv, NEW k \in Caller, Insert(k)
    PROVE  UNCHANGED RN!rvars
<1> DEFINE l == IF call[k].todo > 0 THEN "assign" ELSE "send"
<1>1. /\ call[k].pc = "insert" /\ Goto(k, l) /\ l \in {"assign", "send"}
      /\ inventory' = inventory \cup {Last(call[k].ids)} /\ lastId' = lastId
  BY DEF Insert, At
<1> HIDE DEF l
<1>2. SameElsewhere(k) /\ call'[k].pc = l /\ call'[k].ids = call[k].ids
  BY <1>1, GotoEffect DEF RpcInv, RequestsInv
<1>3. \A j \in Caller \ {k} : Kept(j)
  BY <1>2 DEF SameElsewhere, Kept
<1>4. Out'[k] = Out[k]
  BY <1>1, <1>2, OutcomeCases DEF Out
<1>5. Out' = Out /\ Want' = Want
  BY <1>2, <1>3, <1>4, KeptCall DEF Out, Want
<1>6. /\ k \in Inserting /\ Inserting' = Inserting \ {k}
      /\ \A j \in Inserting : call'[j].ids = call[j].ids
  BY <1>1, <1>2, <1>3, KeptCall DEF Inserting, At
<1>7. Open' = Open
  BY <1>1, <1>6 DEF Open
<1> QED
  BY <1>1, <1>5, <1>7 DEF Fresh, RN!rvars

(* The answer of the server closes its request.                            *)
LEMMA AnswerRefines ==
    ASSUME RpcInv, NEW i \in Id, NEW a \in Answers, Answer(i, a)
    PROVE  RN!Next
<1>1. /\ i \in Nat /\ i \in wire /\ i \in inventory /\ inventory' = inventory \ {i}
      /\ lastId' = lastId
  BY RequestsAssumption DEF Answer, RpcInv, RequestsInv, PendingIsKnown, Id
<1>2. \A k \in Caller : Kept(k)
  <2>1. CASE UNCHANGED call
    BY <2>1 DEF Kept
  <2>2. CASE Publish(i)
    BY <1>1, <2>2, PublishEffect, PublishSubscription DEF Kept, RpcInv, RequestsInv
  <2> QED
    BY <2>1, <2>2 DEF Answer
<1>3. Out' = Out /\ Want' = Want /\ Fresh' = Fresh
  BY <1>1, <1>2, KeptCall DEF Out, Want, Fresh
<1>4. Inserting' = Inserting /\ \A k \in Inserting : call'[k].ids = call[k].ids
  BY <1>2, KeptCall DEF Inserting
<1>5. \A k \in Inserting : Last(call[k].ids) # i
  BY <1>1, InsertingIds DEF RpcInv
<1>6. i \in Open /\ Open' = Open \ {i}
  BY <1>1, <1>4, <1>5 DEF Open
<1> QED
  BY <1>1, <1>3, <1>6 DEF RN!Next, RN!Answer

(* A call ends with its answers when the server has answered all of its    *)
(* requests.                                                               *)
LEMMA ReceiveRefines ==
    ASSUME RpcInv, NEW k \in Caller, Receive(k)
    PROVE  RN!Next \/ UNCHANGED RN!rvars
<1>1. call[k].pc = "waiting" /\ UNCHANGED <<lastId, inventory>>
  BY DEF Receive, At
<1>2. CASE Return(k, "answers") /\ call[k].missing \subseteq {Head(call[k].queue)}
  <2>1. Head(call[k].queue) \in ToSet(call[k].queue)
    BY ReceiveEffect, ElementsOfTail DEF RpcInv, RequestsInv
  <2>2. ToSet(call[k].ids) \cap inventory = {}
    BY <1>1, <1>2, <2>1 DEF RpcInv, Received, CallReceived
  <2>3. \A j \in Inserting : j # k
    BY <1>1 DEF Inserting, At
  <2>4. ToSet(call[k].ids) \cap Open = {}
    BY <2>2, <2>3, InsertingIds DEF Open, RpcInv
  <2>5. ToSet(call[k].ids) \subseteq 0 .. lastId - 1 /\ lastId \in Nat
    BY DEF RpcInv, RequestsInv, OwnIds, Typed
  <2>6. Want[k] \subseteq RN!Answered
    BY <2>4, <2>5 DEF Want, RN!Answered, Fresh
  <2> QED
    BY <1>1, <1>2, <2>6, ReturnRefines DEF Results
<1>3. CASE SameElsewhere(k) /\ call'[k].pc = "waiting" /\ call'[k].ids = call[k].ids
  BY <1>1, <1>3, KeptState DEF Kept, SameElsewhere
<1> QED
  BY <1>2, <1>3, ReceiveEffect DEF RpcInv, RequestsInv

(* The other steps of a call give it up, or nothing Rpc can see.           *)
LEMMA CallStepRefines ==
    ASSUME RpcInv, NEW k \in Caller,
           \/ Send(k) \/ TakeAck(k) \/ Subscribe(k)
           \/ ReceiveLagged(k) \/ AckTimeout(k) \/ AnswerTimeout(k)
    PROVE  RN!Next \/ UNCHANGED RN!rvars
<1>1. UNCHANGED <<lastId, inventory>> /\ call[k].pc \notin {"idle", "insert"}
  BY DEF Send, TakeAck, Subscribe, ReceiveLagged, AckTimeout, AnswerTimeout, At
<1>2. ASSUME NEW r \in Results, r # "answers", Return(k, r) PROVE RN!Next
  BY <1>1, <1>2, ReturnRefines
<1>3. ASSUME NEW l \in {"subscribe", "waitAck"}, Goto(k, l) PROVE UNCHANGED RN!rvars
  <2>1. SameElsewhere(k) /\ call'[k].pc = l /\ call'[k].ids = call[k].ids
    BY <1>3, GotoEffect DEF RpcInv, RequestsInv
  <2> QED
    BY <1>1, <1>3, <2>1, KeptState DEF Kept, SameElsewhere
<1>4. CASE Subscribe(k)
  BY <1>1, <1>4, SubscribeEffect, KeptState DEF Kept, SameElsewhere, RpcInv, RequestsInv
<1>5. CASE ~Subscribe(k)
  <2>1. \/ \E r \in Results : r # "answers" /\ Return(k, r)
        \/ \E l \in {"subscribe", "waitAck"} : Goto(k, l)
    BY <1>5 DEF Send, TakeAck, ReceiveLagged, AckTimeout, AnswerTimeout, Sent, Results
  <2> QED
    BY <1>2, <1>3, <2>1
<1> QED
  BY <1>4, <1>5

(* The sender, the connection and the notifications do nothing Rpc can     *)
(* see.                                                                    *)
LEMMA LinkStepRefines ==
    ASSUME RpcInv,
           Write \/ WriteFails \/ Notify \/ Reconnect \/ Break \/ CloseLink \/ UNCHANGED vars
    PROVE  UNCHANGED RN!rvars
<1>1. UNCHANGED <<lastId, inventory>>
  BY DEF Write, WriteFails, Notify, Reconnect, Break, CloseLink, vars
<1>2. ASSUME NEW e, NEW r \in {"sent", "failed"}, Acknowledge(e, r), NEW k \in Caller
      PROVE  Kept(k)
  <2>1. Typed
    BY DEF RpcInv, RequestsInv
  <2>2. call[k].pc # "waitAck" => call'[k] = call[k]
    BY <1>2, <2>1, AcknowledgeSubscription
  <2>3. call'[k].pc = call[k].pc /\ call'[k].ids = call[k].ids
    BY <1>2, <2>1, AcknowledgeEffect
  <2> QED
    BY <2>2, <2>3 DEF Kept
<1>3. CASE Write \/ WriteFails
  BY <1>1, <1>2, <1>3, KeptState DEF Write, WriteFails
<1>4. CASE Notify
  <2>1. Publish(NoId)
    BY <1>4 DEF Notify
  <2>2. \A k \in Caller : Kept(k)
    BY <2>1, PublishEffect, PublishSubscription DEF Kept, RpcInv, RequestsInv
  <2> QED
    BY <1>1, <2>2, KeptState
<1>5. CASE Reconnect \/ Break \/ CloseLink \/ UNCHANGED vars
  BY <1>1, <1>5, KeptState DEF Kept, Reconnect, Break, CloseLink, vars
<1> QED
  BY <1>3, <1>4, <1>5

-----------------------------------------------------------------------------
(* A step of one call that leaves the inventory alone.                     *)
LEMMA ReceivedElsewhere ==
    ASSUME Received, NEW k \in Caller, SameElsewhere(k), inventory' = inventory,
           CallReceived(k)'
    PROVE  Received'
BY DEF Received, CallReceived, SameElsewhere

(* The steps of a call keep Received.                                      *)
LEMMA CallKeepsReceived ==
    ASSUME RpcInv, NEW k \in Caller,
           \/ Assign(k) \/ Send(k) \/ TakeAck(k) \/ Subscribe(k) \/ Receive(k)
           \/ ReceiveLagged(k) \/ AckTimeout(k) \/ AnswerTimeout(k)
    PROVE  Received'
<1>t. Typed /\ Received /\ CallReceived(k)
  BY DEF RpcInv, RequestsInv, Received
<1>1. ASSUME NEW r \in Results, Return(k, r), inventory' = inventory PROVE Received'
  BY <1>t, <1>1, ReturnRecord, ReceivedElsewhere DEF CallReceived
<1>2. ASSUME NEW l \in {"subscribe", "waitAck"}, Goto(k, l), inventory' = inventory,
             call[k].pc # "waiting"
      PROVE  Received'
  BY <1>t, <1>2, GotoEffect, GotoSubscription, ReceivedElsewhere DEF CallReceived
<1>3. CASE Assign(k)
  BY <1>t, <1>3, AssignRecord, ReceivedElsewhere DEF CallReceived, Assign, At
<1>4. CASE Subscribe(k)
  <2>1. call[k].queue = <<>> /\ inventory' = inventory
    BY <1>t, <1>4 DEF Subscribe, At, CallReceived
  <2> QED
    BY <1>t, <1>4, <2>1, SubscribeEffect, ElementsOfEmpty, ReceivedElsewhere DEF CallReceived
<1>5. CASE Receive(k)
  <2>1. inventory' = inventory /\ call[k].pc = "waiting"
    BY <1>5 DEF Receive, At
  <2>2. CASE Return(k, "answers")
    BY <1>1, <2>1, <2>2 DEF Results
  <2>3. CASE ~Return(k, "answers")
    <3>1. /\ Head(call[k].queue) \in ToSet(call[k].queue)
          /\ ToSet(Tail(call[k].queue)) \subseteq ToSet(call[k].queue)
      BY <1>t, <1>5, ReceiveEffect, ElementsOfTail
    <3>2. /\ SameElsewhere(k) /\ call'[k].pc = "waiting" /\ call'[k].ids = call[k].ids
          /\ call'[k].missing = call[k].missing \ {Head(call[k].queue)}
          /\ call'[k].queue = Tail(call[k].queue)
      BY <1>t, <1>5, <2>3, ReceiveEffect
    <3>3. CallReceived(k)'
      BY <1>t, <2>1, <3>1, <3>2 DEF CallReceived
    <3> QED
      BY <1>t, <2>1, <3>2, <3>3, ReceivedElsewhere
  <2> QED
    BY <2>2, <2>3
<1>6. CASE Send(k) \/ TakeAck(k) \/ ReceiveLagged(k) \/ AckTimeout(k) \/ AnswerTimeout(k)
  <2>1. \/ \E r \in Results : Return(k, r)
        \/ call[k].pc # "waiting" /\ \E l \in {"subscribe", "waitAck"} : Goto(k, l)
    BY <1>6 DEF Send, TakeAck, ReceiveLagged, AckTimeout, AnswerTimeout, Sent, Results, At
  <2>2. inventory' = inventory
    BY <1>6 DEF Send, TakeAck, ReceiveLagged, AckTimeout, AnswerTimeout
  <2> QED
    BY <1>1, <1>2, <2>1, <2>2
<1> QED
  BY <1>3, <1>4, <1>5, <1>6

(* A request is filed by the one call that holds it; what is broadcast is  *)
(* no longer in the inventory.                                             *)
LEMMA StepKeepsReceived == RpcInv /\ [Next]_vars => Received'
<1> SUFFICES ASSUME RpcInv, [Next]_vars PROVE Received'
  OBVIOUS
<1>t. Typed /\ Received /\ RequestsInv
  BY DEF RpcInv, RequestsInv
<1>1. ASSUME NEW k \in Caller, NEW o \in Op, NEW t \in BOOLEAN,
             NEW n \in 0 .. MaxBatch \cup {1}, Call(k, o, t, n)
      PROVE  Received'
  <2>1. CallReceived(k)' /\ SameElsewhere(k)
    BY <1>1, CallRecordOfCall DEF CallReceived
  <2>2. inventory' = inventory
    BY <1>1 DEF Call
  <2> QED
    BY <1>t, <2>1, <2>2, ReceivedElsewhere
<1>2. ASSUME NEW k \in Caller, Insert(k) PROVE Received'
  <2> DEFINE l == IF call[k].todo > 0 THEN "assign" ELSE "send"
  <2>1. /\ call[k].pc = "insert" /\ Goto(k, l) /\ l \in {"assign", "send"}
        /\ inventory' = inventory \cup {Last(call[k].ids)}
    BY <1>2 DEF Insert, At
  <2> HIDE DEF l
  <2>2. /\ SameElsewhere(k) /\ call'[k].pc = l /\ call'[k].queue = call[k].queue
    BY <1>t, <2>1, GotoEffect, GotoSubscription
  <2>3. \A j \in Caller \ {k} : Last(call[k].ids) \notin ToSet(call[j].ids)
    BY <1>t, <2>1, InsertingIds DEF Inserting, At
  <2>4. ASSUME NEW j \in Caller \ {k} PROVE CallReceived(j)'
    BY <1>t, <2>1, <2>2, <2>3 DEF Received, CallReceived, SameElsewhere
  <2>5. CallReceived(k)'
    BY <1>t, <2>1, <2>2 DEF Received, CallReceived
  <2> QED
    BY <2>4, <2>5 DEF Received
<1>3. ASSUME NEW i \in Nat \cup {NoId}, Publish(i), inventory' = inventory \ {i} PROVE Received'
  <2>1. ASSUME NEW k \in Caller PROVE CallReceived(k)'
    <3>1. /\ call'[k].pc = call[k].pc /\ call'[k].ids = call[k].ids
          /\ call[k].pc # "waiting" => call'[k] = call[k]
          /\ call'[k].missing = call[k].missing
          /\ ToSet(call'[k].queue) \subseteq ToSet(call[k].queue) \cup {i}
      BY <1>t, <1>3, PublishEffect, PublishSubscription
    <3> QED
      BY <1>t, <1>3, <3>1 DEF Received, CallReceived
  <2> QED
    BY <2>1 DEF Received
<1>4. ASSUME UNCHANGED call, inventory' \subseteq inventory PROVE Received'
  BY <1>t, <1>4 DEF Received, CallReceived
<1>5. ASSUME NEW i \in Id, NEW a \in Answers, Answer(i, a) PROVE Received'
  <2>1. i \in Nat /\ inventory' = inventory \ {i}
    BY <1>5, RequestsAssumption DEF Answer, Id
  <2> QED
    BY <1>3, <1>4, <1>5, <2>1 DEF Answer
<1>6. CASE Notify
  <2>1. Publish(NoId) /\ inventory' = inventory \ {NoId}
    BY <1>6, <1>t, RequestsAssumption DEF Notify, Typed
  <2> QED
    BY <1>3, <2>1
<1>7. CASE Write \/ WriteFails
  <2>1. ASSUME NEW e, NEW r \in {"sent", "failed"}, Acknowledge(e, r), NEW k \in Caller,
               inventory' = inventory
        PROVE  CallReceived(k)'
    BY <1>t, <2>1, AcknowledgeEffect, AcknowledgeSubscription DEF Received, CallReceived
  <2> QED
    BY <1>7, <2>1 DEF Write, WriteFails, Received
<1>8. CASE Reconnect \/ Break \/ CloseLink \/ UNCHANGED vars
  BY <1>4, <1>8 DEF Reconnect, Break, CloseLink, vars
<1> QED
  BY <1>1, <1>2, <1>5, <1>6, <1>7, <1>8, CallKeepsReceived DEF Next, CallStep

-----------------------------------------------------------------------------
(* The initial states of Requests are initial states of Rpc.               *)
LEMMA InitRefines == Init => RN!Init /\ RpcInv
<1> SUFFICES ASSUME Init PROVE RN!Init /\ RpcInv
  OBVIOUS
<1>1. \A k \in Caller : /\ call[k] = Idle("none") /\ call[k].pc = "idle"
                        /\ call[k].ids = <<>> /\ call[k].queue = <<>>
                        /\ call[k] # Idle("answers")
  BY DEF Init, Idle
<1>2. Received
  BY <1>1 DEF Received, CallReceived
<1>3. Inserting = {} /\ Open = {} /\ Fresh = Nat
  BY <1>1 DEF Init, Inserting, At, Open, Fresh
<1>4. Want = [k \in Caller |-> {}] /\ Out = [k \in Caller |-> "unanswered"]
  BY <1>1, ElementsOfEmpty, OutcomeCases DEF Want, Out
<1> QED
  BY <1>2, <1>3, <1>4, InitInv DEF RN!Init, RpcInv

(* Every reachable state satisfies the invariant.                          *)
THEOREM ReceivedInvariant == Spec => []RpcInv
<1>1. Init => RpcInv
  BY InitRefines
<1>2. RpcInv /\ [Next]_vars => RpcInv'
  BY StepInv, StepKeepsReceived DEF RpcInv
<1> QED
  BY <1>1, <1>2, PTL DEF Spec

(* Calls implement Rpc: an id stands for one request of one call, and a    *)
(* call that ends with its answers does so after the server has answered   *)
(* each of its own requests (client.rs:641-696, :886-911).                 *)
THEOREM CallsImplementRpc == Spec => RN!Spec
<1>1. Init => RN!Init
  BY InitRefines
<1>2. RpcInv /\ [Next]_vars => [RN!Next]_(RN!rvars)
  BY CallRefines, AssignRefines, InsertRefines, AnswerRefines, ReceiveRefines,
     CallStepRefines, LinkStepRefines DEF Next, CallStep
<1> QED
  BY <1>1, <1>2, ReceivedInvariant, PTL DEF Spec, RN!Spec

=============================================================================
