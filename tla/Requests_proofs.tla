---------------------------- MODULE Requests_proofs ----------------------------
(***************************************************************************)
(* Theorems about module Requests, for any set of callers, any capacities  *)
(* and any number of requests.  MaxId bounds the runs of the model checker *)
(* only: of the theorems just TypeCorrect, whose bounds it sets, uses it.  *)
(***************************************************************************)
EXTENDS Requests, FiniteSetTheorems, SequenceTheorems, TLAPS

Unassigned == {"assign", "insert", "send"}

(* The types of TypeOK, without the bounds that MaxId sets.                *)
Results == {"none", "sent", "answers", "partial", "MessageNotSent", "RecvTimeout", "Timeout",
            "InvalidResponse"}
EventRecord == [ids : Seq(Nat), ack : Caller \cup {Nobody}]
CallRecord ==
    [pc : {"idle", "assign", "insert", "send", "waitAck", "subscribe", "waiting"},
     op : Op, timed : BOOLEAN, todo : Int, ids : Seq(Nat),
     acked : {"pending", "sent", "failed"}, queue : Seq(Nat \cup {NoId}), lagged : BOOLEAN,
     missing : SUBSET Nat, result : Results]

Typed ==
    /\ lastId \in Nat /\ inventory \subseteq Nat /\ wire \subseteq Nat
    /\ chan \in Seq(EventRecord)
    /\ call \in [Caller -> CallRecord]

(* Ids come from the counter and belong to one call.                       *)
OwnIds ==
    /\ inventory \subseteq 0 .. lastId - 1
    /\ \A k \in Caller : ToSet(call[k].ids) \subseteq 0 .. lastId - 1
    /\ \A k, j \in Caller : k # j => ToSet(call[k].ids) \cap ToSet(call[j].ids) = {}

(* A call that has not sent its event yet has filed its requests, the last *)
(* one excepted before its insert, and nobody else knows them.             *)
UnsentIds ==
    \A k \in Caller : call[k].pc \in Unassigned =>
        /\ call[k].acked = "pending"
        /\ ToSet(call[k].ids) \cap (wire \cup Queued) = {}
        /\ call[k].pc # "insert" => ToSet(call[k].ids) \subseteq inventory
        /\ call[k].pc = "insert" =>
              /\ call[k].ids # <<>>
              /\ ToSet(call[k].ids) \subseteq inventory \cup {Last(call[k].ids)}

(* A request is in one event, or with the server, but not in two places.   *)
OnePlace ==
    /\ \A m, n \in DOMAIN chan : m # n => ToSet(chan[m].ids) \cap ToSet(chan[n].ids) = {}
    /\ wire \cap Queued = {}

(* What the sender reported as not sent is neither queued nor written.     *)
FailedIds ==
    \A k \in Caller : call[k].acked = "failed" => ToSet(call[k].ids) \cap (wire \cup Queued) = {}

RequestsInv == Typed /\ OwnIds /\ UnsentIds /\ OnePlace /\ PendingIsKnown /\ FailedIds

-----------------------------------------------------------------------------
(* The elements of an extended and of an empty sequence.                   *)
LEMMA ElementsOfAppend ==
    ASSUME NEW S, NEW s \in Seq(S), NEW x \in S
    PROVE  ToSet(Append(s, x)) = ToSet(s) \cup {x} /\ Last(Append(s, x)) = x /\ Append(s, x) # <<>>
<1>1. /\ Append(s, x) \in Seq(S) /\ Len(Append(s, x)) = Len(s) + 1
      /\ DOMAIN Append(s, x) = 1 .. Len(s) + 1 /\ DOMAIN s = 1 .. Len(s) /\ Len(s) \in Nat
      /\ \A i \in 1 .. Len(s) : Append(s, x)[i] = s[i]
      /\ Append(s, x)[Len(s) + 1] = x
  OBVIOUS
<1>2. ToSet(Append(s, x)) = ToSet(s) \cup {x}
  BY <1>1 DEF ToSet
<1> QED
  BY <1>1, <1>2 DEF Last

(* The empty sequence has no elements.                                     *)
LEMMA ElementsOfEmpty == ToSet(<<>>) = {}
BY DEF ToSet

(* Queueing an event adds its ids to those queued.                         *)
LEMMA QueuedAppend ==
    ASSUME Typed, NEW e \in EventRecord, chan' = Append(chan, e)
    PROVE  /\ Queued' = Queued \cup ToSet(e.ids)
           /\ DOMAIN chan' = 1 .. Len(chan) + 1 /\ DOMAIN chan = 1 .. Len(chan)
           /\ \A n \in DOMAIN chan : chan'[n] = chan[n]
           /\ chan'[Len(chan) + 1] = e
<1>1. /\ DOMAIN chan' = 1 .. Len(chan) + 1 /\ DOMAIN chan = 1 .. Len(chan) /\ Len(chan) \in Nat
      /\ \A n \in DOMAIN chan : chan'[n] = chan[n]
      /\ chan'[Len(chan) + 1] = e
  BY DEF Typed
<1>2. ASSUME NEW i PROVE i \in Queued' <=> i \in Queued \/ i \in ToSet(e.ids)
  <2>1. i \in Queued' <=> \E n \in DOMAIN chan' : i \in ToSet(chan'[n].ids)
    BY DEF Queued
  <2>2. i \in Queued <=> \E n \in DOMAIN chan : i \in ToSet(chan[n].ids)
    BY DEF Queued
  <2> QED
    BY <1>1, <2>1, <2>2
<1> QED
  BY <1>1, <1>2

(* Taking the oldest event removes its ids, and only those, if no other    *)
(* event has them.                                                         *)
LEMMA QueuedTail ==
    ASSUME Typed, chan # <<>>, chan' = Tail(chan)
    PROVE  /\ Queued = Queued' \cup ToSet(Head(chan).ids)
           /\ Head(chan) \in EventRecord /\ chan' \in Seq(EventRecord)
           /\ OnePlace => Queued' \cap ToSet(Head(chan).ids) = {}
           /\ OnePlace => \A m, n \in DOMAIN chan' :
                             m # n => ToSet(chan'[m].ids) \cap ToSet(chan'[n].ids) = {}
<1>1. /\ DOMAIN chan = 1 .. Len(chan) /\ Len(chan) \in Nat /\ Len(chan) >= 1
      /\ DOMAIN chan' = 1 .. Len(chan) - 1
      /\ \A n \in DOMAIN chan' : chan'[n] = chan[n + 1]
      /\ Head(chan) = chan[1] /\ Head(chan) \in EventRecord /\ chan' \in Seq(EventRecord)
  BY DEF Typed
<1>2. ASSUME NEW i PROVE i \in Queued <=> i \in Queued' \/ i \in ToSet(Head(chan).ids)
  <2>1. i \in Queued' <=> \E n \in DOMAIN chan' : i \in ToSet(chan[n + 1].ids)
    BY <1>1 DEF Queued
  <2>2. i \in Queued <=> \E n \in DOMAIN chan : i \in ToSet(chan[n].ids)
    BY DEF Queued
  <2>3. \A n \in DOMAIN chan : n = 1 \/ (n - 1 \in DOMAIN chan' /\ (n - 1) + 1 = n)
    BY <1>1
  <2>4. 1 \in DOMAIN chan /\ \A n \in DOMAIN chan' : n + 1 \in DOMAIN chan
    BY <1>1
  <2> QED
    BY <1>1, <2>1, <2>2, <2>3, <2>4
<1>3. ASSUME OnePlace PROVE Queued' \cap ToSet(Head(chan).ids) = {}
  <2>1. SUFFICES ASSUME NEW i \in Queued', i \in ToSet(Head(chan).ids) PROVE FALSE
    OBVIOUS
  <2>2. PICK n \in DOMAIN chan' : i \in ToSet(chan[n + 1].ids)
    BY <1>1 DEF Queued
  <2>3. n + 1 \in DOMAIN chan /\ 1 \in DOMAIN chan /\ n + 1 # 1
    BY <1>1
  <2> QED
    BY <1>1, <1>3, <2>1, <2>2, <2>3 DEF OnePlace
<1>4. ASSUME OnePlace, NEW m \in DOMAIN chan', NEW n \in DOMAIN chan', m # n
      PROVE  ToSet(chan'[m].ids) \cap ToSet(chan'[n].ids) = {}
  <2>1. m + 1 \in DOMAIN chan /\ n + 1 \in DOMAIN chan /\ m + 1 # n + 1
    BY <1>1, <1>4
  <2> QED
    BY <1>1, <1>4, <2>1 DEF OnePlace
<1> QED
  BY <1>1, <1>2, <1>3, <1>4

-----------------------------------------------------------------------------
(* Typed holds initially and is kept by every step.                        *)
LEMMA IdleTyped == \A r \in Results : Idle(r) \in CallRecord
<1>1. <<>> \in Seq(Nat) /\ <<>> \in Seq(Nat \cup {NoId})
  OBVIOUS
<1> QED
  BY <1>1 DEF Idle, CallRecord, Op

(* The initial state is typed.                                             *)
LEMMA InitTyped == Init => Typed
<1> SUFFICES ASSUME Init PROVE Typed
  OBVIOUS
<1>1. call \in [Caller -> CallRecord]
  BY IdleTyped DEF Init, Results
<1>2. chan \in Seq(EventRecord) /\ lastId \in Nat /\ inventory \subseteq Nat /\ wire \subseteq Nat
  BY DEF Init
<1> QED
  BY <1>1, <1>2 DEF Typed

(* How the calls move: what happens to a record, and to no other.          *)
SameElsewhere(k) == \A j \in Caller \ {k} : call'[j] = call[j]

(* Goto moves one call and keeps its ids.                                  *)
LEMMA GotoEffect ==
    ASSUME Typed, NEW k \in Caller, NEW l, Goto(k, l),
           l \in {"idle", "assign", "insert", "send", "waitAck", "subscribe", "waiting"}
    PROVE  /\ call' \in [Caller -> CallRecord] /\ SameElsewhere(k)
           /\ call'[k].pc = l /\ call'[k].ids = call[k].ids /\ call'[k].acked = call[k].acked
<1> DEFINE r == [call[k] EXCEPT !.pc = l]
<1>1. /\ r \in CallRecord
      /\ r.pc = l /\ r.ids = call[k].ids /\ r.acked = call[k].acked
  BY DEF Typed, CallRecord
<1>2. call' = [call EXCEPT ![k] = r]
  BY DEF Goto
<1> HIDE DEF r
<1> QED
  BY <1>1, <1>2 DEF Typed, SameElsewhere

(* Return ends one call and drops its ids.                                 *)
LEMMA ReturnEffect ==
    ASSUME Typed, NEW k \in Caller, NEW r \in Results, Return(k, r)
    PROVE  /\ call' \in [Caller -> CallRecord] /\ SameElsewhere(k)
           /\ call'[k].pc = "idle" /\ call'[k].ids = <<>> /\ call'[k].acked = "pending"
           /\ call'[k].result = r
<1>1. /\ Idle(r) \in CallRecord /\ Idle(r).result = r
      /\ Idle(r).pc = "idle" /\ Idle(r).ids = <<>> /\ Idle(r).acked = "pending"
  BY IdleTyped DEF Idle
<1> QED
  BY <1>1 DEF Typed, Return, SameElsewhere

(* A call keeps its ids, and does not step back to before its event was    *)
(* sent, or it has none.                                                   *)
Moved(k) ==
    \/ /\ call'[k].pc = call[k].pc \/ call'[k].pc \notin Unassigned
       /\ call'[k].ids = call[k].ids /\ call'[k].acked = call[k].acked
    \/ call'[k].ids = <<>> /\ call'[k].acked = "pending" /\ call'[k].pc # "insert"

(* A call whose event was sent waits for its answers or returns.           *)
LEMMA SentEffect ==
    ASSUME Typed, NEW k \in Caller, Sent(k)
    PROVE  call' \in [Caller -> CallRecord] /\ SameElsewhere(k) /\ Moved(k)
           /\ call'[k].pc \notin Unassigned
<1>1. CASE Goto(k, "subscribe")
  BY <1>1, GotoEffect DEF Moved, Unassigned
<1>2. CASE Return(k, "sent")
  BY <1>2, ReturnEffect DEF Moved, Results, Unassigned
<1> QED
  BY <1>1, <1>2 DEF Sent

(* Subscribe changes two fields of the record of its call.                 *)
LEMMA SubscribeEffect ==
    ASSUME Typed, NEW k \in Caller, Subscribe(k)
    PROVE  /\ call' \in [Caller -> CallRecord] /\ SameElsewhere(k)
           /\ call'[k].pc = "waiting" /\ call'[k].ids = call[k].ids
           /\ call'[k].acked = call[k].acked /\ call'[k].queue = call[k].queue
           /\ call'[k].missing = ToSet(call[k].ids)
<1> DEFINE m == ToSet(call[k].ids)
           r1 == [call[k] EXCEPT !.missing = m]
           r == [r1 EXCEPT !.pc = "waiting"]
<1>1. call[k] \in CallRecord /\ m \subseteq Nat
  BY DEF Typed, CallRecord, ToSet
<1>2. call' = [call EXCEPT ![k] = r]
  BY DEF Subscribe, Typed
<1> HIDE DEF m
<1>3. /\ r1 \in CallRecord /\ r1.ids = call[k].ids /\ r1.acked = call[k].acked
      /\ r1.queue = call[k].queue /\ r1.missing = m
  BY <1>1 DEF CallRecord
<1> HIDE DEF r1
<1>4. /\ r \in CallRecord /\ r.ids = call[k].ids /\ r.acked = call[k].acked
      /\ r.pc = "waiting" /\ r.queue = call[k].queue /\ r.missing = m
  BY <1>3 DEF CallRecord
<1> HIDE DEF r
<1> QED
  BY <1>2, <1>4 DEF Typed, SameElsewhere, m

(* Receive ends its call, or takes the first item from its subscription.   *)
LEMMA ReceiveEffect ==
    ASSUME Typed, NEW k \in Caller, Receive(k)
    PROVE  /\ call[k].pc = "waiting"
           /\ call[k].queue # <<>> /\ call[k].queue \in Seq(Nat \cup {NoId})
           /\ \/ /\ Return(k, "answers")
                 /\ call[k].missing \subseteq {Head(call[k].queue)}
              \/ /\ call' \in [Caller -> CallRecord] /\ SameElsewhere(k)
                 /\ call'[k].pc = "waiting" /\ call'[k].ids = call[k].ids
                 /\ call'[k].acked = call[k].acked
                 /\ call'[k].missing = call[k].missing \ {Head(call[k].queue)}
                 /\ call'[k].queue = Tail(call[k].queue)
<1> DEFINE left == call[k].missing \ {Head(call[k].queue)}
           rest == Tail(call[k].queue)
           r1 == [call[k] EXCEPT !.missing = left]
           r == [r1 EXCEPT !.queue = rest]
<1>1. call[k] \in CallRecord /\ call[k].queue # <<>> /\ call[k].pc = "waiting"
  BY DEF Typed, Receive, At
<1>2. call[k].missing \subseteq Nat /\ call[k].queue \in Seq(Nat \cup {NoId})
  BY <1>1 DEF CallRecord
<1>3. left \subseteq Nat /\ rest \in Seq(Nat \cup {NoId})
  BY <1>1, <1>2
<1>4. (Return(k, "answers") /\ left = {}) \/ call' = [call EXCEPT ![k] = r]
  BY DEF Receive, Typed
<1>5. CASE Return(k, "answers") /\ left = {}
  BY <1>1, <1>2, <1>5
<1>6. CASE call' = [call EXCEPT ![k] = r]
  <2> HIDE DEF left, rest
  <2>1. /\ r1 \in CallRecord /\ r1.ids = call[k].ids /\ r1.acked = call[k].acked
        /\ r1.pc = "waiting" /\ r1.missing = left
    BY <1>1, <1>3 DEF CallRecord
  <2> HIDE DEF r1
  <2>2. /\ r \in CallRecord /\ r.ids = call[k].ids /\ r.acked = call[k].acked
        /\ r.pc = "waiting" /\ r.missing = left /\ r.queue = rest
    BY <1>3, <2>1 DEF CallRecord
  <2> HIDE DEF r
  <2> QED
    BY <1>1, <1>2, <1>6, <2>2 DEF Typed, SameElsewhere, left, rest
<1> QED
  BY <1>4, <1>5, <1>6

(* An acknowledgement reaches the call that waits with the event's ids.    *)
LEMMA AcknowledgeEffect ==
    ASSUME Typed, NEW e, NEW r \in {"sent", "failed"}, Acknowledge(e, r)
    PROVE  /\ call' \in [Caller -> CallRecord]
           /\ \A k \in Caller :
                 /\ call'[k].pc = call[k].pc /\ call'[k].ids = call[k].ids
                 /\ \/ call'[k].acked = call[k].acked
                    \/ call[k].pc = "waitAck" /\ call'[k].acked = r /\ call[k].ids = e.ids
<1>1. ASSUME NEW k \in Caller
      PROVE  /\ [call[k] EXCEPT !.acked = r] \in CallRecord
             /\ [call[k] EXCEPT !.acked = r].pc = call[k].pc
             /\ [call[k] EXCEPT !.acked = r].ids = call[k].ids
             /\ [call[k] EXCEPT !.acked = r].acked = r
  BY DEF Typed, CallRecord
<1> QED
  BY <1>1 DEF Typed, Acknowledge, At

(* What is broadcast changes the subscriptions only.                       *)
LEMMA PublishEffect ==
    ASSUME Typed, NEW i \in Nat \cup {NoId}, Publish(i)
    PROVE  /\ call' \in [Caller -> CallRecord]
           /\ \A k \in Caller : /\ call'[k].pc = call[k].pc /\ call'[k].ids = call[k].ids
                                /\ call'[k].acked = call[k].acked
<1> DEFINE q(k) == IF Len(call[k].queue) < BroadcastCap
                     THEN [call[k] EXCEPT !.queue = Append(@, i)]
                     ELSE [call[k] EXCEPT !.queue = Append(Tail(@), i), !.lagged = TRUE]
<1>1. ASSUME NEW k \in Caller
      PROVE  /\ q(k) \in CallRecord /\ q(k).pc = call[k].pc
             /\ q(k).ids = call[k].ids /\ q(k).acked = call[k].acked
  <2>1. /\ call[k] \in CallRecord /\ call[k].queue \in Seq(Nat \cup {NoId})
        /\ BroadcastCap \in Nat \ {0}
    BY RequestsAssumption DEF Typed, CallRecord
  <2>2. CASE Len(call[k].queue) < BroadcastCap
    <3>1. Append(call[k].queue, i) \in Seq(Nat \cup {NoId})
      BY <2>1
    <3>2. q(k) = [call[k] EXCEPT !.queue = Append(call[k].queue, i)]
      BY <2>2
    <3> HIDE DEF q
    <3> QED
      BY <2>1, <3>1, <3>2 DEF CallRecord
  <2>3. CASE ~(Len(call[k].queue) < BroadcastCap)
    <3> DEFINE s == Append(Tail(call[k].queue), i)
    <3>1. call[k].queue # <<>>
      BY <2>1, <2>3
    <3>2. Tail(call[k].queue) \in Seq(Nat \cup {NoId})
      BY <2>1, <3>1
    <3>3. s \in Seq(Nat \cup {NoId})
      BY <3>2
    <3>4. q(k) = [call[k] EXCEPT !.queue = s, !.lagged = TRUE]
      BY <2>3
    <3> HIDE DEF q, s
    <3>5. [call[k] EXCEPT !.queue = s] \in CallRecord
      BY <2>1, <3>3 DEF CallRecord
    <3> QED
      BY <2>1, <3>3, <3>4, <3>5 DEF CallRecord
  <2> QED
    BY <2>2, <2>3
<1>2. call' = [k \in Caller |-> IF ~At(k, "waiting") THEN call[k] ELSE q(k)]
  BY DEF Publish
<1> HIDE DEF q
<1> QED
  BY <1>1, <1>2 DEF Typed

(* Assign changes three fields of the record of its call.                  *)
LEMMA AssignEffect ==
    ASSUME Typed, NEW k \in Caller, Assign(k)
    PROVE  /\ call' \in [Caller -> CallRecord]
           /\ call'[k].ids = Append(call[k].ids, lastId)
           /\ call'[k].pc = "insert" /\ call'[k].acked = call[k].acked
           /\ SameElsewhere(k)
<1> DEFINE s == Append(call[k].ids, lastId)
           r1 == [call[k] EXCEPT !.ids = s]
           c1 == [call EXCEPT ![k].ids = s]
           n == call[k].todo - 1
           c2 == [c1 EXCEPT ![k].todo = n]
           c3 == [c2 EXCEPT ![k].pc = "insert"]
<1>1. s \in Seq(Nat) /\ n \in Int /\ call[k] \in CallRecord
  BY DEF Typed, CallRecord
<1>2. /\ c1 \in [Caller -> CallRecord] /\ c1[k].ids = s
      /\ c1[k].acked = call[k].acked /\ \A j \in Caller \ {k} : c1[j] = call[j]
  <2> HIDE DEF s
  <2>1. r1 \in CallRecord /\ r1.ids = s /\ r1.acked = call[k].acked
    BY <1>1 DEF CallRecord
  <2>2. c1 = [call EXCEPT ![k] = r1]
    OBVIOUS
  <2> HIDE DEF r1, c1
  <2> QED
    BY <2>1, <2>2 DEF Typed
<1>3. /\ c2 \in [Caller -> CallRecord] /\ c2[k].ids = c1[k].ids
      /\ c2[k].acked = c1[k].acked /\ \A j \in Caller \ {k} : c2[j] = c1[j]
  <2> HIDE DEF n, c1
  <2> QED
    BY <1>1, <1>2 DEF CallRecord
<1>4. /\ c3 \in [Caller -> CallRecord] /\ c3[k].ids = c2[k].ids /\ c3[k].pc = "insert"
      /\ c3[k].acked = c2[k].acked /\ \A j \in Caller \ {k} : c3[j] = c2[j]
  <2> HIDE DEF s, n, c1, c2
  <2> QED
    BY <1>3 DEF CallRecord
<1>5. call' = c3
  BY DEF Assign
<1> HIDE DEF c1, c2, c3
<1> QED
  BY <1>2, <1>3, <1>4, <1>5 DEF SameElsewhere

-----------------------------------------------------------------------------
(* The first element of a sequence, and those that follow it.              *)
LEMMA ElementsOfTail ==
    ASSUME NEW S, NEW s \in Seq(S), s # <<>>
    PROVE  /\ Head(s) \in ToSet(s) /\ Last(s) \in ToSet(s)
           /\ ToSet(Tail(s)) \subseteq ToSet(s)
<1>1. /\ DOMAIN s = 1 .. Len(s) /\ Len(s) \in Nat /\ Len(s) >= 1 /\ Head(s) = s[1]
      /\ DOMAIN Tail(s) = 1 .. Len(s) - 1
      /\ \A n \in 1 .. Len(s) - 1 : Tail(s)[n] = s[n + 1]
  OBVIOUS
<1>2. \A n \in 1 .. Len(s) - 1 : n + 1 \in 1 .. Len(s)
  BY <1>1
<1> QED
  BY <1>1, <1>2 DEF ToSet, Last

(* What the operators on calls do to subscriptions.                        *)

(* Goto keeps the subscription of its call.                                *)
LEMMA GotoSubscription ==
    ASSUME Typed, NEW k \in Caller, NEW l, Goto(k, l)
    PROVE  call'[k].queue = call[k].queue /\ call'[k].missing = call[k].missing
BY DEF Goto, Typed, CallRecord

(* Return leaves an idle call.                                             *)
LEMMA ReturnRecord ==
    ASSUME Typed, NEW k \in Caller, NEW r \in Results, Return(k, r)
    PROVE  /\ call'[k] = Idle(r) /\ SameElsewhere(k)
           /\ call'[k].pc = "idle" /\ call'[k].ids = <<>> /\ call'[k].queue = <<>>
           /\ call'[k] = Idle("answers") <=> r = "answers"
<1>1. call'[k] = Idle(r) /\ SameElsewhere(k)
  BY DEF Typed, Return, SameElsewhere
<1>2. /\ Idle(r).pc = "idle" /\ Idle(r).ids = <<>> /\ Idle(r).queue = <<>>
      /\ Idle(r).result = r /\ Idle("answers").result = "answers"
  BY DEF Idle
<1> QED
  BY <1>1, <1>2

(* Assign appends the counter to the ids of its call.                      *)
LEMMA AssignRecord ==
    ASSUME Typed, NEW k \in Caller, Assign(k)
    PROVE  /\ SameElsewhere(k) /\ call'[k].pc = "insert"
           /\ call'[k].ids = Append(call[k].ids, lastId)
           /\ call'[k].queue = call[k].queue
<1> DEFINE r1 == [call[k] EXCEPT !.ids = Append(@, lastId)]
           r2 == [r1 EXCEPT !.todo = @ - 1]
           r == [r2 EXCEPT !.pc = "insert"]
<1>1. call[k] \in CallRecord
  BY DEF Typed
<1>2. call' = [call EXCEPT ![k] = r]
  BY DEF Assign, Typed
<1>3. /\ r.pc = "insert" /\ r.ids = Append(call[k].ids, lastId)
      /\ r.queue = call[k].queue
  BY <1>1 DEF CallRecord
<1> HIDE DEF r
<1> QED
  BY <1>2, <1>3 DEF Typed, SameElsewhere

(* An acknowledgement keeps every subscription, and calls that do not wait *)
(* for it altogether.                                                      *)
LEMMA AcknowledgeSubscription ==
    ASSUME Typed, NEW e, NEW r, Acknowledge(e, r), NEW k \in Caller
    PROVE  /\ call'[k].queue = call[k].queue /\ call'[k].missing = call[k].missing
           /\ call[k].pc # "waitAck" => call'[k] = call[k]
BY DEF Typed, CallRecord, Acknowledge, At

(* What is broadcast enters subscriptions, and nothing else does.          *)
LEMMA PublishSubscription ==
    ASSUME Typed, NEW i \in Nat \cup {NoId}, Publish(i), NEW k \in Caller
    PROVE  /\ call[k].pc # "waiting" => call'[k] = call[k]
           /\ call'[k].missing = call[k].missing
           /\ ToSet(call'[k].queue) \subseteq ToSet(call[k].queue) \cup {i}
<1>1. /\ call[k] \in CallRecord /\ call[k].queue \in Seq(Nat \cup {NoId})
      /\ BroadcastCap \in Nat \ {0}
  BY RequestsAssumption DEF Typed, CallRecord
<1>2. CASE ~At(k, "waiting")
  BY <1>2 DEF Publish, At
<1>3. CASE At(k, "waiting") /\ Len(call[k].queue) < BroadcastCap
  <2>1. call'[k] = [call[k] EXCEPT !.queue = Append(@, i)]
    BY <1>3 DEF Publish
  <2>2. /\ call'[k].queue = Append(call[k].queue, i)
        /\ call'[k].missing = call[k].missing
    BY <1>1, <2>1 DEF CallRecord
  <2> QED
    BY <1>1, <1>3, <2>2, ElementsOfAppend DEF At
<1>4. CASE At(k, "waiting") /\ ~(Len(call[k].queue) < BroadcastCap)
  <2> DEFINE rest == Tail(call[k].queue)
             s == Append(rest, i)
             r == [call[k] EXCEPT !.queue = s]
  <2>1. call'[k] = [r EXCEPT !.lagged = TRUE]
    BY <1>4 DEF Publish
  <2>2. call[k].queue # <<>>
    BY <1>1, <1>4
  <2>3. ToSet(s) \subseteq ToSet(call[k].queue) \cup {i}
    <3>1. rest \in Seq(Nat \cup {NoId})
      BY <1>1, <2>2
    <3>2. ToSet(rest) \subseteq ToSet(call[k].queue)
      BY <1>1, <2>2, ElementsOfTail
    <3> HIDE DEF rest
    <3> QED
      BY <3>1, <3>2, ElementsOfAppend
  <2> HIDE DEF s
  <2>4. call'[k].queue = s /\ call'[k].missing = call[k].missing
    BY <1>1, <2>1 DEF CallRecord
  <2> QED
    BY <1>4, <2>3, <2>4 DEF At
<1> QED
  BY <1>2, <1>3, <1>4

-----------------------------------------------------------------------------
(* The invariant holds initially.                                          *)
LEMMA InitInv == Init => RequestsInv
<1> SUFFICES ASSUME Init PROVE RequestsInv
  OBVIOUS
<1>1. Typed
  BY InitTyped
<1>2. \A k \in Caller : /\ call[k].pc = "idle" /\ call[k].ids = <<>>
                        /\ call[k].acked = "pending"
  BY DEF Init, Idle
<1>3. Queued = {} /\ wire = {} /\ inventory = {} /\ chan = <<>>
  BY DEF Init, Queued
<1> QED
  BY <1>1, <1>2, <1>3, ElementsOfEmpty
     DEF RequestsInv, OwnIds, UnsentIds, OnePlace, PendingIsKnown, FailedIds, Unassigned

(* Steps that leave the counter, the inventory and the channel alone.      *)
LEMMA QuietSteps ==
    ASSUME RequestsInv, UNCHANGED <<lastId, inventory, chan>>, wire' \subseteq wire,
           call' \in [Caller -> CallRecord], \A k \in Caller : Moved(k)
    PROVE  RequestsInv'
<1> USE DEF RequestsInv
<1>1. Queued' = Queued
  BY DEF Queued
<1>2. Typed'
  BY DEF Typed
<1>3. \A k \in Caller : ToSet(call'[k].ids) \subseteq ToSet(call[k].ids)
  BY ElementsOfEmpty DEF Moved
<1>4. OwnIds'
  BY <1>3 DEF OwnIds
<1>5. UnsentIds'
  <2> SUFFICES ASSUME NEW k \in Caller, call'[k].pc \in Unassigned
               PROVE  /\ call'[k].acked = "pending"
                      /\ ToSet(call'[k].ids) \cap (wire' \cup Queued') = {}
                      /\ call'[k].pc # "insert" => ToSet(call'[k].ids) \subseteq inventory'
                      /\ call'[k].pc = "insert" =>
                            /\ call'[k].ids # <<>>
                            /\ ToSet(call'[k].ids) \subseteq inventory' \cup {Last(call'[k].ids)}
    BY DEF UnsentIds
  <2>1. CASE call'[k].ids = <<>> /\ call'[k].acked = "pending" /\ call'[k].pc # "insert"
    BY <2>1, ElementsOfEmpty
  <2>2. CASE /\ call'[k].ids = call[k].ids /\ call'[k].pc = call[k].pc
             /\ call'[k].acked = call[k].acked
    BY <1>1, <2>2 DEF UnsentIds
  <2> QED
    BY <2>1, <2>2 DEF Moved
<1>6. OnePlace' /\ PendingIsKnown'
  BY <1>1 DEF OnePlace, PendingIsKnown
<1>7. FailedIds'
  BY <1>1 DEF FailedIds, Moved
<1> QED
  BY <1>2, <1>4, <1>5, <1>6, <1>7

(* A call that begins has no ids yet.                                      *)
LEMMA CallStepInv ==
    ASSUME RequestsInv, NEW k \in Caller, NEW o \in Op, NEW t \in BOOLEAN,
           NEW n \in 0 .. MaxBatch \cup {1}, Call(k, o, t, n)
    PROVE  RequestsInv'
<1> DEFINE r == [Idle("none") EXCEPT !.op = o, !.timed = t, !.todo = n,
                                     !.pc = IF n = 0 THEN "send" ELSE "assign"]
<1>1. n \in Int /\ o \in Op
  BY RequestsAssumption
<1> DEFINE r1 == [Idle("none") EXCEPT !.op = o]
           r2 == [r1 EXCEPT !.timed = t]
           r3 == [r2 EXCEPT !.todo = n]
           p == IF n = 0 THEN "send" ELSE "assign"
<1>2. r1 \in CallRecord /\ r1.ids = <<>> /\ r1.acked = "pending"
  <2>1. /\ Idle("none") \in CallRecord
        /\ Idle("none").ids = <<>> /\ Idle("none").acked = "pending"
    BY IdleTyped DEF Idle, Results
  <2> QED
    BY <1>1, <2>1 DEF CallRecord
<1> HIDE DEF r1
<1>3. /\ r3 \in CallRecord /\ r3.ids = <<>> /\ r3.acked = "pending"
      /\ p \in {"send", "assign"}
  <2>1. r2 \in CallRecord /\ r2.ids = <<>> /\ r2.acked = "pending"
    BY <1>2 DEF CallRecord
  <2> HIDE DEF r2
  <2> QED
    BY <1>1, <2>1 DEF CallRecord
<1>4. /\ r \in CallRecord /\ r.ids = <<>> /\ r.acked = "pending" /\ r.pc # "insert"
  <2>1. r = [r3 EXCEPT !.pc = p]
    BY DEF r1
  <2> HIDE DEF r, r3, p
  <2> QED
    BY <1>3, <2>1 DEF CallRecord
<1>5. call' = [call EXCEPT ![k] = r] /\ UNCHANGED <<lastId, inventory, chan, wire>>
  BY DEF Call
<1> HIDE DEF r
<1>6. call' \in [Caller -> CallRecord] /\ \A j \in Caller : Moved(j)
  BY <1>4, <1>5 DEF RequestsInv, Typed, Moved
<1> QED
  BY <1>5, <1>6, QuietSteps

(* A new id is below the counter, and nobody has it.                       *)
LEMMA AssignStepInv ==
    ASSUME RequestsInv, NEW k \in Caller, Assign(k)
    PROVE  RequestsInv'
<1> USE DEF RequestsInv
<1>1. /\ call' \in [Caller -> CallRecord] /\ SameElsewhere(k)
      /\ call'[k].ids = Append(call[k].ids, lastId)
      /\ call'[k].pc = "insert" /\ call'[k].acked = call[k].acked
  BY AssignEffect
<1>2. lastId' = lastId + 1 /\ UNCHANGED <<inventory, chan, wire>> /\ call[k].pc = "assign"
  BY DEF Assign, At
<1>3. Queued' = Queued
  BY <1>2 DEF Queued
<1>4. /\ ToSet(call'[k].ids) = ToSet(call[k].ids) \cup {lastId}
      /\ Last(call'[k].ids) = lastId /\ call'[k].ids # <<>>
  <2>1. call[k].ids \in Seq(Nat) /\ lastId \in Nat
    BY DEF Typed, CallRecord
  <2> QED
    BY <1>1, <2>1, ElementsOfAppend
<1>5. Typed'
  BY <1>1, <1>2 DEF Typed
<1>6. \A j \in Caller \ {k} : call'[j] = call[j]
  BY <1>1 DEF SameElsewhere
<1>7. lastId \in Nat /\ \A j \in Caller : lastId \notin ToSet(call[j].ids)
  BY DEF Typed, OwnIds
<1>8. lastId \notin wire \cup Queued
  BY <1>7 DEF OwnIds, PendingIsKnown
<1>9. OwnIds'
  <2>0. 0 .. lastId - 1 \subseteq 0 .. lastId' - 1 /\ lastId \in 0 .. lastId' - 1
    BY <1>2, <1>7
  <2>1. inventory' \subseteq 0 .. lastId' - 1
    BY <1>2, <2>0 DEF OwnIds
  <2>2. \A j \in Caller : ToSet(call'[j].ids) \subseteq 0 .. lastId' - 1
    BY <1>4, <1>6, <2>0 DEF OwnIds
  <2>3. ASSUME NEW i \in Caller, NEW j \in Caller, i # j
        PROVE  ToSet(call'[i].ids) \cap ToSet(call'[j].ids) = {}
    BY <1>4, <1>6, <1>7, <2>3 DEF OwnIds
  <2> QED
    BY <2>1, <2>2, <2>3 DEF OwnIds
<1>10. UnsentIds'
  <2>1. /\ call'[k].acked = "pending"
        /\ ToSet(call'[k].ids) \cap (wire' \cup Queued') = {}
        /\ ToSet(call'[k].ids) \subseteq inventory' \cup {Last(call'[k].ids)}
    BY <1>1, <1>2, <1>3, <1>4, <1>8 DEF UnsentIds, Unassigned
  <2> QED
    BY <1>1, <1>2, <1>3, <1>4, <1>6, <2>1 DEF UnsentIds
<1>11. OnePlace' /\ PendingIsKnown'
  BY <1>2, <1>3 DEF OnePlace, PendingIsKnown
<1>12. FailedIds'
  BY <1>1, <1>2, <1>3, <1>4, <1>6, <1>8 DEF FailedIds
<1> QED
  BY <1>5, <1>9, <1>10, <1>11, <1>12

(* The insert files the last id.                                           *)
LEMMA InsertStepInv ==
    ASSUME RequestsInv, NEW k \in Caller, Insert(k)
    PROVE  RequestsInv'
<1> USE DEF RequestsInv
<1>1. \E l \in {"assign", "send"} : Goto(k, l)
  BY DEF Insert
<1>2. /\ call' \in [Caller -> CallRecord] /\ SameElsewhere(k)
      /\ call'[k].pc \in {"assign", "send"}
      /\ call'[k].ids = call[k].ids /\ call'[k].acked = call[k].acked
  BY <1>1, GotoEffect
<1>3. /\ call[k].pc = "insert" /\ inventory' = inventory \cup {Last(call[k].ids)}
      /\ UNCHANGED <<lastId, chan, wire>>
  BY DEF Insert, At
<1>4. Queued' = Queued
  BY <1>3 DEF Queued
<1>5. \A j \in Caller : call'[j].ids = call[j].ids /\ call'[j].acked = call[j].acked
  BY <1>2 DEF SameElsewhere
<1>6. ToSet(call[k].ids) \subseteq inventory' /\ Last(call[k].ids) \in ToSet(call[k].ids)
  <2>1. call[k].ids \in Seq(Nat) /\ call[k].ids # <<>>
    BY <1>3 DEF Typed, CallRecord, UnsentIds, Unassigned
  <2>2. Last(call[k].ids) \in ToSet(call[k].ids)
    BY <2>1 DEF Last, ToSet
  <2> QED
    BY <1>3, <2>2 DEF UnsentIds, Unassigned
<1>7. Typed' /\ OwnIds'
  <2>1. inventory' \subseteq 0 .. lastId' - 1
    BY <1>3, <1>6 DEF OwnIds
  <2>2. OwnIds'
    BY <1>3, <1>5, <2>1 DEF OwnIds
  <2>3. 0 .. lastId' - 1 \subseteq Nat
    BY <1>3 DEF Typed
  <2> QED
    BY <1>2, <1>3, <2>1, <2>2, <2>3 DEF Typed
<1>8. UnsentIds'
  BY <1>2, <1>3, <1>4, <1>5, <1>6 DEF UnsentIds, SameElsewhere, Unassigned
<1>9. OnePlace' /\ PendingIsKnown' /\ FailedIds'
  BY <1>3, <1>4, <1>5 DEF OnePlace, PendingIsKnown, FailedIds
<1> QED
  BY <1>7, <1>8, <1>9

(* Sending moves the ids of a call from the call alone into the channel.   *)
LEMMA SendStepInv ==
    ASSUME RequestsInv, NEW k \in Caller, Send(k)
    PROVE  RequestsInv'
<1> USE DEF RequestsInv
<1>1. call[k].pc = "send" /\ UNCHANGED <<lastId, inventory, wire>>
  BY DEF Send, At
<1>2. CASE Sent(k) /\ UNCHANGED chan
  BY <1>1, <1>2, SentEffect, QuietSteps DEF SameElsewhere, Moved
<1>3. CASE Return(k, "MessageNotSent") /\ UNCHANGED chan
  BY <1>1, <1>3, ReturnEffect, QuietSteps DEF SameElsewhere, Moved, Results
<1>4. ASSUME NEW a \in Caller \cup {Nobody}, chan' = Append(chan, [ids |-> call[k].ids, ack |-> a]),
             Goto(k, "waitAck") \/ Sent(k)
      PROVE  RequestsInv'
  <2> DEFINE e == [ids |-> call[k].ids, ack |-> a]
  <2>1. e \in EventRecord /\ e.ids = call[k].ids
    BY DEF Typed, CallRecord, EventRecord
  <2> HIDE DEF e
  <2>2. /\ Queued' = Queued \cup ToSet(call[k].ids)
        /\ DOMAIN chan' = 1 .. Len(chan) + 1 /\ DOMAIN chan = 1 .. Len(chan)
        /\ \A n \in DOMAIN chan : chan'[n] = chan[n]
        /\ chan'[Len(chan) + 1].ids = call[k].ids
    BY <1>4, <2>1, QueuedAppend DEF e
  <2>3. /\ call' \in [Caller -> CallRecord] /\ SameElsewhere(k)
        /\ call'[k].pc \notin Unassigned
        /\ \/ call'[k].ids = call[k].ids /\ call'[k].acked = call[k].acked
           \/ call'[k].ids = <<>> /\ call'[k].acked = "pending"
    <3>1. CASE Goto(k, "waitAck")
      BY <3>1, GotoEffect DEF Unassigned
    <3>2. CASE Sent(k)
      BY <3>2, SentEffect DEF Moved
    <3> QED
      BY <1>4, <3>1, <3>2
  <2>4. \A j \in Caller \ {k} : call'[j] = call[j]
    BY <2>3 DEF SameElsewhere
  <2>5. ToSet(call'[k].ids) \subseteq ToSet(call[k].ids)
    BY <2>3, ElementsOfEmpty
  <2>6. /\ ToSet(call[k].ids) \cap (wire \cup Queued) = {}
        /\ ToSet(call[k].ids) \subseteq inventory
    BY <1>1 DEF UnsentIds, Unassigned
  <2>7. Typed'
    BY <1>1, <1>4, <2>1, <2>3 DEF Typed, e
  <2>8. OwnIds'
    BY <1>1, <2>4, <2>5 DEF OwnIds
  <2>9. UnsentIds'
    BY <1>1, <2>2, <2>3, <2>4 DEF UnsentIds, OwnIds
  <2>10. \A m \in DOMAIN chan : ToSet(chan[m].ids) \subseteq Queued
    BY DEF Queued
  <2>11. \A n \in DOMAIN chan' : n \in DOMAIN chan \/ n = Len(chan) + 1
    <3>1. Len(chan) \in Nat
      BY DEF Typed
    <3> QED
      BY <2>2, <3>1
  <2>12. OnePlace'
    <3>1. ASSUME NEW m \in DOMAIN chan', NEW n \in DOMAIN chan', m # n
          PROVE  ToSet(chan'[m].ids) \cap ToSet(chan'[n].ids) = {}
      <4>1. CASE m \in DOMAIN chan /\ n \in DOMAIN chan
        BY <2>2, <3>1, <4>1 DEF OnePlace
      <4>2. CASE m = Len(chan) + 1 /\ n \in DOMAIN chan
        BY <2>2, <2>6, <2>10, <4>2
      <4>3. CASE m \in DOMAIN chan /\ n = Len(chan) + 1
        BY <2>2, <2>6, <2>10, <4>3
      <4> QED
        BY <2>11, <3>1, <4>1, <4>2, <4>3
    <3>2. wire' \cap Queued' = {}
      BY <1>1, <2>2, <2>6 DEF OnePlace
    <3> QED
      BY <3>1, <3>2 DEF OnePlace
  <2>13. PendingIsKnown'
    BY <1>1, <2>2, <2>6 DEF PendingIsKnown
  <2>14. FailedIds'
    <3>1. ASSUME NEW j \in Caller \ {k}, call'[j].acked = "failed"
          PROVE  ToSet(call'[j].ids) \cap (wire' \cup Queued') = {}
      BY <1>1, <2>2, <2>4, <3>1 DEF FailedIds, OwnIds
    <3>2. call'[k].acked # "failed"
      BY <1>1, <2>3 DEF UnsentIds, Unassigned
    <3> QED
      BY <3>1, <3>2 DEF FailedIds
  <2> QED
    BY <2>7, <2>8, <2>9, <2>12, <2>13, <2>14
<1> QED
  BY <1>2, <1>3, <1>4 DEF Send

(* Writing moves the ids of the oldest event to the server, or nowhere.    *)
LEMMA WriteStepInv ==
    ASSUME RequestsInv, Write
    PROVE  RequestsInv'
<1> USE DEF RequestsInv
<1> DEFINE e == Head(chan)
<1>1. chan # <<>> /\ chan' = Tail(chan) /\ UNCHANGED <<lastId, inventory>>
  BY DEF Write
<1>2. /\ Queued = Queued' \cup ToSet(e.ids) /\ Queued' \cap ToSet(e.ids) = {}
      /\ e \in EventRecord /\ chan' \in Seq(EventRecord)
      /\ \A m, n \in DOMAIN chan' : m # n => ToSet(chan'[m].ids) \cap ToSet(chan'[n].ids) = {}
  BY <1>1, QueuedTail
<1>3. /\ call' \in [Caller -> CallRecord]
      /\ \A k \in Caller :
            /\ call'[k].pc = call[k].pc /\ call'[k].ids = call[k].ids
            /\ \/ call'[k].acked = call[k].acked
               \/ call[k].pc = "waitAck" /\ call'[k].acked = "sent"
  BY AcknowledgeEffect DEF Write
<1>4. wire' \subseteq wire \cup ToSet(e.ids)
  BY DEF Write
<1> HIDE DEF e
<1>5. wire' \cup Queued' \subseteq wire \cup Queued
  BY <1>2, <1>4
<1>6. OwnIds'
  BY <1>1, <1>3 DEF OwnIds
<1>7. Typed'
  <2>1. wire' \subseteq Nat
    BY <1>5, <1>1 DEF PendingIsKnown, Typed
  <2> QED
    BY <1>1, <1>2, <1>3, <2>1 DEF Typed
<1>8. UnsentIds'
  BY <1>1, <1>3, <1>5 DEF UnsentIds, Unassigned
<1>9. OnePlace'
  BY <1>2, <1>4 DEF OnePlace
<1>10. PendingIsKnown' /\ FailedIds'
  BY <1>1, <1>3, <1>5 DEF PendingIsKnown, FailedIds
<1> QED
  BY <1>6, <1>7, <1>8, <1>9, <1>10

(* A failed write moves the ids of the oldest event nowhere.               *)
LEMMA WriteFailsStepInv ==
    ASSUME RequestsInv, WriteFails
    PROVE  RequestsInv'
<1> USE DEF RequestsInv
<1> DEFINE e == Head(chan)
<1>1. chan # <<>> /\ chan' = Tail(chan) /\ UNCHANGED <<lastId, inventory, wire>>
  BY DEF WriteFails
<1>2. /\ Queued = Queued' \cup ToSet(e.ids) /\ Queued' \cap ToSet(e.ids) = {}
      /\ e \in EventRecord /\ chan' \in Seq(EventRecord)
      /\ \A m, n \in DOMAIN chan' : m # n => ToSet(chan'[m].ids) \cap ToSet(chan'[n].ids) = {}
  BY <1>1, QueuedTail
<1>3. /\ call' \in [Caller -> CallRecord]
      /\ \A k \in Caller :
            /\ call'[k].pc = call[k].pc /\ call'[k].ids = call[k].ids
            /\ \/ call'[k].acked = call[k].acked
               \/ /\ call[k].pc = "waitAck" /\ call'[k].acked = "failed"
                  /\ call[k].ids = e.ids
  BY AcknowledgeEffect DEF WriteFails
<1> HIDE DEF e
<1>4. Typed' /\ OwnIds'
  BY <1>1, <1>2, <1>3 DEF Typed, OwnIds
<1>5. UnsentIds'
  BY <1>1, <1>2, <1>3 DEF UnsentIds, Unassigned
<1>6. OnePlace' /\ PendingIsKnown'
  BY <1>1, <1>2 DEF OnePlace, PendingIsKnown
<1>7. FailedIds'
  <2>1. wire \cap ToSet(e.ids) = {}
    BY <1>2 DEF OnePlace
  <2> QED
    BY <1>1, <1>2, <1>3, <2>1 DEF FailedIds
<1> QED
  BY <1>4, <1>5, <1>6, <1>7

(* An answer takes an id from the server and out of the inventory; no call *)
(* and no event still needs it there.                                      *)
LEMMA AnswerStepInv ==
    ASSUME RequestsInv, NEW i \in Id, NEW a \in Answers, Answer(i, a)
    PROVE  RequestsInv'
<1> USE DEF RequestsInv
<1>1. /\ i \in wire /\ wire' = wire \ {i} /\ inventory' = inventory \ {i}
      /\ UNCHANGED <<lastId, chan>>
  BY DEF Answer
<1>2. i \in Nat
  BY RequestsAssumption DEF Id
<1>3. /\ call' \in [Caller -> CallRecord]
      /\ \A k \in Caller : /\ call'[k].pc = call[k].pc /\ call'[k].ids = call[k].ids
                           /\ call'[k].acked = call[k].acked
  <2>1. CASE Publish(i)
    BY <1>2, <2>1, PublishEffect
  <2>2. CASE UNCHANGED call
    BY <2>2 DEF Typed
  <2> QED
    BY <2>1, <2>2 DEF Answer
<1>4. Queued' = Queued /\ i \notin Queued
  BY <1>1 DEF Queued, OnePlace
<1>5. Typed' /\ OwnIds'
  BY <1>1, <1>3 DEF Typed, OwnIds
<1>6. UnsentIds'
  BY <1>1, <1>3, <1>4 DEF UnsentIds
<1>7. OnePlace' /\ PendingIsKnown' /\ FailedIds'
  BY <1>1, <1>3, <1>4 DEF OnePlace, PendingIsKnown, FailedIds
<1> QED
  BY <1>5, <1>6, <1>7

(* The steps that move calls and connections only.                         *)
LEMMA OtherSteps ==
    ASSUME RequestsInv,
           \/ \E k \in Caller : \/ TakeAck(k) \/ AckTimeout(k) \/ Subscribe(k) \/ Receive(k)
                                \/ ReceiveLagged(k) \/ AnswerTimeout(k)
           \/ Notify \/ Reconnect \/ Break \/ CloseLink \/ UNCHANGED vars
    PROVE  RequestsInv'
<1> USE DEF RequestsInv
<1>1. ASSUME NEW k \in Caller, call' \in [Caller -> CallRecord], SameElsewhere(k), Moved(k),
             UNCHANGED <<lastId, inventory, chan, wire>>
      PROVE  RequestsInv'
  BY <1>1, QuietSteps DEF SameElsewhere, Moved
<1>2. ASSUME NEW k \in Caller, NEW r \in Results, Return(k, r),
             UNCHANGED <<lastId, inventory, chan, wire>>
      PROVE  RequestsInv'
  BY <1>1, <1>2, ReturnEffect DEF Moved
<1>3. ASSUME NEW k \in Caller, TakeAck(k) PROVE RequestsInv'
  BY <1>1, <1>2, <1>3, SentEffect DEF TakeAck, Results
<1>4. ASSUME NEW k \in Caller, AckTimeout(k) PROVE RequestsInv'
  BY <1>2, <1>4 DEF AckTimeout, Results
<1>5. ASSUME NEW k \in Caller, Subscribe(k) PROVE RequestsInv'
  <2>1. call' \in [Caller -> CallRecord] /\ SameElsewhere(k) /\ Moved(k)
    BY <1>5, SubscribeEffect DEF Moved, Unassigned
  <2> QED
    BY <1>1, <1>5, <2>1 DEF Subscribe
<1>6. ASSUME NEW k \in Caller, Receive(k) PROVE RequestsInv'
  <2>1. UNCHANGED <<lastId, inventory, chan, wire>>
    BY <1>6 DEF Receive
  <2>2. CASE Return(k, "answers")
    BY <1>2, <2>1, <2>2 DEF Results
  <2>3. CASE ~Return(k, "answers")
    BY <1>1, <1>6, <2>1, <2>3, ReceiveEffect DEF Moved
  <2> QED
    BY <2>2, <2>3
<1>7. ASSUME NEW k \in Caller, ReceiveLagged(k) PROVE RequestsInv'
  <2>1. (IF call[k].op = "call" THEN "InvalidResponse" ELSE "partial") \in Results
    BY DEF Results
  <2> QED
    BY <1>2, <1>7, <2>1 DEF ReceiveLagged
<1>8. ASSUME NEW k \in Caller, AnswerTimeout(k) PROVE RequestsInv'
  BY <1>2, <1>8 DEF AnswerTimeout, Results
<1>9. CASE Notify
  BY <1>9, PublishEffect, QuietSteps DEF Notify, Moved
<1>10. CASE Reconnect \/ Break \/ CloseLink \/ UNCHANGED vars
  <2>1. UNCHANGED <<lastId, inventory, chan, call>> /\ wire' \subseteq wire
    BY <1>10 DEF Reconnect, Break, CloseLink, vars
  <2> QED
    BY <2>1, QuietSteps DEF Typed, Moved
<1> QED
  BY <1>3, <1>4, <1>5, <1>6, <1>7, <1>8, <1>9, <1>10

-----------------------------------------------------------------------------
(* RequestsInv is inductive.                                               *)
LEMMA StepInv == RequestsInv /\ [Next]_vars => RequestsInv'
<1> SUFFICES ASSUME RequestsInv, [Next]_vars PROVE RequestsInv'
  OBVIOUS
<1> QED
  BY CallStepInv, AssignStepInv, InsertStepInv, SendStepInv, WriteStepInv,
     WriteFailsStepInv, AnswerStepInv, OtherSteps DEF Next, CallStep

(* Every reachable state satisfies the invariant.                          *)
THEOREM RequestsInvariant == Spec => []RequestsInv
<1>1. Init => RequestsInv
  BY InitInv
<1>2. RequestsInv /\ [Next]_vars => RequestsInv'
  BY StepInv
<1> QED
  BY <1>1, <1>2, PTL DEF Spec

(* No two calls share an id, and nobody knows the id of a request that was *)
(* not sent (client.rs:560, :604).                                         *)
THEOREM UniqueIds == Spec => []IdsAreUnique
<1>1. RequestsInv => IdsAreUnique
  BY DEF RequestsInv, OwnIds, UnsentIds, IdsAreUnique, Unassigned
<1> QED
  BY <1>1, RequestsInvariant, PTL

(* The answer to whatever is queued or with the server finds its request   *)
(* in the inventory (client.rs:344-347).                                   *)
THEOREM KnownPending == Spec => []PendingIsKnown
<1>1. RequestsInv => PendingIsKnown
  BY DEF RequestsInv
<1> QED
  BY <1>1, RequestsInvariant, PTL

-----------------------------------------------------------------------------
(* A call in progress reports MessageNotSent when the channel refuses its  *)
(* event, or after the sender has reported a failed write.                 *)
LEMMA NotSentSteps ==
    ASSUME RequestsInv, [Next]_vars, NEW k \in Caller, call[k].pc # "idle",
           call'[k].pc = "idle", call'[k].result = "MessageNotSent"
    PROVE  /\ UNCHANGED <<chan, wire>>
           /\ call[k].pc = "send" \/ call[k].acked = "failed"
<1> USE DEF RequestsInv
<1>1. ASSUME NEW j \in Caller, NEW r \in Results, Return(j, r), r # "MessageNotSent" PROVE FALSE
  BY <1>1, ReturnEffect DEF SameElsewhere
<1>2. ASSUME NEW j \in Caller, NEW l, Goto(j, l),
             l \in {"assign", "insert", "send", "waitAck", "subscribe", "waiting"}
      PROVE  FALSE
  BY <1>2, GotoEffect DEF SameElsewhere
<1>3. ASSUME NEW j \in Caller, Sent(j) PROVE FALSE
  BY <1>1, <1>2, <1>3 DEF Sent, Results
<1>4. ASSUME NEW j \in Caller, NEW o \in Op, NEW t \in BOOLEAN,
             NEW n \in 0 .. MaxBatch \cup {1}, Call(j, o, t, n)
      PROVE  FALSE
  BY <1>4 DEF Call, At, Typed
<1>5. ASSUME NEW j \in Caller, Assign(j) PROVE FALSE
  BY <1>5, AssignEffect DEF SameElsewhere
<1>6. ASSUME NEW j \in Caller, Insert(j) PROVE FALSE
  <2>1. \E l \in {"assign", "send"} : Goto(j, l)
    BY <1>6 DEF Insert
  <2> QED
    BY <1>2, <2>1
<1>7. ASSUME NEW j \in Caller, Send(j)
      PROVE  UNCHANGED <<chan, wire>> /\ call[k].pc = "send"
  <2>1. CASE Return(j, "MessageNotSent") /\ UNCHANGED chan
    BY <1>7, <2>1, ReturnEffect DEF Send, At, SameElsewhere, Results
  <2>2. CASE Sent(j) \/ Goto(j, "waitAck")
    BY <1>2, <1>3, <2>2
  <2> QED
    BY <1>7, <2>1, <2>2 DEF Send
<1>8. ASSUME NEW j \in Caller, TakeAck(j)
      PROVE  UNCHANGED <<chan, wire>> /\ call[k].acked = "failed"
  <2>1. CASE Sent(j)
    BY <1>3, <2>1
  <2>2. CASE Return(j, "MessageNotSent") /\ call[j].acked # "sent"
    <3>1. j = k
      BY <2>2, ReturnEffect DEF SameElsewhere, Results
    <3>2. call[j].acked \in {"pending", "sent", "failed"}
      BY DEF Typed, CallRecord
    <3> QED
      BY <1>8, <2>2, <3>1, <3>2 DEF TakeAck
  <2> QED
    BY <1>8, <2>1, <2>2 DEF TakeAck
<1>9. ASSUME NEW j \in Caller, AckTimeout(j) \/ AnswerTimeout(j) PROVE FALSE
  BY <1>1, <1>9 DEF AckTimeout, AnswerTimeout, Results
<1>10. ASSUME NEW j \in Caller, ReceiveLagged(j) PROVE FALSE
  BY <1>1, <1>10 DEF ReceiveLagged, Results
<1>11. ASSUME NEW j \in Caller, Subscribe(j) PROVE FALSE
  BY <1>11, SubscribeEffect DEF SameElsewhere
<1>12. ASSUME NEW j \in Caller, Receive(j) PROVE FALSE
  <2>1. CASE Return(j, "answers")
    BY <1>1, <2>1 DEF Results
  <2>2. CASE ~Return(j, "answers")
    BY <1>12, <2>2, ReceiveEffect DEF SameElsewhere
  <2> QED
    BY <2>1, <2>2
<1>13. ASSUME Write PROVE FALSE
  BY <1>13, AcknowledgeEffect DEF Write
<1>14. ASSUME WriteFails PROVE FALSE
  BY <1>14, AcknowledgeEffect DEF WriteFails
<1>15. ASSUME NEW i \in Id, NEW a \in Answers, Answer(i, a) PROVE FALSE
  <2>1. i \in Nat
    BY RequestsAssumption DEF Id
  <2> QED
    BY <1>15, <2>1, PublishEffect DEF Answer
<1>16. ASSUME Notify PROVE FALSE
  BY <1>16, PublishEffect DEF Notify
<1>17. ASSUME Reconnect \/ Break \/ CloseLink \/ UNCHANGED vars PROVE FALSE
  BY <1>17 DEF Reconnect, Break, CloseLink, vars
<1> QED
  BY <1>4, <1>5, <1>6, <1>7, <1>8, <1>9, <1>10, <1>11, <1>12, <1>13, <1>14,
     <1>15, <1>16, <1>17 DEF Next, CallStep

(* A call that reports MessageNotSent leaves nothing behind that is, or    *)
(* could still be, written (client.rs:571, :580, :618, :625).              *)
THEOREM NotSentNeverWritten == Spec => NotSentIsNotWritten
<1>1. ASSUME RequestsInv, [Next]_vars, NEW k \in Caller, Active(k),
             call'[k] = Idle("MessageNotSent")
      PROVE  ToSet(call[k].ids) \cap wire' = {} /\ ToSet(call[k].ids) \cap Queued' = {}
  <2>1. /\ call[k].pc # "idle" /\ call'[k].pc = "idle"
        /\ call'[k].result = "MessageNotSent"
    BY <1>1 DEF Active, At, Idle
  <2>2. /\ wire' = wire /\ Queued' = Queued
        /\ call[k].pc = "send" \/ call[k].acked = "failed"
    BY <1>1, <2>1, NotSentSteps DEF Queued
  <2> QED
    BY <1>1, <2>2 DEF RequestsInv, UnsentIds, FailedIds, Unassigned
<1>2. RequestsInv /\ [Next]_vars
        => \A k \in Caller :
              Active(k) /\ call'[k] = Idle("MessageNotSent") =>
                  /\ ToSet(call[k].ids) \cap wire' = {}
                  /\ ToSet(call[k].ids) \cap Queued' = {}
  BY <1>1
<1> QED
  BY <1>2, RequestsInvariant, PTL DEF Spec, NotSentIsNotWritten

(* What leaves the channel never enters it again (client.rs:413, :536).    *)
THEOREM NothingResent == Spec => NeverResent
<1>1. ASSUME RequestsInv, [Next]_vars, NEW i \in 0 .. lastId - 1, i \notin Queued \cup Unsent
      PROVE  i \notin Queued'
  <2> USE DEF RequestsInv
  <2>1. CASE UNCHANGED chan
    BY <1>1, <2>1 DEF Queued
  <2>2. CASE Write \/ WriteFails
    BY <1>1, <2>2, QueuedTail DEF Write, WriteFails
  <2>3. ASSUME NEW k \in Caller, Send(k), ~UNCHANGED chan PROVE i \notin Queued'
    <3> DEFINE a == IF call[k].timed THEN k ELSE Nobody
               e == [ids |-> call[k].ids, ack |-> a]
    <3>1. chan' = Append(chan, e)
      BY <2>3 DEF Send
    <3>2. a \in Caller \cup {Nobody} /\ call[k].ids \in Seq(Nat)
      BY <1>1 DEF Typed, CallRecord
    <3> HIDE DEF a
    <3>3. e \in EventRecord /\ e.ids = call[k].ids
      BY <3>2 DEF EventRecord
    <3> HIDE DEF e
    <3>4. Queued' = Queued \cup ToSet(call[k].ids)
      BY <1>1, <3>1, <3>3, QueuedAppend
    <3>5. ToSet(call[k].ids) \subseteq Unsent
      BY <2>3 DEF Send, At, Unsent
    <3> QED
      BY <1>1, <3>4, <3>5
  <2>4. UNCHANGED chan \/ Write \/ WriteFails \/ \E k \in Caller : Send(k)
    BY <1>1 DEF Next, CallStep, Call, Assign, Insert, TakeAck, Subscribe, Receive, ReceiveLagged,
                AckTimeout, AnswerTimeout, Answer, Notify, Reconnect, Break, CloseLink, vars
  <2> QED
    BY <2>1, <2>2, <2>3, <2>4
<1>2. RequestsInv /\ [Next]_vars
        => \A i \in 0 .. lastId - 1 : i \notin Queued \cup Unsent => i \notin Queued'
  BY <1>1
<1> QED
  BY <1>2, RequestsInvariant, PTL DEF Spec, NeverResent

-----------------------------------------------------------------------------
(* The bounds of TypeOK.                                                   *)

(* A call that needs an id has a request for it; what a call waits for and *)
(* what was broadcast to it are ids of the counter.                        *)
CallBounds(k) ==
    /\ call[k].todo \in 0 .. MaxBatch \cup {1}
    /\ call[k].pc = "assign" => call[k].todo > 0
    /\ call[k].missing \subseteq 0 .. lastId - 1
    /\ ToSet(call[k].queue) \subseteq (0 .. lastId - 1) \cup {NoId}
    /\ Len(call[k].queue) <= BroadcastCap

(* Every request made has an id or is still to get one, within MaxId.      *)
IdBounds == IsFiniteSet(Unnumbered) /\ lastId + Cardinality(Unnumbered) <= MaxId

Bounds ==
    /\ IdBounds
    /\ link \in {"down", "up", "broken"} /\ Len(chan) <= ChanCap
    /\ \A k \in Caller : CallBounds(k)

(* With no more requests to number the counter stays within its bound.     *)
LEMMA FewerUnnumbered ==
    ASSUME Typed, IdBounds, lastId' = lastId,
           \A k \in Caller : call'[k].todo \in Int /\ call'[k].todo <= call[k].todo
    PROVE  IdBounds'
<1>1. Unnumbered' \subseteq Unnumbered
  BY RequestsAssumption DEF Unnumbered, Typed, CallRecord
<1>2. IsFiniteSet(Unnumbered') /\ Cardinality(Unnumbered') <= Cardinality(Unnumbered)
  BY <1>1, FS_Subset DEF IdBounds
<1>3. Cardinality(Unnumbered') \in Nat /\ Cardinality(Unnumbered) \in Nat
  BY <1>2, FS_CardinalityType DEF IdBounds
<1> QED
  BY <1>2, <1>3, RequestsAssumption DEF IdBounds, Typed

(* Steps that number nothing and leave the link and the channel in bounds. *)
LEMMA QuietBounds ==
    ASSUME Typed, Typed', Bounds, lastId' = lastId, link' \in {"down", "up", "broken"},
           Len(chan') <= ChanCap,
           \A k \in Caller : CallBounds(k)' /\ call'[k].todo <= call[k].todo
    PROVE  Bounds'
<1>1. \A k \in Caller : call'[k].todo \in Int
  BY DEF Typed, CallRecord
<1> QED
  BY <1>1, FewerUnnumbered DEF Bounds

(* What the operators on calls do to the number of requests.               *)
LEMMA GotoTodo ==
    ASSUME Typed, NEW k \in Caller, NEW l, Goto(k, l)
    PROVE  call'[k].todo = call[k].todo
BY DEF Goto, Typed, CallRecord

(* Every id assigned leaves one request less.                              *)
LEMMA AssignTodo ==
    ASSUME Typed, NEW k \in Caller, Assign(k)
    PROVE  /\ call'[k].todo = call[k].todo - 1 /\ call'[k].missing = call[k].missing
           /\ call'[k].queue = call[k].queue
<1> DEFINE r1 == [call[k] EXCEPT !.ids = Append(@, lastId)]
           r2 == [r1 EXCEPT !.todo = @ - 1]
           r == [r2 EXCEPT !.pc = "insert"]
<1>1. call[k] \in CallRecord
  BY DEF Typed
<1>2. call' = [call EXCEPT ![k] = r]
  BY DEF Assign, Typed
<1>3. r.todo = call[k].todo - 1 /\ r.missing = call[k].missing /\ r.queue = call[k].queue
  BY <1>1 DEF CallRecord
<1> HIDE DEF r
<1> QED
  BY <1>2, <1>3 DEF Typed

(* A subscription leaves the requests alone.                               *)
LEMMA SubscribeTodo ==
    ASSUME Typed, NEW k \in Caller, Subscribe(k)
    PROVE  call'[k].todo = call[k].todo
<1> DEFINE r1 == [call[k] EXCEPT !.missing = ToSet(call[k].ids)]
           r == [r1 EXCEPT !.pc = "waiting"]
<1>1. call[k] \in CallRecord
  BY DEF Typed
<1>2. call' = [call EXCEPT ![k] = r]
  BY DEF Subscribe, Typed
<1>3. r.todo = call[k].todo
  BY <1>1 DEF CallRecord
<1> HIDE DEF r
<1> QED
  BY <1>2, <1>3 DEF Typed

(* So does an answer received.                                             *)
LEMMA ReceiveTodo ==
    ASSUME Typed, NEW k \in Caller, Receive(k), ~Return(k, "answers")
    PROVE  call'[k].todo = call[k].todo
<1> DEFINE r1 == [call[k] EXCEPT !.missing = call[k].missing \ {Head(call[k].queue)}]
           r == [r1 EXCEPT !.queue = Tail(@)]
<1>1. call[k] \in CallRecord
  BY DEF Typed
<1>2. call' = [call EXCEPT ![k] = r]
  BY DEF Receive, Typed
<1>3. r.todo = call[k].todo
  BY <1>1 DEF CallRecord
<1> HIDE DEF r
<1> QED
  BY <1>2, <1>3 DEF Typed

(* So does an acknowledgement.                                             *)
LEMMA AcknowledgeTodo ==
    ASSUME Typed, NEW e, NEW r, Acknowledge(e, r), NEW k \in Caller
    PROVE  call'[k].todo = call[k].todo
BY DEF Typed, CallRecord, Acknowledge, At

(* What is broadcast fits into the subscription.                           *)
LEMMA PublishBounds ==
    ASSUME Typed, NEW i \in Nat \cup {NoId}, Publish(i), NEW k \in Caller,
           Len(call[k].queue) <= BroadcastCap
    PROVE  call'[k].todo = call[k].todo /\ Len(call'[k].queue) <= BroadcastCap
<1>1. /\ call[k] \in CallRecord /\ call[k].queue \in Seq(Nat \cup {NoId})
      /\ Len(call[k].queue) \in Nat /\ BroadcastCap \in Nat \ {0}
  BY RequestsAssumption DEF Typed, CallRecord
<1>2. CASE ~At(k, "waiting")
  BY <1>2 DEF Publish
<1>3. CASE At(k, "waiting") /\ Len(call[k].queue) < BroadcastCap
  <2>1. call'[k] = [call[k] EXCEPT !.queue = Append(@, i)]
    BY <1>3 DEF Publish
  <2>2. call'[k].queue = Append(call[k].queue, i) /\ call'[k].todo = call[k].todo
    BY <1>1, <2>1 DEF CallRecord
  <2>3. Len(Append(call[k].queue, i)) = Len(call[k].queue) + 1
    BY <1>1
  <2> QED
    BY <1>1, <1>3, <2>2, <2>3
<1>4. CASE At(k, "waiting") /\ ~(Len(call[k].queue) < BroadcastCap)
  <2> DEFINE s == Append(Tail(call[k].queue), i)
             r == [call[k] EXCEPT !.queue = s]
  <2>1. call'[k] = [r EXCEPT !.lagged = TRUE]
    BY <1>4 DEF Publish
  <2>2. call[k].queue # <<>>
    BY <1>1, <1>4
  <2>3. Len(s) = Len(call[k].queue)
    <3>1. Tail(call[k].queue) \in Seq(Nat \cup {NoId})
      BY <1>1, <2>2
    <3>2. Len(Tail(call[k].queue)) = Len(call[k].queue) - 1
      BY <1>1, <2>2
    <3>3. Len(s) = Len(Tail(call[k].queue)) + 1
      BY <3>1
    <3> QED
      BY <1>1, <3>2, <3>3
  <2> HIDE DEF s
  <2>4. call'[k].queue = s /\ call'[k].todo = call[k].todo
    BY <1>1, <2>1 DEF CallRecord
  <2> QED
    BY <2>3, <2>4
<1> QED
  BY <1>2, <1>3, <1>4

(* A new call has the requests it was made with, and IdsLeft room for them.*)
LEMMA CallBounded ==
    ASSUME RequestsInv, Bounds, NEW k \in Caller, NEW o \in Op, NEW t \in BOOLEAN,
           NEW n \in 0 .. MaxBatch \cup {1}, Call(k, o, t, n)
    PROVE  Bounds'
<1> DEFINE p == IF n = 0 THEN "send" ELSE "assign"
           r == [Idle("none") EXCEPT !.op = o, !.timed = t, !.todo = n, !.pc = p]
           New == {k} \X (1 .. n)
<1>t. Typed /\ n \in Nat
  BY RequestsAssumption DEF RequestsInv
<1>1. /\ call' = [call EXCEPT ![k] = r] /\ IdsLeft(n)
      /\ UNCHANGED <<lastId, chan, link>>
  BY DEF Call
<1>2. /\ r.pc = p /\ r.todo = n /\ r.queue = <<>> /\ r.missing = {}
      /\ p = "assign" => n > 0
  BY <1>t DEF Idle
<1> HIDE DEF r, p
<1>3. call'[k] = r /\ \A j \in Caller \ {k} : call'[j] = call[j]
  BY <1>1, <1>t DEF Typed
<1>4. IsFiniteSet(New) /\ Cardinality(New) = n
  <2>1. IsFiniteSet(1 .. n) /\ Cardinality(1 .. n) = n
    BY <1>t, FS_Interval
  <2>2. IsFiniteSet({k}) /\ Cardinality({k}) = 1
    BY FS_Singleton
  <2> QED
    BY <1>t, <2>1, <2>2, FS_Product
<1>5. Unnumbered' \subseteq Unnumbered \cup New
  <2> SUFFICES ASSUME NEW q \in Unnumbered' PROVE q \in Unnumbered \cup New
    OBVIOUS
  <2>1. q \in Caller \X (1 .. MaxBatch \cup {1}) /\ q[2] <= call'[q[1]].todo
    BY DEF Unnumbered
  <2>2. CASE q[1] = k
    <3>1. q[2] \in 1 .. n
      BY <1>2, <1>3, <1>t, <2>1, <2>2, RequestsAssumption
    <3> QED
      BY <2>1, <2>2, <3>1
  <2>3. CASE q[1] # k
    BY <1>3, <2>1, <2>3 DEF Unnumbered
  <2> QED
    BY <2>2, <2>3
<1> HIDE DEF New
<1>6. /\ IsFiniteSet(Unnumbered') /\ Cardinality(Unnumbered') \in Nat
      /\ Cardinality(Unnumbered') <= Cardinality(Unnumbered) + n
  <2>1. IsFiniteSet(Unnumbered)
    BY DEF Bounds, IdBounds
  <2>2. /\ IsFiniteSet(Unnumbered \cup New)
        /\ Cardinality(Unnumbered \cup New)
             = Cardinality(Unnumbered) + n - Cardinality(Unnumbered \cap New)
    BY <1>4, <2>1, FS_Union
  <2>3. Cardinality(Unnumbered \cap New) \in Nat /\ Cardinality(Unnumbered) \in Nat
    BY <2>1, FS_Intersection, FS_CardinalityType
  <2>4. /\ IsFiniteSet(Unnumbered')
        /\ Cardinality(Unnumbered') <= Cardinality(Unnumbered \cup New)
    BY <1>5, <2>2, FS_Subset
  <2>5. Cardinality(Unnumbered') \in Nat
    BY <2>4, FS_CardinalityType
  <2> QED
    BY <1>t, <2>2, <2>3, <2>4, <2>5
<1>7. IdBounds'
  <2>1. lastId + Cardinality(Unnumbered) + n <= MaxId
    BY <1>1 DEF IdsLeft
  <2>2. Cardinality(Unnumbered) \in Nat
    BY FS_CardinalityType DEF Bounds, IdBounds
  <2> QED
    BY <1>1, <1>6, <1>t, <2>1, <2>2, RequestsAssumption DEF IdBounds, Typed
<1>8. \A j \in Caller : CallBounds(j)'
  <2>1. CallBounds(k)'
    BY <1>2, <1>3, <1>t, ElementsOfEmpty, RequestsAssumption DEF CallBounds
  <2>2. ASSUME NEW j \in Caller \ {k} PROVE CallBounds(j)'
    BY <1>1, <1>3, <2>2 DEF Bounds, CallBounds
  <2> QED
    BY <2>1, <2>2
<1> QED
  BY <1>1, <1>7, <1>8 DEF Bounds

(* An id taken from the counter numbers one request.                       *)
LEMMA AssignBounded ==
    ASSUME RequestsInv, Bounds, NEW k \in Caller, Assign(k)
    PROVE  Bounds'
<1> DEFINE q == <<k, call[k].todo>>
<1>t. Typed /\ lastId \in Nat /\ call[k].pc = "assign" /\ call[k].todo \in Int
  BY DEF RequestsInv, Typed, CallRecord, Assign, At
<1>1. /\ lastId' = lastId + 1 /\ UNCHANGED <<chan, link>> /\ SameElsewhere(k)
      /\ call'[k].pc = "insert" /\ call'[k].todo = call[k].todo - 1
      /\ call'[k].missing = call[k].missing /\ call'[k].queue = call[k].queue
  BY <1>t, AssignRecord, AssignTodo DEF Assign
<1>2. call[k].todo \in 1 .. MaxBatch \cup {1}
  BY <1>t, RequestsAssumption DEF Bounds, CallBounds
<1>3. q \in Unnumbered
  BY <1>2, RequestsAssumption DEF Unnumbered
<1>4. Unnumbered' \subseteq Unnumbered \ {q}
  <2> SUFFICES ASSUME NEW x \in Unnumbered' PROVE x \in Unnumbered \ {q}
    OBVIOUS
  <2>1. x \in Caller \X (1 .. MaxBatch \cup {1}) /\ x[2] <= call'[x[1]].todo
    BY DEF Unnumbered
  <2>2. CASE x[1] = k
    BY <1>1, <1>t, <2>1, <2>2, RequestsAssumption DEF Unnumbered
  <2>3. CASE x[1] # k
    BY <1>1, <2>1, <2>3 DEF Unnumbered, SameElsewhere
  <2> QED
    BY <2>2, <2>3
<1> HIDE DEF q
<1>5. IdBounds'
  <2>1. IsFiniteSet(Unnumbered) /\ Cardinality(Unnumbered) \in Nat
    BY FS_CardinalityType DEF Bounds, IdBounds
  <2>2. /\ IsFiniteSet(Unnumbered \ {q})
        /\ Cardinality(Unnumbered \ {q}) = Cardinality(Unnumbered) - 1
    BY <1>3, <2>1, FS_RemoveElement
  <2>3. /\ IsFiniteSet(Unnumbered') /\ Cardinality(Unnumbered') \in Nat
        /\ Cardinality(Unnumbered') <= Cardinality(Unnumbered \ {q})
    BY <1>4, <2>2, FS_Subset, FS_CardinalityType
  <2> QED
    BY <1>1, <1>t, <2>1, <2>2, <2>3, RequestsAssumption DEF Bounds, IdBounds
<1>6. ASSUME NEW j \in Caller PROVE CallBounds(j)'
  <2>1. /\ call'[j].missing = call[j].missing /\ call'[j].queue = call[j].queue
        /\ call'[j].pc = "assign" => call[j].pc = "assign" /\ j # k
        /\ j # k => call'[j].todo = call[j].todo
    BY <1>1 DEF SameElsewhere
  <2>2. call'[j].todo \in 0 .. MaxBatch \cup {1}
    BY <1>1, <1>2, <2>1, RequestsAssumption DEF Bounds, CallBounds
  <2>3. 0 .. lastId - 1 \subseteq 0 .. lastId' - 1
    BY <1>1, <1>t
  <2> QED
    BY <2>1, <2>2, <2>3 DEF Bounds, CallBounds
<1> QED
  BY <1>1, <1>5, <1>6 DEF Bounds

(* The other steps of a call, none of which numbers a request.             *)
LEMMA CallStepBounded ==
    ASSUME RequestsInv, RequestsInv', Bounds, NEW k \in Caller, CallStep(k), ~Assign(k)
    PROVE  Bounds'
<1>t. Typed /\ Typed' /\ CallBounds(k) /\ call[k].todo \in Int /\ lastId \in Nat
  BY DEF RequestsInv, Bounds, Typed, CallRecord
<1>1. lastId' = lastId /\ link' = link
  BY DEF CallStep, Insert, Send, TakeAck, Subscribe, Receive, ReceiveLagged, AckTimeout,
         AnswerTimeout
<1>2. ASSUME Len(chan') <= ChanCap, SameElsewhere(k), CallBounds(k)',
             call'[k].todo <= call[k].todo
      PROVE  Bounds'
  <2>1. ASSUME NEW j \in Caller PROVE CallBounds(j)' /\ call'[j].todo <= call[j].todo
    <3>1. CASE j = k
      BY <1>2, <3>1
    <3>2. CASE j # k
      <4>1. call'[j] = call[j]
        BY <1>2, <3>2 DEF SameElsewhere
      <4>2. call[j].todo \in Int
        BY <1>t DEF Typed, CallRecord
      <4> QED
        BY <1>1, <4>1, <4>2 DEF Bounds, CallBounds
    <3> QED
      BY <3>1, <3>2
  <2> QED
    BY <1>1, <1>2, <1>t, <2>1, QuietBounds DEF Bounds
<1>3. ASSUME NEW r \in Results, Return(k, r), Len(chan') <= ChanCap
      PROVE  Bounds'
  <2>1. /\ call'[k] = Idle(r) /\ SameElsewhere(k)
        /\ Idle(r).pc = "idle" /\ Idle(r).todo = 0 /\ Idle(r).queue = <<>> /\ Idle(r).missing = {}
    BY <1>3, <1>t, ReturnRecord DEF Idle
  <2>2. CallBounds(k)' /\ call'[k].todo <= call[k].todo
    BY <1>t, <2>1, ElementsOfEmpty, RequestsAssumption DEF CallBounds
  <2> QED
    BY <1>2, <1>3, <2>1, <2>2
<1>4. ASSUME NEW l \in {"assign", "send", "waitAck", "subscribe"}, Goto(k, l),
             l = "assign" => call[k].todo > 0, Len(chan') <= ChanCap
      PROVE  Bounds'
  <2>1. /\ SameElsewhere(k) /\ call'[k].pc = l /\ call'[k].todo = call[k].todo
        /\ call'[k].queue = call[k].queue /\ call'[k].missing = call[k].missing
    BY <1>4, <1>t, GotoEffect, GotoSubscription, GotoTodo
  <2>2. CallBounds(k)'
    BY <1>1, <1>4, <1>t, <2>1 DEF CallBounds
  <2> QED
    BY <1>2, <1>4, <1>t, <2>1, <2>2
<1>5. CASE Subscribe(k)
  <2>1. /\ SameElsewhere(k) /\ call'[k].pc = "waiting" /\ call'[k].todo = call[k].todo
        /\ call'[k].queue = call[k].queue /\ call'[k].missing = ToSet(call[k].ids)
        /\ chan' = chan
    BY <1>5, <1>t, SubscribeEffect, SubscribeTodo DEF Subscribe
  <2>2. ToSet(call[k].ids) \subseteq 0 .. lastId - 1
    BY DEF RequestsInv, OwnIds
  <2>3. CallBounds(k)'
    BY <1>1, <1>t, <2>1, <2>2 DEF CallBounds
  <2> QED
    BY <1>2, <1>t, <2>1, <2>3 DEF Bounds
<1>6. CASE Receive(k) /\ ~Return(k, "answers")
  <2>1. /\ SameElsewhere(k) /\ call'[k].pc = "waiting" /\ call'[k].todo = call[k].todo
        /\ call'[k].queue = Tail(call[k].queue) /\ call'[k].missing \subseteq call[k].missing
        /\ chan' = chan /\ call[k].queue # <<>> /\ call[k].queue \in Seq(Nat \cup {NoId})
    BY <1>6, <1>t, ReceiveEffect, ReceiveTodo DEF Receive
  <2>2. /\ ToSet(Tail(call[k].queue)) \subseteq ToSet(call[k].queue)
        /\ Len(Tail(call[k].queue)) = Len(call[k].queue) - 1
        /\ Len(call[k].queue) \in Nat
    BY <2>1, ElementsOfTail
  <2>3. CallBounds(k)'
    BY <1>1, <1>t, <2>1, <2>2, RequestsAssumption DEF CallBounds
  <2> QED
    BY <1>2, <1>t, <2>1, <2>3 DEF Bounds
<1>7. CASE Insert(k)
  <2>1. chan' = chan
    BY <1>7 DEF Insert
  <2>2. CASE call[k].todo > 0
    BY <1>4, <1>7, <2>1, <2>2 DEF Insert, Bounds
  <2>3. CASE ~(call[k].todo > 0)
    BY <1>4, <1>7, <2>1, <2>3 DEF Insert, Bounds
  <2> QED
    BY <2>2, <2>3
<1>8. CASE Send(k)
  <2>1. Len(chan') <= ChanCap
    <3>1. CASE chan' = chan
      BY <3>1 DEF Bounds
    <3>2. CASE chan' # chan
      <4>1. PICK e : chan' = Append(chan, e) /\ Len(chan) < ChanCap
        BY <1>8, <3>2 DEF Send
      <4>2. Len(chan) \in Nat /\ Len(chan') = Len(chan) + 1
        BY <1>t, <4>1 DEF Typed
      <4> QED
        BY <4>1, <4>2, RequestsAssumption
    <3> QED
      BY <3>1, <3>2
  <2>2. \/ \E r \in Results : Return(k, r)
        \/ Goto(k, "waitAck") \/ Goto(k, "subscribe")
    BY <1>8 DEF Send, Sent, Results
  <2> QED
    BY <1>3, <1>4, <2>1, <2>2
<1>9. CASE \/ TakeAck(k) \/ ReceiveLagged(k) \/ AckTimeout(k) \/ AnswerTimeout(k)
           \/ (Receive(k) /\ Return(k, "answers"))
  <2>1. chan' = chan
    BY <1>9 DEF TakeAck, ReceiveLagged, AckTimeout, AnswerTimeout, Receive
  <2>2. Goto(k, "subscribe") \/ \E r \in Results : Return(k, r)
    BY <1>9 DEF TakeAck, ReceiveLagged, AckTimeout, AnswerTimeout, Sent, Results
  <2> QED
    BY <1>3, <1>4, <2>1, <2>2 DEF Bounds
<1> QED
  BY <1>5, <1>6, <1>7, <1>8, <1>9 DEF CallStep

(* What the sender, the receiver and the network do.                       *)
LEMMA LinkStepBounded ==
    ASSUME RequestsInv, RequestsInv', Bounds,
           \/ Write \/ WriteFails \/ Notify \/ Reconnect \/ Break \/ CloseLink \/ UNCHANGED vars
           \/ \E i \in Id, a \in Answers : Answer(i, a)
    PROVE  Bounds'
<1>t. Typed /\ Typed' /\ lastId \in Nat /\ \A k \in Caller : call[k].todo \in Int
  BY DEF RequestsInv, Typed, CallRecord
<1>1. lastId' = lastId
  BY DEF Write, WriteFails, Notify, Reconnect, Break, CloseLink, Answer, vars
<1>2. link' \in {"down", "up", "broken"}
  BY DEF Bounds, Write, WriteFails, Notify, Reconnect, Break, CloseLink, Answer, vars
<1>3. Len(chan') <= ChanCap
  <2>1. CASE chan' = chan
    BY <2>1 DEF Bounds
  <2>2. CASE chan # <<>> /\ chan' = Tail(chan)
    <3>1. Len(chan) \in Nat /\ Len(Tail(chan)) = Len(chan) - 1
      BY <1>t, <2>2 DEF Typed
    <3> QED
      BY <2>2, <3>1, RequestsAssumption DEF Bounds
  <2> QED
    BY <2>1, <2>2 DEF Write, WriteFails, Notify, Reconnect, Break, CloseLink, Answer, vars
<1>4. ASSUME \A k \in Caller : CallBounds(k)' /\ call'[k].todo <= call[k].todo
      PROVE  Bounds'
  BY <1>1, <1>2, <1>3, <1>4, <1>t, QuietBounds
<1>5. CASE UNCHANGED call
  BY <1>1, <1>4, <1>5, <1>t DEF Bounds, CallBounds
<1>6. ASSUME NEW i \in (0 .. lastId - 1) \cup {NoId}, Publish(i) PROVE Bounds'
  <2>1. ASSUME NEW k \in Caller PROVE CallBounds(k)' /\ call'[k].todo <= call[k].todo
    <3>1. i \in Nat \cup {NoId} /\ CallBounds(k)
      BY <1>6, <1>t DEF Bounds
    <3>2. /\ call'[k].pc = call[k].pc /\ call'[k].missing = call[k].missing
          /\ ToSet(call'[k].queue) \subseteq ToSet(call[k].queue) \cup {i}
      BY <1>6, <1>t, <3>1, PublishEffect, PublishSubscription
    <3>3. call'[k].todo = call[k].todo /\ Len(call'[k].queue) <= BroadcastCap
      BY <1>6, <1>t, <3>1, PublishBounds DEF CallBounds
    <3>4. CallBounds(k)'
      BY <1>1, <1>6, <3>1, <3>2, <3>3 DEF CallBounds
    <3> QED
      BY <1>t, <3>3, <3>4
  <2> QED
    BY <1>4, <2>1
<1>7. ASSUME NEW e, NEW r \in {"sent", "failed"}, Acknowledge(e, r) PROVE Bounds'
  <2>1. ASSUME NEW k \in Caller PROVE CallBounds(k)' /\ call'[k].todo <= call[k].todo
    <3>1. /\ call'[k].pc = call[k].pc /\ call'[k].missing = call[k].missing
          /\ call'[k].queue = call[k].queue /\ call'[k].todo = call[k].todo
      BY <1>7, <1>t, AcknowledgeEffect, AcknowledgeSubscription, AcknowledgeTodo
    <3> QED
      BY <1>1, <1>t, <3>1 DEF Bounds, CallBounds
  <2> QED
    BY <1>4, <2>1
<1>8. CASE Write \/ WriteFails
  BY <1>7, <1>8 DEF Write, WriteFails
<1>9. CASE Notify
  BY <1>6, <1>9 DEF Notify
<1>10. ASSUME NEW i \in Id, NEW a \in Answers, Answer(i, a) PROVE Bounds'
  <2>1. i \in inventory => i \in 0 .. lastId - 1
    BY DEF RequestsInv, OwnIds
  <2> QED
    BY <1>5, <1>6, <1>10, <2>1 DEF Answer
<1>11. CASE Reconnect \/ Break \/ CloseLink \/ UNCHANGED vars
  BY <1>5, <1>11 DEF Reconnect, Break, CloseLink, vars
<1> QED
  BY <1>8, <1>9, <1>10, <1>11

(* The bounds hold initially, when no call has a request.                  *)
LEMMA InitBounded == Init => Bounds
<1> SUFFICES ASSUME Init PROVE Bounds
  OBVIOUS
<1>1. \A k \in Caller : /\ call[k].pc = "idle" /\ call[k].todo = 0
                        /\ call[k].queue = <<>> /\ call[k].missing = {}
  BY DEF Init, Idle
<1>2. Unnumbered = {}
  BY <1>1, RequestsAssumption DEF Unnumbered
<1>3. IdBounds
  BY <1>2, FS_EmptySet, RequestsAssumption DEF IdBounds, Init
<1>4. \A k \in Caller : CallBounds(k)
  BY <1>1, ElementsOfEmpty, RequestsAssumption DEF CallBounds
<1> QED
  BY <1>3, <1>4, RequestsAssumption DEF Bounds, Init

(* A sequence is of the elements it has.                                   *)
LEMMA SeqOfElements ==
    ASSUME NEW S, NEW T, NEW s \in Seq(S), \A n \in DOMAIN s : s[n] \in T
    PROVE  s \in Seq(T)
<1>1. s \in [1 .. Len(s) -> S] /\ Len(s) \in Nat /\ DOMAIN s = 1 .. Len(s)
  BY LenProperties
<1>2. s \in [1 .. Len(s) -> T]
  BY <1>1
<1> QED
  BY <1>1, <1>2, SeqDef

(* RequestsInv and the bounds give the types of TypeOK.                    *)
LEMMA TypesInBounds == RequestsInv /\ Bounds => TypeOK
<1> SUFFICES ASSUME RequestsInv, Bounds PROVE TypeOK
  OBVIOUS
<1>t. Typed /\ PendingIsKnown
  BY DEF RequestsInv
<1>1. lastId \in 0 .. MaxId
  <2>1. Cardinality(Unnumbered) \in Nat
    BY FS_CardinalityType DEF Bounds, IdBounds
  <2> QED
    BY <1>t, <2>1, RequestsAssumption DEF Bounds, IdBounds, Typed
<1>2. 0 .. lastId - 1 \subseteq Id
  BY <1>1, RequestsAssumption DEF Id
<1>3. inventory \subseteq Id /\ wire \subseteq Id /\ Queued \subseteq Id
  BY <1>2, <1>t DEF RequestsInv, OwnIds, PendingIsKnown
<1>4. chan \in Seq([ids : Seq(Id), ack : Caller \cup {Nobody}])
  <2>1. ASSUME NEW n \in DOMAIN chan
        PROVE  chan[n] \in [ids : Seq(Id), ack : Caller \cup {Nobody}]
    <3>1. chan[n] \in EventRecord
      BY <1>t, ElementOfSeq, LenProperties DEF Typed
    <3>2. chan[n].ids \in Seq(Nat) /\ chan[n].ack \in Caller \cup {Nobody}
      BY <3>1 DEF EventRecord
    <3>3. \A m \in DOMAIN chan[n].ids : chan[n].ids[m] \in Id
      BY <1>3 DEF Queued, ToSet
    <3>4. chan[n].ids \in Seq(Id)
      BY <3>2, <3>3, SeqOfElements
    <3> QED
      BY <3>1, <3>2, <3>4 DEF EventRecord
  <2> QED
    BY <1>t, <2>1, SeqOfElements DEF Typed
<1>5. ASSUME NEW k \in Caller
      PROVE  /\ call[k] \in CallRecord
             /\ call[k].todo \in 0 .. MaxBatch \cup {1} /\ call[k].missing \subseteq Id
             /\ call[k].ids \in Seq(Id) /\ call[k].queue \in Seq(Id \cup {NoId})
             /\ Len(call[k].queue) <= BroadcastCap
  <2>1. call[k] \in CallRecord /\ CallBounds(k) /\ ToSet(call[k].ids) \subseteq Id
    BY <1>2, <1>t DEF Typed, Bounds, RequestsInv, OwnIds
  <2>2. call[k].ids \in Seq(Nat) /\ call[k].queue \in Seq(Nat \cup {NoId})
    BY <2>1 DEF CallRecord
  <2>3. \A n \in DOMAIN call[k].ids : call[k].ids[n] \in Id
    BY <2>1 DEF ToSet
  <2>4. \A n \in DOMAIN call[k].queue : call[k].queue[n] \in Id \cup {NoId}
    BY <1>2, <2>1 DEF CallBounds, ToSet
  <2>5. call[k].ids \in Seq(Id) /\ call[k].queue \in Seq(Id \cup {NoId})
    BY <2>2, <2>3, <2>4, SeqOfElements
  <2> QED
    BY <1>2, <2>1, <2>5 DEF CallBounds
<1>6. ASSUME NEW k \in Caller
      PROVE  call[k] \in
               [pc : {"idle", "assign", "insert", "send", "waitAck", "subscribe", "waiting"},
                op : Op, timed : BOOLEAN,
                todo : 0 .. MaxBatch \cup {1}, ids : Seq(Id), acked : {"pending", "sent", "failed"},
                queue : Seq(Id \cup {NoId}), lagged : BOOLEAN, missing : SUBSET Id,
                result : {"none", "sent", "answers", "partial", "MessageNotSent", "RecvTimeout",
                          "Timeout", "InvalidResponse"}]
  BY <1>5 DEF CallRecord, Results
<1> QED
  BY <1>1, <1>3, <1>4, <1>5, <1>6, <1>t DEF TypeOK, Typed, Bounds

(* Every cell, event and call keeps its type, and every queue and every id *)
(* its bound.                                                              *)
THEOREM TypeCorrect == Spec => []TypeOK
<1>1. Init => RequestsInv /\ Bounds
  BY InitInv, InitBounded
<1>2. RequestsInv /\ [Next]_vars => RequestsInv'
  BY StepInv
<1>3. RequestsInv /\ RequestsInv' /\ Bounds /\ [Next]_vars => Bounds'
  BY CallBounded, AssignBounded, CallStepBounded, LinkStepBounded DEF Next
<1> QED
  BY <1>1, <1>2, <1>3, TypesInBounds, PTL DEF Spec

=============================================================================
