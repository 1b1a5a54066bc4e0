-------------------------- MODULE Subscriptions_proofs -------------------------
(***************************************************************************)
(* Theorems about module Subscriptions, for any tasks, any scripts and any *)
(* capacity of the channel, as long as no two tasks use the same script.   *)
(***************************************************************************)
EXTENDS Subscriptions, SequenceTheorems, TLAPS

OneOwner ==
    \A s \in Script, u, v \in User : <<u, s>> \in Uses /\ <<v, s>> \in Uses => u = v

-----------------------------------------------------------------------------
(* WillWatch for any knowledge of the server and any queue.                *)

Watches(known, q, i) ==
    \/ /\ i \in known
       /\ \A n \in DOMAIN q : ~(q[n].op = "unsubscribe" /\ i \in q[n].of)
    \/ \E n \in DOMAIN q :
          /\ q[n].op = "subscribe" /\ i \in q[n].of
          /\ \A m \in n + 1 .. Len(q) : ~(q[m].op = "unsubscribe" /\ i \in q[m].of)

LEMMA WillWatchIsWatches == \A i : WillWatch(i) <=> Watches(server, chan, i)
  BY DEF WillWatch, Watches, Asks

(* The request queued last decides about the items it names.               *)
LEMMA WatchAppend ==
    ASSUME NEW q \in Seq(Request), NEW r \in Request, NEW known, NEW i
    PROVE  Watches(known, Append(q, r), i)
              <=> IF i \in r.of THEN r.op = "subscribe" ELSE Watches(known, q, i)
<1> DEFINE p == Append(q, r)
<1>1. /\ Len(q) \in Nat /\ DOMAIN q = 1 .. Len(q)
      /\ Len(p) = Len(q) + 1 /\ DOMAIN p = 1 .. Len(q) + 1
      /\ \A n \in 1 .. Len(q) : p[n] = q[n]
      /\ p[Len(q) + 1] = r
  OBVIOUS
<1>2. r.op \in {"subscribe", "unsubscribe"}
  BY DEF Request
<1>3. CASE i \in r.of
  <2>1. r.op = "subscribe" => Watches(known, p, i)
    BY <1>1, <1>3 DEF Watches
  <2>2. r.op = "unsubscribe" => ~Watches(known, p, i)
    <3> SUFFICES ASSUME r.op = "unsubscribe", NEW n \in DOMAIN p,
                        p[n].op = "subscribe", i \in p[n].of,
                        \A m \in n + 1 .. Len(p) : ~(p[m].op = "unsubscribe" /\ i \in p[m].of)
                 PROVE  FALSE
      BY <1>1, <1>3 DEF Watches
    <3>1. n # Len(q) + 1
      BY <1>1
    <3>2. Len(q) + 1 \in n + 1 .. Len(p)
      BY <1>1, <3>1
    <3> QED
      BY <1>1, <1>3, <3>2
  <2> QED
    BY <1>2, <1>3, <2>1, <2>2
<1>4. CASE i \notin r.of
  <2>1. (\A n \in DOMAIN p : ~(p[n].op = "unsubscribe" /\ i \in p[n].of))
           <=> \A n \in DOMAIN q : ~(q[n].op = "unsubscribe" /\ i \in q[n].of)
    BY <1>1, <1>4
  <2>2. ASSUME NEW n \in DOMAIN q
        PROVE  (\A m \in n + 1 .. Len(p) : ~(p[m].op = "unsubscribe" /\ i \in p[m].of))
                  <=> \A m \in n + 1 .. Len(q) : ~(q[m].op = "unsubscribe" /\ i \in q[m].of)
    <3>1. \A m \in n + 1 .. Len(q) : m \in n + 1 .. Len(p) /\ p[m] = q[m]
      BY <1>1
    <3>2. \A m \in n + 1 .. Len(p) : m \in n + 1 .. Len(q) \/ p[m] = r
      BY <1>1
    <3> QED
      BY <1>4, <3>1, <3>2
  <2> DEFINE After(s, n) ==
                \A m \in n + 1 .. Len(s) : ~(s[m].op = "unsubscribe" /\ i \in s[m].of)
             Asked(s, n) == s[n].op = "subscribe" /\ i \in s[n].of
  <2>3. (\E n \in DOMAIN p : Asked(p, n) /\ After(p, n))
           <=> \E n \in DOMAIN q : Asked(q, n) /\ After(q, n)
    <3>1. \A n \in DOMAIN q : n \in DOMAIN p /\ (Asked(p, n) <=> Asked(q, n))
      BY <1>1
    <3>2. \A n \in DOMAIN p : Asked(p, n) => n \in DOMAIN q
      BY <1>1, <1>4
    <3>3. \A n \in DOMAIN q : After(p, n) <=> After(q, n)
      BY <2>2
    <3> HIDE DEF After, Asked, p
    <3> QED
      BY <3>1, <3>2, <3>3
  <2> HIDE DEF p
  <2> QED
    BY <1>4, <2>1, <2>3 DEF Watches
<1> QED
  BY <1>3, <1>4

(* Nothing changes when the server applies the oldest request.             *)
LEMMA WatchApply ==
    ASSUME NEW q \in Seq(Request), q # <<>>, NEW known, NEW i
    PROVE  Watches(Apply(Head(q), known), Tail(q), i) <=> Watches(known, q, i)
<1> DEFINE p == Tail(q)
           r == Head(q)
<1>1. /\ Len(q) \in Nat \ {0} /\ DOMAIN q = 1 .. Len(q)
      /\ Len(p) = Len(q) - 1 /\ DOMAIN p = 1 .. Len(q) - 1
      /\ \A n \in 1 .. Len(q) - 1 : p[n] = q[n + 1]
      /\ q[1] = r /\ r \in Request
  OBVIOUS
<1>2. r.op \in {"subscribe", "unsubscribe"}
  BY <1>1 DEF Request
<1>3. (\A n \in DOMAIN p : ~(p[n].op = "unsubscribe" /\ i \in p[n].of))
         <=> \A m \in 2 .. Len(q) : ~(q[m].op = "unsubscribe" /\ i \in q[m].of)
  <2>1. \A m \in 2 .. Len(q) : m - 1 \in DOMAIN p /\ p[m - 1] = q[m]
    BY <1>1
  <2>2. \A n \in DOMAIN p : n + 1 \in 2 .. Len(q) /\ p[n] = q[n + 1]
    BY <1>1
  <2> QED
    BY <2>1, <2>2
<1>4. ASSUME NEW n \in DOMAIN p
      PROVE  (\A m \in n + 1 .. Len(p) : ~(p[m].op = "unsubscribe" /\ i \in p[m].of))
                <=> \A m \in n + 2 .. Len(q) : ~(q[m].op = "unsubscribe" /\ i \in q[m].of)
  <2>1. \A m \in n + 2 .. Len(q) : m - 1 \in n + 1 .. Len(p) /\ p[m - 1] = q[m]
    BY <1>1
  <2>2. \A m \in n + 1 .. Len(p) : m + 1 \in n + 2 .. Len(q) /\ p[m] = q[m + 1]
    BY <1>1
  <2> QED
    BY <2>1, <2>2
<1> DEFINE Later(n) ==
              /\ q[n].op = "subscribe" /\ i \in q[n].of
              /\ \A m \in n + 1 .. Len(q) : ~(q[m].op = "unsubscribe" /\ i \in q[m].of)
           Lasts(n) ==
              /\ p[n].op = "subscribe" /\ i \in p[n].of
              /\ \A m \in n + 1 .. Len(p) : ~(p[m].op = "unsubscribe" /\ i \in p[m].of)
<1>5. (\E n \in DOMAIN p : Lasts(n)) <=> \E n \in 2 .. Len(q) : Later(n)
  <2>1. \A n \in DOMAIN p : n + 1 \in 2 .. Len(q) /\ (Lasts(n) <=> Later(n + 1))
    <3> TAKE n \in DOMAIN p
    <3>1. n + 1 \in 2 .. Len(q) /\ p[n] = q[n + 1] /\ (n + 1) + 1 = n + 2
      BY <1>1
    <3> QED
      BY <1>4, <3>1
  <2>2. \A n \in 2 .. Len(q) : n - 1 \in DOMAIN p /\ (n - 1) + 1 = n
    BY <1>1
  <2> HIDE DEF Lasts, Later
  <2> QED
    BY <2>1, <2>2
<1>6. (\E n \in DOMAIN q : Later(n)) <=> (Later(1) \/ \E n \in 2 .. Len(q) : Later(n))
  <2>1. DOMAIN q = {1} \cup (2 .. Len(q))
    BY <1>1
  <2> HIDE DEF Later
  <2> QED
    BY <2>1
<1>7. (\A n \in DOMAIN q : ~(q[n].op = "unsubscribe" /\ i \in q[n].of))
         <=> /\ ~(r.op = "unsubscribe" /\ i \in r.of)
             /\ \A m \in 2 .. Len(q) : ~(q[m].op = "unsubscribe" /\ i \in q[m].of)
  <2>1. DOMAIN q = {1} \cup (2 .. Len(q))
    BY <1>1
  <2> QED
    BY <1>1, <2>1
<1>8. Later(1) <=> /\ r.op = "subscribe" /\ i \in r.of
                   /\ \A m \in 2 .. Len(q) : ~(q[m].op = "unsubscribe" /\ i \in q[m].of)
  BY <1>1
<1>9. i \in Apply(r, known)
         <=> IF r.op = "subscribe" THEN i \in known \/ i \in r.of ELSE i \in known /\ i \notin r.of
  BY DEF Apply
<1>10. Watches(known, q, i)
          <=> \/ i \in known /\ \A n \in DOMAIN q : ~(q[n].op = "unsubscribe" /\ i \in q[n].of)
              \/ \E n \in DOMAIN q : Later(n)
  BY DEF Watches
<1>11. Watches(Apply(r, known), p, i)
          <=> \/ /\ i \in Apply(r, known)
                 /\ \A n \in DOMAIN p : ~(p[n].op = "unsubscribe" /\ i \in p[n].of)
              \/ \E n \in DOMAIN p : Lasts(n)
  BY DEF Watches
<1>12. Watches(Apply(r, known), p, i) <=> Watches(known, q, i)
  <2> HIDE DEF Later, Lasts, p, r
  <2> QED
    BY <1>2, <1>3, <1>5, <1>6, <1>7, <1>8, <1>9, <1>10, <1>11
<1> QED
  BY <1>12

(* What is lost, a request or what the server knew, adds nothing.          *)
LEMMA WatchLoss ==
    ASSUME NEW q \in Seq(Request), NEW known, NEW i
    PROVE  /\ Watches({}, q, i) => Watches(known, q, i)
           /\ q # <<>> /\ Watches({}, Tail(q), i) => Watches({}, q, i)
<1>1. Watches({}, q, i) => Watches(known, q, i)
  BY DEF Watches
<1>2. q # <<>> /\ Watches({}, Tail(q), i) => Watches(Apply(Head(q), {}), Tail(q), i)
  BY DEF Watches
<1> QED
  BY <1>1, <1>2, WatchApply

-----------------------------------------------------------------------------
(* Types.                                                                  *)

LEMMA EnteredScripts ==
    ASSUME NEW n \in Nat, NEW batch \in [1 .. n -> Script]
    PROVE  Entered(batch) \subseteq Script
  BY DEF Entered

LEMMA QueueTypes ==
    ASSUME NEW q \in Seq(Request), NEW r \in Request
    PROVE  /\ Append(q, r) \in Seq(Request) /\ Len(Append(q, r)) = Len(q) + 1
           /\ Len(q) \in Nat
           /\ q # <<>> => /\ Tail(q) \in Seq(Request) /\ Len(Tail(q)) = Len(q) - 1
                          /\ Head(q) \in Request
<1> HIDE DEF Request
<1> QED
  BY HeadTailProperties, AppendProperties, LenProperties

LEMMA CallTypes ==
    ASSUME TypeOK, NEW u \in User
    PROVE  /\ ~Idle(u) => call[u] \in Request
           /\ Idle(u) => call[u].of = {}
  BY DEF TypeOK, Idle, Nothing

LEMMA InitTypeOK == Init => TypeOK
<1> SUFFICES ASSUME Init PROVE TypeOK
  OBVIOUS
<1>1. chan \in Seq(Request) /\ Len(chan) <= ChanCap
  BY SubscriptionsAssumption DEF Init
<1> QED
  BY <1>1 DEF Init, TypeOK

LEMMA UserTypes ==
    ASSUME TypeOK, NEW u \in User, UserStep(u)
    PROVE  TypeOK'
<1> USE DEF TypeOK
<1>1. CASE SubscribeHeaders(u)
  BY <1>1 DEF SubscribeHeaders, Begin, Conclude, Request, Item
<1>2. ASSUME NEW s \in Script, SubscribeScript(u, s)
      PROVE  TypeOK'
  BY <1>2 DEF SubscribeScript, Begin, Conclude, Request, Item
<1>3. ASSUME NEW s \in Script, UnsubscribeScript(u, s)
      PROVE  TypeOK'
  BY <1>3 DEF UnsubscribeScript, Begin, Conclude, Request, Item
<1>4. ASSUME NEW n \in 1 .. MaxBatch, NEW batch \in [1 .. n -> Script], SubscribeBatch(u, batch)
      PROVE  TypeOK'
  <2>1. Entered(batch) \subseteq Script
    BY SubscriptionsAssumption, EnteredScripts
  <2> QED
    BY <1>4, <2>1 DEF SubscribeBatch, Begin, Conclude, Request, Item
<1>5. CASE Send(u)
  <2>1. call[u] \in Request
    BY <1>5, CallTypes DEF Send
  <2>2. chan' \in Seq(Request) /\ Len(chan') <= ChanCap
    BY <1>5, <2>1, QueueTypes, SubscriptionsAssumption DEF Send, Room
  <2>3. view' \in [Item -> {"on", "off", "open"}] /\ owed' \subseteq Item
    BY <1>5 DEF Send, Conclude
  <2>4. call' \in [User -> Request \cup {Nothing}]
    BY <1>5 DEF Send
  <2> QED
    BY <1>5, <2>2, <2>3, <2>4 DEF Send
<1>6. CASE Refused(u)
  BY <1>6 DEF Refused, client, hist
<1> QED
  BY <1>1, <1>2, <1>3, <1>4, <1>5, <1>6 DEF UserStep

LEMMA ConnectTypes ==
    ASSUME TypeOK, TryConnect
    PROVE  TypeOK'
<1> USE DEF TypeOK
<1>1. CASE Dial
  BY <1>1 DEF Dial, client
<1>2. CASE RepeatHeaders
  <2> DEFINE r == [op |-> "subscribe", of |-> {Headers}]
  <2>1. r \in Request
    BY DEF Request, Item
  <2>2. chan' \in Seq(Request) /\ Len(chan') <= ChanCap
    <3>1. chan \in Seq(Request) /\ Len(chan) <= ChanCap
      OBVIOUS
    <3>2. chan' = chan
            \/ (Room /\ chan' = Append(chan, r))
      BY <1>2 DEF RepeatHeaders
    <3>3. Append(chan, r) \in Seq(Request) /\ Len(Append(chan, r)) = Len(chan) + 1
            /\ Len(chan) \in Nat /\ ChanCap \in Nat
      BY <2>1, <3>1, QueueTypes, SubscriptionsAssumption
    <3> HIDE DEF r, TypeOK
    <3> QED
      BY <3>1, <3>2, <3>3 DEF Room
  <2>3. /\ view' \in [Item -> {"on", "off", "open"}] /\ owed' \subseteq Item
        /\ resub' \in {"waitHeaders", "scripts"}
    BY <1>2 DEF RepeatHeaders, Conclude, hist
  <2> QED
    BY <1>2, <2>2, <2>3 DEF RepeatHeaders
<1>3. CASE HeadersAnswered
  BY <1>3 DEF HeadersAnswered, client, hist
<1>4. CASE CopyScripts
  BY <1>4 DEF CopyScripts, client, hist
<1>5. CASE RepeatScripts
  <2> DEFINE r == [op |-> "subscribe", of |-> copy]
  <2>1. r \in Request
    BY DEF Request, Item
  <2>2. chan' \in Seq(Request) /\ Len(chan') <= ChanCap
    <3>1. chan \in Seq(Request) /\ Len(chan) <= ChanCap
      OBVIOUS
    <3>2. chan' = chan
            \/ (Room /\ chan' = Append(chan, r))
      BY <1>5 DEF RepeatScripts
    <3>3. Append(chan, r) \in Seq(Request) /\ Len(Append(chan, r)) = Len(chan) + 1
            /\ Len(chan) \in Nat /\ ChanCap \in Nat
      BY <2>1, <3>1, QueueTypes, SubscriptionsAssumption
    <3> HIDE DEF r, TypeOK
    <3> QED
      BY <3>1, <3>2, <3>3 DEF Room
  <2>3. view' \in [Item -> {"on", "off", "open"}] /\ owed' \subseteq Item
    BY <1>5 DEF RepeatScripts, hist
  <2> QED
    BY <1>5, <2>2, <2>3 DEF RepeatScripts
<1> QED
  BY <1>1, <1>2, <1>3, <1>4, <1>5 DEF TryConnect

LEMMA LinkTypes ==
    ASSUME TypeOK, Write \/ WriteFails \/ Break \/ CloseLink
    PROVE  TypeOK'
<1> USE DEF TypeOK
<1>1. CASE Write \/ WriteFails
  <2>1. Tail(chan) \in Seq(Request) /\ Len(Tail(chan)) <= ChanCap /\ Head(chan) \in Request
    BY <1>1, QueueTypes, SubscriptionsAssumption DEF Write, WriteFails
  <2>2. server' \subseteq Item
    BY <1>1, <2>1 DEF Write, WriteFails, Apply, Request
  <2> QED
    BY <1>1, <2>1, <2>2 DEF Write, WriteFails, hist
<1>2. CASE Break \/ CloseLink
  BY <1>2 DEF Break, CloseLink, client, hist
<1> QED
  BY <1>1, <1>2

LEMMA StepTypeOK ==
    ASSUME TypeOK, [Next]_vars
    PROVE  TypeOK'
<1>1. CASE UNCHANGED vars
  BY <1>1 DEF TypeOK, vars, client, hist
<1> QED
  BY <1>1, UserTypes, ConnectTypes, LinkTypes DEF Next

(* Every cell keeps its type, for any number of tasks and scripts.         *)
THEOREM TypeCorrect == Spec => []TypeOK
  BY InitTypeOK, StepTypeOK, PTL DEF Spec

-----------------------------------------------------------------------------
(* The invariant: the flag and the set say what the application may        *)
(* conclude and what the calls are about to send; try_connect's copy has   *)
(* every script that the connection owes; and both properties of the       *)
(* queue, the second in any state of the connection.                       *)

Wanted(i) == IF i = Headers THEN headers = TRUE ELSE i \in scripts

CallsStand ==
    \A u \in User : \A i \in call[u].of :
        /\ i # Headers => <<u, i>> \in Uses
        /\ call[u].op = "subscribe" => Wanted(i)
        /\ call[u].op = "unsubscribe" => i # Headers /\ ~Wanted(i)

ViewsStand ==
    \A i \in Item : (view[i] = "on" => Wanted(i)) /\ (view[i] = "off" => ~Wanted(i))

CopyCovers ==
    resub = "batch" => \A i \in Script : i \in owed /\ view[i] = "on" => i \in copy

ServerForgets == link # "up" => server = {}

Missed(i) == link = "up" /\ view[i] = "on" /\ i \notin owed /\ ~Watches(server, chan, i)
Resurrected(i) == view[i] = "off" /\ Watches(server, chan, i)
QueueAgrees == \A i \in Item : ~Missed(i) /\ ~Resurrected(i)

SubsInv ==
    /\ TypeOK /\ CallsStand /\ ViewsStand /\ CopyCovers /\ ServerForgets /\ QueueAgrees

LEMMA InitSubsInv == Init => SubsInv
<1> SUFFICES ASSUME Init PROVE SubsInv
  OBVIOUS
<1>1. TypeOK
  BY InitTypeOK
<1>2. CallsStand /\ ViewsStand /\ CopyCovers /\ ServerForgets
  BY DEF Init, Nothing, CallsStand, ViewsStand, CopyCovers, ServerForgets, Wanted, Item
<1>3. QueueAgrees
  <2>1. server = {} /\ DOMAIN chan = {} /\ link = "down"
    BY DEF Init
  <2> QED
    BY <2>1 DEF QueueAgrees, Missed, Resurrected, Watches
<1> QED
  BY <1>1, <1>2, <1>3 DEF SubsInv

(* A call enters its scripts in the set, or takes them out, and nobody     *)
(* else has a request about them.                                          *)
LEMMA UserKeepsCells ==
    ASSUME SubsInv, OneOwner, NEW u \in User, UserStep(u)
    PROVE  CallsStand' /\ ViewsStand' /\ CopyCovers' /\ ServerForgets'
<1> USE DEF SubsInv, TypeOK
<1>0. SubscriptionsAssumption
  BY SubscriptionsAssumption
<1>1. CASE SubscribeHeaders(u)
  BY <1>0, <1>1 DEF SubscribeHeaders, Idle, Nothing, Begin, Conclude, Wanted, Item,
     CallsStand, ViewsStand, CopyCovers, ServerForgets, SubscriptionsAssumption
<1>2. ASSUME NEW s \in Script, SubscribeScript(u, s)
      PROVE  CallsStand' /\ ViewsStand' /\ CopyCovers' /\ ServerForgets'
  <2>1. CallsStand'
    BY <1>0, <1>2 DEF SubscribeScript, Idle, Nothing, Begin, Wanted, CallsStand, OneOwner,
       SubscriptionsAssumption
  <2>2. ViewsStand' /\ CopyCovers' /\ ServerForgets'
    BY <1>0, <1>2 DEF SubscribeScript, Conclude, Wanted, Item, ViewsStand, CopyCovers,
       ServerForgets, SubscriptionsAssumption
  <2> QED
    BY <2>1, <2>2
<1>3. ASSUME NEW s \in Script, UnsubscribeScript(u, s)
      PROVE  CallsStand' /\ ViewsStand' /\ CopyCovers' /\ ServerForgets'
  <2>1. CallsStand'
    BY <1>0, <1>3 DEF UnsubscribeScript, Idle, Nothing, Begin, Wanted, CallsStand, OneOwner,
       SubscriptionsAssumption
  <2>2. ViewsStand' /\ CopyCovers' /\ ServerForgets'
    BY <1>0, <1>3 DEF UnsubscribeScript, Conclude, Wanted, Item, ViewsStand, CopyCovers,
       ServerForgets, SubscriptionsAssumption
  <2> QED
    BY <2>1, <2>2
<1>4. ASSUME NEW n \in 1 .. MaxBatch, NEW batch \in [1 .. n -> Script], SubscribeBatch(u, batch)
      PROVE  CallsStand' /\ ViewsStand' /\ CopyCovers' /\ ServerForgets'
  <2>1. /\ Entered(batch) \subseteq Script
        /\ \A s \in Entered(batch) : <<u, s>> \in Uses
    BY <1>0, <1>4, EnteredScripts DEF SubscribeBatch, Entered, SubscriptionsAssumption
  <2>2. CallsStand'
    <3>1. /\ call[u].of = {} /\ headers' = headers /\ scripts' = scripts \cup Entered(batch)
          /\ \/ call' = call
             \/ call' = [call EXCEPT ![u] = [op |-> "subscribe", of |-> Entered(batch)]]
      BY <1>4, CallTypes DEF SubscribeBatch, Begin
    <3>2. ASSUME NEW v \in User, NEW i \in call'[v].of
          PROVE  /\ i # Headers => <<v, i>> \in Uses
                 /\ call'[v].op = "subscribe" => Wanted(i)'
                 /\ call'[v].op = "unsubscribe" => i # Headers /\ ~Wanted(i)'
      <4>1. CASE v = u
        BY <1>0, <2>1, <3>1, <3>2, <4>1 DEF Wanted, SubscriptionsAssumption
      <4>2. CASE v # u
        <5>1. call'[v] = call[v]
          BY <3>1, <4>2
        <5>2. i \in Script => i \notin Entered(batch)
          BY <1>0, <2>1, <3>2, <4>2, <5>1 DEF CallsStand, OneOwner, SubscriptionsAssumption
        <5> QED
          BY <1>0, <2>1, <3>1, <3>2, <5>1, <5>2 DEF CallsStand, Wanted
      <4> QED
        BY <4>1, <4>2
    <3> QED
      BY <3>2 DEF CallsStand
  <2>3. ViewsStand' /\ CopyCovers' /\ ServerForgets'
    BY <1>0, <1>4, <2>1 DEF SubscribeBatch, Conclude, Wanted, Item, ViewsStand, CopyCovers,
       ServerForgets, SubscriptionsAssumption
  <2> QED
    BY <2>2, <2>3
<1>5. CASE Send(u)
  <2>1. call[u] \in Request
    BY <1>5, CallTypes DEF Send
  <2>2. CallsStand'
    BY <1>5 DEF Send, Nothing, CallsStand, Wanted
  <2>3. ViewsStand'
    BY <1>5, <2>1 DEF Send, Conclude, CallsStand, ViewsStand, Wanted, Request
  <2>4. CopyCovers' /\ ServerForgets'
    BY <1>5, <2>1 DEF Send, Conclude, CopyCovers, ServerForgets, Request, Item
  <2> QED
    BY <2>2, <2>3, <2>4
<1>6. CASE Refused(u)
  BY <1>6 DEF Refused, client, hist, Nothing, Wanted, CallsStand, ViewsStand, CopyCovers,
     ServerForgets
<1> QED
  BY <1>1, <1>2, <1>3, <1>4, <1>5, <1>6 DEF UserStep

LEMMA ConnectKeepsCells ==
    ASSUME SubsInv, TryConnect
    PROVE  CallsStand' /\ ViewsStand' /\ CopyCovers' /\ ServerForgets'
<1> USE DEF SubsInv, TypeOK, CallsStand, ViewsStand, CopyCovers, ServerForgets, Wanted
<1>1. CASE Dial
  BY <1>1 DEF Dial, client
<1>2. CASE RepeatHeaders
  BY <1>2 DEF RepeatHeaders, Conclude, hist
<1>3. CASE HeadersAnswered
  BY <1>3 DEF HeadersAnswered, client, hist
<1>4. CASE CopyScripts
  BY <1>4, SubscriptionsAssumption DEF CopyScripts, client, hist, Item, SubscriptionsAssumption
<1>5. CASE RepeatScripts
  <2>1. CallsStand' /\ CopyCovers' /\ ServerForgets'
    BY <1>5 DEF RepeatScripts, hist
  <2>2. ViewsStand'
    BY <1>5, SubscriptionsAssumption DEF RepeatScripts, hist, SubscriptionsAssumption
  <2> QED
    BY <2>1, <2>2
<1> QED
  BY <1>1, <1>2, <1>3, <1>4, <1>5 DEF TryConnect

LEMMA LinkKeepsCells ==
    ASSUME SubsInv, Write \/ WriteFails \/ Break \/ CloseLink
    PROVE  CallsStand' /\ ViewsStand' /\ CopyCovers' /\ ServerForgets'
<1> USE DEF SubsInv, TypeOK, CallsStand, ViewsStand, CopyCovers, ServerForgets, Wanted
<1>1. CASE Write
  BY <1>1 DEF Write, hist
<1>2. CASE WriteFails
  BY <1>2 DEF WriteFails, hist
<1>3. CASE Break
  BY <1>3 DEF Break, client
<1>4. CASE CloseLink
  BY <1>4 DEF CloseLink, client, hist
<1> QED
  BY <1>1, <1>2, <1>3, <1>4

(* The queue.  A call that changes the set leaves the queue alone and the  *)
(* application without a conclusion about its items.                       *)
LEMMA QuietQueue ==
    ASSUME QueueAgrees, UNCHANGED <<chan, server>>,
           link' = "up" => (link = "up" \/ owed' = Item),
           NEW items, \A i \in Item : i \in items => view'[i] = "open" \/ view'[i] = view[i],
           \A i \in Item : i \notin items => view'[i] = view[i],
           \A i \in Item : i \in owed => i \in owed' \/ link' # "up"
    PROVE  QueueAgrees'
<1> SUFFICES ASSUME NEW i \in Item PROVE ~Missed(i)' /\ ~Resurrected(i)'
  BY DEF QueueAgrees
<1>1. ~Missed(i) /\ ~Resurrected(i)
  BY DEF QueueAgrees
<1>2. view'[i] = "open" \/ view'[i] = view[i]
  OBVIOUS
<1>3. Watches(server, chan, i)' <=> Watches(server, chan, i)
  BY DEF Watches
<1> QED
  BY <1>1, <1>2, <1>3 DEF Missed, Resurrected

(* A queued request settles its items, and nothing else.                   *)
LEMMA QueuedRequest ==
    ASSUME SubsInv, NEW r \in Request, chan' = Append(chan, r), UNCHANGED <<server, link>>,
           NEW i \in Item,
           i \in r.of => IF r.op = "subscribe" THEN view'[i] # "off" ELSE view'[i] # "on",
           i \notin r.of => /\ view'[i] = "on" /\ i \notin owed' => view[i] = "on" /\ i \notin owed
                            /\ view'[i] = "off" => view[i] = "off"
    PROVE  ~Missed(i)' /\ ~Resurrected(i)'
<1>1. ~Missed(i) /\ ~Resurrected(i) /\ chan \in Seq(Request)
  BY DEF SubsInv, QueueAgrees, TypeOK
<1>2. Watches(server, chan, i)'
         <=> IF i \in r.of THEN r.op = "subscribe" ELSE Watches(server, chan, i)
  <2>1. Watches(server, Append(chan, r), i)
           <=> IF i \in r.of THEN r.op = "subscribe" ELSE Watches(server, chan, i)
    BY <1>1, WatchAppend
  <2> QED
    BY <2>1 DEF Watches
<1> QED
  BY <1>1, <1>2 DEF Missed, Resurrected

LEMMA UserKeepsQueue ==
    ASSUME SubsInv, NEW u \in User, UserStep(u)
    PROVE  QueueAgrees'
<1> USE DEF SubsInv
<1>1. CASE SubscribeHeaders(u)
  BY <1>1, QuietQueue DEF SubscribeHeaders, Conclude, TypeOK
<1>2. ASSUME NEW s \in Script, SubscribeScript(u, s) \/ UnsubscribeScript(u, s)
      PROVE  QueueAgrees'
  BY <1>2, QuietQueue DEF SubscribeScript, UnsubscribeScript, Conclude, TypeOK
<1>3. ASSUME NEW n \in 1 .. MaxBatch, NEW batch \in [1 .. n -> Script], SubscribeBatch(u, batch)
      PROVE  QueueAgrees'
  BY <1>3, QuietQueue DEF SubscribeBatch, Conclude, TypeOK
<1>4. CASE Send(u)
  <2>1. call[u] \in Request /\ chan' = Append(chan, call[u]) /\ UNCHANGED <<server, link>>
    BY <1>4, CallTypes DEF Send
  <2>2. ASSUME NEW i \in Item
        PROVE  /\ i \in call[u].of =>
                    IF call[u].op = "subscribe" THEN view'[i] # "off" ELSE view'[i] # "on"
               /\ i \notin call[u].of =>
                    /\ view'[i] = "on" /\ i \notin owed' => view[i] = "on" /\ i \notin owed
                    /\ view'[i] = "off" => view[i] = "off"
    BY <1>4 DEF Send, Conclude
  <2> QED
    BY <2>1, <2>2, QueuedRequest DEF QueueAgrees
<1>5. CASE Refused(u)
  BY <1>5, QuietQueue DEF Refused, client, hist
<1> QED
  BY <1>1, <1>2, <1>3, <1>4, <1>5 DEF UserStep

LEMMA ConnectKeepsQueue ==
    ASSUME SubsInv, TryConnect
    PROVE  QueueAgrees'
<1> USE DEF SubsInv
<1>1. CASE Dial
  BY <1>1, QuietQueue DEF Dial, client, TypeOK
<1>2. CASE RepeatHeaders
  <2>1. CASE headers /\ Room
    <3> DEFINE r == [op |-> "subscribe", of |-> {Headers}]
    <3>1. /\ r \in Request /\ r.op = "subscribe" /\ r.of = {Headers}
          /\ chan' = Append(chan, r) /\ UNCHANGED <<server, link>>
      BY <1>2, <2>1 DEF RepeatHeaders, Request, Item
    <3>2. ASSUME NEW i \in Item
          PROVE  /\ i \in r.of => view'[i] # "off"
                 /\ i \notin r.of => view'[i] = view[i] /\ (i \in owed' <=> i \in owed)
      BY <1>2, <2>1, <3>1 DEF RepeatHeaders, Conclude
    <3> HIDE DEF r
    <3> QED
      BY <3>1, <3>2, QueuedRequest DEF QueueAgrees
  <2>2. CASE ~(headers /\ Room)
    BY <1>2, <2>2, QuietQueue DEF RepeatHeaders, hist
  <2> QED
    BY <2>1, <2>2
<1>3. CASE HeadersAnswered
  BY <1>3, QuietQueue DEF HeadersAnswered, client, hist
<1>4. CASE CopyScripts
  BY <1>4, QuietQueue DEF CopyScripts, client, hist
<1>5. CASE RepeatScripts
  <2>1. CASE ~Room
    BY <1>5, <2>1, QuietQueue DEF RepeatScripts, hist
  <2>2. CASE Room
    <3> DEFINE r == [op |-> "subscribe", of |-> copy]
    <3>1. /\ r \in Request /\ r.op = "subscribe" /\ r.of = copy
          /\ chan' = IF copy = {} THEN chan ELSE Append(chan, r)
          /\ UNCHANGED <<server, link>>
      BY <1>5, <2>2 DEF RepeatScripts, Request, Item, TypeOK
    <3>2. ASSUME NEW i \in Item
          PROVE  /\ i \in copy => view'[i] # "off"
                 /\ i \notin copy => view'[i] = view[i]
                 /\ view'[i] = "on" /\ i \notin owed' /\ i \notin copy => i \notin owed
      <4>1. i \in copy => view'[i] # "off"
        <5>1. i \in copy \cap scripts => view[i] # "off"
          BY SubscriptionsAssumption
          DEF ViewsStand, Wanted, TypeOK, SubscriptionsAssumption
        <5> QED
          BY <1>5, <2>2, <5>1 DEF RepeatScripts
      <4>2. i \notin copy => view'[i] = view[i]
        BY <1>5, <2>2 DEF RepeatScripts
      <4>3. view'[i] = "on" /\ i \notin owed' /\ i \notin copy => i \notin owed
        BY <1>5, <2>2, <4>2 DEF RepeatScripts, CopyCovers, Item
      <4> QED
        BY <4>1, <4>2, <4>3
    <3> HIDE DEF r
    <3>3. CASE copy # {}
      BY <3>1, <3>2, <3>3, QueuedRequest DEF QueueAgrees
    <3>4. CASE copy = {}
      <4> SUFFICES ASSUME NEW i \in Item PROVE ~Missed(i)' /\ ~Resurrected(i)'
        BY DEF QueueAgrees
      <4>1. ~Missed(i) /\ ~Resurrected(i)
        BY DEF QueueAgrees
      <4>2. Watches(server, chan, i)' <=> Watches(server, chan, i)
        BY <3>1, <3>4 DEF Watches
      <4> QED
        BY <3>1, <3>2, <3>4, <4>1, <4>2 DEF Missed, Resurrected
    <3> QED
      BY <3>3, <3>4
  <2> QED
    BY <2>1, <2>2
<1> QED
  BY <1>1, <1>2, <1>3, <1>4, <1>5 DEF TryConnect

LEMMA LinkKeepsQueue ==
    ASSUME SubsInv, Write \/ WriteFails \/ Break \/ CloseLink
    PROVE  QueueAgrees'
<1> SUFFICES ASSUME NEW i \in Item PROVE ~Missed(i)' /\ ~Resurrected(i)'
  BY DEF QueueAgrees
<1>1. ~Missed(i) /\ ~Resurrected(i) /\ chan \in Seq(Request) /\ ServerForgets
  BY DEF SubsInv, QueueAgrees, TypeOK
<1>2. CASE Write
  <2>1. chan # <<>> /\ chan' = Tail(chan) /\ UNCHANGED <<link, view, owed>>
    BY <1>2 DEF Write, hist
  <2>2. CASE link = "up"
    <3>1. Watches(server, chan, i)' <=> Watches(server, chan, i)
      <4>1. server' = Apply(Head(chan), server)
        BY <1>2, <2>2 DEF Write
      <4>2. Watches(Apply(Head(chan), server), Tail(chan), i) <=> Watches(server, chan, i)
        BY <1>1, <2>1, WatchApply
      <4> QED
        BY <2>1, <4>1, <4>2 DEF Watches
    <3> QED
      BY <1>1, <2>1, <3>1 DEF Missed, Resurrected
  <2>3. CASE link # "up"
    <3>1. Watches(server, chan, i)' => Watches(server, chan, i)
      <4>1. server = {} /\ server' = {}
        BY <1>1, <1>2, <2>3 DEF Write, ServerForgets
      <4>2. Watches({}, Tail(chan), i) => Watches({}, chan, i)
        BY <1>1, <2>1, WatchLoss
      <4> QED
        BY <2>1, <4>1, <4>2 DEF Watches
    <3> QED
      BY <1>1, <2>1, <2>3, <3>1 DEF Missed, Resurrected
  <2> QED
    BY <2>2, <2>3
<1>3. CASE WriteFails
  <2>1. /\ chan # <<>> /\ chan' = Tail(chan) /\ link' = "down" /\ view' = view
        /\ server = {} /\ server' = {}
    BY <1>1, <1>3 DEF WriteFails, hist, ServerForgets
  <2>2. Watches({}, Tail(chan), i) => Watches({}, chan, i)
    BY <1>1, <2>1, WatchLoss
  <2>3. Watches(server, chan, i)' => Watches(server, chan, i)
    BY <2>1, <2>2 DEF Watches
  <2> QED
    BY <1>1, <2>1, <2>3 DEF Missed, Resurrected
<1>4. CASE Break
  <2>1. chan' = chan /\ link' = "broken" /\ view' = view /\ server' = {}
    BY <1>4 DEF Break, client
  <2>2. Watches({}, chan, i) => Watches(server, chan, i)
    BY <1>1, WatchLoss
  <2>3. Watches(server, chan, i)' => Watches(server, chan, i)
    BY <2>1, <2>2 DEF Watches
  <2> QED
    BY <1>1, <2>1, <2>3 DEF Missed, Resurrected
<1>5. CASE CloseLink
  <2>1. UNCHANGED <<chan, server, view>> /\ link' = "down"
    BY <1>5 DEF CloseLink, client, hist
  <2>2. Watches(server, chan, i)' <=> Watches(server, chan, i)
    BY <2>1 DEF Watches
  <2> QED
    BY <1>1, <2>1, <2>2 DEF Missed, Resurrected
<1> QED
  BY <1>2, <1>3, <1>4, <1>5

LEMMA StepSubsInv ==
    ASSUME OneOwner, SubsInv, [Next]_vars
    PROVE  SubsInv'
<1>1. TypeOK'
  BY StepTypeOK DEF SubsInv
<1>2. CASE UNCHANGED vars
  <2>1. CallsStand' /\ ViewsStand' /\ CopyCovers' /\ ServerForgets'
    BY <1>2 DEF vars, client, hist, SubsInv, CallsStand, ViewsStand, CopyCovers,
       ServerForgets, Wanted
  <2>2. QueueAgrees'
    BY <1>2, QuietQueue DEF vars, client, hist, SubsInv
  <2> QED
    BY <1>1, <2>1, <2>2 DEF SubsInv
<1>3. ASSUME NEW u \in User, UserStep(u)
      PROVE  SubsInv'
  BY <1>1, <1>3, UserKeepsCells, UserKeepsQueue DEF SubsInv
<1>4. CASE TryConnect
  BY <1>1, <1>4, ConnectKeepsCells, ConnectKeepsQueue DEF SubsInv
<1>5. CASE Write \/ WriteFails \/ Break \/ CloseLink
  BY <1>1, <1>5, LinkKeepsCells, LinkKeepsQueue DEF SubsInv
<1> QED
  BY <1>2, <1>3, <1>4, <1>5 DEF Next

(* SubsInv is inductive when every script has one task.                    *)
THEOREM SubscriptionsInvariant ==
    ASSUME OneOwner
    PROVE  Spec => []SubsInv
  BY InitSubsInv, StepSubsInv, PTL DEF Spec

(* An accepted subscription is with the server or on its way, through      *)
(* refused requests, half-done batches and lost connections.               *)
THEOREM MissesNothing ==
    ASSUME OneOwner
    PROVE  Spec => []NothingMissed
<1>1. SubsInv => NothingMissed
  BY WillWatchIsWatches DEF SubsInv, QueueAgrees, Missed, NothingMissed
<1> QED
  BY <1>1, SubscriptionsInvariant, PTL

(* An accepted unsubscription is not undone by a resubscription whose copy *)
(* of the set is younger.                                                  *)
THEOREM ResurrectsNothing ==
    ASSUME OneOwner
    PROVE  Spec => []NothingResurrected
<1>1. SubsInv => NothingResurrected
  BY WillWatchIsWatches DEF SubsInv, QueueAgrees, Resurrected, NothingResurrected
<1> QED
  BY <1>1, SubscriptionsInvariant, PTL
=============================================================================
