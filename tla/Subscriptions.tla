----------------------------- MODULE Subscriptions -----------------------------
(***************************************************************************)
(* Subscriptions to headers and scripts: ActiveSubscriptions of            *)
(* src/client.rs, the calls that change it and try_connect, which repeats  *)
(* it.                                                                     *)
(*                                                                         *)
(* The client keeps a flag for the headers and a set of scripts.  A call   *)
(* changes the set first and queues its request afterwards; the server's   *)
(* subscriptions last as long as a connection, and try_connect repeats     *)
(* those of the set on each new one, from a copy it takes of the set.  So  *)
(* the two sides agree only if no order of these steps, no refused request *)
(* and no lost connection leaves one of them behind.                       *)
(***************************************************************************)
EXTENDS Naturals, Sequences, FiniteSets

CONSTANTS
    User,       \* tasks that subscribe and unsubscribe
    Script,     \* script hashes
    Headers,    \* the subscription to block headers
    Uses,       \* pairs of a task and a script it subscribes or unsubscribes
    ChanCap,    \* capacity of the event channel (1024 in the code)
    MaxBatch    \* bound: scripts in one batch_script_subscribe

ASSUME SubscriptionsAssumption ==
    /\ Uses \subseteq User \X Script
    /\ Headers \notin Script
    /\ ChanCap \in Nat \ {0} /\ MaxBatch \in Nat

Item == Script \cup {Headers}

(* A queued SendMsg or SendBatch event that changes what the server knows. *)
Request == [op : {"subscribe", "unsubscribe"}, of : SUBSET Item]

VARIABLES
    headers,    \* ActiveSubscriptions::headers
    scripts,    \* ActiveSubscriptions::scripts
    chan,       \* the queued requests, oldest first
    link,       \* the connection: "down", "up", or "broken" by the server
    server,     \* what the server has subscribed on that connection
    call,       \* the request each task is about to send
    resub,      \* where try_connect stands; "rest" when it does not run
    copy        \* the scripts try_connect has read

(* History.  Not in the code: what the application may conclude from the   *)
(* requests the channel has accepted ("on", "off", or "open" while it can  *)
(* conclude nothing), and what has not been asked for on this connection.  *)
VARIABLES view, owed

client == <<headers, scripts, chan>>
hist == <<view, owed>>
vars == <<client, link, server, call, resub, copy, hist>>

Nothing == [op |-> "none", of |-> {}]

Init ==
    /\ headers = FALSE /\ scripts = {} /\ chan = <<>>
    /\ link = "down" /\ server = {}
    /\ call = [u \in User |-> Nothing]
    /\ resub = "rest" /\ copy = {}
    /\ view = [i \in Item |-> "off"] /\ owed = {}

-----------------------------------------------------------------------------
(* Definitions named Wrong... are variants of the definition that follows, *)
(* each with one plausible mistake; no specification uses them.            *)

(* Off by one.                                                             *)
WrongRoom == Len(chan) <= ChanCap

Room == Len(chan) < ChanCap

Idle(u) == call[u] = Nothing
Begin(u, op, of) == call' = [call EXCEPT ![u] = [op |-> op, of |-> of]]
Conclude(items, v) == view' = [i \in Item |-> IF i \in items THEN v ELSE view[i]]

(* block_headers_subscribe() raises the flag, whatever becomes of the      *)
(* request; nothing lowers it.                                             *)
SubscribeHeaders(u) ==
    /\ Idle(u)
    /\ headers' = TRUE
    /\ Begin(u, "subscribe", {Headers})
    /\ Conclude({Headers}, IF view[Headers] = "on" THEN "on" ELSE "open")
    /\ UNCHANGED <<scripts, chan, link, server, resub, copy, owed>>

(* A script in the set already is AlreadySubscribed, and nothing happens.  *)
SubscribeScript(u, s) ==
    /\ Idle(u) /\ <<u, s>> \in Uses /\ s \notin scripts
    /\ scripts' = scripts \cup {s}
    /\ Begin(u, "subscribe", {s})
    /\ Conclude({s}, "open")
    /\ UNCHANGED <<headers, chan, link, server, resub, copy, owed>>

(* batch_script_subscribe() takes its scripts in order and returns         *)
(* AlreadySubscribed at the first that is in the set, or was earlier in    *)
(* the batch: those before it stay in the set and are not sent.            *)
NewInBatch(batch, i) ==
    batch[i] \notin scripts /\ \A j \in 1 .. i - 1 : batch[j] # batch[i]
Entered(batch) ==
    {batch[i] : i \in {n \in DOMAIN batch : \A j \in 1 .. n : NewInBatch(batch, j)}}

(* The scripts of a batch are sent without being entered in the set.       *)
WrongSubscribeBatch(u, batch) ==
    /\ Idle(u) /\ \A i \in DOMAIN batch : <<u, batch[i]>> \in Uses
    /\ Begin(u, "subscribe", Entered(batch))
    /\ Conclude(Entered(batch), "open")
    /\ UNCHANGED <<client, link, server, resub, copy, owed>>

SubscribeBatch(u, batch) ==
    /\ Idle(u) /\ \A i \in DOMAIN batch : <<u, batch[i]>> \in Uses
    /\ scripts' = scripts \cup Entered(batch)
    /\ IF \A i \in DOMAIN batch : NewInBatch(batch, i)
         THEN Begin(u, "subscribe", Entered(batch))
         ELSE UNCHANGED call
    /\ Conclude(Entered(batch), "open")
    /\ UNCHANGED <<headers, chan, link, server, resub, copy, owed>>

(* The script stays in the set.                                            *)
WrongUnsubscribeScript(u, s) ==
    /\ Idle(u) /\ <<u, s>> \in Uses /\ s \in scripts
    /\ Begin(u, "unsubscribe", {s})
    /\ Conclude({s}, "open")
    /\ UNCHANGED <<client, link, server, resub, copy, owed>>

(* A script that is not in the set is NotSubscribed, and nothing happens.  *)
UnsubscribeScript(u, s) ==
    /\ Idle(u) /\ <<u, s>> \in Uses /\ s \in scripts
    /\ scripts' = scripts \ {s}
    /\ Begin(u, "unsubscribe", {s})
    /\ Conclude({s}, "open")
    /\ UNCHANGED <<headers, chan, link, server, resub, copy, owed>>

(* send_msg() or send_batch_msg(): accepted by the channel or refused.     *)
(* How the call ends after that is the subject of module Requests.         *)
Send(u) ==
    /\ ~Idle(u) /\ Room
    /\ chan' = Append(chan, call[u])
    /\ call' = [call EXCEPT ![u] = Nothing]
    /\ Conclude(call[u].of, IF call[u].op = "subscribe" THEN "on" ELSE "off")
    /\ owed' = IF call[u].op = "subscribe" THEN owed \ call[u].of ELSE owed
    /\ UNCHANGED <<headers, scripts, link, server, resub, copy>>

(* MessageNotSent: the set keeps what the call did to it.                  *)
Refused(u) ==
    /\ ~Idle(u) /\ ~Room
    /\ call' = [call EXCEPT ![u] = Nothing]
    /\ UNCHANGED <<client, link, server, resub, copy, hist>>

-----------------------------------------------------------------------------
(* try_connect(), which one task runs at a time (module Lifecycle).        *)

Dial ==
    /\ link = "down" /\ resub = "rest"
    /\ link' = "up" /\ owed' = Item
    /\ resub' = "headers"
    /\ UNCHANGED <<client, server, call, copy, view>>

(* A refused request is only logged.                                       *)
RepeatHeaders ==
    /\ resub = "headers"
    /\ IF headers /\ Room
         THEN /\ chan' = Append(chan, [op |-> "subscribe", of |-> {Headers}])
              /\ resub' = "waitHeaders"
              /\ owed' = owed \ {Headers} /\ Conclude({Headers}, "on")
         ELSE UNCHANGED <<chan, hist>> /\ resub' = "scripts"
    /\ UNCHANGED <<headers, scripts, link, server, call, copy>>

(* The answer, or recv() failing because the subscriber lags.  There is no *)
(* timeout, so this may never happen.                                      *)
HeadersAnswered ==
    /\ resub = "waitHeaders"
    /\ resub' = "scripts"
    /\ UNCHANGED <<client, link, server, call, copy, hist>>

CopyScripts ==
    /\ resub = "scripts"
    /\ copy' = scripts /\ resub' = "batch"
    /\ UNCHANGED <<client, link, server, call, hist>>

(* The set may have changed since it was copied.  A script unsubscribed in *)
(* between is subscribed all the same: the application, which holds it for *)
(* "off", can conclude nothing about it from now on.                       *)
RepeatScripts ==
    /\ resub = "batch"
    /\ resub' = "rest" /\ copy' = {}
    /\ IF Room
         THEN /\ chan' = IF copy = {} THEN chan
                         ELSE Append(chan, [op |-> "subscribe", of |-> copy])
              /\ owed' = owed \ Script
              /\ view' = [i \in Item |->
                    IF i \in copy \cap scripts /\ view[i] = "open" THEN "on"
                    ELSE IF i \in copy \ scripts THEN "open" ELSE view[i]]
         ELSE UNCHANGED <<chan, hist>>
    /\ UNCHANGED <<headers, scripts, link, server, call>>

-----------------------------------------------------------------------------
(* The sender, and the server, which handles the requests of a connection  *)
(* in the order it gets them.                                              *)

Apply(r, known) == IF r.op = "subscribe" THEN known \cup r.of ELSE known \ r.of

(* The sender collects requests until the channel is full.                 *)
WrongWrite ==
    /\ link # "down" /\ ~Room
    /\ chan' = Tail(chan)
    /\ server' = IF link = "up" THEN Apply(Head(chan), server) ELSE server
    /\ UNCHANGED <<headers, scripts, link, call, resub, copy, hist>>

(* What is written to a broken connection is lost.                         *)
Write ==
    /\ link # "down" /\ chan # <<>>
    /\ chan' = Tail(chan)
    /\ server' = IF link = "up" THEN Apply(Head(chan), server) ELSE server
    /\ UNCHANGED <<headers, scripts, link, call, resub, copy, hist>>

(* A failed write loses the request and ends the connection.               *)
WriteFails ==
    /\ link = "broken" /\ chan # <<>>
    /\ chan' = Tail(chan) /\ link' = "down"
    /\ UNCHANGED <<headers, scripts, server, call, resub, copy, hist>>

(* The subscriptions of a connection end with it.                          *)
Break ==
    /\ link = "up" /\ link' = "broken"
    /\ server' = {} /\ owed' = {}
    /\ UNCHANGED <<client, call, resub, copy, view>>

CloseLink ==
    /\ link = "broken" /\ link' = "down"
    /\ UNCHANGED <<client, server, call, resub, copy, hist>>

-----------------------------------------------------------------------------
UserStep(u) ==
    \/ SubscribeHeaders(u) \/ Send(u) \/ Refused(u)
    \/ \E s \in Script : SubscribeScript(u, s) \/ UnsubscribeScript(u, s)
    \/ \E n \in 1 .. MaxBatch : \E batch \in [1 .. n -> Script] : SubscribeBatch(u, batch)

TryConnect == Dial \/ RepeatHeaders \/ HeadersAnswered \/ CopyScripts \/ RepeatScripts

Next ==
    \/ \E u \in User : UserStep(u)
    \/ TryConnect
    \/ Write \/ WriteFails \/ Break \/ CloseLink

(* The sender of a connection takes whatever is in the channel.            *)
Spec == Init /\ [][Next]_vars /\ WF_vars(Write)

-----------------------------------------------------------------------------
(* Every cell, and the two history variables, keep their types.            *)
TypeOK ==
    /\ headers \in BOOLEAN /\ scripts \subseteq Script
    /\ chan \in Seq(Request) /\ Len(chan) <= ChanCap
    /\ link \in {"down", "up", "broken"} /\ server \subseteq Item
    /\ call \in [User -> Request \cup {Nothing}]
    /\ resub \in {"rest", "headers", "waitHeaders", "scripts", "batch"}
    /\ copy \subseteq Script
    /\ view \in [Item -> {"on", "off", "open"}] /\ owed \subseteq Item

(* What the server will have subscribed once the channel is empty: the     *)
(* last queued request about an item decides.                              *)
Asks(n, op, i) == chan[n].op = op /\ i \in chan[n].of
WillWatch(i) ==
    \/ /\ i \in server
       /\ \A n \in DOMAIN chan : ~Asks(n, "unsubscribe", i)
    \/ \E n \in DOMAIN chan :
          /\ Asks(n, "subscribe", i)
          /\ \A m \in n + 1 .. Len(chan) : ~Asks(m, "unsubscribe", i)

(* A subscription whose request was accepted is with the server or on its  *)
(* way there, on this connection and, once try_connect has repeated the    *)
(* subscriptions, on every later one, in spite of refused requests, half-  *)
(* done batches and lost events (client.rs:518, :782, :838).               *)
NothingMissed ==
    link = "up" => \A i \in Item : view[i] = "on" /\ i \notin owed => WillWatch(i)

(* A script whose unsubscription was accepted is not subscribed again, in  *)
(* this connection or a later one, unless try_connect had copied the set   *)
(* before (client.rs:518-519, :800-802).                                   *)
NothingResurrected ==
    link = "up" => \A i \in Item : view[i] = "off" => ~WillWatch(i)

(* While the connection holds, the server gets the requests it was         *)
(* promised (client.rs:413-482).                                           *)
SubscriptionsArrive ==
    \A i \in Item :
        (link = "up" /\ view[i] = "on" /\ i \notin owed)
            ~> (i \in server \/ link # "up" \/ view[i] # "on")
=============================================================================
