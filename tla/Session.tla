--------------------------------- MODULE Session -------------------------------
(***************************************************************************)
(* One connection at a time, from the address to the last line: how it is  *)
(* dialed (src/net/mod.rs, src/net/socks.rs) and what the receiver does    *)
(* with each line it reads (src/client.rs:325-407), decoded as in module   *)
(* Messages.  The stream is read in the same way with TLS and without      *)
(* (src/net/stream.rs).  What requests are sent and when is the subject of *)
(* module Requests; here they are entries of the inventory, and the server *)
(* may send any line at any time, answers nobody asked for included.       *)
(***************************************************************************)
EXTENDS Messages, Sequences

CONSTANTS
    Uses,       \* methods that the application calls
    Lines,      \* lines that the server may send
    InboxCap    \* bound: lines the server is ahead of the receiver

ASSUME SessionAssumption == Uses \subseteq Method /\ Lines \subseteq Line /\ InboxCap \in Nat

(* An address: its prefix; its host, a "name", one that is "nowhere" to be *)
(* resolved, or a literal; and whether the client has a proxy.             *)
Address ==
    [prefix : {"none", "tcp", "ssl"}, host : {"name", "nowhere", "ipv4", "ipv6"}, proxy : BOOLEAN]

(* The two ways in which a stream ends: no more data, or data that cannot  *)
(* be read as a line (a lost connection, bytes that are not UTF-8).        *)
Ending == {[end |-> "eof"], [end |-> "error"]}

VARIABLES
    addr,       \* the address being dialed
    dial,       \* where net::connect stands, "up" when it has returned Ok
    stream      \* MaybeTlsStream of the connection: "none", "Plain", "Rustls"

VARIABLES
    inventory,  \* Client::inventory: the method of each pending id
    inbox,      \* lines the server has sent, and how the stream ends
    reader,     \* the receiver task
    news        \* the notification broadcast for the last line, or "none"

(* History.  Not in the code: the method each id was given to, and what    *)
(* has been broadcast for it.                                              *)
VARIABLES asked, answers

net == <<addr, dial, stream>>
receiver == <<inventory, inbox, reader, news, asked, answers>>
vars == <<net, receiver>>

Init ==
    /\ addr = None /\ dial = "idle" /\ stream = "none"
    /\ inventory = [i \in Id |-> None]
    /\ inbox = <<>> /\ reader = "off" /\ news = "none"
    /\ asked = [i \in Id |-> None] /\ answers = [i \in Id |-> <<>>]

-----------------------------------------------------------------------------
(* Definitions named Wrong... are variants of the definition that follows, *)
(* each with one plausible mistake; no specification uses them.            *)

(* connect(): only ssl:// asks for TLS, and a proxy resolves the name.     *)
Dial(a) ==
    /\ dial = "idle"
    /\ addr' = a
    /\ dial' = IF a.proxy THEN "socks" ELSE "resolve"
    /\ UNCHANGED <<stream, receiver>>

Fail == dial' = "idle" /\ addr' = None /\ UNCHANGED <<stream, receiver>>

Open(s) ==
    /\ dial' = "up" /\ stream' = s /\ addr' = None
    /\ reader' = "reading" /\ inbox' = <<>>
    /\ UNCHANGED <<inventory, news, asked, answers>>

(* to_socket_addrs() blocks until the resolver has ended; the first of the *)
(* addresses it returns is the only one that is tried.                     *)
Resolve ==
    /\ dial = "resolve"
    /\ \/ addr.host # "nowhere" /\ dial' = "tcp" /\ UNCHANGED <<addr, stream, receiver>>
       \/ Fail

(* TLS is for direct connections.                                          *)
WrongReached ==
    /\ dial \in {"tcp", "socks"} /\ addr.host # "nowhere"
    /\ IF addr.prefix # "ssl" \/ addr.proxy THEN Open("Plain")
       ELSE /\ addr.host # "ipv6" /\ dial' = "handshake"
            /\ UNCHANGED <<addr, stream, receiver>>

(* The server is reached, directly or through the proxy.  The domain for   *)
(* TLS is what precedes the first colon, which of an IPv6 literal is       *)
(* nothing that could be a name: InvalidDNSName.                           *)
Reached ==
    /\ dial \in {"tcp", "socks"} /\ addr.host # "nowhere"
    /\ CASE addr.prefix # "ssl" -> Open("Plain")
         [] addr.prefix = "ssl" /\ addr.host = "ipv6" -> Fail
         [] OTHER -> dial' = "handshake" /\ UNCHANGED <<addr, stream, receiver>>

(* There is no timeout for the way through a proxy.                        *)
WrongNotReached == dial = "tcp" /\ Fail

(* The connection is refused, or its timeout of 60 s has passed.           *)
NotReached == dial \in {"tcp", "socks"} /\ Fail

(* The handshake ends as the server wants, or never: it has no timeout.    *)
Handshake == dial = "handshake" /\ (Open("Rustls") \/ Fail)

-----------------------------------------------------------------------------
(* A request is filed in the inventory (module Requests).                  *)
File(i, m) ==
    /\ asked[i] = None
    /\ asked' = [asked EXCEPT ![i] = m]
    /\ inventory' = [inventory EXCEPT ![i] = m]
    /\ UNCHANGED <<net, inbox, reader, news, answers>>

(* The server's side of the stream.                                        *)
Over == \E n \in DOMAIN inbox : inbox[n] \in Ending
ServerSends(l) ==
    /\ dial = "up" /\ Len(inbox) < InboxCap /\ ~Over
    /\ inbox' = Append(inbox, l)
    /\ UNCHANGED <<net, inventory, reader, news, asked, answers>>

-----------------------------------------------------------------------------
(* The receiver: one step for each line.                                   *)

Reads ==
    /\ reader = "reading" /\ inbox # <<>>
    /\ inbox' = Tail(inbox)
IsLine(l) == l \notin Ending

(* Whoever sends an answer has been asked.                                 *)
WrongOutcome(l) ==
    IF inventory[l.id] = None THEN "panic" ELSE ToResponse(l, inventory[l.id])

Outcome(l) ==
    IF inventory[l.id] = None THEN "unknown" ELSE ToResponse(l, inventory[l.id])

(* The request stays in the inventory.                                     *)
WrongSettle(i) == UNCHANGED inventory

Settle(i) == inventory' = [inventory EXCEPT ![i] = None]

(* The answer of a pending request is broadcast unless it is Null or could *)
(* not be decoded; the request is no longer pending in any case.  A panic  *)
(* ends the task and gives the lock of the inventory back.                 *)
ReadResponse ==
    LET l == Head(inbox)
        r == Outcome(l)
    IN  /\ Reads /\ IsLine(l) /\ IsResponse(l)
        /\ IF r = "panic" THEN reader' = "panicked" /\ UNCHANGED inventory
                          ELSE Settle(l.id) /\ UNCHANGED reader
        /\ answers' = IF r \in Response THEN [answers EXCEPT ![l.id] = Append(@, r)] ELSE answers
        /\ news' = "none"
        /\ UNCHANGED <<net, asked>>

ReadNotification ==
    /\ Reads /\ IsLine(Head(inbox)) /\ IsNotification(Head(inbox))
    /\ news' = LET n == ToNotification(Head(inbox)) IN IF n = "invalid" THEN "none" ELSE n
    /\ UNCHANGED <<net, inventory, reader, asked, answers>>

(* Requests, and lines that are no message, are only logged.               *)
ReadOther ==
    /\ Reads /\ IsLine(Head(inbox))
    /\ ~IsResponse(Head(inbox)) /\ ~IsNotification(Head(inbox))
    /\ news' = "none"
    /\ UNCHANGED <<net, inventory, reader, asked, answers>>

ReadEnd ==
    /\ Reads /\ Head(inbox) \in Ending
    /\ reader' = "ended"
    /\ UNCHANGED <<net, inventory, news, asked, answers>>

(* The receiver is left behind when the sender goes.                       *)
WrongHangUp ==
    /\ dial = "up" /\ dial' = "idle" /\ stream' = "none" /\ inbox' = <<>>
    /\ UNCHANGED <<addr, inventory, reader, news, asked, answers>>

(* The sender ends, be it with the Close of a receiver that has ended, with *)
(* Stop, or with a failed write (module Lifecycle), and aborts the receiver.*)
HangUp ==
    /\ dial = "up" /\ dial' = "idle" /\ stream' = "none"
    /\ inbox' = <<>> /\ reader' = "off"
    /\ UNCHANGED <<addr, inventory, news, asked, answers>>

-----------------------------------------------------------------------------
DialStep == Resolve \/ Reached \/ NotReached
Read == ReadResponse \/ ReadNotification \/ ReadOther \/ ReadEnd

Next ==
    \/ \E a \in Address : Dial(a)
    \/ DialStep \/ Handshake
    \/ \E i \in Id, m \in Uses : File(i, m)
    \/ \E l \in Lines \cup Ending : ServerSends(l)
    \/ Read \/ HangUp

(* The resolver ends, and so does a dial with a timeout; the receiver takes *)
(* the lines that are there.  Nothing makes the server answer a handshake.  *)
Spec == Init /\ [][Next]_vars /\ WF_vars(DialStep) /\ WF_vars(Read)

-----------------------------------------------------------------------------
(* Every variable has its type, a stream is there exactly while the        *)
(* connection is up, and nothing is read without one.                      *)
TypeOK ==
    /\ addr \in Address \cup {None}
    /\ dial \in {"idle", "resolve", "tcp", "socks", "handshake", "up"}
    /\ stream \in {"none", "Plain", "Rustls"} /\ (stream = "none" <=> dial # "up")
    /\ inventory \in [Id -> Method \cup {None}] /\ asked \in [Id -> Method \cup {None}]
    /\ inbox \in Seq(Line \cup Ending) /\ Len(inbox) <= InboxCap
    /\ reader \in {"off", "reading", "ended", "panicked"} /\ (reader = "off" <=> dial # "up")
    /\ news \in {"none", "Headers", "Script"}
    /\ answers \in [Id -> Seq(Response)]

(* What is broadcast for an id is what the call that made the request      *)
(* takes for its answer, whatever the server sends and in whichever order, *)
(* also on a later connection (types/mod.rs:259-331, client.rs:706-942).   *)
AnswersFit ==
    \A i \in Id : asked[i] \in DOMAIN Accepted =>
        \A n \in DOMAIN answers[i] : answers[i][n] = Accepted[asked[i]]

(* A server that repeats an answer does not make the client broadcast it   *)
(* twice (client.rs:369).                                                  *)
AnsweredOnce == \A i \in Id : Len(answers[i]) <= 1

(* No line but one makes the receiver give up a stream that goes on:       *)
(* neither garbage, nor methods and ids it does not know, nor answers of   *)
(* another type.  The one is an answer with fewer headers than it counts   *)
(* (types/mod.rs:271-276, client.rs:333-400).                              *)
ReaderSurvives ==
    [][reader = "reading" /\ reader' # "reading" /\ dial' = "up" =>
          \/ Head(inbox) \in Ending
          \/ /\ Head(inbox).result = "overcount"
             /\ inventory[Head(inbox).id] = "GetBlockHeaders"]_vars

(* An ssl:// address is never talked to in the clear, with a proxy or      *)
(* without, and any other never with TLS (net/mod.rs:48-59, 79-85, 102-108).  *)
EncryptedAsAsked ==
    [][dial # "up" /\ dial' = "up" => (stream' = "Rustls" <=> addr.prefix = "ssl")]_vars

(* The lines that answer a request as the Electrum protocol has it.        *)
Answer(i, v) == [Blank EXCEPT !.id = i, !.result = v]
Due(i) ==
    /\ inventory[i] \in DOMAIN Accepted
    /\ \E n \in DOMAIN inbox, v \in Decodable[inventory[i]] :
          inbox[n] = Answer(i, v) /\ \A k \in 1 .. n - 1 : inbox[k].id # i

(* A proper answer to a pending request is broadcast, whatever precedes it *)
(* in the stream, unless the receiver ends first (client.rs:330-369).      *)
AnswersArrive ==
    \A i \in Id : (reader = "reading" /\ Due(i)) ~> (answers[i] # <<>> \/ reader # "reading")

(* A new block is announced to the application (client.rs:370-383).        *)
TipLine == [Blank EXCEPT !.method = Display["BlockHeaderSubscribe"], !.params = "tips"]
TipsArrive ==
    (reader = "reading" /\ \E n \in DOMAIN inbox : inbox[n] = TipLine)
        ~> (news = "Headers" \/ reader # "reading")

(* Only the handshake can hold up a dial: name resolution and both ways to *)
(* the server end (net/mod.rs:75-77, 98-100), so that the loop that dials  *)
(* goes on.                                                                *)
DialEnds ==
    dial \in {"resolve", "tcp", "socks"} ~> dial \in {"idle", "handshake", "up"}
=============================================================================
