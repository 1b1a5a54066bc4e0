----------------------------- MODULE Session_proofs ----------------------------
(***************************************************************************)
(* Theorems about module Session, for any set of ids, any methods of the   *)
(* client, any lines of the server and any bound on what is in flight.     *)
(***************************************************************************)
EXTENDS Session, SequenceTheorems, TLAPS

-----------------------------------------------------------------------------
(* The tables of Messages.                                                 *)

LEMMA Methods ==
    Method = {"GetBlockHeader", "GetBlockHeaders", "BlockHeaderSubscribe",
              "ScriptSubscribe", "ScriptUnsubscribe", "EstimateFee", "BroadcastTx",
              "GetTransaction", "GetBalance", "GetHistory", "Features", "Version", "Ping"}
  BY DEF Method, Display

LEMMA Variants ==
    ASSUME NEW m \in Method
    PROVE  /\ Variant[m] \in Response \cup {"Null"}
           /\ m \in DOMAIN Accepted => Variant[m] = Accepted[m]
           /\ Variant[m] \notin {"Protocol", "invalid", "unknown", "panic"}
  BY Methods DEF Variant, Response, Accepted

(* Outcomes that are not broadcast.                                        *)
LEMMA NoResponse ==
    {"Protocol", "Null", "invalid", "unknown", "panic"} \cap Response = {}
  BY Variants DEF Response

(* The two tables of method.rs, Display (:37-55) and from_str (:57-79),    *)
(* agree in both directions: what the client writes for a method is read   *)
(* back as that method, a name that is read as a method is the one that is *)
(* written for it, and no two methods share a name.                        *)
THEOREM NamesRoundTrip ==
    /\ \A m \in Method : FromStr(Display[m]) = m
    /\ \A name : Known(name) => Display[FromStr(name)] = name
    /\ \A m, n \in Method : Display[m] = Display[n] => m = n
<1>1. ASSUME NEW m \in Method
      PROVE  FromStr(Display[m]) = m
  BY Methods DEF FromStr, Display
<1>2. ASSUME NEW name, Known(name)
      PROVE  Display[FromStr(name)] = name
  BY <1>2, Methods DEF Known, FromStr, Display
<1> QED
  BY <1>1, <1>2

-----------------------------------------------------------------------------
(* Types.                                                                  *)

LEMMA LineFields ==
    ASSUME NEW l \in Line
    PROVE  /\ l.id \in Id \cup {None}
           /\ IsResponse(l) => l.id \in Id
  BY DEF Line, IsResponse

LEMMA HeadAndTail ==
    ASSUME TypeOK, inbox # <<>>
    PROVE  /\ Head(inbox) \in Line \cup Ending
           /\ Tail(inbox) \in Seq(Line \cup Ending)
           /\ Len(Tail(inbox)) <= InboxCap
<1>1. inbox \in Seq(Line \cup Ending) /\ Len(inbox) <= InboxCap /\ InboxCap \in Nat
  BY SessionAssumption DEF TypeOK
<1> HIDE DEF Line, Ending
<1>2. /\ Head(inbox) \in Line \cup Ending
      /\ Tail(inbox) \in Seq(Line \cup Ending)
      /\ Len(Tail(inbox)) = Len(inbox) - 1
  BY <1>1, HeadTailProperties
<1> QED
  BY <1>1, <1>2, LenProperties

(* What a dial, the server and the end of a connection do to the types.    *)
LEMMA NetTypes ==
    ASSUME TypeOK,
           \/ \E a \in Address : Dial(a)
           \/ DialStep \/ Handshake \/ HangUp
           \/ \E l \in Lines \cup Ending : ServerSends(l)
    PROVE  TypeOK'
<1> USE SessionAssumption
<1>1. CASE \E a \in Address : Dial(a)
  BY <1>1 DEF TypeOK, Dial, receiver
<1>2. <<>> \in Seq(Line \cup Ending) /\ Len(<<>>) <= InboxCap
  BY EmptySeq
<1>3. CASE DialStep
  BY <1>2, <1>3 DEF TypeOK, DialStep, Resolve, Reached, NotReached, Open, Fail, receiver
<1>4. CASE Handshake
  BY <1>2, <1>4 DEF TypeOK, Handshake, Open, Fail, receiver
<1>5. CASE HangUp
  BY <1>2, <1>5 DEF TypeOK, HangUp
<1>6. CASE \E l \in Lines \cup Ending : ServerSends(l)
  <2>1. PICK l \in Line \cup Ending : ServerSends(l)
    BY <1>6
  <2>2. inbox \in Seq(Line \cup Ending) /\ Len(inbox) < InboxCap
    BY <2>1 DEF TypeOK, ServerSends
  <2> HIDE DEF Line, Ending
  <2>3. Append(inbox, l) \in Seq(Line \cup Ending) /\ Len(Append(inbox, l)) = Len(inbox) + 1
    BY <2>1, <2>2, AppendProperties
  <2>4. inbox' \in Seq(Line \cup Ending) /\ Len(inbox') <= InboxCap
    BY <2>1, <2>2, <2>3, LenProperties DEF ServerSends
  <2> QED
    BY <2>1, <2>4 DEF TypeOK, ServerSends, net
<1> QED
  BY <1>1, <1>3, <1>4, <1>5, <1>6

(* What the receiver does to the types.                                    *)
LEMMA ReadTypes ==
    ASSUME TypeOK, Read
    PROVE  TypeOK'
<1>1. inbox # <<>> /\ inbox' = Tail(inbox) /\ reader = "reading"
  BY DEF Read, ReadResponse, ReadNotification, ReadOther, ReadEnd, Reads
<1>2. inbox' \in Seq(Line \cup Ending) /\ Len(inbox') <= InboxCap
  BY <1>1, HeadAndTail
<1>3. CASE ReadResponse
  <2> DEFINE l == Head(inbox)
             r == Outcome(l)
  <2>1. answers' \in [Id -> Seq(Response)]
    <3>1. answers' = IF r \in Response THEN [answers EXCEPT ![l.id] = Append(@, r)] ELSE answers
      BY <1>3 DEF ReadResponse
    <3>2. answers \in [Id -> Seq(Response)]
      BY DEF TypeOK
    <3>3. ASSUME r \in Response, l.id \in Id
          PROVE  Append(answers[l.id], r) \in Seq(Response)
      BY <3>2, <3>3, AppendProperties
    <3> QED
      BY <3>1, <3>2, <3>3
  <2>2. inventory' \in [Id -> Method \cup {None}]
    BY <1>3 DEF TypeOK, ReadResponse, Settle
  <2>3. reader' \in {"reading", "panicked"}
    BY <1>1, <1>3 DEF ReadResponse
  <2> QED
    BY <1>1, <1>2, <1>3, <2>1, <2>2, <2>3 DEF TypeOK, ReadResponse, net
<1>4. CASE ReadNotification
  BY <1>1, <1>2, <1>4 DEF TypeOK, ReadNotification, ToNotification, net
<1>5. CASE ReadOther
  BY <1>1, <1>2, <1>5 DEF TypeOK, ReadOther, net
<1>6. CASE ReadEnd
  BY <1>1, <1>2, <1>6 DEF TypeOK, ReadEnd, net
<1> QED
  BY <1>3, <1>4, <1>5, <1>6 DEF Read

(* Every reachable state is well typed, a stream is there exactly while    *)
(* the connection is up, and the receiver runs on nothing else.            *)
THEOREM TypeCorrect == Spec => []TypeOK
<1>1. Init => TypeOK
  BY SessionAssumption, EmptySeq DEF Init, TypeOK
<1>2. ASSUME TypeOK, [Next]_vars
      PROVE  TypeOK'
  <2>1. ASSUME NEW i \in Id, NEW m \in Uses, File(i, m)
        PROVE  TypeOK'
    BY <1>2, <2>1, SessionAssumption DEF TypeOK, File, net
  <2>2. CASE UNCHANGED vars
    BY <1>2, <2>2 DEF TypeOK, vars, net, receiver
  <2> QED
    BY <1>2, <2>1, <2>2, NetTypes, ReadTypes DEF Next
<1> QED
  BY <1>1, <1>2, PTL DEF Spec

-----------------------------------------------------------------------------
(* Answers.                                                                *)

(* A pending request has had no answer yet and its method is the one it    *)
(* was made with; what was broadcast for an id is one response, of the     *)
(* kind of that method.                                                    *)
PendingInv == \A i \in Id :
    /\ inventory[i] # None => inventory[i] = asked[i] /\ answers[i] = <<>>
    /\ answers[i] # <<>> => asked[i] \in Method /\ answers[i] = <<Variant[asked[i]]>>

LEMMA Outcomes ==
    ASSUME NEW l, NEW m \in Method, ToResponse(l, m) \in Response
    PROVE  ToResponse(l, m) = Variant[m]
  BY NoResponse, Variants DEF ToResponse

LEMMA ReadResponseKeepsPending ==
    ASSUME TypeOK, PendingInv, ReadResponse
    PROVE  PendingInv'
<1> DEFINE l == Head(inbox)
           r == Outcome(l)
<1> SUFFICES ASSUME NEW i \in Id
             PROVE  /\ inventory'[i] # None => inventory'[i] = asked[i] /\ answers'[i] = <<>>
                    /\ answers'[i] # <<>> =>
                          asked[i] \in Method /\ answers'[i] = <<Variant[asked[i]]>>
  BY DEF PendingInv, ReadResponse
<1> USE DEF PendingInv
<1>1. inventory \in [Id -> Method \cup {None}] /\ answers \in [Id -> Seq(Response)]
  BY DEF TypeOK
<1>2. /\ inventory' = IF r = "panic" THEN inventory ELSE [inventory EXCEPT ![l.id] = None]
      /\ answers' = IF r \in Response THEN [answers EXCEPT ![l.id] = Append(@, r)] ELSE answers
  BY DEF ReadResponse, Settle
<1>3. "panic" \notin Response /\ "unknown" \notin Response
  BY NoResponse
<1>4. CASE r \notin Response \/ l.id # i
  BY <1>1, <1>2, <1>3, <1>4
<1>5. CASE r \in Response /\ l.id = i
  <2>1. inventory[i] \in Method /\ r = ToResponse(l, inventory[i])
    BY <1>1, <1>3, <1>5 DEF Outcome
  <2>2. r = Variant[inventory[i]]
    BY <1>5, <2>1, Outcomes
  <2>3. inventory[i] = asked[i] /\ answers[i] = <<>>
    BY <2>1, MessagesAssumption
  <2>4. answers'[i] = <<Variant[asked[i]]>>
    <3>1. answers'[i] = Append(<<>>, Variant[asked[i]])
      BY <1>1, <1>2, <1>5, <2>2, <2>3
    <3> QED
      BY <3>1
  <2> QED
    BY <1>1, <1>2, <1>3, <1>5, <2>1, <2>3, <2>4
<1> QED
  BY <1>4, <1>5

(* The invariant behind the two theorems that follow.                      *)
THEOREM PendingInvariant == Spec => []PendingInv
<1>1. Init => PendingInv
  BY DEF Init, PendingInv
<1>2. ASSUME TypeOK, PendingInv, [Next]_vars
      PROVE  PendingInv'
  <2>1. CASE UNCHANGED <<inventory, asked, answers>>
    BY <1>2, <2>1 DEF PendingInv
  <2>2. ASSUME NEW i \in Id, NEW m \in Uses, File(i, m)
        PROVE  PendingInv'
    BY <1>2, <2>2, MessagesAssumption DEF File, PendingInv, TypeOK
  <2>3. CASE (\E a \in Address : Dial(a)) \/ DialStep \/ Handshake
    BY <2>1, <2>3 DEF Dial, DialStep, Resolve, Reached, NotReached, Handshake, Open, Fail, receiver
  <2>4. CASE (\E l \in Lines \cup Ending : ServerSends(l)) \/ HangUp \/ UNCHANGED vars
    BY <2>1, <2>4 DEF ServerSends, HangUp, vars, receiver
  <2>5. CASE ReadNotification \/ ReadOther \/ ReadEnd
    BY <2>1, <2>5 DEF ReadNotification, ReadOther, ReadEnd
  <2> QED
    BY <1>2, <2>2, <2>3, <2>4, <2>5, ReadResponseKeepsPending DEF Next, Read
<1> QED
  BY <1>1, <1>2, TypeCorrect, PTL DEF Spec

(* Whatever the server sends, and on whichever connection, what is         *)
(* broadcast for an id is of the kind its caller takes (client.rs:706-942).*)
THEOREM FittingAnswers == Spec => []AnswersFit
<1>1. ASSUME TypeOK, PendingInv
      PROVE  AnswersFit
  <2> SUFFICES ASSUME NEW i \in Id, asked[i] \in DOMAIN Accepted, NEW n \in DOMAIN answers[i]
               PROVE  answers[i][n] = Accepted[asked[i]]
    BY DEF AnswersFit
  <2>1. answers[i] = <<Variant[asked[i]]>> /\ asked[i] \in Method
    BY <1>1 DEF PendingInv
  <2>2. Variant[asked[i]] = Accepted[asked[i]]
    BY <2>1, Variants
  <2> QED
    BY <2>1, <2>2
<1> QED
  BY <1>1, TypeCorrect, PendingInvariant, PTL

(* A repeated answer is not broadcast again (client.rs:369).               *)
THEOREM SingleAnswers == Spec => []AnsweredOnce
<1>1. ASSUME PendingInv
      PROVE  AnsweredOnce
  <2> SUFFICES ASSUME NEW i \in Id
               PROVE  Len(answers[i]) <= 1
    BY DEF AnsweredOnce
  <2>1. answers[i] = <<>> \/ answers[i] = <<Variant[asked[i]]>>
    BY <1>1 DEF PendingInv
  <2>2. CASE answers[i] = <<>>
    BY <2>2, EmptySeq
  <2>3. CASE answers[i] = <<Variant[asked[i]]>>
    <3>1. Len(<<Variant[asked[i]]>>) = 1
      OBVIOUS
    <3> QED
      BY <2>3, <3>1
  <2> QED
    BY <2>1, <2>2, <2>3
<1> QED
  BY <1>1, PendingInvariant, PTL

-----------------------------------------------------------------------------
(* What a step may never do.                                               *)

(* The receiver ends with the stream, or at an answer with fewer headers   *)
(* than it counts (types/mod.rs:273-279).                                  *)
THEOREM SurvivingReader == Spec => ReaderSurvives
<1>1. ASSUME TypeOK, [Next]_vars, reader = "reading", reader' # "reading", dial' = "up"
      PROVE  \/ Head(inbox) \in Ending
             \/ Head(inbox).result = "overcount" /\ inventory[Head(inbox).id] = "GetBlockHeaders"
  <2>1. CASE ReadEnd
    BY <2>1 DEF ReadEnd, Reads
  <2>2. CASE ReadResponse
    <3> DEFINE l == Head(inbox)
    <3>1. Outcome(l) = "panic" /\ l \notin Ending /\ IsResponse(l) /\ inbox # <<>>
      BY <1>1, <2>2 DEF ReadResponse, Reads, IsLine
    <3>2. l \in Line
      BY <1>1, <3>1, HeadAndTail
    <3>3. inventory[l.id] \in Method /\ ToResponse(l, inventory[l.id]) = "panic"
      BY <1>1, <3>1, <3>2, LineFields DEF TypeOK, Outcome
    <3> QED
      BY <3>3, Variants DEF ToResponse
  <2>3. ~((\E a \in Address : Dial(a)) \/ DialStep \/ Handshake)
    BY <1>1 DEF TypeOK, Dial, DialStep, Resolve, Reached, NotReached, Handshake
  <2>4. ~HangUp
    BY <1>1 DEF HangUp
  <2>5. ~((\E l \in Lines \cup Ending : ServerSends(l)) \/ \E i \in Id, m \in Uses : File(i, m))
    BY <1>1 DEF ServerSends, File
  <2>6. ~(ReadNotification \/ ReadOther \/ UNCHANGED vars)
    BY <1>1 DEF ReadNotification, ReadOther, vars, receiver
  <2> QED
    BY <1>1, <2>1, <2>2, <2>3, <2>4, <2>5, <2>6 DEF Next, Read
<1>2. TypeOK /\ [Next]_vars
      => [reader = "reading" /\ reader' # "reading" /\ dial' = "up" =>
            \/ Head(inbox) \in Ending
            \/ Head(inbox).result = "overcount"
               /\ inventory[Head(inbox).id] = "GetBlockHeaders"]_vars
  BY <1>1
<1> QED
  BY <1>2, TypeCorrect, PTL DEF Spec, ReaderSurvives

(* Only addresses that ask for TLS reach the handshake.                    *)
TlsInv == dial = "handshake" => addr.prefix = "ssl"

(* A connection is encrypted if and only if its address says so.           *)
THEOREM EncryptionAsAsked == Spec => EncryptedAsAsked
<1>1. Init => TlsInv
  BY DEF Init, TlsInv
<1>2. ASSUME TlsInv, [Next]_vars
      PROVE  /\ TlsInv'
             /\ dial # "up" /\ dial' = "up" => (stream' = "Rustls" <=> addr.prefix = "ssl")
  <2>1. CASE \E a \in Address : Dial(a)
    BY <2>1 DEF Dial, TlsInv
  <2>2. CASE DialStep \/ Handshake
    BY <1>2, <2>2 DEF DialStep, Resolve, Reached, NotReached, Handshake, Open, Fail, TlsInv
  <2>3. CASE Read \/ (\E l \in Lines \cup Ending : ServerSends(l)) \/ \E i \in Id, m \in Uses : File(i, m)
    BY <1>2, <2>3 DEF Read, ReadResponse, ReadNotification, ReadOther, ReadEnd, ServerSends,
          File, net, TlsInv
  <2>4. CASE HangUp \/ UNCHANGED vars
    BY <1>2, <2>4 DEF HangUp, vars, net, TlsInv
  <2> QED
    BY <1>2, <2>1, <2>2, <2>3, <2>4 DEF Next
<1>3. TlsInv /\ [Next]_vars
      => [dial # "up" /\ dial' = "up" => (stream' = "Rustls" <=> addr.prefix = "ssl")]_vars
  BY <1>2
<1> QED
  BY <1>1, <1>2, <1>3, PTL DEF Spec, EncryptedAsAsked
=============================================================================
