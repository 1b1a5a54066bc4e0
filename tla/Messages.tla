-------------------------------- MODULE Messages -------------------------------
(***************************************************************************)
(* The lines exchanged with the server and what they decode to             *)
(* (src/types/mod.rs, src/types/method.rs).                                *)
(*                                                                         *)
(* A line is kept as far as the decoding tells lines apart: which fields   *)
(* it has and what their values are good for.  A value is named after what *)
(* it can be decoded to: a "hash" is 32 bytes in hex, "headers" an object  *)
(* with a count and the data of that many headers at least, "overcount"    *)
(* one with less data than it counts, and "other" what no method expects.  *)
(***************************************************************************)
EXTENDS Naturals

CONSTANTS
    Id,         \* ids of requests
    None        \* a field that a line does not have

(* The wire names of the methods.  Display and FromStr are two tables in   *)
(* the code, and so they are here.                                         *)
Display ==
    [GetBlockHeader       |-> "blockchain.block.header",
     GetBlockHeaders      |-> "blockchain.block.headers",
     BlockHeaderSubscribe |-> "blockchain.headers.subscribe",
     ScriptSubscribe      |-> "blockchain.scripthash.subscribe",
     ScriptUnsubscribe    |-> "blockchain.scripthash.unsubscribe",
     EstimateFee          |-> "blockchain.estimatefee",
     BroadcastTx          |-> "blockchain.transaction.broadcast",
     GetTransaction       |-> "blockchain.transaction.get",
     GetBalance           |-> "blockchain.scripthash.get_balance",
     GetHistory           |-> "blockchain.scripthash.get_history",
     Features             |-> "server.features",
     Version              |-> "server.version",
     Ping                 |-> "server.ping"]

Method == DOMAIN Display

ASSUME MessagesAssumption == None \notin Id \cup Method

Name == {Display[m] : m \in Method} \cup {"unknown"}

(* Any other name is an error, UnknownMethod.                              *)
FromStr(name) ==
    CASE name = "blockchain.block.header"           -> "GetBlockHeader"
      [] name = "blockchain.block.headers"          -> "GetBlockHeaders"
      [] name = "blockchain.headers.subscribe"      -> "BlockHeaderSubscribe"
      [] name = "blockchain.scripthash.subscribe"   -> "ScriptSubscribe"
      [] name = "blockchain.scripthash.unsubscribe" -> "ScriptUnsubscribe"
      [] name = "blockchain.estimatefee"            -> "EstimateFee"
      [] name = "blockchain.transaction.broadcast"  -> "BroadcastTx"
      [] name = "blockchain.transaction.get"        -> "GetTransaction"
      [] name = "blockchain.scripthash.get_balance" -> "GetBalance"
      [] name = "blockchain.scripthash.get_history" -> "GetHistory"
      [] name = "server.features"                   -> "Features"
      [] name = "server.version"                    -> "Version"
      [] name = "server.ping"                       -> "Ping"
      [] OTHER                                      -> "UnknownMethod"

Known(name) == FromStr(name) \in Method

(* The values a result can have, and the parameters of a message: "empty"  *)
(* is the empty list, "list" one of numbers, strings and the like, "tips"  *)
(* are headers with their heights, "badTips" such with a header that is    *)
(* none, "status" a script hash with its status, "nullStatus" one without. *)
Value == {"null", "header", "headers", "overcount", "tip", "hash", "bool", "number",
          "tx", "balance", "history", "features", "other"}
Parameters == {"empty", "list", "tips", "badTips", "status", "nullStatus"}

(* Any line: `text` is FALSE for one that is not JSON at all.              *)
Line ==
    [text : BOOLEAN, id : Id \cup {None}, method : Name \cup {None},
     params : Parameters \cup {None}, result : Value \cup {None}, error : BOOLEAN]

Blank == [text |-> TRUE, id |-> None, method |-> None, params |-> None,
          result |-> None, error |-> FALSE]

(* JsonRpcMsg::request(): the parameters of every method are Param values. *)
Compose(i, m) ==
    [Blank EXCEPT !.id = i, !.method = Display[m],
                  !.params = IF m \in {"BlockHeaderSubscribe", "Features", "Ping"}
                               THEN "empty" ELSE "list"]

-----------------------------------------------------------------------------
(* Definitions named Wrong... are variants of the definition that follows, *)
(* each with one plausible mistake; no specification uses them.            *)

(* JsonRpcMsg is untagged: a line is the first of the three it has the     *)
(* fields of, and fields that a message does not know are ignored.  Both   *)
(* the result and the error of a response may be missing.  A script hash   *)
(* with its status is a list of strings as well.                           *)
IsRequest(l) ==
    l.text /\ l.id # None /\ Known(l.method) /\ l.params \in {"empty", "list", "status"}

(* Every field must be there.                                              *)
WrongIsResponse(l) == l.text /\ l.id # None /\ l.result # None /\ l.error

IsResponse(l) == l.text /\ l.id # None /\ ~IsRequest(l)
IsNotification(l) == l.text /\ l.id = None /\ Known(l.method) /\ l.params # None

(* The values that the answer to a method decodes from, and the Response   *)
(* it becomes.                                                             *)
Decodable ==
    [GetBlockHeader |-> {"header"}, GetBlockHeaders |-> {"headers"},
     BlockHeaderSubscribe |-> {"tip"}, ScriptSubscribe |-> {"hash"},
     ScriptUnsubscribe |-> {"bool"}, EstimateFee |-> {"number"},
     BroadcastTx |-> {"hash"}, GetTransaction |-> {"tx"}, GetBalance |-> {"balance"},
     GetHistory |-> {"history"}, Features |-> {"features"},
     Version |-> Value, Ping |-> Value]

Variant ==
    [GetBlockHeader |-> "BlockHeader", GetBlockHeaders |-> "BlockHeaders",
     BlockHeaderSubscribe |-> "HeaderNotification", ScriptSubscribe |-> "ScriptStatus",
     ScriptUnsubscribe |-> "ScriptUnsubscribe", EstimateFee |-> "EstimateFee",
     BroadcastTx |-> "BroadcastTx", GetTransaction |-> "Transaction",
     GetBalance |-> "Balance", GetHistory |-> "History", Features |-> "Features",
     Version |-> "Null", Ping |-> "Pong"]

(* The first method that a result fits names it.                           *)
WrongToResponse(l, m) ==
    CASE l.result \in {"null", None} -> "Null"
      [] l.result = "hash" -> Variant["ScriptSubscribe"]
      [] OTHER -> Variant[m]

(* to_response(): a null result is no result, and without an error either  *)
(* the response is Null.  The headers are sliced by the count of the same  *)
(* answer, and a count beyond the data panics.                             *)
ToResponse(l, m) ==
    CASE l.result \in {"null", None} -> IF l.error THEN "Protocol" ELSE "Null"
      [] m = "GetBlockHeaders" /\ l.result = "overcount" -> "panic"
      [] l.result \in Decodable[m] -> Variant[m]
      [] OTHER -> "invalid"

Response == {Variant[m] : m \in Method} \ {"Null"}

(* A new header comes alone.                                               *)
WrongToNotification(l) ==
    CASE FromStr(l.method) = "ScriptSubscribe" /\ l.params = "status" -> "Script"
      [] OTHER -> "invalid"

(* to_notification(): the two methods a server notifies with.  A script    *)
(* that has lost its history has no status, which is refused.              *)
ToNotification(l) ==
    CASE FromStr(l.method) = "BlockHeaderSubscribe" /\ l.params \in {"tips", "empty"}
           -> "Headers"
      [] FromStr(l.method) = "ScriptSubscribe" /\ l.params = "status" -> "Script"
      [] OTHER -> "invalid"

(* What the method of the client that made a request takes for its answer; *)
(* nobody waits for the answer to a ping, and Version is not sent at all.  *)
Accepted ==
    [GetBlockHeader |-> "BlockHeader", GetBlockHeaders |-> "BlockHeaders",
     BlockHeaderSubscribe |-> "HeaderNotification", ScriptSubscribe |-> "ScriptStatus",
     ScriptUnsubscribe |-> "ScriptUnsubscribe", EstimateFee |-> "EstimateFee",
     BroadcastTx |-> "BroadcastTx", GetTransaction |-> "Transaction",
     GetBalance |-> "Balance", GetHistory |-> "History", Features |-> "Features"]
=============================================================================
