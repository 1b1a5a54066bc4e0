------------------------------- MODULE MCRequests ------------------------------
(***************************************************************************)
(* Module Requests for TLC.                                                *)
(***************************************************************************)
EXTENDS Requests

(* Between them the two tasks make every call, each kind of batch next to  *)
(* a single request of the other task, and both of them single requests.   *)
Batcher == CHOOSE k \in Caller : TRUE
Others == Caller \ {Batcher}
SomeUses == {Batcher} \X {"batch", "call"} \cup Others \X {"ping", "call", "send"}

(* One request at a time.                                                  *)
SingleCalls == Caller \X {"call"}

(* An id between fetch_add and insert is open already.                     *)
R == INSTANCE Rpc WITH
        fresh <- lastId .. MaxId - 1,
        open <- inventory \cup {Last(call[k].ids) : k \in {j \in Caller : At(j, "insert")}},
        want <- [k \in Caller |-> ToSet(call[k].ids)],
        out <- [k \in Caller |-> CASE Active(k) -> "running"
                                   [] call[k] = Idle("answers") -> "answered"
                                   [] OTHER -> "unanswered"]

(* Calls implement Rpc: a call that ends with its answers does so after    *)
(* the server has answered each of its own requests (client.rs:641-696,    *)
(* :886-911).                                                              *)
ImplementsRpc == R!Spec
=============================================================================
