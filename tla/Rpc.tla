---------------------------------- MODULE Rpc ----------------------------------
(***************************************************************************)
(* What the callers of a request-response client may rely on: an id stands *)
(* for one request of one call, a request is answered once at most, and a  *)
(* call that ends with its answers ends after all of them.                 *)
(***************************************************************************)
CONSTANTS Caller, Id

VARIABLES
    fresh,      \* ids not given to a request yet
    open,       \* ids of requests that have no answer yet
    want,       \* ids of the requests of each call
    out         \* each call: "running", or how the last one ended

rvars == <<fresh, open, want, out>>

Answered == Id \ (fresh \cup open)

Init ==
    /\ fresh = Id /\ open = {}
    /\ want = [k \in Caller |-> {}] /\ out = [k \in Caller |-> "unanswered"]

Begin(k) ==
    /\ out[k] # "running"
    /\ out' = [out EXCEPT ![k] = "running"]
    /\ UNCHANGED <<fresh, open, want>>

Ask(k, i) ==
    /\ out[k] = "running" /\ i \in fresh
    /\ fresh' = fresh \ {i} /\ open' = open \cup {i}
    /\ want' = [want EXCEPT ![k] = @ \cup {i}]
    /\ UNCHANGED out

Answer(i) == i \in open /\ open' = open \ {i} /\ UNCHANGED <<fresh, want, out>>

Finish(k) ==
    /\ out[k] = "running" /\ want[k] \subseteq Answered
    /\ out' = [out EXCEPT ![k] = "answered"] /\ want' = [want EXCEPT ![k] = {}]
    /\ UNCHANGED <<fresh, open>>

(* A timeout, a failure, or a call that does not wait for answers.         *)
GiveUp(k) ==
    /\ out[k] = "running"
    /\ out' = [out EXCEPT ![k] = "unanswered"] /\ want' = [want EXCEPT ![k] = {}]
    /\ UNCHANGED <<fresh, open>>

Next ==
    \/ \E k \in Caller : Begin(k) \/ Finish(k) \/ GiveUp(k) \/ \E i \in Id : Ask(k, i)
    \/ \E i \in Id : Answer(i)

Spec == Init /\ [][Next]_rvars
=============================================================================
