------------------------------- MODULE KeepAlive -------------------------------
(***************************************************************************)
(* What an application that never stops the client may rely on, in terms   *)
(* of the public status and of whether a connection is in service: the     *)
(* status follows one cycle, Connected and "in service" come and go        *)
(* together, and a client that is down dials again.                        *)
(***************************************************************************)
VARIABLES status, up

kvars == <<status, up>>

Init == status = "Initialized" /\ up = FALSE

(* connect(false) leaves the first dial to the loop.                       *)
Start == status = "Initialized" /\ status' = "Disconnected" /\ UNCHANGED up

(* connect(true) dials at once, the loop whenever it finds the client down.*)
StartDialing ==
    status \in {"Initialized", "Disconnected"} /\ status' = "Connecting" /\ UNCHANGED up

Establish == status = "Connecting" /\ status' = "Connected" /\ up' = TRUE

GiveUp == status = "Connecting" /\ status' = "Disconnected" /\ UNCHANGED up

Lose == status = "Connected" /\ status' = "Disconnected" /\ up' = FALSE

Next == Start \/ StartDialing \/ Establish \/ GiveUp \/ Lose

Redial == status = "Disconnected" /\ StartDialing

Spec ==
    /\ Init /\ [][Next]_kvars
    /\ WF_kvars(Redial) /\ WF_kvars(Establish \/ GiveUp)
=============================================================================
