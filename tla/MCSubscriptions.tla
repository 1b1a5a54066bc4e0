---------------------------- MODULE MCSubscriptions ----------------------------
(***************************************************************************)
(* Module Subscriptions for TLC.                                           *)
(***************************************************************************)
EXTENDS Subscriptions

(* Every script has a task of its own.                                     *)
Owner == CHOOSE f \in [Script -> User] : \A u \in User : \E s \in Script : f[s] = u
OwnScripts == {<<Owner[s], s>> : s \in Script}
=============================================================================
