------------------------------ MODULE MCLifecycle ------------------------------
(***************************************************************************)
(* Module Lifecycle for TLC, with the mutants its properties are tried on. *)
(***************************************************************************)
EXTENDS Lifecycle, TLC

(* Loops and connections are interchangeable.                              *)
Pools == Permutations(Loop) \cup Permutations(Conn)

KA == INSTANCE KeepAlive WITH up <- \E c \in Conn : Serving(c)

(* Without stop(), the lifecycle implements the abstract cycle.            *)
ImplementsKeepAlive == KA!Spec
=============================================================================
