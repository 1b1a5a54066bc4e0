-------------------------------- MODULE MCSession ------------------------------
(***************************************************************************)
(* Module Session for TLC.                                                 *)
(***************************************************************************)
EXTENDS Session

(* Results that answer, ones that do not, errors; requests of the server,  *)
(* notifications, and what is neither.                                     *)
SomeLines ==
    {[Blank EXCEPT !.id = i, !.result = v] :
        i \in Id, v \in {"null", "overcount", "hash"}}
    \cup {[Blank EXCEPT !.id = i, !.error = TRUE] : i \in Id}
    \cup {[Compose(i, "Ping") EXCEPT !.method = name] : i \in Id, name \in {Display["Ping"], "unknown"}}
    \cup {TipLine}
    \cup {[TipLine EXCEPT !.method = Display["ScriptSubscribe"], !.params = p] :
             p \in {"status", "nullStatus"}}
    \cup {[Blank EXCEPT !.text = FALSE]}
=============================================================================
