----------------------------- MODULE MCMessage -----------------------------
(***************************************************************************)
(* Requests have a handler that runs in a coroutine.                       *)
(***************************************************************************)
EXTENDS Message

MCRegisterInfo ==
    [t \in {"login", "ask", "banned"} |-> t = "ask"]
=============================================================================
