--------------------------- MODULE ConnectionSpec ---------------------------
(***************************************************************************)
(* What a connection of the IO layer promises to the code that owns it     *)
(* (RpcClient, RpcServer, MessageTerminal): the life of a connection has   *)
(* three phases; while it is open the data handed to send() is queued and  *)
(* encoded; once it is closing nothing new is queued, but what is queued   *)
(* may still be encoded and what comes later goes to                       *)
(* cleanDataOnClosing(); after onClose() the queue of the connection is    *)
(* never touched again, so that onClose() finds in it everything that was  *)
(* neither encoded nor cleaned.                                            *)
(***************************************************************************)
CONSTANT Data \* the data handed to send()

VARIABLES phase, fate

specVars == <<phase, fate>>

Init ==
    /\ phase = "open"
    /\ fate = [d \in Data |-> "new"]

Move(S, from, to) ==
    /\ S # {}
    /\ \A d \in S : fate[d] = from
    /\ fate' = [d \in Data |-> IF d \in S THEN to ELSE fate[d]]
    /\ UNCHANGED phase

Submit(d) == Move({d}, "new", "submitted")
Accept(d) == phase = "open" /\ Move({d}, "submitted", "queued")
Take(S) == phase # "closed" /\ Move(S, "queued", "taken")
Clean(d) == phase # "open" /\ Move({d}, "submitted", "cleaned")

Closing ==
    /\ phase = "open"
    /\ phase' = "closing"
    /\ UNCHANGED fate

OnClose ==
    /\ phase = "closing"
    /\ phase' = "closed"
    /\ UNCHANGED fate

Next ==
    \/ \E d \in Data : Submit(d) \/ Accept(d) \/ Clean(d)
    \/ \E S \in SUBSET Data : Take(S)
    \/ Closing
    \/ OnClose

Spec == Init /\ [][Next]_specVars
=============================================================================
