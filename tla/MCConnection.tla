---------------------------- MODULE MCConnection ----------------------------
(***************************************************************************)
(* A behaviour is that of a connection of the library, or that of a Unity  *)
(* client.                                                                 *)
(***************************************************************************)
EXTENDS Connection, UnityClient

CONSTANTS d1, b1, u1

VARIABLE part

OneData == {d1}
OneBeat == {b1}
OneUser == {u1}

MCInit ==
    /\ Init
    /\ \/ part = "connection" /\ UnityInit({"tcp"}, {"send"})
       \/ part = "unity" /\ UnityInit(Kinds, {"send", "recv"})

MCNext ==
    \/ part = "connection" /\ Next /\ UNCHANGED <<part, unityVars>>
    \/ part = "unity" /\ UnityNext /\ UNCHANGED <<part, vars>>

\* Connection's Fairness, in its part.
Runs == part = "connection"

MCFairness ==
    /\ WF_vars(Runs /\ Acceptor) /\ WF_vars(Runs /\ SenderThread)
    /\ WF_vars(Runs /\ ReceiverThread)
    /\ WF_vars(Runs /\ HbDispatch) /\ WF_vars(Runs /\ HbRemoveClosed)
    /\ \A c \in Closer : WF_vars(Runs /\ pc[c] # "idle" /\ Close(c))

MCSpec ==
    /\ MCInit /\ [][MCNext]_<<part, vars, unityVars>>
    /\ MCFairness /\ UnityFairness

\* Nothing is used out of its time: the descriptor and the sender's index of a
\* connection, and the queues and the socket of a Unity client.
OwnersSound == ConnectionSound /\ UnitySound

\* What is closed comes to its end: the sender and the receiver of a connection
\* do not wait for each other, a Unity client's tasks end and do not leave a
\* message behind.
ClosesComplete == CloseCompletes /\ UnityServed
=============================================================================
