---------------------------- MODULE MCRpcClient ----------------------------
(* An instance of RpcClient for TLC: one coroutine makes a call with a     *)
(* timeout and one without, another a one-way call and one without a       *)
(* timeout, on a channel with one connection at a time; three can be made. *)
EXTENDS RpcClient

CONSTANTS c1, c2, k1, k2, k3

TwoCallers == {c1, c2}
ThreeConns == {k1, k2, k3}
FourCalls == c1 :> <<"timed", "plain">> @@ c2 :> <<"oneway", "plain">>
============================================================================
