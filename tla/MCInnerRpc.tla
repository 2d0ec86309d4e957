---------------------------- MODULE MCInnerRpc ----------------------------
(***************************************************************************)
(* Two calling coroutines and two workers.  The first caller makes         *)
(* two calls, so that the second can meet what is left of the first.       *)
(***************************************************************************)
EXTENDS InnerRpc

CONSTANTS c1, c2, w1, w2

TwoCallers == {c1, c2}
Workers == {w1, w2}

FirstCallsTwice == [c \in Caller |-> IF c = c1 THEN 2 ELSE 1]
=============================================================================
