----------------------------- MODULE FifoQueue -----------------------------
(***************************************************************************)
(* What Co_MPSC_NoLockQueue promises: values leave in the order in which   *)
(* they were pushed, each once.                                            *)
(***************************************************************************)
EXTENDS Sequences

CONSTANT Value

VARIABLES q, got

Init == q = <<>> /\ got = <<>>

Push(x) == q' = Append(q, x) /\ UNCHANGED got

Pop == q # <<>> /\ got' = Append(got, Head(q)) /\ q' = Tail(q)

Next == Pop \/ \E x \in Value : Push(x)

Spec == Init /\ [][Next]_<<q, got>>
=============================================================================
