------------------------------ MODULE MCMutex ------------------------------
(***************************************************************************)
(* A small instance of Mutex: three coroutines on two threads, two of them *)
(* sharing one.                                                            *)
(***************************************************************************)
EXTENDS Mutex, TLC

CONSTANTS co1, co2, co3, t1, t2

Coroutines == {co1, co2, co3}
Threads == {t1, t2}

\* co1 and co3 share a thread, co2 has its own.
Shared == co1 :> t1 @@ co2 :> t2 @@ co3 :> t1

\* Once each, twice for the first.
FirstTwice == [c \in Co |-> IF c = co1 THEN 2 ELSE 1]
=============================================================================
