---- MODULE MCSync ----
(***************************************************************************)
(* The primitives that coroutines block on in one run; a behaviour is one  *)
(* of its parts, the others stay in a state in which nobody calls.         *)
(*   "semaphore": two coroutines wait and two post, two calls each;        *)
(*   "rwmutex": three readers and two writers that never stop;             *)
(*   "condition": three consumers, two producers, as many items as the     *)
(*       consumers take.                                                   *)
(***************************************************************************)
EXTENDS Semaphore, RWMutex, Condition

CONSTANTS w1, w2, p1, p2, r1, r2, r3, c1, c2, c3

VARIABLE part

EnoughItems == [c \in CondCo |-> IF c \in {c1, p1, p2} THEN 2 ELSE 1]
NoItems == [c \in CondCo |-> 0]

Init ==
    /\ RWInit
    /\ \/ part = "semaphore" /\ SemInit(2) /\ CondInit(NoItems)
       \/ part = "condition" /\ SemInit(0) /\ CondInit(EnoughItems)
       \/ part = "rwmutex" /\ SemInit(0) /\ CondInit(NoItems)

Next ==
    \/ part = "semaphore" /\ SemNext /\ UNCHANGED <<part, rwVars, condVars>>
    \/ part = "rwmutex" /\ RWNext /\ UNCHANGED <<part, semVars, condVars>>
    \/ part = "condition" /\ CondNext /\ UNCHANGED <<part, semVars, rwVars>>

Spec ==
    /\ Init /\ [][Next]_<<part, semVars, rwVars, condVars>>
    /\ SemFairness /\ RWFairness /\ CondFairness
====
