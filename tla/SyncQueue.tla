----------------------------- MODULE SyncQueue -----------------------------
(***************************************************************************)
(* CoSyncQueue (corpc_queue.h), which stands in for Co_MPSC_NoLockQueue in *)
(* a build without USE_NO_LOCK_QUEUE, and the loop of its consumer.        *)
(*                                                                         *)
(* Producers append to inqueue_ under a mutex and then write a byte to a   *)
(* pipe.  The consumer keeps outqueue_ to itself; when it is empty, it     *)
(* looks at inqueue_ without the mutex and swaps the lists under it.  That *)
(* look races with the push of a first element: it can see an element that *)
(* is just being linked, and miss one whose producer has not yet written   *)
(* its byte.                                                               *)
(***************************************************************************)
EXTENDS Integers, Sequences, FiniteSets

CONSTANTS
    Producers,    \* threads that push
    MaxItems,     \* bound: the pushes of each producer
    SyncPipeCap,  \* bytes the pipe holds (65536 on Linux)
    SyncReadMax,  \* bytes one read takes (1024)
    Nobody        \* the mutex is free

ASSUME SyncQueueAssumption ==
    /\ MaxItems \in Nat
    /\ SyncPipeCap \in Nat \ {0} /\ SyncReadMax \in Nat \ {0}
    /\ Nobody \notin Producers

VARIABLES
    inqueue,   \* inqueue_
    outqueue,  \* outqueue_
    queueMutex,\* who holds queueMutex_
    queuePipe, \* bytes in queuePipe_
    pushPc,    \* where each producer is
    pushed,    \* how many pushes it has made
    popPc,     \* where the consumer is
    popped     \* what pop() has returned

lists == <<inqueue, outqueue>>
syncVars == <<lists, queueMutex, queuePipe, pushPc, pushed, popPc, popped>>

Items == Producers \X (1 .. MaxItems)

SyncQueueInit ==
    /\ inqueue = <<>> /\ outqueue = <<>>
    /\ queueMutex = Nobody
    /\ queuePipe = 0
    /\ pushPc = [p \in Producers |-> "idle"]
    /\ pushed = [p \in Producers |-> 0]
    /\ popPc = "read"
    /\ popped = <<>>

-----------------------------------------------------------------------------
(* push()                                                                  *)

PushLock(p) ==
    /\ pushPc[p] = "idle" /\ pushed[p] < MaxItems
    /\ queueMutex = Nobody
    /\ queueMutex' = p
    /\ pushed' = [pushed EXCEPT ![p] = @ + 1]
    /\ pushPc' = [pushPc EXCEPT ![p] = "append"]
    /\ UNCHANGED <<lists, queuePipe, popPc, popped>>

PushBack(p) ==
    /\ pushPc[p] = "append"
    /\ inqueue' = Append(inqueue, <<p, pushed[p]>>)
    /\ pushPc' = [pushPc EXCEPT ![p] = "unlock"]
    /\ UNCHANGED <<outqueue, queueMutex, queuePipe, pushed, popPc, popped>>

PushUnlock(p) ==
    /\ pushPc[p] = "unlock"
    /\ queueMutex' = Nobody
    /\ pushPc' = [pushPc EXCEPT ![p] = "write"]
    /\ UNCHANGED <<lists, queuePipe, pushed, popPc, popped>>

\* The pipe is non-blocking: a byte that does not fit is dropped.
PushWrite(p) ==
    /\ pushPc[p] = "write"
    /\ queuePipe' = IF queuePipe < SyncPipeCap THEN queuePipe + 1 ELSE queuePipe
    /\ pushPc' = [pushPc EXCEPT ![p] = "idle"]
    /\ UNCHANGED <<lists, queueMutex, pushed, popPc, popped>>

-----------------------------------------------------------------------------
(* The consumer: read the pipe, then pop() until it returns nullptr.       *)

SyncRead ==
    /\ popPc = "read" /\ queuePipe > 0
    /\ queuePipe' = IF queuePipe > SyncReadMax THEN queuePipe - SyncReadMax ELSE 0
    /\ popPc' = "pop"
    /\ UNCHANGED <<lists, queueMutex, pushPc, pushed, popped>>

\* What the unlocked inqueue_.empty() can answer.
SeenEmpty ==
    \/ inqueue = <<>>
    \/ Len(inqueue) = 1 /\ pushPc[inqueue[1][1]] \in {"unlock", "write"}
SeenFilled ==
    \/ inqueue # <<>>
    \/ \E p \in Producers : pushPc[p] = "append"

\* pop() returns nullptr.
PopNothing ==
    /\ popPc = "pop" /\ outqueue = <<>> /\ SeenEmpty
    /\ popPc' = "read"
    /\ UNCHANGED <<lists, queueMutex, queuePipe, pushPc, pushed, popped>>

PopLook ==
    /\ popPc = "pop" /\ outqueue = <<>> /\ SeenFilled
    /\ popPc' = "swap"
    /\ UNCHANGED <<lists, queueMutex, queuePipe, pushPc, pushed, popped>>

\* inqueue_.swap(outqueue_), in the consumer's critical section.
PopSwap ==
    /\ popPc = "swap" /\ queueMutex = Nobody
    /\ inqueue' = outqueue /\ outqueue' = inqueue
    /\ popPc' = "front"
    /\ UNCHANGED <<queueMutex, queuePipe, pushPc, pushed, popped>>

\* outqueue_.front() and pop_front(), after the swap or at once.
PopFront ==
    /\ popPc = "front" \/ (popPc = "pop" /\ outqueue # <<>>)
    /\ outqueue # <<>>
    /\ popped' = Append(popped, Head(outqueue))
    /\ outqueue' = Tail(outqueue)
    /\ popPc' = "pop"
    /\ UNCHANGED <<inqueue, queueMutex, queuePipe, pushPc, pushed>>

-----------------------------------------------------------------------------

SyncPush(p) == PushLock(p) \/ PushBack(p) \/ PushUnlock(p) \/ PushWrite(p)

SyncConsume == SyncRead \/ PopNothing \/ PopLook \/ PopSwap \/ PopFront

SyncQueueNext == SyncConsume \/ \E p \in Producers : SyncPush(p)

SyncQueueSpec == SyncQueueInit /\ [][SyncQueueNext]_syncVars

\* A push that has begun ends, and the consumer's thread goes on.
SyncQueueFairness ==
    /\ WF_syncVars(SyncConsume)
    /\ \A p \in Producers : WF_syncVars(PushBack(p) \/ PushUnlock(p) \/ PushWrite(p))

-----------------------------------------------------------------------------
(* What the queue promises.                                                *)

SyncTypeOK ==
    /\ inqueue \in Seq(Items) /\ outqueue \in Seq(Items) /\ popped \in Seq(Items)
    /\ queueMutex \in Producers \cup {Nobody}
    /\ queuePipe \in 0 .. SyncPipeCap
    /\ pushPc \in [Producers -> {"idle", "append", "unlock", "write"}]
    /\ pushed \in [Producers -> 0 .. MaxItems]
    /\ popPc \in {"read", "pop", "swap", "front"}

\* front() is never called on an empty list: what the unlocked look saw is still
\* there, or there by then, when the lists are swapped.  And nothing is pushed
\* without a byte in the pipe, or somebody about to write one, to tell of it.
SyncQueueSound ==
    /\ SyncTypeOK
    /\ popPc = "front" => outqueue # <<>>
    /\ popPc = "read" /\ (inqueue # <<>> \/ outqueue # <<>>) =>
           \/ queuePipe > 0
           \/ \E p \in Producers : pushPc[p] \in {"unlock", "write"}

\* In the end everything that was pushed is popped, also when the byte of a push
\* was dropped.
SyncAllPopped == <>[](inqueue = <<>> /\ outqueue = <<>>)

\* The queue implements FifoQueue; a push takes effect at its push_back().
SyncAbstract == INSTANCE FifoQueue WITH
    Value <- Items, q <- outqueue \o inqueue, got <- popped

SyncFifo == SyncAbstract!Spec
=============================================================================
