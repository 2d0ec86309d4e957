--------------------------- MODULE SemaphoreSpec ---------------------------
(***************************************************************************)
(* What corpc::Semaphore promises: a counter and a FIFO of sleepers.  A    *)
(* post() wakes the first sleeper or increments the counter, a wait()      *)
(* decrements the counter or sleeps, each in one step.                     *)
(***************************************************************************)
EXTENDS Naturals, Sequences

CONSTANTS Waiter, Poster, Num

VARIABLES count, queue, left

Init ==
    /\ count = Num
    /\ queue = <<>>
    /\ left \in [Waiter \cup Poster -> Nat]

Called(c) == left[c] > 0 /\ left' = [left EXCEPT ![c] = @ - 1]

WaitOk(c) ==
    /\ Called(c)
    /\ count > 0
    /\ count' = count - 1
    /\ UNCHANGED queue

WaitBlock(c) ==
    /\ Called(c)
    /\ count = 0
    /\ \A i \in DOMAIN queue : queue[i] # c
    /\ queue' = Append(queue, c)
    /\ UNCHANGED count

PostCount(c) ==
    /\ Called(c)
    /\ queue = <<>>
    /\ count' = count + 1
    /\ UNCHANGED queue

PostWake(c) ==
    /\ Called(c)
    /\ queue # <<>>
    /\ queue' = Tail(queue)
    /\ UNCHANGED count

Next ==
    \/ \E c \in Waiter : WaitOk(c) \/ WaitBlock(c)
    \/ \E c \in Poster : PostCount(c) \/ PostWake(c)

Spec == Init /\ [][Next]_<<count, queue, left>>
=============================================================================
