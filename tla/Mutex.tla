------------------------------- MODULE Mutex -------------------------------
(***************************************************************************)
(* corpc::Mutex (corpc_mutex.h, corpc_mutex.cpp): a coroutine mutex in the *)
(* style of Go's sync.Mutex.  One atomic word state_ holds the bits        *)
(* LOCKED, WOKEN, STARVING and a waiter count; a spin-locked list          *)
(* waitRoutines_ and the flag dontWait_ form the semaphore on which a      *)
(* coroutine sleeps; lastco_ and beginTm_ make a coroutine that keeps      *)
(* winning the lock yield its thread to a woken one.                       *)
(*                                                                         *)
(* One step is one access to shared memory.  The section under the spin    *)
(* lock waitlock_ in wait() and post() is one step: nothing else touches   *)
(* dontWait_ and waitRoutines_.  Coroutines are bound to a thread and run  *)
(* cooperatively: a thread runs one coroutine until it yields.             *)
(* resumeCoroutine() only queues the coroutine for its own thread, so the  *)
(* push into waitRoutines_ and the yield after it are one step too.        *)
(***************************************************************************)
EXTENDS Integers, Sequences, FiniteSets

CONSTANTS
    Co,        \* the coroutines that use the mutex
    Thread,    \* the threads that run them
    ThreadOf,  \* the thread of each coroutine
    SpinMax,   \* how often lockSlow spins before it queues (4 in the code)
    Rounds,    \* bound: the lock() calls of each coroutine
    None       \* no coroutine (nullptr)

ASSUME ConstantsAssumption ==
    /\ IsFiniteSet(Co)
    /\ ThreadOf \in [Co -> Thread]
    /\ SpinMax \in Nat
    /\ Rounds \in [Co -> Nat]
    /\ None \notin Co

VARIABLES
    state,        \* state_: the bits and the waiter count
    dontWait,     \* dontWait_: a post() found nobody to wake
    waitRoutines, \* waitRoutines_
    lastco,       \* lastco_
    streak,       \* more than 1 ms since beginTm_
    pc,           \* where each coroutine is in lock()/unlock()
    old,          \* its oldV
    awoke,        \* its awoke
    starving,     \* its starving
    iter,         \* its iter
    waited,       \* its waitStartTime: not set, set, or more than 1 ms ago
    calls,        \* the lock() calls it still has to make
    cur,          \* the coroutine each thread runs
    ready         \* coroutines queued for their thread to run

shared == <<state, dontWait, waitRoutines, lastco, streak>>
local  == <<old, awoke, starving, iter, waited>>
sched  == <<calls, cur, ready>>
vars   == <<shared, pc, local, sched>>

-----------------------------------------------------------------------------

Word == [locked : 0..1, woken : 0..1, starving : 0..1, waiters : Nat]

Zero == [locked |-> 0, woken |-> 0, starving |-> 0, waiters |-> 0]

LockSlowPC == {"load", "loop", "cas", "wait", "parked", "resumed", "handoff"}

PC == LockSlowPC \cup {"idle", "acq", "handed", "cs", "uloop", "uload",
                       "post", "done", "abort"}

Running(c) == cur[ThreadOf[c]] = c

GoTo(c, from, to) == Running(c) /\ pc[c] = from /\ pc' = [pc EXCEPT ![c] = to]

\* The thread of c is free to run another coroutine.
Yield(c) == cur' = [cur EXCEPT ![ThreadOf[c]] = None]

\* lock() returns: the locals of lockSlow go out of scope.
Return(c) ==
    /\ old'      = [old      EXCEPT ![c] = Zero]
    /\ awoke'    = [awoke    EXCEPT ![c] = FALSE]
    /\ starving' = [starving EXCEPT ![c] = FALSE]
    /\ iter'     = [iter     EXCEPT ![c] = 0]
    /\ waited'   = [waited   EXCEPT ![c] = "no"]

Init ==
    /\ state = Zero
    /\ dontWait = FALSE
    /\ waitRoutines = <<>>
    /\ lastco = None
    /\ streak = FALSE
    /\ pc = [c \in Co |-> "idle"]
    /\ old = [c \in Co |-> Zero]
    /\ awoke = [c \in Co |-> FALSE]
    /\ starving = [c \in Co |-> FALSE]
    /\ iter = [c \in Co |-> 0]
    /\ waited = [c \in Co |-> "no"]
    /\ calls = Rounds
    /\ cur = [t \in Thread |-> None]
    /\ ready = Co

-----------------------------------------------------------------------------
(* The coroutine scheduler, as the mutex sees it.                          *)

\* A thread that runs nothing takes a queued coroutine.
Dispatch(c) ==
    /\ cur[ThreadOf[c]] = None
    /\ c \in ready
    /\ cur' = [cur EXCEPT ![ThreadOf[c]] = c]
    /\ ready' = ready \ {c}
    /\ UNCHANGED <<shared, pc, local, calls>>

\* The user's code yields outside lock() and unlock(), with or without the lock.
UserYield(c) ==
    /\ Running(c)
    /\ pc[c] \in {"idle", "cs"}
    /\ Yield(c)
    /\ ready' = ready \cup {c}
    /\ UNCHANGED <<shared, pc, local, calls>>

\* The coroutine has made its calls and ends.
Finish(c) ==
    /\ calls[c] = 0
    /\ GoTo(c, "idle", "done")
    /\ Yield(c)
    /\ UNCHANGED <<shared, local, calls, ready>>

-----------------------------------------------------------------------------
(* lock() and lockSlow().                                                  *)

Lock(c) ==
    /\ calls[c] > 0
    /\ calls' = [calls EXCEPT ![c] = @ - 1]
    /\ \/ /\ state = Zero
          /\ GoTo(c, "idle", "cs")
          /\ state' = [Zero EXCEPT !.locked = 1]
       \/ /\ state # Zero
          /\ GoTo(c, "idle", "load")
          /\ UNCHANGED state
    /\ UNCHANGED <<dontWait, waitRoutines, lastco, streak, local, cur, ready>>

LoadState(c) ==
    /\ GoTo(c, "load", "loop")
    /\ old' = [old EXCEPT ![c] = state]
    /\ UNCHANGED <<shared, awoke, starving, iter, waited, sched>>

CanSpin(c) == old[c].locked = 1 /\ old[c].starving = 0 /\ iter[c] < SpinMax

\* Spinning may set WOKEN, to tell unlock() not to wake anyone.
Spin(c) ==
    /\ CanSpin(c)
    /\ GoTo(c, "loop", "load")
    /\ LET win == /\ ~awoke[c] /\ old[c].woken = 0 /\ old[c].waiters # 0
                  /\ state = old[c]
       IN  /\ state' = IF win THEN [state EXCEPT !.woken = 1] ELSE state
           /\ awoke' = [awoke EXCEPT ![c] = awoke[c] \/ win]
    /\ iter' = [iter EXCEPT ![c] = @ + 1]
    /\ UNCHANGED <<dontWait, waitRoutines, lastco, streak, old, starving,
                   waited, sched>>

\* lastco_ and beginTm_ are read without the lock.  A holder that resets them
\* may have cleared only the first one, and 0 is always long ago.
Resetting(d) == pc[d] \in {"acq", "handed"}

PauseNeeded(c) == ~awoke[c] /\ old[c].woken = 1 /\ lastco = c

Pause(c) ==
    /\ ~CanSpin(c)
    /\ PauseNeeded(c)
    /\ streak \/ \E d \in Co : Resetting(d)
    /\ GoTo(c, "loop", "loop")
    /\ Yield(c)
    /\ ready' = ready \cup {c}
    /\ UNCHANGED <<shared, local, calls>>

\* newV is computed next, which aborts if this coroutine was woken but the
\* WOKEN bit of oldV is not set.
NoPause(c) ==
    /\ ~CanSpin(c)
    /\ ~(PauseNeeded(c) /\ streak)
    /\ GoTo(c, "loop", IF awoke[c] /\ old[c].woken = 0 THEN "abort" ELSE "cas")
    /\ UNCHANGED <<shared, local, sched>>

\* Mutation: a STARVING mutex counts as free.
FreeMutant(w) == w.locked = 0

Free(w) == w.locked = 0 /\ w.starving = 0

\* Mutation: WOKEN is cleared by a coroutine that was not woken.
NewWordMutant(w, awk, starv) ==
    [locked   |-> IF w.starving = 0 THEN 1 ELSE w.locked,
     woken    |-> 0,
     starving |-> IF starv /\ w.locked = 1 THEN 1 ELSE w.starving,
     waiters  |-> IF Free(w) THEN w.waiters ELSE w.waiters + 1]

\* newV, from oldV, awoke and starving.
NewWord(w, awk, starv) ==
    [locked   |-> IF w.starving = 0 THEN 1 ELSE w.locked,
     woken    |-> IF awk THEN 0 ELSE w.woken,
     starving |-> IF starv /\ w.locked = 1 THEN 1 ELSE w.starving,
     waiters  |-> IF Free(w) THEN w.waiters ELSE w.waiters + 1]

CasAcquire(c) ==
    /\ state = old[c] /\ Free(old[c])
    /\ GoTo(c, "cas", "acq")
    /\ state' = NewWord(old[c], awoke[c], starving[c])
    /\ UNCHANGED <<dontWait, waitRoutines, lastco, streak, local, sched>>

CasQueue(c) ==
    /\ state = old[c] /\ ~Free(old[c])
    /\ GoTo(c, "cas", "wait")
    /\ state' = NewWord(old[c], awoke[c], starving[c])
    /\ UNCHANGED <<dontWait, waitRoutines, lastco, streak, local, sched>>

CasFail(c) ==
    /\ state # old[c]
    /\ GoTo(c, "cas", "load")
    /\ UNCHANGED <<shared, local, sched>>

\* The winner of the CAS updates lastco_ and beginTm_ before lock() returns.
Acquired(c) ==
    /\ GoTo(c, "acq", "cs")
    /\ \/ /\ lastco = None /\ old[c].woken = 1
          /\ lastco' = c /\ streak' = FALSE
       \/ /\ lastco = None /\ old[c].woken = 0
          /\ UNCHANGED <<lastco, streak>>
       \/ /\ lastco # None /\ lastco # c
          /\ lastco' = None /\ streak' = FALSE
       \/ /\ lastco = c
          /\ UNCHANGED <<lastco, streak>>
    /\ Return(c)
    /\ UNCHANGED <<state, dontWait, waitRoutines, sched>>

\* wait(queueLifo)
WaitDont(c) ==
    /\ dontWait
    /\ GoTo(c, "wait", "resumed")
    /\ dontWait' = FALSE
    /\ waited' = [waited EXCEPT ![c] = IF @ = "no" THEN "recent" ELSE @]
    /\ UNCHANGED <<state, waitRoutines, lastco, streak, old, awoke, starving,
                   iter, sched>>

WaitPark(c) ==
    /\ ~dontWait
    /\ GoTo(c, "wait", "parked")
    /\ waitRoutines' = IF waited[c] # "no" THEN <<c>> \o waitRoutines
                                           ELSE Append(waitRoutines, c)
    /\ waited' = [waited EXCEPT ![c] = IF @ = "no" THEN "recent" ELSE @]
    /\ Yield(c)
    /\ UNCHANGED <<state, dontWait, lastco, streak, old, awoke, starving, iter,
                   calls, ready>>

\* After wait(): is this coroutine starving, and which mode is the mutex in?
StarvingNow(c) == starving[c] \/ waited[c] = "long"

ResumeNormal(c) ==
    /\ state.starving = 0
    /\ GoTo(c, "resumed", "loop")
    /\ old' = [old EXCEPT ![c] = state]
    /\ starving' = [starving EXCEPT ![c] = StarvingNow(c)]
    /\ awoke' = [awoke EXCEPT ![c] = TRUE]
    /\ iter' = [iter EXCEPT ![c] = 0]
    /\ UNCHANGED <<shared, waited, sched>>

ResumeHandoff(c) ==
    /\ state.starving = 1
    /\ GoTo(c, "resumed",
            IF state.locked = 1 \/ state.woken = 1 \/ state.waiters = 0
            THEN "abort" ELSE "handoff")
    /\ old' = [old EXCEPT ![c] = state]
    /\ starving' = [starving EXCEPT ![c] = StarvingNow(c)]
    /\ UNCHANGED <<shared, awoke, iter, waited, sched>>

\* Mutation: the handed-over coroutine stays accounted as a waiter.
HandoffMutant(c) ==
    /\ GoTo(c, "handoff", "handed")
    /\ state' = [state EXCEPT !.locked = @ + 1,
                    !.starving = IF ~starving[c] \/ old[c].waiters = 1
                                 THEN @ - 1 ELSE @]
    /\ UNCHANGED <<dontWait, waitRoutines, lastco, streak, local, sched>>

\* fetch_add(delta): the bits of delta were chosen from oldV.
Handoff(c) ==
    /\ GoTo(c, "handoff", "handed")
    /\ state' = [state EXCEPT !.locked = @ + 1, !.waiters = @ - 1,
                    !.starving = IF ~starving[c] \/ old[c].waiters = 1
                                 THEN @ - 1 ELSE @]
    /\ UNCHANGED <<dontWait, waitRoutines, lastco, streak, local, sched>>

Handed(c) ==
    /\ GoTo(c, "handed", "cs")
    /\ lastco' = None
    /\ streak' = FALSE
    /\ Return(c)
    /\ UNCHANGED <<state, dontWait, waitRoutines, sched>>

-----------------------------------------------------------------------------
(* unlock() and unlockSlow(); old holds unlockSlow's oldV.                 *)

Unlock(c) ==
    /\ state' = [state EXCEPT !.locked = @ - 1]
    /\ \/ state' = Zero /\ GoTo(c, "cs", "idle")
       \/ /\ state' # Zero
          /\ GoTo(c, "cs", IF state.locked = 0 THEN "abort"
                          ELSE IF state.starving = 1 THEN "post" ELSE "uloop")
    /\ old' = [old EXCEPT ![c] = IF state.starving = 1 THEN Zero ELSE state']
    /\ UNCHANGED <<dontWait, waitRoutines, lastco, streak, awoke, starving,
                   iter, waited, sched>>

\* Mutation: unlockSlow does not look at WOKEN.
NobodyToWakeNoWoken(w) == w.waiters = 0 \/ w.locked = 1 \/ w.starving = 1

NobodyToWake(w) == w.waiters = 0 \/ w.locked = 1 \/ w.woken = 1 \/ w.starving = 1

UnlockReturn(c) ==
    /\ NobodyToWake(old[c])
    /\ GoTo(c, "uloop", "idle")
    /\ old' = [old EXCEPT ![c] = Zero]
    /\ UNCHANGED <<shared, awoke, starving, iter, waited, sched>>

\* Grab the right to wake a waiter.
UnlockGrab(c) ==
    /\ ~NobodyToWake(old[c])
    /\ state = old[c]
    /\ GoTo(c, "uloop", "post")
    /\ state' = [state EXCEPT !.waiters = @ - 1, !.woken = 1]
    /\ old' = [old EXCEPT ![c] = Zero]
    /\ UNCHANGED <<dontWait, waitRoutines, lastco, streak, awoke, starving,
                   iter, waited, sched>>

UnlockFail(c) ==
    /\ ~NobodyToWake(old[c])
    /\ state # old[c]
    /\ GoTo(c, "uloop", "uload")
    /\ UNCHANGED <<shared, local, sched>>

UnlockLoad(c) ==
    /\ GoTo(c, "uload", "uloop")
    /\ old' = [old EXCEPT ![c] = state]
    /\ UNCHANGED <<shared, awoke, starving, iter, waited, sched>>

\* Mutation: a post without a sleeper is dropped.
PostEmptyMutant(c) ==
    /\ waitRoutines = <<>>
    /\ GoTo(c, "post", "idle")
    /\ UNCHANGED <<shared, local, sched>>

\* post(): wake the first sleeper, or leave the token for the next one.
PostEmpty(c) ==
    /\ waitRoutines = <<>>
    /\ GoTo(c, "post", "idle")
    /\ dontWait' = TRUE
    /\ UNCHANGED <<state, waitRoutines, lastco, streak, local, sched>>

PostWake(c) ==
    /\ waitRoutines # <<>>
    /\ Running(c) /\ pc[c] = "post"
    /\ LET w == Head(waitRoutines)
       IN  /\ pc' = [pc EXCEPT ![c] = "idle", ![w] = "resumed"]
           /\ ready' = ready \cup {w}
    /\ waitRoutines' = Tail(waitRoutines)
    /\ UNCHANGED <<state, dontWait, lastco, streak, local, calls, cur>>

-----------------------------------------------------------------------------
(* Time: the two 1 ms thresholds of lockSlow are passed.                   *)

WaitGetsLong(c) ==
    /\ waited[c] = "recent"
    /\ waited' = [waited EXCEPT ![c] = "long"]
    /\ UNCHANGED <<shared, pc, old, awoke, starving, iter, sched>>

StreakGetsLong ==
    /\ lastco # None /\ ~streak
    /\ streak' = TRUE
    /\ UNCHANGED <<state, dontWait, waitRoutines, lastco, pc, local, sched>>

LockStep(c) ==
    \/ LoadState(c) \/ Spin(c) \/ Pause(c) \/ NoPause(c)
    \/ CasAcquire(c) \/ CasQueue(c) \/ CasFail(c)
    \/ Acquired(c) \/ WaitDont(c) \/ WaitPark(c)
    \/ ResumeNormal(c) \/ ResumeHandoff(c) \/ Handoff(c) \/ Handed(c)

UnlockStep(c) ==
    \/ Unlock(c) \/ UnlockReturn(c) \/ UnlockGrab(c) \/ UnlockFail(c)
    \/ UnlockLoad(c) \/ PostEmpty(c) \/ PostWake(c)

Step(c) == Lock(c) \/ LockStep(c) \/ UnlockStep(c) \/ Finish(c)

Next ==
    \/ \E c \in Co : Dispatch(c) \/ UserYield(c) \/ Step(c) \/ WaitGetsLong(c)
    \/ StreakGetsLong

Spec == Init /\ [][Next]_vars

(***************************************************************************)
(* Fairness.  A thread keeps executing the coroutine it runs (so whoever   *)
(* holds the lock releases it in the end), time passes, and the run queue  *)
(* of a thread is FIFO: a queued coroutine gets its turn if its thread     *)
(* becomes free again and again.  Nothing is assumed about which CAS wins. *)
(***************************************************************************)
Fairness ==
    /\ \A c \in Co : /\ SF_vars(Step(c))
                     /\ SF_vars(Dispatch(c))
                     /\ WF_vars(WaitGetsLong(c))
    /\ WF_vars(StreakGetsLong)

FairSpec == Spec /\ Fairness

-----------------------------------------------------------------------------
(* What the mutex promises.                                                *)

\* The values the variables may take; in particular fetch_add never carries
\* from one bit of state_ into the next (corpc_mutex.cpp:151 and :170).
TypeOK ==
    /\ state \in Word
    /\ dontWait \in BOOLEAN
    /\ waitRoutines \in Seq(Co)
    /\ lastco \in Co \cup {None}
    /\ streak \in BOOLEAN
    /\ pc \in [Co -> PC]
    /\ old \in [Co -> Word]
    /\ awoke \in [Co -> BOOLEAN]
    /\ starving \in [Co -> BOOLEAN]
    /\ iter \in [Co -> 0..SpinMax]
    /\ waited \in [Co -> {"no", "recent", "long"}]
    /\ calls \in [Co -> Nat]
    /\ cur \in [Thread -> Co \cup {None}]
    /\ ready \subseteq Co

Owner(c) == pc[c] \in {"acq", "handed", "cs"}

\* At most one coroutine is between a successful lock() and its unlock(),
\* whether it won a CAS, took the fast path or was handed the lock.
MutualExclusion == \A c, d \in Co : Owner(c) /\ Owner(d) => c = d

\* None of the three abort() calls of lockSlow and unlockSlow is reachable.
NoAbort == \A c \in Co : pc[c] # "abort"

\* The coroutine that carries the one pending wakeup: it is about to post it,
\* was resumed by it, or still contends with it (awoke).
HasWakeup(c) ==
    \/ pc[c] \in {"post", "resumed", "handoff"}
    \/ pc[c] \in {"load", "loop", "cas"} /\ awoke[c]

\* The bits that announce it: WOKEN, or a lock that unlock() hands over.
WakeupBits == state.woken = 1 \/ (state.starving = 1 /\ state.locked = 0)

\* There is never more than one wakeup under way, so the single flag dontWait_
\* cannot swallow one; and the bits of state_ tell when there is one.
OneWakeup ==
    /\ \A c, d \in Co : HasWakeup(c) /\ HasWakeup(d) => c = d
    /\ dontWait => \A c \in Co : ~HasWakeup(c)
    /\ WakeupBits <=> dontWait \/ \E c \in Co : HasWakeup(c)

\* The mutex is never left free with a waiter that nobody will wake: a wakeup
\* is under way or an unlock() still has to look at the waiters.
WakeupOwed ==
    state.locked = 0 /\ state.waiters > 0
      => \/ dontWait
         \/ \E c \in Co : HasWakeup(c) \/ pc[c] \in {"uloop", "uload"}

\* The coroutines between queueing and leaving wait().
Waiting == {c \in Co : pc[c] \in {"wait", "parked", "resumed", "handoff"}}

\* unlock() took the count of a waiter that has not left wait() yet.
Taken ==
    /\ state.starving = 0
    /\ dontWait \/ \E c \in Co : pc[c] \in {"post", "resumed"}

\* The waiter count of state_ is the number of coroutines between queueing and
\* leaving wait(), less the one for whom unlock() already took a count.
WaitersCounted == Cardinality(Waiting) = state.waiters + IF Taken THEN 1 ELSE 0

\* When no coroutine calls lock() for ever, every call returns: in the end each
\* coroutine has made its calls.
LockReturns == <>(\A c \in Co : pc[c] = "done")

-----------------------------------------------------------------------------
(* The inductive invariant behind MutualExclusion, NoAbort and OneWakeup.  *)

\* The sleeping coroutines, each once.
QueueParked ==
    /\ \A i \in DOMAIN waitRoutines : pc[waitRoutines[i]] = "parked"
    /\ \A i, j \in DOMAIN waitRoutines : waitRoutines[i] = waitRoutines[j] => i = j

LockedBit == (state.locked = 1) <=> \E c \in Co : Owner(c)

StarvingBit == state.starving = 1 => state.woken = 0 /\ state.waiters > 0

\* What a coroutine in lockSlow knows about state_ from its own locals.
Contender(c) ==
    /\ pc[c] \in {"load", "loop", "cas"} /\ awoke[c] => state.woken = 1
    /\ pc[c] \in {"loop", "cas"} /\ awoke[c] => old[c].woken = 1
    /\ pc[c] \in {"load", "loop", "cas"} /\ starving[c] => awoke[c]
    /\ pc[c] \in {"idle", "cs", "uloop", "uload", "post"} => ~awoke[c] /\ ~starving[c]
    /\ pc[c] = "handoff" => /\ state.starving = 1 /\ state.locked = 0
                            /\ old[c].waiters \in 1 .. state.waiters

IndInv ==
    /\ TypeOK
    /\ NoAbort
    /\ MutualExclusion
    /\ OneWakeup
    /\ QueueParked
    /\ LockedBit
    /\ StarvingBit
    /\ \A c \in Co : Contender(c)

\* The inductive part of WakeupOwed: when nothing announces a wakeup, an unlock()
\* is about to read state_ again or to CAS the value it has now.
Unlocker ==
    state.locked = 0 /\ state.waiters > 0 /\ ~WakeupBits
      => \E c \in Co : pc[c] = "uload" \/ (pc[c] = "uloop" /\ old[c] = state)
=============================================================================
