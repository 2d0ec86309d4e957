----------------------------- MODULE Semaphore -----------------------------
(***************************************************************************)
(* corpc::Semaphore (corpc_semaphore.h, corpc_semaphore.cpp).  res_ is the *)
(* number of permits; while it is -1 one coroutine works on the list       *)
(* waitRoutines_ and all others spin.                                      *)
(*                                                                         *)
(* One step is one access to res_ or to the list.  Threads are left out:   *)
(* no coroutine yields while res_ is -1, and a resumed coroutine is only   *)
(* queued for its own thread, so the yield at the end of wait() is part of *)
(* the store before it.                                                    *)
(***************************************************************************)
EXTENDS Integers, Sequences

CONSTANTS
    Waiter,  \* coroutines that call wait()
    Poster,  \* coroutines that call post()
    Num      \* the initial number of permits

ASSUME SemaphoreAssumption ==
    /\ Waiter \cap Poster = {}
    /\ Num \in Nat

VARIABLES
    res,          \* res_
    waitRoutines, \* waitRoutines_
    semPc,        \* where each coroutine is
    semV,         \* its local v
    semLeft,      \* calls of it that have not yet taken effect
    semWoken      \* the sleeper post() took from the list and has yet to resume

semVars == <<res, waitRoutines, semPc, semV, semLeft, semWoken>>

SemCo == Waiter \cup Poster
NoSleeper == "none"

\* Every coroutine makes rounds calls.
SemInit(rounds) ==
    /\ res = Num
    /\ waitRoutines = <<>>
    /\ semPc = [c \in SemCo |-> "idle"]
    /\ semV = [c \in SemCo |-> 0]
    /\ semLeft = [c \in SemCo |-> rounds]
    /\ semWoken = [c \in SemCo |-> NoSleeper]

SemGoTo(c, from, to) == semPc[c] = from /\ semPc' = [semPc EXCEPT ![c] = to]

\* The call takes effect.
SemCount(c) == semLeft' = [semLeft EXCEPT ![c] = @ - 1]

SemCall(c) ==
    /\ semLeft[c] > 0
    /\ SemGoTo(c, "idle", "load")
    /\ UNCHANGED <<res, waitRoutines, semV, semLeft, semWoken>>

SemLoad(c) ==
    /\ SemGoTo(c, "load", "try")
    /\ semV' = [semV EXCEPT ![c] = res]
    /\ UNCHANGED <<res, waitRoutines, semLeft, semWoken>>

\* The list is in use (v is -1), or a compare_exchange failed: start again.
SemRetry(c) ==
    /\ semV[c] < 0 \/ res # semV[c]
    /\ SemGoTo(c, "try", "load")
    /\ UNCHANGED <<res, waitRoutines, semV, semLeft, semWoken>>

\* Mutation: -1 is stored without comparing res_ first.
SemClaimMutant(c, to) ==
    /\ semV[c] = 0
    /\ SemGoTo(c, "try", to)
    /\ res' = -1
    /\ UNCHANGED <<waitRoutines, semV, semLeft, semWoken>>

\* compare_exchange(0, -1)
SemClaim(c, to) ==
    /\ semV[c] = 0 /\ res = 0
    /\ SemGoTo(c, "try", to)
    /\ res' = -1
    /\ UNCHANGED <<waitRoutines, semV, semLeft, semWoken>>

-----------------------------------------------------------------------------
(* wait()                                                                  *)

WaitTake(c) ==
    /\ semV[c] > 0 /\ res = semV[c]
    /\ SemGoTo(c, "try", "idle")
    /\ res' = res - 1
    /\ SemCount(c)
    /\ UNCHANGED <<waitRoutines, semV, semWoken>>

SemWaitClaim(c) == SemClaim(c, "push")

\* Mutation: a new sleeper goes to the front of the list.
SemWaitPushMutant(c) ==
    /\ SemGoTo(c, "push", "store")
    /\ waitRoutines' = <<c>> \o waitRoutines
    /\ SemCount(c)
    /\ UNCHANGED <<res, semV, semWoken>>

SemWaitPush(c) ==
    /\ SemGoTo(c, "push", "store")
    /\ waitRoutines' = Append(waitRoutines, c)
    /\ SemCount(c)
    /\ UNCHANGED <<res, semV, semWoken>>

WaitStore(c) ==
    /\ SemGoTo(c, "store", "asleep")
    /\ res' = 0
    /\ UNCHANGED <<waitRoutines, semV, semLeft, semWoken>>

-----------------------------------------------------------------------------
(* post()                                                                  *)

PostAdd(c) ==
    /\ semV[c] > 0 /\ res = semV[c]
    /\ SemGoTo(c, "try", "idle")
    /\ res' = res + 1
    /\ SemCount(c)
    /\ UNCHANGED <<waitRoutines, semV, semWoken>>

PostClaim(c) == SemClaim(c, "check")

\* Mutation: the permit of a post without a sleeper is lost.
PostEmptyLost(c) ==
    /\ waitRoutines = <<>>
    /\ SemGoTo(c, "check", "idle")
    /\ res' = 0
    /\ SemCount(c)
    /\ UNCHANGED <<waitRoutines, semV, semWoken>>

PostEmpty(c) ==
    /\ waitRoutines = <<>>
    /\ SemGoTo(c, "check", "idle")
    /\ res' = 1
    /\ SemCount(c)
    /\ UNCHANGED <<waitRoutines, semV, semWoken>>

PostPop(c) ==
    /\ waitRoutines # <<>>
    /\ SemGoTo(c, "check", "release")
    /\ semWoken' = [semWoken EXCEPT ![c] = Head(waitRoutines)]
    /\ waitRoutines' = Tail(waitRoutines)
    /\ SemCount(c)
    /\ UNCHANGED <<res, semV>>

PostRelease(c) ==
    /\ SemGoTo(c, "release", "resume")
    /\ res' = 0
    /\ UNCHANGED <<waitRoutines, semV, semLeft, semWoken>>

\* resumeCoroutine(): the sleeper returns from wait().
PostResume(c) ==
    /\ semPc[c] = "resume"
    /\ semPc' = [semPc EXCEPT ![c] = "idle", ![semWoken[c]] = "idle"]
    /\ semWoken' = [semWoken EXCEPT ![c] = NoSleeper]
    /\ UNCHANGED <<res, waitRoutines, semV, semLeft>>

-----------------------------------------------------------------------------

SemStep(c) ==
    \/ SemCall(c) \/ SemLoad(c) \/ SemRetry(c)
    \/ c \in Waiter /\ (WaitTake(c) \/ SemWaitClaim(c) \/ SemWaitPush(c) \/ WaitStore(c))
    \/ c \in Poster /\ (PostAdd(c) \/ PostClaim(c) \/ PostEmpty(c) \/ PostPop(c)
                          \/ PostRelease(c) \/ PostResume(c))

SemNext == \E c \in SemCo : SemStep(c)

\* Every thread keeps executing.
SemFairness == \A c \in SemCo : WF_semVars(SemStep(c))

-----------------------------------------------------------------------------
(* What the semaphore promises.                                            *)

SemPlaces == {"idle", "load", "try", "push", "store", "asleep", "check", "release", "resume"}

SemTypeOK ==
    /\ res \in Int /\ res >= -1
    /\ waitRoutines \in Seq(Waiter)
    /\ semPc \in [SemCo -> SemPlaces]
    /\ semV \in [SemCo -> Int]
    /\ semLeft \in [SemCo -> Nat]
    /\ semWoken \in [SemCo -> Waiter \cup {NoSleeper}]

\* The coroutine that works on the list.
InList(c) == semPc[c] \in {"push", "store", "check", "release"}

\* The list has one user at a time, although no lock guards it, and res_ never
\* falls below -1.
ListExclusive == SemTypeOK /\ \A c, d \in SemCo : InList(c) /\ InList(d) => c = d

\* With as many post() calls as wait() calls, every call returns.
AllReturn == <>(\A c \in SemCo : semPc[c] = "idle" /\ semLeft[c] = 0)

\* The semaphore implements SemaphoreSpec.
SemAbstract == INSTANCE SemaphoreSpec WITH
    count <- IF res > 0 THEN res ELSE 0,
    queue <- waitRoutines,
    left <- semLeft

SemImplements == SemAbstract!Spec
=============================================================================
