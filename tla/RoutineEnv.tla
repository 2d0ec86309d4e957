----------------------------- MODULE RoutineEnv -----------------------------
(***************************************************************************)
(* The life of a coroutine, corpc_routine_env.cpp: startCoroutine() and    *)
(* startKeyCoroutine(), pause(), the end of a coroutine and its release by *)
(* the cleanRoutine of its thread, and quit(), which ends the process when *)
(* no key coroutine is left.                                               *)
(*                                                                         *)
(* Threads interleave, coroutines of a thread do not: the last of the call *)
(* stack runs, or, when it is empty, the event loop.  Addresses of         *)
(* coroutines are used again as soon as they are released.  The routines   *)
(* for wake-ups and timeouts of RPCs are in InnerRpc.                      *)
(***************************************************************************)
EXTENDS Integers, Sequences, FiniteSets, SequencesExt

CONSTANTS
    Threads,
    Routines,     \* addresses of coroutines
    MaxStarts,    \* bound: coroutines started
    MaxPauses,    \* bound: calls of pause()
    EndPipeCap,   \* bytes the end pipe holds (65536)
    EndReadMax    \* bytes cleanRoutine reads at once (1024)

ASSUME RoutineEnvAssumption ==
    /\ Threads # {} /\ IsFiniteSet(Routines)
    /\ MaxStarts \in Nat /\ MaxPauses \in Nat
    /\ EndPipeCap \in Nat \ {0} /\ EndReadMax \in Nat \ {0}

VARIABLES
    hasEnv,           \* g_routineEnvPerThread
    life,             \* "free", "entry", "run", "paused", "ended" or "dead"
    home,             \* the thread of a coroutine
    isKey,            \* started with startKeyCoroutine()
    pCallStack,       \* of each thread, without its main coroutine
    waitResumeQueue,
    endedCoroutines,
    endPipe,          \* bytes in _endPipe
    cleaning,         \* cleanRoutine is in its loop over endedCoroutines_
    keyRoutineNum,
    quit,             \* "no", "check" or "sleep" of safeQuitRoutine, or "exit"
    startsLeft, pausesLeft

threadVars == <<hasEnv, pCallStack, waitResumeQueue, endedCoroutines, endPipe, cleaning>>
envVars == <<threadVars, life, home, isKey, keyRoutineNum, quit, startsLeft, pausesLeft>>

RoutineEnvInit ==
    /\ hasEnv = [t \in Threads |-> FALSE]
    /\ life = [c \in Routines |-> "free"]
    /\ home = [c \in Routines |-> CHOOSE t \in Threads : TRUE]
    /\ isKey = [c \in Routines |-> FALSE]
    /\ pCallStack = [t \in Threads |-> <<>>]
    /\ waitResumeQueue = [t \in Threads |-> <<>>]
    /\ endedCoroutines = [t \in Threads |-> <<>>]
    /\ endPipe = [t \in Threads |-> 0]
    /\ cleaning = [t \in Threads |-> FALSE]
    /\ keyRoutineNum = 0
    /\ quit = "no"
    /\ startsLeft = MaxStarts /\ pausesLeft = MaxPauses

Alive == quit # "exit"

\* The event loop of a thread has control, and no routine of its environment.
InLoop(t) == pCallStack[t] = <<>> /\ ~cleaning[t]

\* c runs, and is at this point of its life.
At(c, point) ==
    /\ life[c] = point
    /\ pCallStack[home[c]] # <<>> /\ Last(pCallStack[home[c]]) = c

Becomes(c, point) == life' = [life EXCEPT ![c] = point]

\* co_yield_ct(): back to whoever resumed the coroutine.
SwitchOut(c) == pCallStack' = [pCallStack EXCEPT ![home[c]] = Front(@)]

-----------------------------------------------------------------------------
(* Coroutines.                                                             *)

\* getEnv(): the first use makes the environment of the thread and starts its
\* routines, which run until they wait.
getEnv(t) == hasEnv' = [hasEnv EXCEPT ![t] = TRUE]

\* co_create() gives a coroutine an address that is free.
co_create(c, t) ==
    /\ life[c] = "free"
    /\ Becomes(c, "entry")
    /\ home' = [home EXCEPT ![c] = t]

\* mutant: the guard of a key coroutine is not destroyed
MutGuard(c, n) == keyRoutineNum' = IF isKey[c] /\ n > 0 THEN keyRoutineNum + n ELSE keyRoutineNum

\* Guard of a key coroutine: made with 1, destroyed with -1.
Guard(c, n) == keyRoutineNum' = IF isKey[c] THEN keyRoutineNum + n ELSE keyRoutineNum

\* startCoroutine() and startKeyCoroutine(), called by main() or by a coroutine;
\* co_resume() switches to the new one.
startCoroutine(t, c, key) ==
    /\ Alive /\ startsLeft > 0
    /\ InLoop(t) \/ \E d \in Routines : home[d] = t /\ At(d, "run")
    /\ getEnv(t)
    /\ co_create(c, t)
    /\ isKey' = [isKey EXCEPT ![c] = key]
    /\ pCallStack' = [pCallStack EXCEPT ![t] = Append(@, c)]
    /\ startsLeft' = startsLeft - 1
    /\ UNCHANGED <<waitResumeQueue, endedCoroutines, endPipe, cleaning, keyRoutineNum, quit,
                   pausesLeft>>

\* routineEntry(), or keyRoutineEntry() with its Guard, up to the call of the
\* function.
routineEntry(c) ==
    /\ Alive /\ At(c, "entry")
    /\ Becomes(c, "run")
    /\ Guard(c, 1)
    /\ UNCHANGED <<threadVars, home, isKey, quit, startsLeft, pausesLeft>>

\* pause(): the coroutine puts itself into the queue of its own thread.
pause(c) ==
    /\ Alive /\ At(c, "run") /\ pausesLeft > 0
    /\ waitResumeQueue' = [waitResumeQueue EXCEPT ![home[c]] = Append(@, c)]
    /\ Becomes(c, "paused")
    /\ SwitchOut(c)
    /\ pausesLeft' = pausesLeft - 1
    /\ UNCHANGED <<hasEnv, endedCoroutines, endPipe, cleaning, home, isKey, keyRoutineNum, quit,
                   startsLeft>>

\* resumeRoutine activates the first of the queue and the event loop resumes it.
resumeRoutine(t) ==
    /\ Alive /\ InLoop(t) /\ waitResumeQueue[t] # <<>>
    /\ LET c == Head(waitResumeQueue[t])
       IN  /\ Becomes(c, "run")
           /\ pCallStack' = [pCallStack EXCEPT ![t] = Append(@, c)]
    /\ waitResumeQueue' = [waitResumeQueue EXCEPT ![t] = Tail(@)]
    /\ UNCHANGED <<hasEnv, endedCoroutines, endPipe, cleaning, home, isKey, keyRoutineNum, quit,
                   startsLeft, pausesLeft>>

\* The function has returned: addEndedCoroutine().  The pipe is non-blocking and
\* a byte that does not fit is dropped.
addEndedCoroutine(c) ==
    /\ Alive /\ At(c, "run")
    /\ Becomes(c, "ended")
    /\ endedCoroutines' = [endedCoroutines EXCEPT ![home[c]] = Append(@, c)]
    /\ endPipe' = [endPipe EXCEPT ![home[c]] = IF @ < EndPipeCap THEN @ + 1 ELSE @]
    /\ UNCHANGED <<hasEnv, pCallStack, waitResumeQueue, cleaning, home, isKey, keyRoutineNum,
                   quit, startsLeft, pausesLeft>>

\* The Guard of a key coroutine is destroyed and the coroutine switched out for
\* the last time.
Leave(c) ==
    /\ Alive /\ At(c, "ended")
    /\ Becomes(c, "dead")
    /\ Guard(c, -1)
    /\ SwitchOut(c)
    /\ UNCHANGED <<hasEnv, waitResumeQueue, endedCoroutines, endPipe, cleaning, home, isKey, quit,
                   startsLeft, pausesLeft>>

-----------------------------------------------------------------------------
(* cleanRoutine                                                            *)

CleanRead(t) ==
    /\ Alive /\ InLoop(t) /\ endPipe[t] > 0
    /\ endPipe' = [endPipe EXCEPT ![t] = IF @ > EndReadMax THEN @ - EndReadMax ELSE 0]
    /\ cleaning' = [cleaning EXCEPT ![t] = TRUE]
    /\ UNCHANGED <<hasEnv, pCallStack, waitResumeQueue, endedCoroutines, life, home, isKey,
                   keyRoutineNum, quit, startsLeft, pausesLeft>>

co_release(c) == Becomes(c, "free")

\* The first that ended.
CleanRelease(t) ==
    /\ Alive /\ cleaning[t] /\ endedCoroutines[t] # <<>>
    /\ co_release(Head(endedCoroutines[t]))
    /\ endedCoroutines' = [endedCoroutines EXCEPT ![t] = Tail(@)]
    /\ UNCHANGED <<hasEnv, pCallStack, waitResumeQueue, endPipe, cleaning, home, isKey,
                   keyRoutineNum, quit, startsLeft, pausesLeft>>

CleanDone(t) ==
    /\ Alive /\ cleaning[t] /\ endedCoroutines[t] = <<>>
    /\ cleaning' = [cleaning EXCEPT ![t] = FALSE]
    /\ UNCHANGED <<hasEnv, pCallStack, waitResumeQueue, endedCoroutines, endPipe, life, home,
                   isKey, keyRoutineNum, quit, startsLeft, pausesLeft>>

-----------------------------------------------------------------------------
(* quit(), in whichever thread.                                            *)

\* quit() starts safeQuitRoutine.
QuitStart ==
    /\ quit = "no" /\ quit' = "check"
    /\ UNCHANGED <<threadVars, life, home, isKey, keyRoutineNum, startsLeft, pausesLeft>>

\* One turn of safeQuitRoutine.
safeQuitRoutine ==
    /\ quit = "check"
    /\ quit' = IF keyRoutineNum = 0 THEN "exit" ELSE "sleep"
    /\ UNCHANGED <<threadVars, life, home, isKey, keyRoutineNum, startsLeft, pausesLeft>>

QuitWakes ==
    /\ quit = "sleep" /\ quit' = "check"
    /\ UNCHANGED <<threadVars, life, home, isKey, keyRoutineNum, startsLeft, pausesLeft>>

-----------------------------------------------------------------------------

RoutineStep(c) ==
    routineEntry(c) \/ pause(c) \/ addEndedCoroutine(c) \/ Leave(c)

EnvStep(t) == resumeRoutine(t) \/ CleanRead(t) \/ CleanRelease(t) \/ CleanDone(t)

QuitStep == safeQuitRoutine \/ QuitWakes

RoutineEnvNext ==
    \/ \E t \in Threads, c \in Routines, key \in BOOLEAN : startCoroutine(t, c, key)
    \/ \E c \in Routines : RoutineStep(c)
    \/ \E t \in Threads : EnvStep(t)
    \/ QuitStart \/ QuitStep

RoutineEnvSpec == RoutineEnvInit /\ [][RoutineEnvNext]_envVars

\* Functions return (pause() is bounded), event loops go on, sleep() ends.
RoutineEnvFairness ==
    /\ \A c \in Routines : WF_envVars(RoutineStep(c))
    /\ \A t \in Threads : WF_envVars(resumeRoutine(t))
    /\ \A t \in Threads : WF_envVars(CleanRead(t) \/ CleanRelease(t) \/ CleanDone(t))
    /\ WF_envVars(QuitStep)

-----------------------------------------------------------------------------

EnvTypeOK ==
    /\ hasEnv \in [Threads -> BOOLEAN] /\ cleaning \in [Threads -> BOOLEAN]
    /\ life \in [Routines -> {"free", "entry", "run", "paused", "ended", "dead"}]
    /\ home \in [Routines -> Threads] /\ isKey \in [Routines -> BOOLEAN]
    /\ pCallStack \in [Threads -> Seq(Routines)]
    /\ waitResumeQueue \in [Threads -> Seq(Routines)]
    /\ endedCoroutines \in [Threads -> Seq(Routines)]
    /\ endPipe \in [Threads -> 0 .. EndPipeCap]
    /\ keyRoutineNum \in Nat
    /\ quit \in {"no", "check", "sleep", "exit"}

\* How often a coroutine is in a sequence.
Occurs(c, s) == Cardinality({i \in DOMAIN s : s[i] = c})

\* A coroutine is released once, and only after its last switch: what cleanRoutine
\* finds in endedCoroutines_ is dead, every coroutine that is dead is in the list
\* of its own thread once, and a list that is not empty has a byte in the pipe
\* that will make cleanRoutine look at it.  A coroutine that paused is in the
\* queue of its own thread once, so that nobody resumes an address that has been
\* used again.
LivesSound ==
    /\ \A c \in Routines, t \in Threads :
          /\ Occurs(c, endedCoroutines[t]) =
                IF home[c] = t /\ life[c] \in {"ended", "dead"} THEN 1 ELSE 0
          /\ Occurs(c, waitResumeQueue[t]) =
                IF home[c] = t /\ life[c] = "paused" THEN 1 ELSE 0
          /\ Occurs(c, pCallStack[t]) =
                IF home[c] = t /\ life[c] \in {"entry", "run", "ended"} THEN 1 ELSE 0
    /\ \A t \in Threads :
          /\ cleaning[t] => \A i \in DOMAIN endedCoroutines[t] :
                               life[endedCoroutines[t][i]] = "dead"
          /\ endedCoroutines[t] # <<>> => cleaning[t] \/ endPipe[t] > 0
          /\ ~hasEnv[t] => endedCoroutines[t] = <<>> /\ waitResumeQueue[t] = <<>>

\* A key coroutine is counted from its entry to its end, whichever thread it is
\* in; so quit() does not end the process under one that has entered.
KeysCounted ==
    LET inside == {c \in Routines : isKey[c] /\ life[c] \in {"run", "paused", "ended"}}
    IN  /\ keyRoutineNum = Cardinality(inside)
        /\ quit = "exit" => inside = {}

EnvSound == EnvTypeOK /\ LivesSound /\ KeysCounted

\* What has ended is released, what has paused goes on, and quit() ends the
\* process.
LivesEnd ==
    <>[](quit = "exit" \/ (quit = "no" /\ \A c \in Routines : life[c] = "free"))
=============================================================================
