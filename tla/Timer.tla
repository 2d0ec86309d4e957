-------------------------------- MODULE Timer --------------------------------
(***************************************************************************)
(* corpc_timer.cpp on corpc_cond.cpp: a timer is a coroutine that waits on *)
(* a condition variable of its own until its time has come or stop() has   *)
(* been called, and then calls its callback if nobody stopped it.          *)
(*                                                                         *)
(* One thread.  The condition variable and the timing wheel are those of   *)
(* module Coroutine, seen from outside: a wait ends some time after it is  *)
(* due or after the broadcast, when the event loop comes to the coroutine; *)
(* a broadcast is lost if the wheel has given the item up too early and    *)
(* takes it back; a wait that starts while the clock is behind the wheel   *)
(* does not wait, and Cond::wait() does not say so.                        *)
(***************************************************************************)
EXTENDS Integers

CONSTANTS
    TimerIds,   \* timers that the program creates
    Delays,     \* values of timeout_ms
    LastTick    \* the clock stops here

ASSUME TimerAssumption == Delays \subseteq Nat /\ LastTick \in Nat

VARIABLES
    at,         \* where timerRoutine() is: "none", "wait", "woken", "callback" or "over"
    running_,
    due,        \* when its wait ends; 0 once that time has come
    ticks,      \* the clock
    setBack,    \* somebody has set it back
    wheelStart, \* ullStart of the wheel
    stopped,    \* history: stop() returned before the callback was called
    called,     \* history: how often the callback was called
    unwaited    \* history: the wait failed

clockVars == <<ticks, setBack, wheelStart>>
timerRoutineVars == <<at, running_, due, clockVars, stopped, called, unwaited>>

\* mutant: the callback is called whatever has happened during the wait
MutStillRunning(t) == TRUE

StillRunning(t) == running_[t]

\* timerRoutine() after the wait, up to the end or into the callback.
AfterWait(t) ==
    IF StillRunning(t)
    THEN /\ at' = [at EXCEPT ![t] = "callback"]
         /\ called' = [called EXCEPT ![t] = @ + 1]
    ELSE /\ at' = [at EXCEPT ![t] = "over"]
         /\ UNCHANGED called

\* Cond::wait(): co_cond_timedwait() fails when AddTimeout() does.
CanWait == ticks >= wheelStart

\* Timer::create() starts the coroutine, which runs until it waits.
create(t, timeout_ms) ==
    /\ at[t] = "none" /\ ticks + timeout_ms <= LastTick
    /\ due' = [due EXCEPT ![t] = IF timeout_ms > 0 THEN ticks + timeout_ms ELSE 0]
    /\ running_' = [running_ EXCEPT ![t] = TRUE]
    /\ IF timeout_ms > 0 /\ CanWait
       THEN at' = [at EXCEPT ![t] = "wait"] /\ UNCHANGED <<called, unwaited>>
       ELSE /\ at' = [at EXCEPT ![t] = "callback"]
            /\ called' = [called EXCEPT ![t] = @ + 1]
            /\ unwaited' = [unwaited EXCEPT ![t] = timeout_ms > 0]
    /\ UNCHANGED <<clockVars, stopped>>

\* The wheel gives up a wait that is due.
Due(t) ==
    /\ at[t] = "wait" /\ ticks >= due[t]
    /\ at' = [at EXCEPT ![t] = "woken"]
    /\ due' = [due EXCEPT ![t] = 0]
    /\ UNCHANGED <<running_, clockVars, stopped, called, unwaited>>

\* The event loop resumes the coroutine.
timerRoutine(t) ==
    /\ at[t] = "woken"
    /\ AfterWait(t)
    /\ UNCHANGED <<running_, due, clockVars, stopped, unwaited>>

\* The callback returns; while it ran others did, and it may have called stop().
CallbackReturns(t) ==
    /\ at[t] = "callback"
    /\ at' = [at EXCEPT ![t] = "over"]
    /\ running_' = [running_ EXCEPT ![t] = FALSE]
    /\ UNCHANGED <<due, clockVars, stopped, called, unwaited>>

\* stop(): a coroutine of the thread, or the callback of a timer.  The broadcast
\* is lost or not.
stop(t, lost) ==
    /\ at[t] # "none" /\ running_[t]
    /\ running_' = [running_ EXCEPT ![t] = FALSE]
    /\ at' = IF at[t] = "wait" /\ ~lost THEN [at EXCEPT ![t] = "woken"] ELSE at
    /\ stopped' = [stopped EXCEPT ![t] = called[t] = 0]
    /\ UNCHANGED <<due, clockVars, called, unwaited>>

\* Time goes on, and with it the wheel.
TimerTick ==
    /\ ticks < LastTick
    /\ ticks' = ticks + 1
    /\ wheelStart' = IF ticks' > wheelStart THEN ticks' ELSE wheelStart
    /\ UNCHANGED <<at, running_, due, setBack, stopped, called, unwaited>>

\* Somebody sets the clock back, once.
TimerSetBack ==
    /\ ~setBack /\ setBack' = TRUE
    /\ ticks' = ticks - 1
    /\ UNCHANGED <<at, running_, due, wheelStart, stopped, called, unwaited>>

TimerInit(t0) ==
    /\ at = [t \in TimerIds |-> "none"]
    /\ running_ = [t \in TimerIds |-> FALSE]
    /\ due = [t \in TimerIds |-> 0]
    /\ ticks = t0 /\ wheelStart = t0 /\ setBack = FALSE
    /\ stopped = [t \in TimerIds |-> FALSE]
    /\ called = [t \in TimerIds |-> 0]
    /\ unwaited = [t \in TimerIds |-> FALSE]

TimerProgress(t) == Due(t) \/ timerRoutine(t) \/ CallbackReturns(t)

TimerNext ==
    \/ \E t \in TimerIds :
        \/ \E d \in Delays : create(t, d)
        \/ \E lost \in BOOLEAN : stop(t, lost)
        \/ TimerProgress(t)
    \/ TimerTick \/ TimerSetBack

\* The event loop goes on, callbacks return and time passes.
TimerFairness == WF_timerRoutineVars(TimerTick \/ \E t \in TimerIds : TimerProgress(t))

(***************************************************************************)
(* Properties.                                                             *)
(***************************************************************************)
\* A timer calls its callback once at most, and never after a stop() that returned
\* before, although the coroutine was already due or woken when stop() was called; it
\* does not call it before its time, unless the clock was behind the wheel when it was
\* created; and a timer that is over can be stopped again without effect.
TimerSound == \A t \in TimerIds :
    /\ called[t] <= 1
    /\ stopped[t] => called[t] = 0
    /\ called[t] = 1 => due[t] = 0 \/ unwaited[t]
    /\ at[t] = "over" => ~running_[t] /\ (called[t] = 1 \/ stopped[t])

\* Every timer ends, stopped or not: its coroutine is not left behind.
TimersOver == []<>(\A t \in TimerIds : at[t] \in {"none", "over"})
=============================================================================
