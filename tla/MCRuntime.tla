---- MODULE MCRuntime ----
(***************************************************************************)
(* The runtime of a thread in one run; a behaviour is one of its parts:    *)
(* "stacks", three coroutines that only park, on two stacks; "waits", two  *)
(* coroutines with timers, an fd and a condition variable; "list" and      *)
(* "flags", the two data structures for timers; "hooks", two coroutines    *)
(* that call the hooked system calls on an fd; "env", the thread and a     *)
(* coroutine with variables of their own; "hosts", three coroutines that   *)
(* look up hosts; "kqueue", events where there is no epoll; "timers", two  *)
(* timers of the program.                                                  *)
(***************************************************************************)
EXTENDS Coroutine, TimeoutList, Hooks, SysEnv, Kqueue, Timer

CONSTANT Third   \* the coroutine that is not used in the part "waits"

VARIABLE part

timerVars == <<coVars, tlVars, flagVars>>
ownVars == <<sysEnvVars, kqVars, timerRoutineVars>>
vars == <<part, timerVars, hookVars, ownVars>>

TwoLists == {<<2, 1>>, <<2, 0, 2>>}
TwoHosts == <<1, 2>>

NoFlags == bits = {} /\ from = 0

Init ==
    /\ TimeoutListInit /\ HooksInit /\ SysEnvInit /\ KqueueInit
    /\ \/ part = "stacks" /\ CoroutineInit(MaxTime) /\ NoFlags
       \/ part = "waits" /\ CoroutineInit(1) /\ NoFlags
       \/ /\ part \in {"list", "hooks", "env", "hosts", "kqueue", "timers"}
          /\ RuntimeAt(MaxTime, <<>>) /\ NoFlags
       \/ part = "flags" /\ RuntimeAt(MaxTime, <<>>) /\ FlagsInit
    /\ TimerInit(IF part = "timers" THEN 1 ELSE LastTick)

Next ==
    \/ part = "stacks" /\ SwitchNext /\ UNCHANGED <<part, tlVars, flagVars, hookVars, ownVars>>
    \/ /\ part = "waits" /\ CoroutineNext /\ st'[Third] = "free"
       /\ UNCHANGED <<part, tlVars, flagVars, hookVars, ownVars>>
    \/ part = "list" /\ TimeoutListNext /\ UNCHANGED <<part, coVars, flagVars, hookVars, ownVars>>
    \/ part = "hooks" /\ HooksNext /\ UNCHANGED <<part, timerVars, ownVars>>
    \/ part = "env" /\ EnvListNext /\ UNCHANGED <<part, timerVars, hookVars, kqVars, timerRoutineVars>>
    \/ part = "hosts" /\ LookNext /\ UNCHANGED <<part, timerVars, hookVars, kqVars, timerRoutineVars>>
    \/ part = "kqueue" /\ KqueueNext /\ UNCHANGED <<part, timerVars, hookVars, sysEnvVars, timerRoutineVars>>
    \/ part = "timers" /\ TimerNext /\ UNCHANGED <<part, timerVars, hookVars, sysEnvVars, kqVars>>

Spec == Init /\ [][Next]_vars /\ CoroutineFairness /\ HooksFairness /\ LookFairness /\ TimerFairness

\* What stands below the runtime: the list of RPC timeouts is in order at every
\* level, the search in the wheel never skips a timer that is due, and a hooked
\* call neither blocks the thread nor returns what is not true, and what a
\* coroutine has to itself nobody else changes.  Events made from kqueue's are
\* epoll's, and a timer that was stopped does not call.
TimersAndCallsSound ==
    /\ TimeoutListSorted /\ NeverOversleeps /\ HooksSound
    /\ OwnSound /\ KqueueSound /\ TimerSound

\* Whatever waits for a time is resumed: timers fire, hooked calls return,
\* lookups of hosts end, and no timer's coroutine is left behind.
WaitsEnd == TimersFire /\ CallsReturn /\ LookupsEnd /\ TimersOver
====
