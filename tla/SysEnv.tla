------------------------------- MODULE SysEnv -------------------------------
(***************************************************************************)
(* co_hook_sys_call.cpp, from co_set_env_list() on, co_comm.cpp and        *)
(* co_routine_specific.h: what a coroutine has to itself where a program   *)
(* expects it to be the process's or the thread's.                         *)
(*                                                                         *)
(* The environment variables of a list that the program gives once belong  *)
(* to each coroutine: setenv(), unsetenv() and getenv() work on a copy.    *)
(* gethostbyname() keeps its result and the resolver's state with the      *)
(* coroutine, and the lookups of a thread's coroutines take turns: they    *)
(* wait for the network in hooked calls, in the midst of the system's      *)
(* gethostbyname_r().                                                      *)
(*                                                                         *)
(* One thread.  A name is a number, and strcmp() orders them; 0 stands for *)
(* NULL or "".  A value is a number, and 0 is no value.                    *)
(***************************************************************************)
EXTENDS Integers, Sequences, SequencesExt, FiniteSets, TLC

CONSTANTS
    Programs,   \* coroutines that use the environment
    MainCo,     \* the one of them that is the thread itself
    Names,      \* names of variables
    Values,
    Lists,      \* arguments of co_set_env_list()
    Lookers,    \* coroutines that look up hosts
    Need        \* for each host, the size that its entry needs, in units of 1024 bytes

ASSUME SysEnvAssumption ==
    /\ MainCo \in Programs /\ MainCo \notin Lookers
    /\ Names \subseteq Nat \ {0} /\ Values \subseteq Nat \ {0}
    /\ Lists \subseteq Seq(Names \cup {0})
    /\ \A h \in DOMAIN Need : Need[h] \in Nat \ {0}

VARIABLES
    g_co_sysenv,      \* [data: it is set, names: the list]
    procEnv,          \* the environment of the process
    pvEnv,            \* values of a coroutine's copy, in the list's order; <<>>: no copy
    cEnableSysHook,
    g_start_hook,
    given,            \* history: the argument of co_set_env_list()
    own,              \* history: what a coroutine did to the variables of the list
    wrap,             \* __co_hostbuf_wrap of each slot: iBufferSize (0: none) and the host
    resState,         \* __co_state_wrap of each slot: the host that is being looked up
    look,             \* a lookup: where it is, its host, and what it returned
    m_iWaitItemCnt, m_ptCondSignal, \* the thread's clsCoMutex
    signalled         \* coroutines that co_cond_signal() made active

envListVars == <<g_co_sysenv, procEnv, pvEnv, cEnableSysHook, g_start_hook, given, own>>
lookVars == <<wrap, resState, look, m_iWaitItemCnt, m_ptCondSignal, signalled>>
sysEnvVars == <<envListVars, lookVars>>

(***************************************************************************)
(* The environment.                                                        *)
(***************************************************************************)
\* The loop that drops equal neighbours: the end of what is kept is lp.
Unique(s) ==
    FoldLeft(LAMBDA kept, n : IF Last(kept) = n THEN kept ELSE Append(kept, n), <<Head(s)>>, Tail(s))

\* mutant: the list is searched as it was given
MutListed(name) == SelectSeq(name, LAMBDA n : n # 0)

\* NULL and "" are left out, the rest is sorted.
Listed(name) ==
    LET kept == SelectSeq(name, LAMBDA n : n # 0)
    IN  IF Len(kept) > 1 THEN Unique(SortSeq(kept, <)) ELSE kept

\* Only the first call counts.
co_set_env_list(name) ==
    /\ ~g_co_sysenv.data
    /\ g_co_sysenv' = [data |-> TRUE, names |-> Listed(name)]
    /\ given' = name
    /\ UNCHANGED <<procEnv, pvEnv, cEnableSysHook, g_start_hook, own, lookVars>>

\* bsearch(): the place of n in s, or 0.
bsearch(n, s) ==
    LET find[l \in 0 .. Len(s), u \in 0 .. Len(s)] ==
            LET i == (l + u) \div 2
            IN  CASE l >= u -> 0
                  [] l < u /\ s[i + 1] = n -> i + 1
                  [] l < u /\ n < s[i + 1] -> find[l, i]
                  [] OTHER -> find[i + 1, u]
    IN  find[0, Len(s)]

co_is_enable_sys_hook(c) == g_start_hook /\ cEnableSysHook[c]

dup_co_sysenv_arr == [i \in 1 .. Len(g_co_sysenv.names) |-> 0]

Uses(c) == co_is_enable_sys_hook(c) /\ g_co_sysenv.data

\* The coroutine's copy, made by whichever call comes first.
Copy(c) == IF pvEnv[c] = <<>> THEN dup_co_sysenv_arr ELSE pvEnv[c]

Place(c, n) == IF Uses(c) THEN bsearch(n, g_co_sysenv.names) ELSE 0

\* mutant: a value is kept even if the caller says to overwrite it
MutKeeps(old, overwrite) == old # 0
Keeps(old, overwrite) == ~overwrite /\ old # 0

SetIn(c, n, e, v, keep(_)) ==
    /\ IF e # 0
       THEN /\ pvEnv' = [pvEnv EXCEPT ![c] = IF keep(Copy(c)[e]) THEN Copy(c) ELSE [Copy(c) EXCEPT ![e] = v]]
            /\ UNCHANGED procEnv
       ELSE /\ pvEnv' = IF Uses(c) THEN [pvEnv EXCEPT ![c] = Copy(c)] ELSE pvEnv
            /\ procEnv' = IF keep(procEnv[n]) THEN procEnv ELSE [procEnv EXCEPT ![n] = v]
    /\ UNCHANGED <<g_co_sysenv, cEnableSysHook, g_start_hook, given, lookVars>>

setenv(c, n, value, overwrite) ==
    /\ SetIn(c, n, Place(c, n), value, LAMBDA old : Keeps(old, overwrite))
    /\ own' = IF Uses(c) /\ (overwrite \/ own[c][n] = 0) THEN [own EXCEPT ![c][n] = value] ELSE own

unsetenv(c, n) ==
    /\ SetIn(c, n, Place(c, n), 0, LAMBDA old : FALSE)
    /\ own' = IF Uses(c) THEN [own EXCEPT ![c][n] = 0] ELSE own

\* What getenv() returns; it makes the copy too.
getenv(c, n) == IF Place(c, n) # 0 THEN Copy(c)[Place(c, n)] ELSE procEnv[n]

CallGetenv(c) ==
    /\ Uses(c)
    /\ pvEnv' = [pvEnv EXCEPT ![c] = Copy(c)]
    /\ UNCHANGED <<g_co_sysenv, procEnv, cEnableSysHook, g_start_hook, given, own, lookVars>>

SetHook(c, on) ==
    /\ cEnableSysHook' = [cEnableSysHook EXCEPT ![c] = on]
    /\ UNCHANGED <<g_co_sysenv, procEnv, pvEnv, g_start_hook, given, own, lookVars>>

co_enable_hook_sys(c) == SetHook(c, TRUE)
co_disable_hook_sys(c) == SetHook(c, FALSE)

co_start_hook ==
    /\ ~g_start_hook /\ g_start_hook' = TRUE
    /\ UNCHANGED <<g_co_sysenv, procEnv, pvEnv, cEnableSysHook, given, own, lookVars>>

(***************************************************************************)
(* Lookups of hosts, by coroutines whose hook is on.                       *)
(***************************************************************************)
\* mutant: the slot is the thread's
MutSlot(c) == MainCo

\* co_getspecific(): a coroutine has slots of its own, the thread has its
\* pthread slots.
co_getspecific(c) == c

\* CO_ROUTINE_SPECIFIC: the data of a slot is all zero when it is first used.
SlotData == [size |-> 0, host |-> 0]

NoLook == [at |-> "idle", host |-> 0, ret |-> 0]

\* CoLock() by c with the count at cnt: it waits, or goes on into the system's
\* gethostbyname_r(), which notes what it looks up in __res_state().
CoLock(c, host, cnt, woken, queue) ==
    /\ m_iWaitItemCnt' = cnt + 1
    /\ signalled' = woken
    /\ IF cnt > 0
       THEN /\ m_ptCondSignal' = Append(queue, c)
            /\ look' = [look EXCEPT ![c] = [at |-> "lock", host |-> host, ret |-> 0]]
            /\ UNCHANGED resState
       ELSE /\ m_ptCondSignal' = queue
            /\ look' = [look EXCEPT ![c] = [at |-> "resolve", host |-> host, ret |-> 0]]
            /\ resState' = [resState EXCEPT ![co_getspecific(c)] = host]

\* The buffer is there, and no larger than one unit, before
\* gethostbyname_r() takes the lock.
co_gethostbyname(c, host) ==
    /\ wrap' = [wrap EXCEPT ![co_getspecific(c)].size = 1]
    /\ CoLock(c, host, m_iWaitItemCnt, signalled, m_ptCondSignal)
    /\ UNCHANGED envListVars

gethostbyname(c, host) == look[c].at = "idle" /\ co_gethostbyname(c, host)

\* The event loop resumes a coroutine that was signalled.
Locked(c) ==
    /\ c \in signalled
    /\ signalled' = signalled \ {c}
    /\ look' = [look EXCEPT ![c].at = "resolve"]
    /\ resState' = [resState EXCEPT ![co_getspecific(c)] = look[c].host]
    /\ UNCHANGED <<wrap, m_iWaitItemCnt, m_ptCondSignal, envListVars>>

\* What CoUnLock() leaves: the first that waits is signalled.
UnlockedCnt == m_iWaitItemCnt - 1
UnlockedQueue == IF m_ptCondSignal = <<>> THEN <<>> ELSE Tail(m_ptCondSignal)
UnlockedActive == IF m_ptCondSignal = <<>> THEN signalled ELSE signalled \cup {Head(m_ptCondSignal)}

\* The system's gethostbyname_r() returns: with the host in the buffer, or
\* without one.
LookupEnds(c, found) ==
    /\ look[c].at = "resolve"
    /\ LET s == co_getspecific(c)
       IN  /\ found => wrap[s].size >= Need[resState[s]]
           /\ wrap' = IF found THEN [wrap EXCEPT ![s].host = resState[s]] ELSE wrap
           /\ look' = [look EXCEPT ![c] = [at |-> "idle", host |-> @.host, ret |-> IF found THEN @.host ELSE 0]]
    /\ m_iWaitItemCnt' = UnlockedCnt
    /\ m_ptCondSignal' = UnlockedQueue
    /\ signalled' = UnlockedActive
    /\ UNCHANGED <<resState, envListVars>>

\* mutant: the buffer is not made larger
MutLarger(n) == n
Larger(n) == n * 2

\* ... or with ERANGE: the buffer is freed, one of twice the size is made, and
\* gethostbyname_r() called again, which takes the lock again.
LookupAgain(c) ==
    /\ look[c].at = "resolve"
    /\ wrap[co_getspecific(c)].size < Need[resState[co_getspecific(c)]]
    /\ wrap' = [wrap EXCEPT ![co_getspecific(c)] = [size |-> Larger(@.size), host |-> 0]]
    /\ CoLock(c, look[c].host, UnlockedCnt, UnlockedActive, UnlockedQueue)
    /\ UNCHANGED envListVars

(***************************************************************************)
(* The specification.                                                      *)
(***************************************************************************)
SysEnvInit ==
    /\ g_co_sysenv = [data |-> FALSE, names |-> <<>>]
    /\ procEnv = [n \in Names |-> 0]
    /\ pvEnv = [c \in Programs |-> <<>>]
    /\ cEnableSysHook = [c \in Programs |-> FALSE]
    /\ g_start_hook = FALSE
    /\ given = <<>>
    /\ own = [c \in Programs |-> [n \in Names |-> 0]]
    /\ wrap = [c \in Lookers \cup {MainCo} |-> SlotData]
    /\ resState = [c \in Lookers \cup {MainCo} |-> 0]
    /\ look = [c \in Lookers |-> NoLook]
    /\ m_iWaitItemCnt = 0 /\ m_ptCondSignal = <<>> /\ signalled = {}

EnvListNext ==
    \/ \E name \in Lists : co_set_env_list(name)
    \/ co_start_hook
    \/ \E c \in Programs :
        \/ co_enable_hook_sys(c) \/ co_disable_hook_sys(c) \/ CallGetenv(c)
        \/ \E n \in Names : unsetenv(c, n) \/ \E v \in Values, o \in BOOLEAN : setenv(c, n, v, o)

LookNext == \E c \in Lookers :
    \/ \E h \in DOMAIN Need : gethostbyname(c, h)
    \/ Locked(c) \/ LookupAgain(c)
    \/ \E found \in BOOLEAN : LookupEnds(c, found)

\* The event loop runs what is active, and the system's resolver gives up after
\* its timeouts.
LookFairness == \A c \in Lookers : WF_sysEnvVars(Locked(c) \/ LookupAgain(c) \/ \E f \in BOOLEAN : LookupEnds(c, f))

(***************************************************************************)
(* Properties.                                                             *)
(***************************************************************************)
\* A coroutine whose hook is on sees of a variable of the list what itself has done
\* to it, whatever the others and the process do, in any order of the calls; every
\* name of the list, in whatever order and however often it was given, is private,
\* and no other name is.
EnvPrivate == \A c \in Programs, n \in Names : Uses(c) =>
    getenv(c, n) = IF n \in Range(given) THEN own[c][n] ELSE procEnv[n]

\* The lock of the lookups: who holds it, will hold it and waits for it are counted,
\* one at most is in the resolver, and nobody waits for a lock that nobody has.
LookupsTakeTurns ==
    LET in == {c \in Lookers : look[c].at = "resolve"}
    IN  /\ m_iWaitItemCnt = Cardinality(in) + Cardinality(signalled) + Len(m_ptCondSignal)
        /\ Cardinality(in) + Cardinality(signalled) <= 1
        /\ m_ptCondSignal # <<>> => in \cup signalled # {}

\* The host that gethostbyname() gave a coroutine stays what it is until the
\* coroutine's next call, although others have looked up hosts since.
HostsKept == \A c \in Lookers : look[c].at = "idle" /\ look[c].ret # 0 =>
    /\ wrap[co_getspecific(c)].host = look[c].ret
    /\ wrap[co_getspecific(c)].size >= Need[look[c].ret]

OwnSound == EnvPrivate /\ LookupsTakeTurns /\ HostsKept

\* Every lookup ends.
LookupsEnd == \A c \in Lookers : []<>(look[c].at = "idle")
=============================================================================
