----------------------------- MODULE Coroutine -----------------------------
(***************************************************************************)
(* The coroutine runtime of one thread, co_routine.cpp: coroutines that    *)
(* copy their frames in and out of shared stacks, the timing wheel, the    *)
(* event loop, poll() and condition variables.                             *)
(*                                                                         *)
(* One coroutine runs at a time, and what it does between two switches is  *)
(* one step per call.  Times are ticks.  A coroutine changes its frames    *)
(* whenever it runs: a copy of them made before is stale.  Which fds are   *)
(* ready is chosen by epoll_wait(); the clock is gettimeofday(), which can *)
(* be set back.                                                            *)
(***************************************************************************)
EXTENDS Integers, Sequences, FiniteSets, SequencesExt

CONSTANTS
    Co,        \* addresses of coroutines (malloc() uses them again)
    Stacks,    \* stacks in a stShareStack_t, numbered from 0
    Size,      \* slots of the timing wheel, iItemSize
    Timeouts,  \* timeouts that are asked for
    Fds,       \* file descriptors
    MaxTime,   \* the clock stops here
    MaxBack,   \* how often the clock is set back
    MaxOps,    \* coroutines started, waits on and signals of the condition variable
    NoCo, Main, Stale

ASSUME CoroutineAssumption ==
    /\ Size \in Nat \ {0} /\ Stacks \in Nat \ {0}
    /\ Timeouts \subseteq Nat \ {0}
    /\ Co # {} /\ IsFiniteSet(Fds) /\ 0 \notin Fds
    /\ NoCo \notin Co /\ Main \notin Co /\ Stale \notin Co /\ NoCo # Main

VARIABLES
    st,          \* "free", "run", "poll", "cond", "parked" or "ended"
    callStack,   \* pCallStack
    mem,         \* whose frames are on each shared stack, or Stale
    occupy,      \* occupy_co of each stack
    stackOf,     \* stack_mem of each coroutine
    saved,       \* save_buffer of each coroutine: whose frames, or Stale
    allocIdx,    \* alloc_idx
    clock,
    wheel, ullStart, startIdx,   \* stTimeout_t
    noTimeout,   \* pstNoTimeoutList
    active,      \* pstActiveList
    expire,      \* ullExpireTime of the wait of a coroutine, 0 if it has none
    bTimeout,
    raised,      \* iRaiseCnt > 0
    epoll,       \* the coroutine that is registered for an fd
    polls,       \* the fd a coroutine polls, or 0
    condq,       \* stCoCond_t
    toResume,    \* waitResumeQueue_ of the thread
    now,         \* now of co_eventloop()
    backs, ops

stackVars == <<callStack, mem, occupy, stackOf, saved, allocIdx>>
timeVars == <<wheel, ullStart, startIdx, expire, bTimeout>>
waitVars == <<st, noTimeout, active, raised, epoll, polls, condq, toResume>>
boundVars == <<clock, backs, ops>>
coVars == <<stackVars, timeVars, waitVars, now, boundVars>>

Running == Last(callStack)

GetTickMS == clock

(***************************************************************************)
(* A link is a sequence without repetitions.  No item that is given to     *)
(* AddTail() is in a link, and nothing empty is given to Join().           *)
(***************************************************************************)
AddTail(link, co) == Append(link, co)
PopHead(link) == Tail(link)
Join(link, other) == link \o other

\* RemoveFromLink() of every coroutine in gone.
Without(link, gone) ==
    LET kept[i \in 0 .. Len(link)] ==
          IF i = 0 THEN <<>>
          ELSE IF link[i] \in gone THEN kept[i - 1] ELSE AddTail(kept[i - 1], link[i])
    IN  kept[Len(link)]

\* Join() of the links of slots, one after the other.
JoinAll(links, slots) ==
    LET joined[i \in 0 .. Len(slots)] ==
          IF i = 0 THEN <<>> ELSE Join(joined[i - 1], links[slots[i]])
    IN  joined[Len(slots)]

\* The mutant's, and the code's, test whether co_swap() copies frames back.
MutRestores(occ, co) == occ # NoCo /\ occ # co
Restores(occ, co) == occ # co

(***************************************************************************)
(* co_swap(): the running coroutine is switched out, co in.  A coroutine that occupies the  *)
(* stack of co is saved unless it has ended, and the frames of co are      *)
(* copied back unless they are still there.                                *)
(***************************************************************************)
co_swap(co, fresh) ==
    LET s == stackOf'[co]
        occ == occupy[s]
        kept == IF occ \in {NoCo, co} THEN saved
                ELSE [saved EXCEPT ![occ] = IF st'[occ] = "ended" THEN NoCo ELSE mem[s]]
    IN  IF co = Main
        THEN UNCHANGED <<mem, occupy, saved>>
        ELSE /\ occupy' = [occupy EXCEPT ![s] = co]
             /\ saved' = [kept EXCEPT ![co] = IF @ = co THEN Stale ELSE @]
             /\ mem' = IF fresh THEN [mem EXCEPT ![s] = co]
                       ELSE IF Restores(occ, co) /\ kept[co] # NoCo
                       THEN [mem EXCEPT ![s] = kept[co]] ELSE mem

\* co_yield_env(): back to the coroutine that resumed this one.
co_yield_env ==
    /\ callStack' = Front(callStack)
    /\ UNCHANGED <<stackOf, allocIdx>>
    /\ co_swap(Last(callStack'), FALSE)

\* The stacks that coroutines share: nobody's at first,
co_alloc_sharestack == [s \in 0 .. Stacks - 1 |-> NoCo]

\* and given out in turn.
co_get_stackmem(co) ==
    /\ stackOf' = [stackOf EXCEPT ![co] = allocIdx]
    /\ allocIdx' = (allocIdx + 1) % Stacks

\* startCoroutine(): co_create_env() takes the next shared stack, co_resume()
\* switches to the new coroutine.
startCoroutine(co) ==
    /\ Running # Main /\ st[co] = "free" /\ ops < MaxOps
    /\ ops' = ops + 1
    /\ co_get_stackmem(co)
    /\ st' = [st EXCEPT ![co] = "run"]
    /\ callStack' = Append(callStack, co)
    /\ co_swap(co, TRUE)
    /\ UNCHANGED <<timeVars, noTimeout, active, raised, epoll, polls, condq, toResume, now,
                   clock, backs>>

\* CoRoutineFunc() after the function of the coroutine.
End ==
    /\ Running # Main
    /\ st' = [st EXCEPT ![Running] = "ended"]
    /\ co_yield_env
    /\ UNCHANGED <<timeVars, noTimeout, active, raised, epoll, polls, condq, toResume, now, boundVars>>

Vacated(co) ==
    IF occupy[stackOf[co]] = co THEN [occupy EXCEPT ![stackOf[co]] = NoCo] ELSE occupy

\* co_free(), which cleanRoutine() calls.
co_free(co) ==
    /\ Running # Main /\ st[co] = "ended"
    /\ st' = [st EXCEPT ![co] = "free"]
    /\ occupy' = Vacated(co)
    /\ saved' = [saved EXCEPT ![co] = NoCo]
    /\ UNCHANGED <<callStack, mem, stackOf, allocIdx, timeVars, noTimeout, active,
                   raised, epoll, polls, condq, toResume, now, boundVars>>

(***************************************************************************)
(* The timing wheel.                                                       *)
(***************************************************************************)
CanAddTimeout(t, exp) == t >= ullStart /\ exp >= t

\* The slot of AddTimeout(): a time beyond the wheel goes into its last slot.
Slot(exp) ==
    LET diff == exp - ullStart
    IN  (startIdx + (IF diff >= Size THEN Size - 1 ELSE diff)) % Size

AddTimeout(co, exp) ==
    wheel' = [wheel EXCEPT ![Slot(exp)] = AddTail(@, co)]

(***************************************************************************)
(* What a running coroutine waits for.                                     *)
(***************************************************************************)
\* IO::create() keeps two coroutines of a thread off one fd.
MutOnePerFd(fd) == TRUE
OnePerFd(fd) == epoll[fd] = NoCo

Await(how, co, t) ==
    /\ st' = [st EXCEPT ![co] = how]
    /\ IF t = 0
       THEN expire' = [expire EXCEPT ![co] = 0] /\ UNCHANGED wheel
       ELSE /\ CanAddTimeout(GetTickMS, GetTickMS + t)
            /\ expire' = [expire EXCEPT ![co] = GetTickMS + t]
            /\ AddTimeout(co, GetTickMS + t)
    /\ co_yield_env
    /\ UNCHANGED <<ullStart, startIdx, bTimeout, active, raised, now, clock, backs>>

\* co_poll_inner() on one fd (0: sleep()), up to its yield; EPOLL_CTL_ADD of an
\* fd that is registered already fails and is ignored.  When AddTimeout() fails
\* it returns EINVAL at once and leaves everything as it was.
co_poll_inner(fd, t) ==
    /\ Running # Main
    /\ fd # 0 => OnePerFd(fd)
    /\ polls' = [polls EXCEPT ![Running] = fd]
    /\ epoll' = IF fd # 0 /\ epoll[fd] = NoCo THEN [epoll EXCEPT ![fd] = Running] ELSE epoll
    /\ noTimeout' = IF t = 0 THEN noTimeout \cup {Running} ELSE noTimeout
    /\ Await("poll", Running, t)
    /\ UNCHANGED <<condq, toResume, ops>>

\* co_cond_timedwait(), up to its yield.
co_cond_timedwait(t) ==
    /\ Running # Main /\ ops < MaxOps /\ ops' = ops + 1
    /\ condq' = AddTail(condq, Running)
    /\ Await("cond", Running, t)
    /\ UNCHANGED <<noTimeout, epoll, polls, toResume>>

\* co_cond_signal() for n = 1; co_cond_broadcast() for all.
Signalled(n) ==
    LET woken == SubSeq(condq, 1, n)
    IN  /\ condq' = SubSeq(condq, n + 1, Len(condq))
        /\ wheel' = [i \in DOMAIN wheel |-> Without(wheel[i], Range(woken))]
        /\ active' = Join(Without(active, Range(woken)), woken)

Signal(all) ==
    /\ Running # Main /\ condq # <<>> /\ ops < MaxOps /\ ops' = ops + 1
    /\ Signalled(IF all THEN Len(condq) ELSE 1)
    /\ UNCHANGED <<stackVars, ullStart, startIdx, expire, bTimeout, st, noTimeout, raised, epoll,
                   polls, toResume, now, clock, backs>>

co_yield_ct == co_yield_env

\* co_yield_ct() of a coroutine that another one, or another thread, resumes
\* with resumeCoroutine().
Park ==
    /\ Running # Main
    /\ st' = [st EXCEPT ![Running] = "parked"]
    /\ co_yield_ct
    /\ UNCHANGED <<timeVars, noTimeout, active, raised, epoll, polls, condq, toResume, now, boundVars>>

resumeCoroutine(co) ==
    /\ st[co] = "parked" /\ co \notin Range(toResume) /\ co \notin Range(active)
    /\ toResume' = Append(toResume, co)
    /\ UNCHANGED <<stackVars, timeVars, st, noTimeout, active, raised, epoll, polls, condq, now,
                   boundVars>>

(***************************************************************************)
(* The event loop.                                                         *)
(***************************************************************************)
Cnt(t) == IF t - ullStart + 1 > Size THEN Size ELSE t - ullStart + 1

\* The slots TakeAllTimeout() empties, in its order.
DueSlots(t) == [i \in 1 .. Cnt(t) |-> (startIdx + i - 1) % Size]

\* One turn of co_eventloop() up to its second loop: epoll_wait() returns the
\* fds in ready and the pipe of the waitResumeQueue_, whose coroutine puts what
\* is in the queue into the active list (co_activate()); the timers of the
\* slots that are due follow.
co_eventloop(ready) ==
    /\ Running = Main /\ active = <<>>
    /\ LET hit == {epoll[fd] : fd \in ready}
           rest == [i \in DOMAIN wheel |-> Without(wheel[i], hit)]
           turn == GetTickMS >= ullStart
           due == IF turn THEN DueSlots(GetTickMS) ELSE <<>>
           late == JoinAll(rest, due)
       IN  /\ raised' = [c \in Co |-> raised[c] \/ c \in hit]
           /\ noTimeout' = noTimeout \ hit
           /\ wheel' = [i \in DOMAIN wheel |-> IF i \in Range(due) THEN <<>> ELSE rest[i]]
           /\ bTimeout' = [c \in Co |-> bTimeout[c] \/ c \in Range(late)]
           /\ active' = Join(Join(SetToSeq(hit), toResume), late)
           /\ toResume' = <<>>
           /\ IF turn
              THEN ullStart' = GetTickMS /\ startIdx' = (startIdx + Cnt(GetTickMS) - 1) % Size
              ELSE UNCHANGED <<ullStart, startIdx>>
           /\ now' = GetTickMS
    /\ UNCHANGED <<stackVars, st, expire, epoll, polls, condq, boundVars>>

\* mutant: a timer is taken for due as soon as its slot is
MutTooEarly(co) == FALSE

\* mutant: a timer that is due now goes round again
MutStillEarly(co) == bTimeout[co] /\ now <= expire[co] /\ CanAddTimeout(now, expire[co])

TooEarly(co) == bTimeout[co] /\ now < expire[co] /\ CanAddTimeout(now, expire[co])

\* The second loop meets a timer that is not due yet: its time was beyond the
\* wheel.
AddAgain ==
    /\ Running = Main /\ active # <<>>
    /\ LET co == Head(active) IN
       /\ TooEarly(co)
       /\ AddTimeout(co, expire[co])
       /\ bTimeout' = [bTimeout EXCEPT ![co] = FALSE]
    /\ active' = PopHead(active)
    /\ UNCHANGED <<stackVars, ullStart, startIdx, expire, st, noTimeout, raised, epoll, polls,
                   condq, toResume, now, boundVars>>

\* What the second loop does with a coroutine: OnCoroutineEvent(), and the like
\* for poll() and for a condition variable.
OnCoroutineEvent(co) ==
    /\ callStack' = Append(callStack, co)
    /\ st' = [st EXCEPT ![co] = "run"]
    /\ UNCHANGED <<stackOf, allocIdx>>
    /\ co_swap(co, FALSE)

\* The second loop resumes a coroutine, which then leaves the call it waited
\* in: co_poll_inner() takes its fd out of epoll, whoever registered it, and
\* co_cond_timedwait() its item out of the condition variable.
co_resume ==
    /\ Running = Main /\ active # <<>> /\ ~TooEarly(Head(active))
    /\ LET co == Head(active) IN
       /\ OnCoroutineEvent(co)
       /\ epoll' = IF st[co] = "poll" /\ polls[co] # 0 THEN [epoll EXCEPT ![polls[co]] = NoCo]
                   ELSE epoll
       /\ condq' = Without(condq, {co})
       /\ polls' = [polls EXCEPT ![co] = 0]
       /\ expire' = [expire EXCEPT ![co] = 0]
       /\ bTimeout' = [bTimeout EXCEPT ![co] = FALSE]
       /\ raised' = [raised EXCEPT ![co] = FALSE]
    /\ active' = PopHead(active)
    /\ UNCHANGED <<wheel, ullStart, startIdx, noTimeout, toResume, now, boundVars>>

Tick ==
    /\ clock < MaxTime /\ clock' = clock + 1
    /\ UNCHANGED <<stackVars, timeVars, waitVars, now, backs, ops>>

\* Somebody sets the clock back.
SetBack ==
    /\ clock > 1 /\ backs < MaxBack
    /\ clock' = clock - 1 /\ backs' = backs + 1
    /\ UNCHANGED <<stackVars, timeVars, waitVars, now, ops>>

\* AllocEpoll(): the links are empty.
AllocEpoll ==
    /\ wheel = [i \in 0 .. Size - 1 |-> <<>>]
    /\ noTimeout = {} /\ active = <<>>
    /\ epoll = [fd \in Fds |-> NoCo]

\* The runtime at time t; main() has started the coroutines in started.
RuntimeAt(t, started) ==
    /\ st = [c \in Co |-> IF c \in Range(started) THEN "run" ELSE "free"]
    /\ callStack = <<Main>> \o started
    /\ occupy = [s \in DOMAIN co_alloc_sharestack |->
                   IF s < Len(started) THEN started[s + 1] ELSE co_alloc_sharestack[s]]
    /\ mem = occupy
    /\ stackOf = [c \in Co \cup {Main} |-> 0]
    /\ saved = [c \in Co |-> NoCo]
    /\ allocIdx = Len(started) % Stacks
    /\ clock = t /\ ullStart = t /\ startIdx = 0 /\ now = t
    /\ AllocEpoll
    /\ condq = <<>> /\ toResume = <<>>
    /\ expire = [c \in Co |-> 0] /\ bTimeout = [c \in Co |-> FALSE]
    /\ raised = [c \in Co |-> FALSE]
    /\ polls = [c \in Co |-> 0]
    /\ backs = 0 /\ ops = 0

CoroutineInit(t) == RuntimeAt(t, <<CHOOSE c \in Co : TRUE>>)

Waits ==
    \E t \in Timeouts \cup {0} :
        \/ \E fd \in Fds : co_poll_inner(fd, t)
        \/ t # 0 /\ co_poll_inner(0, t)
        \/ co_cond_timedwait(t)

Registered == {fd \in Fds : epoll[fd] # NoCo}

\* What starts, ends and switches coroutines, and what they wait for.
SwitchNext ==
    \/ \E co \in Co : startCoroutine(co) \/ co_free(co) \/ resumeCoroutine(co)
    \/ End \/ Park \/ co_resume
    \/ \E ready \in SUBSET Registered : co_eventloop(ready)

WaitNext ==
    \/ Waits \/ AddAgain \/ Tick \/ SetBack
    \/ \E all \in BOOLEAN : Signal(all)

CoroutineNext == SwitchNext \/ WaitNext

\* Coroutines give up the thread, the loop goes on and the clock goes on.
CoroutineFairness ==
    /\ WF_coVars(End \/ Park \/ Waits)
    /\ WF_coVars(\E ready \in SUBSET Registered : co_eventloop(ready))
    /\ WF_coVars(AddAgain \/ co_resume)
    /\ WF_coVars(Tick)
-----------------------------------------------------------------------------
\* A coroutine that runs finds its own frames on its stack, the ones it left
\* there, whoever ran on that stack, ended or was freed since; no stack is
\* occupied by a coroutine that has been freed.
StackIntact ==
    /\ Running # Main => mem[stackOf[Running]] = Running
    /\ \A s \in DOMAIN occupy : occupy[s] # NoCo => st[occupy[s]] # "free"

Places(link, co) == {k \in DOMAIN link : link[k] = co}

\* How often a coroutine is in a link of the runtime.
Links(co) ==
    Cardinality(Places(active, co))
    + Cardinality(UNION {{i} \X Places(wheel[i], co) : i \in DOMAIN wheel})
    + (IF co \in noTimeout THEN 1 ELSE 0)

\* A coroutine that waits in poll() or on a condition variable is in exactly
\* one link if anything is to wake it (assert(arg.pLink == NULL) when it
\* returns); its timer is in a slot that is due no later than the timer; a poll
\* without timeout has its fd in epoll.  A signalled coroutine whose timer had
\* been taken out of its slot before its time goes back to the wheel: the signal
\* is lost, but its timer still wakes it.
WaitsAreLinked ==
    \A co \in Co :
        /\ st[co] \in {"run", "ended", "free"} => Links(co) = 0 /\ co \notin Range(condq)
        /\ st[co] = "poll" => Links(co) = 1
        /\ st[co] = "cond" => IF expire[co] # 0 \/ co \notin Range(condq) THEN Links(co) = 1
                              ELSE Links(co) = 0
        /\ \A i \in DOMAIN wheel : co \in Range(wheel[i]) =>
               ullStart + ((i - startIdx) % Size) <= expire[co]
        /\ co \in noTimeout => epoll[polls[co]] = co

\* A wait ends because its fd is ready, because it was signalled or because its
\* time has come, never before.
EndsForAReason ==
    [][\A co \in Co :
         /\ st[co] = "poll" /\ st'[co] = "run" =>
                raised[co] \/ (expire[co] # 0 /\ expire[co] <= now)
         /\ st[co] = "cond" /\ st'[co] = "run" =>
                co \notin Range(condq) \/ (expire[co] # 0 /\ expire[co] <= now)]_coVars

\* Every timed wait ends, and a coroutine that another thread resumes runs (the
\* clock stops at MaxTime, so that in the end no timed wait is left).
TimersFire ==
    []<>(/\ toResume = <<>>
         /\ \A co \in Co : st[co] \in {"poll", "cond"} => expire[co] \notin 1 .. MaxTime)
=============================================================================
