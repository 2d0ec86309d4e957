------------------------------ MODULE InnerRpc ------------------------------
(***************************************************************************)
(* A call through InnerRpcChannel (corpc_inner_rpc.cpp) from a coroutine   *)
(* of one thread to an InnerRpcServer on other threads, with the           *)
(* RoutineEnvironment of the calling thread (corpc_routine_env.cpp): the   *)
(* queue of coroutines to resume, the list of calls that can time out, and *)
(* the resume, timeout and run steps of the thread.                        *)
(*                                                                         *)
(* A Caller is a coroutine address; the environment knows a call only by   *)
(* that address and by the call's expire time.  The number of the call is  *)
(* kept beside it so that the properties can tell calls apart.             *)
(*                                                                         *)
(* The callers share one thread, on which one coroutine runs at a time:    *)
(* resumeRoutine, timeoutRoutine and another caller run only when the      *)
(* current caller has yielded.  The server's queue is the MPMC queue of    *)
(* corpc_queue.h: a semaphore (modelled by its count) and a mutex          *)
(* (modelled by its owner and its FIFO of sleepers).                       *)
(***************************************************************************)
EXTENDS Integers, Sequences, FiniteSets, SequencesExt

CONSTANTS
    Caller,      \* addresses of calling coroutines
    Worker,      \* the server's requestQueueRoutine coroutines
    Timeout,     \* the timeouts methods may have; 0 is none
    OneWay,      \* whether there are not_care_response methods
    MaxCalls,    \* bound: the number of calls of each caller
    MaxTime,     \* bound: the clock
    SleepTimed,  \* whether a call with a timeout may sleep on queueMutex_
    None

\* InnerRpcRequest with its RpcClientTask; n is the number of the call.
Request == [co : Caller, n : Nat, expire : Nat, care : BOOLEAN]

ASSUME ConstantsAssumption ==
    /\ Timeout \subseteq Nat
    /\ MaxCalls \in [Caller -> Nat] /\ MaxTime \in Nat
    /\ OneWay \in BOOLEAN /\ SleepTimed \in BOOLEAN
    /\ IsFiniteSet(Caller) /\ IsFiniteSet(Worker) /\ Caller \cap Worker = {}
    /\ None \notin Caller \cup Worker /\ None \notin Request

VARIABLES
    now,         \* gettimeofday, in units of the timeouts
    pc,          \* where each caller is
    n,           \* the number of its current call
    req,         \* its current request
    outcome,     \* what controller and response of its current call say
    timeoutList, \* timeoutList_: at most one node per coroutine address
    waitResume,  \* waitResumeQueue_
    active,      \* coroutines activated and not yet run, with the reason
    queue,       \* queue_.queue_
    permits,     \* queue_.sem_
    lockOwner,   \* queue_.queueMutex_
    lockWaiters,
    wpc,         \* where each worker is
    job,         \* the request it handles
    routines,    \* requests that a requestRoutine coroutine handles
    answer,      \* what the method said, for each call
    doneRuns     \* how often done ran, for each one-way call

client == <<now, pc, n, req, outcome>>
env    == <<timeoutList, waitResume, active>>
lock   == <<lockOwner, lockWaiters>>
server == <<queue, permits, wpc, job, routines, answer, doneRuns>>
vars   == <<client, env, lock, server>>

-----------------------------------------------------------------------------

Calls(c) == 1 .. MaxCalls[c]

Init ==
    /\ now = 0
    /\ pc = [c \in Caller |-> "idle"]
    /\ n = [c \in Caller |-> 0]
    /\ req = [c \in Caller |-> None]
    /\ outcome = [c \in Caller |-> "none"]
    /\ timeoutList = [c \in Caller |-> None]
    /\ waitResume = <<>>
    /\ active = <<>>
    /\ queue = <<>>
    /\ permits = 0
    /\ lockOwner = None
    /\ lockWaiters = <<>>
    /\ wpc = [w \in Worker |-> "wait"]
    /\ job = [w \in Worker |-> None]
    /\ routines = {}
    /\ answer = [c \in Caller |-> [i \in Calls(c) |-> "none"]]
    /\ doneRuns = [c \in Caller |-> [i \in Calls(c) |-> 0]]

\* No caller occupies the calling thread.
ThreadFree == \A c \in Caller : pc[c] \in {"idle", "waiting", "mutexWait"}

\* resumeCoroutine(pid, co, expireTime, err); why and n are for the properties.
Resume(r, err) ==
    waitResume' = Append(waitResume,
        [co |-> r.co, expire |-> r.expire, err |-> err, why |-> "rpc", n |-> r.n])

\* Mutex::unlock() of queueMutex_: the first sleeper is resumed.
UnlockQueue ==
    /\ lockOwner' = None
    /\ IF lockWaiters = <<>>
       THEN UNCHANGED <<lockWaiters, waitResume>>
       ELSE /\ lockWaiters' = Tail(lockWaiters)
            /\ waitResume' = Append(waitResume,
                 [co |-> Head(lockWaiters), expire |-> 0, err |-> FALSE,
                  why |-> "mutex", n |-> 0])

-----------------------------------------------------------------------------
(* InnerRpcChannel::CallMethod                                             *)

\* Mutation: addTimeoutTask is not called.
CallMethodMutant(c, care, t) ==
    LET r == [co |-> c, n |-> n[c] + 1, care |-> care,
              expire |-> IF t = 0 THEN 0 ELSE now + t]
    IN  /\ ThreadFree
        /\ pc[c] = "idle"
        /\ n[c] < MaxCalls[c] /\ r.expire <= MaxTime
        /\ pc' = [pc EXCEPT ![c] = "lock"]
        /\ n' = [n EXCEPT ![c] = @ + 1]
        /\ req' = [req EXCEPT ![c] = r]
        /\ outcome' = [outcome EXCEPT ![c] = "none"]
        /\ UNCHANGED <<now, env, lock, server>>

\* The task, its expire time and its node in the timeout list.
CallMethod(c, care, t) ==
    LET r == [co |-> c, n |-> n[c] + 1, care |-> care,
              expire |-> IF t = 0 THEN 0 ELSE now + t]
    IN  /\ ThreadFree
        /\ pc[c] = "idle"
        /\ n[c] < MaxCalls[c] /\ r.expire <= MaxTime
        /\ pc' = [pc EXCEPT ![c] = "lock"]
        /\ n' = [n EXCEPT ![c] = @ + 1]
        /\ req' = [req EXCEPT ![c] = r]
        /\ outcome' = [outcome EXCEPT ![c] = "none"]
        /\ timeoutList' = IF t = 0 THEN timeoutList ELSE [timeoutList EXCEPT ![c] = r]
        /\ UNCHANGED <<now, waitResume, active, lock, server>>

TwoWayCall(c) == \E t \in Timeout : CallMethod(c, TRUE, t)

OneWayCall(c) == OneWay /\ CallMethod(c, FALSE, 0)

\* queue_.push(req): lock, push_back, unlock, post.
PushLock(c) ==
    /\ pc[c] = "lock" /\ lockOwner = None
    /\ lockOwner' = c
    /\ pc' = [pc EXCEPT ![c] = "push"]
    /\ UNCHANGED <<now, n, req, outcome, env, lockWaiters, server>>

PushSleep(c) ==
    /\ pc[c] = "lock" /\ lockOwner # None
    /\ req[c].expire = 0 \/ SleepTimed
    /\ lockWaiters' = Append(lockWaiters, c)
    /\ pc' = [pc EXCEPT ![c] = "mutexWait"]
    /\ UNCHANGED <<now, n, req, outcome, env, lockOwner, server>>

PushBack(c) ==
    /\ pc[c] = "push"
    /\ queue' = Append(queue, req[c])
    /\ UnlockQueue
    /\ pc' = [pc EXCEPT ![c] = "post"]
    /\ UNCHANGED <<now, n, req, outcome, timeoutList, active, permits, wpc, job,
                   routines, answer, doneRuns>>

\* sem_.post(); a two-way call yields for its result, a one-way call returns.
PushPost(c) ==
    /\ pc[c] = "post"
    /\ permits' = permits + 1
    /\ pc' = [pc EXCEPT ![c] = IF req[c].care THEN "waiting" ELSE "idle"]
    /\ UNCHANGED <<now, n, req, outcome, env, lock, queue, wpc, job, routines,
                   answer, doneRuns>>

-----------------------------------------------------------------------------
(* RoutineEnvironment of the calling thread                                *)

\* The node of wr->co is the one this resume is for.
NodeMatches(w) ==
    timeoutList[w.co] # None /\ timeoutList[w.co].expire = w.expire

\* resumeRoutine, one element of the queue.
ResumeRoutine ==
    /\ ThreadFree /\ waitResume # <<>>
    /\ waitResume' = Tail(waitResume)
    /\ LET w == Head(waitResume)
       IN  \/ /\ w.expire = 0
              /\ active' = Append(active, [co |-> w.co, why |-> w.why, n |-> w.n])
              /\ UNCHANGED <<timeoutList, outcome>>
           \/ /\ w.expire # 0 /\ NodeMatches(w)
              /\ outcome' = [outcome EXCEPT ![w.co] =
                    IF w.err \/ answer[w.co][timeoutList[w.co].n] = "failed"
                    THEN "failed" ELSE "ok"]
              /\ timeoutList' = [timeoutList EXCEPT ![w.co] = None]
              /\ active' = Append(active, [co |-> w.co, why |-> "rpc", n |-> w.n])
           \/ /\ w.expire # 0 /\ ~NodeMatches(w)
              /\ UNCHANGED <<active, timeoutList, outcome>>
    /\ UNCHANGED <<now, pc, n, req, lock, server>>

\* The calls whose time is over.
ExpiredCalls == {c \in Caller : timeoutList[c] # None /\ timeoutList[c].expire <= now}

\* Earliest first; those with the same expire time, a ring of TimeoutList, in any order.
InOrder(cos) ==
    {s \in SetToSeqs(cos) :
        \A i, j \in DOMAIN s : i < j => timeoutList[s[i]].expire <= timeoutList[s[j]].expire}

\* Mutation: the expired node stays in the list.
TimeoutRoutineMutant ==
    /\ ThreadFree /\ ExpiredCalls # {}
    /\ outcome' = [c \in Caller |-> IF c \in ExpiredCalls THEN "timeout" ELSE outcome[c]]
    /\ \E s \in InOrder(ExpiredCalls) :
          active' = active \o [i \in DOMAIN s |->
                        [co |-> s[i], why |-> "timeout", n |-> timeoutList[s[i]].n]]
    /\ UNCHANGED <<now, pc, n, req, timeoutList, waitResume, lock, server>>

\* timeoutRoutine, one pass over the expired nodes.
TimeoutRoutine ==
    /\ ThreadFree /\ ExpiredCalls # {}
    /\ outcome' = [c \in Caller |-> IF c \in ExpiredCalls THEN "timeout" ELSE outcome[c]]
    /\ timeoutList' = [c \in Caller |-> IF c \in ExpiredCalls THEN None ELSE timeoutList[c]]
    /\ \E s \in InOrder(ExpiredCalls) :
          active' = active \o [i \in DOMAIN s |->
                        [co |-> s[i], why |-> "timeout", n |-> timeoutList[s[i]].n]]
    /\ UNCHANGED <<now, pc, n, req, waitResume, lock, server>>

\* The event loop resumes an activated coroutine where it yielded: in
\* CallMethod, which returns, or in Mutex::wait, which tries the lock again.
RunActive ==
    /\ ThreadFree /\ active # <<>>
    /\ active' = Tail(active)
    /\ LET c == Head(active).co
       IN  \/ pc[c] = "waiting"   /\ pc' = [pc EXCEPT ![c] = "idle"]
           \/ pc[c] = "mutexWait" /\ pc' = [pc EXCEPT ![c] = "lock"]
    /\ UNCHANGED <<now, n, req, outcome, timeoutList, waitResume, lock, server>>

-----------------------------------------------------------------------------
(* InnerRpcServer::requestQueueRoutine and requestRoutine                  *)

\* queue.pop(): wait for a permit, lock, pop_front, unlock.
PopWait(w) ==
    /\ wpc[w] = "wait" /\ permits > 0
    /\ permits' = permits - 1
    /\ wpc' = [wpc EXCEPT ![w] = "lock"]
    /\ UNCHANGED <<client, env, lock, queue, job, routines, answer, doneRuns>>

PopLock(w) ==
    /\ wpc[w] = "lock" /\ lockOwner = None
    /\ lockOwner' = w
    /\ wpc' = [wpc EXCEPT ![w] = "pop"]
    /\ UNCHANGED <<client, env, lockWaiters, queue, permits, job, routines,
                   answer, doneRuns>>

PopFront(w) ==
    /\ wpc[w] = "pop" /\ queue # <<>>
    /\ job' = [job EXCEPT ![w] = Head(queue)]
    /\ queue' = Tail(queue)
    /\ UnlockQueue
    /\ wpc' = [wpc EXCEPT ![w] = "check"]
    /\ UNCHANGED <<client, timeoutList, active, permits, routines, answer, doneRuns>>

\* The request expired before it was handled.
Expired(w) ==
    /\ wpc[w] = "check"
    /\ job[w].expire # 0 /\ now >= job[w].expire
    /\ Resume(job[w], TRUE)
    /\ wpc' = [wpc EXCEPT ![w] = "wait"]
    /\ job' = [job EXCEPT ![w] = None]
    /\ UNCHANGED <<client, timeoutList, active, lock, queue, permits, routines,
                   answer, doneRuns>>

Alive(w) == wpc[w] = "check" /\ ~(job[w].expire # 0 /\ now >= job[w].expire)

\* A need_coroutine method runs in a coroutine of its own.
StartRoutine(w) ==
    /\ Alive(w)
    /\ routines' = routines \cup {job[w]}
    /\ wpc' = [wpc EXCEPT ![w] = "wait"]
    /\ job' = [job EXCEPT ![w] = None]
    /\ UNCHANGED <<client, env, lock, queue, permits, answer, doneRuns>>

\* Other methods run in the worker.
StartMethod(w) ==
    /\ Alive(w)
    /\ wpc' = [wpc EXCEPT ![w] = "method"]
    /\ UNCHANGED <<client, env, lock, queue, permits, job, routines, answer, doneRuns>>

\* Mutation: the result of a timed call is written to the caller's own response.
FinishMutant(r, ok) ==
    LET a == IF ok THEN "ok" ELSE "failed"
    IN  IF r.care
        THEN /\ Resume(r, FALSE)
             /\ answer' = [answer EXCEPT ![r.co][r.n] = a]
             /\ outcome' = [outcome EXCEPT ![r.co] = a]
             /\ UNCHANGED doneRuns
        ELSE /\ doneRuns' = [doneRuns EXCEPT ![r.co][r.n] = @ + 1]
             /\ UNCHANGED <<waitResume, answer, outcome>>

\* The method has returned.  Without a timeout it wrote to the caller's own
\* controller and response, with one to the task's copies.
Finish(r, ok) ==
    LET a == IF ok THEN "ok" ELSE "failed"
    IN  IF r.care
        THEN /\ Resume(r, FALSE)
             /\ answer' = [answer EXCEPT ![r.co][r.n] = a]
             /\ outcome' = IF r.expire = 0 THEN [outcome EXCEPT ![r.co] = a] ELSE outcome
             /\ UNCHANGED doneRuns
        ELSE /\ doneRuns' = [doneRuns EXCEPT ![r.co][r.n] = @ + 1]
             /\ UNCHANGED <<waitResume, answer, outcome>>

FinishMethod(w) ==
    /\ wpc[w] = "method"
    /\ \E ok \in BOOLEAN : Finish(job[w], ok)
    /\ wpc' = [wpc EXCEPT ![w] = "wait"]
    /\ job' = [job EXCEPT ![w] = None]
    /\ UNCHANGED <<now, pc, n, req, timeoutList, active, lock, queue, permits, routines>>

FinishRoutine(r) ==
    /\ r \in routines
    /\ \E ok \in BOOLEAN : Finish(r, ok)
    /\ routines' = routines \ {r}
    /\ UNCHANGED <<now, pc, n, req, timeoutList, active, lock, queue, permits, wpc, job>>

-----------------------------------------------------------------------------

\* Time goes on (a wall clock that is set back is left out: see the README).
Tick ==
    /\ now < MaxTime /\ now' = now + 1
    /\ UNCHANGED <<pc, n, req, outcome, env, lock, server>>

Push(c) == PushLock(c) \/ PushSleep(c) \/ PushBack(c) \/ PushPost(c)

Next ==
    \/ \E c \in Caller : TwoWayCall(c) \/ OneWayCall(c) \/ Push(c)
    \/ ResumeRoutine \/ TimeoutRoutine \/ RunActive
    \/ \E w \in Worker : PopWait(w) \/ PopLock(w) \/ PopFront(w) \/ Expired(w)
                           \/ StartRoutine(w) \/ StartMethod(w) \/ FinishMethod(w)
    \/ \E r \in routines : FinishRoutine(r)
    \/ Tick

Spec == Init /\ [][Next]_vars

\* The calling thread and time go on, and a worker leaves the queue's critical
\* section.  A method need not return, and a worker need not take a request.
FairSpec ==
    /\ Spec
    /\ \A c \in Caller : WF_vars(Push(c))
    /\ WF_vars(ResumeRoutine) /\ WF_vars(TimeoutRoutine) /\ WF_vars(RunActive)
    /\ WF_vars(Tick)
    /\ \A w \in Worker : WF_vars(PopFront(w))

-----------------------------------------------------------------------------
(* What a call promises.                                                   *)

\* The types; in particular pop() never takes a permit that is not there.
TypeOK ==
    /\ now \in 0 .. MaxTime
    /\ pc \in [Caller -> {"idle", "lock", "mutexWait", "push", "post", "waiting"}]
    /\ \A c \in Caller : n[c] \in 0 .. MaxCalls[c]
    /\ req \in [Caller -> Request \cup {None}]
    /\ outcome \in [Caller -> {"none", "ok", "failed", "timeout"}]
    /\ timeoutList \in [Caller -> Request \cup {None}]
    /\ queue \in Seq(Request)
    /\ permits \in Nat
    /\ lockOwner \in Caller \cup Worker \cup {None}
    /\ wpc \in [Worker -> {"wait", "lock", "pop", "check", "method"}]
    /\ job \in [Worker -> Request \cup {None}]
    /\ routines \subseteq Request

\* queue_.front() is never called on an empty list: a permit is posted only
\* after its request was pushed.
PopFindsRequest == \A w \in Worker : wpc[w] = "pop" => queue # <<>>

\* A coroutine is activated once for each time it yields, and only while it
\* still sleeps there: a result, a timeout and a late result never add up.
ActivatedOnce ==
    /\ \A i, j \in DOMAIN active : active[i].co = active[j].co => i = j
    /\ \A i \in DOMAIN active : pc[active[i].co] \in {"waiting", "mutexWait"}

\* A call that returns success was answered by its own method run: the answer
\* of an earlier call of the same coroutine address is never taken for it.
OwnAnswer ==
    \A c \in Caller :
        pc[c] = "idle" /\ n[c] > 0 /\ outcome[c] = "ok" => answer[c][n[c]] = "ok"

\* What a call returned does not change afterwards, although the server may
\* still be working on it.
ResultStable ==
    [][\A c \in Caller : pc[c] = "idle" /\ pc'[c] = "idle" /\ req[c] # None
          => outcome'[c] = outcome[c]]_vars

\* done of a one-way call, which frees its request, runs at most once, and not
\* while the server still has the request.
DoneOnce ==
    \A c \in Caller : \A i \in Calls(c) :
        /\ doneRuns[c][i] <= 1
        /\ doneRuns[c][i] = 1 =>
             \A r \in (routines \cup ToSet(queue) \cup {job[w] : w \in Worker}) \ {None} :
                ~(r.co = c /\ r.n = i)

\* Whatever the order of results, timeouts and late results: nobody is activated
\* twice, gets the answer of another call or has its request freed twice.
CallsSound == TypeOK /\ PopFindsRequest /\ ActivatedOnce /\ OwnAnswer /\ DoneOnce

\* A call gets its request into the queue, also when it had to sleep on the
\* queue's mutex; then, with a timeout, it returns whatever the server does, and
\* without one it returns once the method has.
CallReturns ==
    \A c \in Caller :
        /\ pc[c] \in {"lock", "mutexWait"} ~> pc[c] \in {"waiting", "idle"}
        /\ pc[c] = "waiting" /\ (req[c].expire # 0 \/ answer[c][n[c]] # "none")
             ~> pc[c] = "idle"

\* "等待锁让出给当前协程时唤醒" (corpc_mutex.cpp:239): a coroutine that sleeps on
\* the queue's mutex is woken when the lock is given up to it, by nothing else.
WokenByUnlock ==
    \A i \in DOMAIN active : pc[active[i].co] = "mutexWait" => active[i].why = "mutex"
=============================================================================
