-------------------------- MODULE MessagingProofs --------------------------
(***************************************************************************)
(* Proofs about the two kinds of messages: the calls of InnerRpc between   *)
(* the threads of a process, and the messages of Message between two       *)
(* processes over connections that break.                                  *)
(*                                                                         *)
(* First InnerRpc, for any finite sets of callers and workers, any number  *)
(* of calls and any timeouts, when no call with a timeout sleeps on the    *)
(* mutex of the queue (SleepTimed = FALSE).  RpcInv follows a call from    *)
(* the queue to a worker or a coroutine of the server, and from there      *)
(* through the queue of wakeups to the one activation of its caller: it is *)
(* in one place at a time (PlaceInv, BackInv, OnceInv), and what is left   *)
(* of a call that was given up cannot pass for a later one (TimedOK).      *)
(***************************************************************************)
EXTENDS InnerRpc, Message, SeqLemmas

\* The elements of waitResume and of active.
Wakeup == [co : Caller, expire : Nat, err : BOOLEAN, why : {"rpc", "mutex"}, n : Nat]
Activation == [co : Caller, why : {"rpc", "mutex", "timeout"}, n : Nat]

\* Types of what TypeOK leaves out.
MoreTypes ==
    /\ n \in [Caller -> Nat]
    /\ waitResume \in Seq(Wakeup) /\ active \in Seq(Activation) /\ lockWaiters \in Seq(Caller)
    /\ DOMAIN answer = Caller /\ DOMAIN doneRuns = Caller
    /\ \A c \in Caller : /\ answer[c] \in [Calls(c) -> {"none", "ok", "failed"}]
                         /\ doneRuns[c] \in [Calls(c) -> 0 .. 1]

\* A call that is not yet in the queue.
Before == {"lock", "mutexWait", "push"}

\* What a caller knows of its current call.
CallInv ==
    \A c \in Caller :
        /\ n[c] = 0 => pc[c] = "idle" /\ req[c] = None
        /\ n[c] > 0 => req[c] \in Request /\ req[c].co = c /\ req[c].n = n[c]
        /\ n[c] > 0 /\ req[c].expire # 0 => req[c].care
        /\ pc[c] = "waiting" => req[c].care
        /\ pc[c] = "mutexWait" => req[c].expire = 0
        /\ pc[c] \in {"lock", "push"} /\ req[c].expire # 0 => timeoutList[c] # None
        /\ timeoutList[c] # None =>
              timeoutList[c] = req[c] /\ req[c].expire # 0 /\ pc[c] \in {"lock", "push", "post", "waiting"}
        /\ \A i \in Calls(c) : i > n[c] \/ (i = n[c] /\ pc[c] \in Before)
              => answer[c][i] = "none" /\ doneRuns[c][i] = 0
        /\ outcome[c] = "ok" => n[c] > 0 /\ answer[c][n[c]] = "ok"

\* The workers that have taken a permit and not yet their request.
Popping == {w \in Worker : wpc[w] \in {"lock", "pop"}}

\* One caller runs on the thread; the owner of the mutex is in its critical section;
\* permits, taken or not, and the one still to be posted are for requests in the queue.
LockInv ==
    /\ \A c, d \in Caller : {pc[c], pc[d]} \subseteq {"lock", "push", "post"} => c = d
    /\ \A c \in Caller : pc[c] = "push" <=> lockOwner = c
    /\ \A w \in Worker : wpc[w] = "pop" <=> lockOwner = w
    /\ \A w \in Worker : wpc[w] \in {"check", "method"} <=> job[w] # None
    /\ permits + Cardinality(Popping) + (IF \E c \in Caller : pc[c] = "post" THEN 1 ELSE 0) = Len(queue)

\* A call with a timeout, at the server or on its way back: it is the one its caller
\* waits for, or its time is over and the caller waits for a later one.
TimedOK(c, i, e) ==
    IF i = n[c] /\ timeoutList[c] # None THEN e = timeoutList[c].expire
    ELSE e <= now /\ (timeoutList[c] # None => e < timeoutList[c].expire)

\* A request at the server.
RequestOK(r) ==
    /\ r.n \in 1 .. n[r.co]
    /\ r.n = n[r.co] => r = req[r.co] /\ pc[r.co] \notin Before
    /\ answer[r.co][r.n] = "none" /\ doneRuns[r.co][r.n] = 0
    /\ r.care /\ r.expire = 0 => r.n = n[r.co] /\ pc[r.co] # "idle"
    /\ r.expire # 0 => r.care /\ TimedOK(r.co, r.n, r.expire)

\* Every request at the server is one.
RequestInv ==
    /\ \A i \in DOMAIN queue : RequestOK(queue[i])
    /\ \A w \in Worker : job[w] # None => RequestOK(job[w])
    /\ \A r \in routines : RequestOK(r)

\* A wakeup on its way.
WakeupOK(w) ==
    /\ w.why = "mutex" => w.expire = 0 /\ pc[w.co] = "mutexWait"
    /\ w.why = "rpc" => /\ w.n \in 1 .. n[w.co]
                        /\ w.n = n[w.co] => pc[w.co] \notin Before
                        /\ w.expire = 0 => w.n = n[w.co] /\ req[w.co].expire = 0 /\ req[w.co].care /\ pc[w.co] \in {"post", "waiting"}
                        /\ w.expire # 0 => /\ TimedOK(w.co, w.n, w.expire)
                                           /\ w.err \/ answer[w.co][w.n] # "none"

\* Of the same call.
Same(r, s) == r.co = s.co /\ r.n = s.n

\* A call is at one place of the server.
PlaceInv ==
    /\ \A i, j \in DOMAIN queue : Same(queue[i], queue[j]) => i = j
    /\ \A v, w \in Worker : job[v] # None /\ job[w] # None /\ Same(job[v], job[w]) => v = w
    /\ \A r, s \in routines : Same(r, s) => r = s
    /\ \A i \in DOMAIN queue, w \in Worker : job[w] # None => ~Same(queue[i], job[w])
    /\ \A i \in DOMAIN queue, r \in routines : ~Same(queue[i], r)
    /\ \A w \in Worker, r \in routines : job[w] # None => ~Same(job[w], r)

\* The wakeup is the result of the call.
Result(w, r) == w.why = "rpc" /\ Same(w, r)

\* A call is at the server, on its way back once, or back.
BackInv ==
    /\ \A i \in DOMAIN waitResume : WakeupOK(waitResume[i])
    /\ \A i, j \in DOMAIN waitResume : waitResume[i].why = "rpc" /\ Result(waitResume[j], waitResume[i]) => i = j
    /\ \A k \in DOMAIN waitResume :
          /\ \A i \in DOMAIN queue : ~Result(waitResume[k], queue[i])
          /\ \A w \in Worker : job[w] # None => ~Result(waitResume[k], job[w])
          /\ \A r \in routines : ~Result(waitResume[k], r)

\* An activation that no other will follow.
ActiveOK(a) ==
    /\ a.why = "mutex" => pc[a.co] = "mutexWait"
    /\ a.why # "mutex" => pc[a.co] = "waiting" /\ timeoutList[a.co] = None
    /\ req[a.co].expire = 0 /\ a.why # "mutex" =>
          /\ \A i \in DOMAIN queue : queue[i].co = a.co => queue[i].n # n[a.co]
          /\ \A w \in Worker : job[w] # None /\ job[w].co = a.co => job[w].n # n[a.co]
          /\ \A r \in routines : r.co = a.co => r.n # n[a.co]

\* Every activation is one.
ActiveInv == \A i \in DOMAIN active : ActiveOK(active[i])

\* A coroutine waits in one place: on the mutex, with a wakeup that nothing stops, or activated.
OnceInv ==
    /\ \A i, j \in DOMAIN active : active[i].co = active[j].co => i = j
    /\ \A i \in DOMAIN active, k \in DOMAIN waitResume :
          waitResume[k].expire = 0 => waitResume[k].co # active[i].co
    /\ \A i, j \in DOMAIN waitResume :
          waitResume[i].expire = 0 /\ waitResume[j].expire = 0 /\ waitResume[i].co = waitResume[j].co => i = j
    /\ \A i \in DOMAIN lockWaiters :
          /\ pc[lockWaiters[i]] = "mutexWait"
          /\ \A j \in DOMAIN lockWaiters : lockWaiters[i] = lockWaiters[j] => i = j
          /\ \A k \in DOMAIN active : active[k].co # lockWaiters[i]
          /\ \A k \in DOMAIN waitResume : waitResume[k].expire = 0 => waitResume[k].co # lockWaiters[i]

\* The inductive invariant.
RpcInv == TypeOK /\ MoreTypes /\ CallInv /\ LockInv /\ RequestInv /\ PlaceInv /\ BackInv /\ ActiveInv /\ OnceInv

-----------------------------------------------------------------------------

\* RpcInv holds at the start: nobody calls and every queue is empty.
LEMMA RpcInitInv == Init => RpcInv
<1> SUFFICES ASSUME Init PROVE RpcInv
  OBVIOUS
<1> USE ConstantsAssumption DEF Init
<1>1. TypeOK
  BY DEF TypeOK
<1>2. MoreTypes
  BY DEF MoreTypes, Calls
<1>3. CallInv
  BY DEF CallInv, Calls
<1>4. LockInv
  <2>1. Popping = {}
    BY DEF Popping
  <2> QED  BY <2>1, FS_EmptySet DEF LockInv
<1>5. RequestInv /\ PlaceInv /\ BackInv /\ ActiveInv /\ OnceInv
  BY DEF RequestInv, PlaceInv, BackInv, ActiveInv, OnceInv
<1> QED  BY <1>1, <1>2, <1>3, <1>4, <1>5 DEF RpcInv

\* Time going on only makes late what is late already.
LEMMA TickInv == ASSUME RpcInv, Tick PROVE RpcInv'
<1> USE ConstantsAssumption DEF RpcInv, Tick, env, lock, server
<1>0. now \in Nat /\ now' \in Nat /\ now <= now'
  BY DEF TypeOK
<1>t. \A c, i, e : e \in Nat /\ TimedOK(c, i, e) => TimedOK(c, i, e)'
  BY <1>0 DEF TimedOK
<1>1. TypeOK' /\ MoreTypes'
  BY DEF TypeOK, MoreTypes
<1>3. CallInv'
  BY DEF CallInv
<1>4. LockInv'
  BY DEF LockInv, Popping
<1>r. \A r \in Request : RequestOK(r) => RequestOK(r)'
  BY <1>t DEF RequestOK, Request
<1>5. RequestInv'
  BY <1>r DEF RequestInv, TypeOK
<1>6. PlaceInv' /\ ActiveInv' /\ OnceInv'
  BY DEF PlaceInv, ActiveInv, OnceInv, ActiveOK
<1>w. \A w \in Wakeup : WakeupOK(w) => WakeupOK(w)'
  BY <1>t DEF WakeupOK, Wakeup
<1>7. BackInv'
  BY <1>w DEF BackInv, MoreTypes
<1> QED  BY <1>1, <1>3, <1>4, <1>5, <1>6, <1>7
\* A call begins: the coroutine has no node in the timeout list, and what is left
\* of its earlier calls is either not awaited or older than the new expire time.
LEMMA CallMethodInv ==
  ASSUME RpcInv, NEW c \in Caller, NEW care \in BOOLEAN, NEW t \in Nat,
         t # 0 => care, CallMethod(c, care, t)
  PROVE  RpcInv'
<1> DEFINE r == [co |-> c, n |-> n[c] + 1, care |-> care, expire |-> IF t = 0 THEN 0 ELSE now + t]
<1>1. /\ now \in Nat /\ t \in Nat /\ n[c] \in Nat /\ MaxCalls[c] \in Nat
      /\ now' = now /\ pc[c] = "idle" /\ n[c] < MaxCalls[c]
      /\ pc \in [Caller -> {"idle", "lock", "mutexWait", "push", "post", "waiting"}]
      /\ n \in [Caller -> Nat] /\ outcome \in [Caller -> {"none", "ok", "failed", "timeout"}]
      /\ req \in [Caller -> Request \cup {None}] /\ timeoutList \in [Caller -> Request \cup {None}]
  <2>1. MaxCalls[c] \in Nat
    BY ConstantsAssumption
  <2>2. now \in Nat /\ n[c] \in Nat
    BY ConstantsAssumption DEF RpcInv, TypeOK, MoreTypes
  <2>3. now' = now /\ pc[c] = "idle" /\ n[c] < MaxCalls[c]
    BY DEF CallMethod
  <2> QED  BY <2>1, <2>2, <2>3 DEF RpcInv, TypeOK, MoreTypes
<1>2. r \in Request /\ r.co = c /\ r.n = n[c] + 1 /\ r.care = care
      /\ (t = 0 => r.expire = 0) /\ (t # 0 => r.expire = now + t) /\ r # None
  BY <1>1, ConstantsAssumption DEF Request
<1>3. /\ pc' = [pc EXCEPT ![c] = "lock"] /\ n' = [n EXCEPT ![c] = @ + 1]
      /\ req' = [req EXCEPT ![c] = r] /\ outcome' = [outcome EXCEPT ![c] = "none"]
      /\ timeoutList' = IF t = 0 THEN timeoutList ELSE [timeoutList EXCEPT ![c] = r]
  BY DEF CallMethod
<1> HIDE DEF r
<1>4. /\ pc'[c] = "lock" /\ n'[c] = n[c] + 1 /\ req'[c] = r /\ outcome'[c] = "none"
      /\ timeoutList[c] = None /\ timeoutList'[c] = IF t = 0 THEN None ELSE r
      /\ \A d \in Caller \ {c} : /\ pc'[d] = pc[d] /\ n'[d] = n[d] /\ req'[d] = req[d]
                                 /\ outcome'[d] = outcome[d] /\ timeoutList'[d] = timeoutList[d]
                                 /\ pc[d] \in {"idle", "waiting", "mutexWait"}
  BY <1>1, <1>3 DEF CallMethod, ThreadFree, RpcInv, CallInv
<1>5. /\ UNCHANGED <<waitResume, active, queue, permits, lockOwner, lockWaiters, wpc, job,
                      routines, answer, doneRuns>>
  BY DEF CallMethod, lock, server
<1>6. TypeOK'
  <2>1. \A d \in Caller : n'[d] \in 0 .. MaxCalls[d]
    <3>1. n'[c] \in 0 .. MaxCalls[c]
      BY <1>1, <1>4
    <3>2. \A d \in Caller : n[d] \in 0 .. MaxCalls[d]
      BY DEF RpcInv, TypeOK
    <3> QED  BY <1>4, <3>1, <3>2
  <2> QED  BY <1>1, <1>2, <1>3, <1>5, <2>1 DEF RpcInv, TypeOK
<1>7. MoreTypes'
  BY <1>1, <1>3, <1>5 DEF RpcInv, MoreTypes
<1>8. CallInv'
  BY <1>1, <1>2, <1>4, <1>5 DEF RpcInv, CallInv, Before, Calls
<1>9. LockInv'
  <2>1. Popping' = Popping
    BY <1>5 DEF Popping
  <2>2. (\E d \in Caller : pc'[d] = "post") <=> (\E d \in Caller : pc[d] = "post")
    BY <1>1, <1>4
  <2> QED  BY <1>1, <1>4, <1>5, <2>1, <2>2 DEF RpcInv, LockInv
<1>10. \A d \in Caller, i, e \in Nat : i <= n[d] /\ TimedOK(d, i, e) => TimedOK(d, i, e)'
  BY <1>1, <1>2, <1>4 DEF TimedOK
<1>11. \A q \in Request : RequestOK(q) => RequestOK(q)'
  BY <1>1, <1>4, <1>5, <1>10 DEF RequestOK, Request, Before
<1>12. RequestInv'
  BY <1>5, <1>11 DEF RpcInv, TypeOK, RequestInv
<1>13. \A w \in Wakeup : WakeupOK(w) => WakeupOK(w)'
  BY <1>1, <1>4, <1>5, <1>10 DEF WakeupOK, Wakeup, Before
<1>14. PlaceInv' /\ BackInv'
  BY <1>5, <1>13 DEF RpcInv, MoreTypes, PlaceInv, BackInv
<1>15. \A a \in Activation : ActiveOK(a) => ActiveOK(a)'
  BY <1>1, <1>4, <1>5 DEF ActiveOK, Activation
<1>16. ActiveInv' /\ OnceInv'
  BY <1>1, <1>4, <1>5, <1>15 DEF RpcInv, MoreTypes, ActiveInv, OnceInv
<1> QED  BY <1>6, <1>7, <1>8, <1>9, <1>12, <1>14, <1>16 DEF RpcInv
-----------------------------------------------------------------------------

\* The elements of a sequence to which one was appended.
LEMMA AppendedAt ==
  ASSUME NEW S, NEW q \in Seq(S), NEW e \in S, NEW p, p = Append(q, e)
  PROVE  /\ p \in Seq(S) /\ Len(p) = Len(q) + 1
         /\ \A i \in DOMAIN p : \/ i \in DOMAIN q /\ p[i] = q[i] /\ i # Len(q) + 1
                                \/ i = Len(q) + 1 /\ p[i] = e
  OBVIOUS

\* The elements of a sequence without its first.
LEMMA TailAt ==
  ASSUME NEW S, NEW q \in Seq(S), q # <<>>, NEW p, p = Tail(q)
  PROVE  /\ p \in Seq(S) /\ Len(p) = Len(q) - 1 /\ Head(q) = q[1] /\ 1 \in DOMAIN q /\ Head(q) \in S
         /\ \A i \in DOMAIN p : i \in Nat /\ i + 1 \in DOMAIN q /\ i + 1 # 1 /\ p[i] = q[i + 1]
  OBVIOUS

\* The types that every step needs.
LEMMA Types ==
  ASSUME RpcInv
  PROVE  /\ now \in Nat
         /\ pc \in [Caller -> {"idle", "lock", "mutexWait", "push", "post", "waiting"}]
         /\ n \in [Caller -> Nat] /\ outcome \in [Caller -> {"none", "ok", "failed", "timeout"}]
         /\ req \in [Caller -> Request \cup {None}] /\ timeoutList \in [Caller -> Request \cup {None}]
         /\ queue \in Seq(Request) /\ permits \in Nat
         /\ wpc \in [Worker -> {"wait", "lock", "pop", "check", "method"}]
         /\ job \in [Worker -> Request \cup {None}] /\ routines \subseteq Request
         /\ waitResume \in Seq(Wakeup) /\ active \in Seq(Activation) /\ lockWaiters \in Seq(Caller)
  BY ConstantsAssumption DEF RpcInv, TypeOK, MoreTypes

\* push() gets the mutex of the queue.
LEMMA PushLockInv == ASSUME RpcInv, NEW c \in Caller, PushLock(c) PROVE RpcInv'
<1>1. /\ pc[c] = "lock" /\ lockOwner = None /\ lockOwner' = c /\ c \notin Worker /\ c # None
      /\ pc' = [pc EXCEPT ![c] = "push"]
      /\ pc'[c] = "push" /\ \A d \in Caller \ {c} : pc'[d] = pc[d]
  BY Types, ConstantsAssumption DEF PushLock
<1>2. UNCHANGED <<now, n, req, outcome, timeoutList, waitResume, active, lockWaiters, queue, permits,
                  wpc, job, routines, answer, doneRuns>>
  BY DEF PushLock, env, server
<1>3. TypeOK' /\ MoreTypes'
  BY <1>1, <1>2 DEF RpcInv, TypeOK, MoreTypes
<1>4. CallInv'
  BY <1>1, <1>2 DEF RpcInv, CallInv, Before
<1>5. LockInv'
  <2>1. Popping' = Popping
    BY <1>2 DEF Popping
  <2>2. (\E d \in Caller : pc'[d] = "post") <=> (\E d \in Caller : pc[d] = "post")
    BY <1>1
  <2> QED  BY <1>1, <1>2, <2>1, <2>2, ConstantsAssumption DEF RpcInv, LockInv
<1>6. \A d, i, e : TimedOK(d, i, e)' <=> TimedOK(d, i, e)
  BY <1>2 DEF TimedOK
<1>7. \A r \in Request : RequestOK(r) => RequestOK(r)'
  BY <1>1, <1>2, <1>6 DEF RequestOK, Request, Before
<1>8. \A w \in Wakeup : WakeupOK(w) => WakeupOK(w)'
  BY <1>1, <1>2, <1>6 DEF WakeupOK, Wakeup, Before
<1>9. \A a \in Activation : ActiveOK(a) => ActiveOK(a)'
  BY <1>1, <1>2 DEF ActiveOK, Activation
<1>10. RequestInv' /\ PlaceInv' /\ BackInv'
  BY <1>2, <1>7, <1>8, Types DEF RpcInv, RequestInv, PlaceInv, BackInv
<1>11. ActiveInv' /\ OnceInv'
  BY <1>1, <1>2, <1>9, Types DEF RpcInv, ActiveInv, OnceInv
<1> QED  BY <1>3, <1>4, <1>5, <1>10, <1>11 DEF RpcInv

\* Only a call without a timeout sleeps on the queue's mutex.
LEMMA PushSleepInv ==
  ASSUME SleepTimed = FALSE, RpcInv, NEW c \in Caller, PushSleep(c)
  PROVE  RpcInv'
<1>1. /\ pc[c] = "lock" /\ req[c].expire = 0 /\ lockWaiters' = Append(lockWaiters, c)
      /\ pc' = [pc EXCEPT ![c] = "mutexWait"]
      /\ pc'[c] = "mutexWait" /\ \A d \in Caller \ {c} : pc'[d] = pc[d]
  BY Types DEF PushSleep
<1>2. UNCHANGED <<now, n, req, outcome, timeoutList, waitResume, active, lockOwner, queue, permits,
                  wpc, job, routines, answer, doneRuns>>
  BY DEF PushSleep, env, server
<1>a. /\ lockWaiters' \in Seq(Caller)
      /\ \A i \in DOMAIN lockWaiters' :
            \/ i \in DOMAIN lockWaiters /\ lockWaiters'[i] = lockWaiters[i] /\ i # Len(lockWaiters) + 1
            \/ i = Len(lockWaiters) + 1 /\ lockWaiters'[i] = c
  BY <1>1, Types, AppendedAt
<1>3. TypeOK' /\ MoreTypes'
  BY <1>1, <1>2, <1>a DEF RpcInv, TypeOK, MoreTypes
<1>4. CallInv'
  BY <1>1, <1>2 DEF RpcInv, CallInv, Before
<1>5. LockInv'
  <2>1. Popping' = Popping
    BY <1>2 DEF Popping
  <2>2. (\E d \in Caller : pc'[d] = "post") <=> (\E d \in Caller : pc[d] = "post")
    BY <1>1
  <2> QED  BY <1>1, <1>2, <2>1, <2>2 DEF RpcInv, LockInv
<1>6. \A d, i, e : TimedOK(d, i, e)' <=> TimedOK(d, i, e)
  BY <1>2 DEF TimedOK
<1>7. \A r \in Request : RequestOK(r) => RequestOK(r)'
  BY <1>1, <1>2, <1>6 DEF RequestOK, Request, Before
<1>8. \A w \in Wakeup : WakeupOK(w) => WakeupOK(w)'
  BY <1>1, <1>2, <1>6 DEF WakeupOK, Wakeup, Before
<1>9. \A a \in Activation : ActiveOK(a) => ActiveOK(a)' /\ a.co # c
  BY <1>1, <1>2 DEF ActiveOK, Activation
<1>10. RequestInv' /\ PlaceInv' /\ BackInv'
  BY <1>2, <1>7, <1>8, Types DEF RpcInv, RequestInv, PlaceInv, BackInv
<1>11. \A w \in Wakeup : WakeupOK(w) /\ w.expire = 0 => w.co # c
  BY <1>1 DEF WakeupOK, Wakeup
<1>12. ActiveInv' /\ OnceInv'
  <2>1. \A i \in DOMAIN active : active[i].co # c
    BY <1>9, Types DEF RpcInv, ActiveInv, OnceInv
  <2>2. \A i \in DOMAIN waitResume : waitResume[i].expire = 0 => waitResume[i].co # c
    BY <1>11, Types DEF RpcInv, BackInv
  <2>3. \A i \in DOMAIN lockWaiters : lockWaiters[i] # c /\ lockWaiters[i] \in Caller
    BY <1>1, Types DEF RpcInv, ActiveInv, OnceInv
  <2>4. \A i \in DOMAIN active : ActiveOK(active[i])'
    BY <1>2, <1>9, Types DEF RpcInv, ActiveInv, OnceInv
  <2> QED  BY <1>1, <1>2, <1>a, <2>1, <2>2, <2>3, <2>4 DEF RpcInv, ActiveInv, OnceInv
<1> QED  BY <1>3, <1>4, <1>5, <1>10, <1>12 DEF RpcInv
\* What unlock changes: it may take the first sleeper from the mutex and queue its wakeup.
LEMMA UnlockAt ==
  ASSUME RpcInv, UnlockQueue
  PROVE  /\ lockOwner' = None /\ lockWaiters' \in Seq(Caller) /\ waitResume' \in Seq(Wakeup)
         /\ \/ lockWaiters' = lockWaiters /\ waitResume' = waitResume
            \/ /\ \A i \in DOMAIN lockWaiters' : /\ i \in Nat /\ i + 1 \in DOMAIN lockWaiters /\ i + 1 # 1
                                                 /\ lockWaiters'[i] = lockWaiters[i + 1]
               /\ 1 \in DOMAIN lockWaiters
               /\ \A i \in DOMAIN waitResume' :
                     \/ i \in DOMAIN waitResume /\ waitResume'[i] = waitResume[i] /\ i # Len(waitResume) + 1
                     \/ /\ i = Len(waitResume) + 1
                        /\ waitResume'[i].why = "mutex" /\ waitResume'[i].expire = 0
                        /\ waitResume'[i].co = lockWaiters[1]
<1>1. CASE lockWaiters = <<>>
  BY <1>1, Types DEF UnlockQueue
<1>2. CASE lockWaiters # <<>>
  <2> DEFINE e == [co |-> lockWaiters[1], expire |-> 0, err |-> FALSE, why |-> "mutex", n |-> 0]
  <2>1. lockOwner' = None /\ lockWaiters' = Tail(lockWaiters) /\ Head(lockWaiters) = lockWaiters[1]
        /\ waitResume' = Append(waitResume, e)
    BY <1>2, Types DEF UnlockQueue
  <2>2. /\ lockWaiters' \in Seq(Caller) /\ 1 \in DOMAIN lockWaiters /\ lockWaiters[1] \in Caller
        /\ \A i \in DOMAIN lockWaiters' : /\ i \in Nat /\ i + 1 \in DOMAIN lockWaiters /\ i + 1 # 1
                                          /\ lockWaiters'[i] = lockWaiters[i + 1]
    BY <1>2, <2>1, Types, TailAt
  <2>3. e \in Wakeup /\ e.why = "mutex" /\ e.expire = 0 /\ e.co = lockWaiters[1]
    BY <2>2 DEF Wakeup
  <2> HIDE DEF e
  <2>4. /\ waitResume' \in Seq(Wakeup)
        /\ \A i \in DOMAIN waitResume' :
               \/ i \in DOMAIN waitResume /\ waitResume'[i] = waitResume[i] /\ i # Len(waitResume) + 1
               \/ i = Len(waitResume) + 1 /\ waitResume'[i] = e
    BY <2>1, <2>3, Types, AppendedAt
  <2> QED  BY <2>1, <2>2, <2>3, <2>4
<1> QED  BY <1>1, <1>2

\* Unlock keeps a sleeper in one place and queues a wakeup only for a sleeper.
LEMMA UnlockInv ==
  ASSUME RpcInv, UnlockQueue, active' = active,
         \A d \in Caller : pc[d] = "mutexWait" => pc'[d] = "mutexWait"
  PROVE  /\ OnceInv'
         /\ \A i \in DOMAIN waitResume' :
               \/ i \in DOMAIN waitResume /\ waitResume'[i] = waitResume[i] /\ i # Len(waitResume) + 1
               \/ i = Len(waitResume) + 1 /\ waitResume'[i].why = "mutex" /\ WakeupOK(waitResume[i])'
<1>1. \A i \in DOMAIN lockWaiters : lockWaiters[i] \in Caller /\ pc'[lockWaiters[i]] = "mutexWait"
  BY Types DEF RpcInv, OnceInv
<1>2. CASE lockWaiters' = lockWaiters /\ waitResume' = waitResume
  <2>1. OnceInv'
    BY <1>1, <1>2 DEF RpcInv, OnceInv
  <2>2. \A i \in DOMAIN waitResume : i # Len(waitResume) + 1
    BY Types
  <2> QED  BY <1>2, <2>1, <2>2
<1>3. CASE ~(lockWaiters' = lockWaiters /\ waitResume' = waitResume)
  <2>1. /\ \A i \in DOMAIN lockWaiters' : /\ i \in Nat /\ i + 1 \in DOMAIN lockWaiters /\ i + 1 # 1
                                          /\ lockWaiters'[i] = lockWaiters[i + 1]
        /\ 1 \in DOMAIN lockWaiters
        /\ \A i \in DOMAIN waitResume' :
               \/ i \in DOMAIN waitResume /\ waitResume'[i] = waitResume[i] /\ i # Len(waitResume) + 1
               \/ /\ i = Len(waitResume) + 1
                  /\ waitResume'[i].why = "mutex" /\ waitResume'[i].expire = 0
                  /\ waitResume'[i].co = lockWaiters[1]
    BY <1>3, UnlockAt
  <2>2. \A i \in DOMAIN waitResume' : i = Len(waitResume) + 1 => WakeupOK(waitResume[i])'
    BY <1>1, <2>1 DEF WakeupOK
  <2>3. OnceInv'
    <3>1. /\ \A i, j \in DOMAIN active' : active'[i].co = active'[j].co => i = j
          /\ \A i \in DOMAIN active', k \in DOMAIN waitResume' :
                waitResume'[k].expire = 0 => waitResume'[k].co # active'[i].co
      BY <2>1 DEF RpcInv, OnceInv
    <3>2. \A i, j \in DOMAIN waitResume' :
             waitResume'[i].expire = 0 /\ waitResume'[j].expire = 0 /\ waitResume'[i].co = waitResume'[j].co => i = j
      BY <2>1 DEF RpcInv, OnceInv
    <3>3. \A i \in DOMAIN lockWaiters' :
            /\ pc'[lockWaiters'[i]] = "mutexWait"
            /\ \A j \in DOMAIN lockWaiters' : lockWaiters'[i] = lockWaiters'[j] => i = j
            /\ \A k \in DOMAIN active' : active'[k].co # lockWaiters'[i]
      <4> TAKE i \in DOMAIN lockWaiters'
      <4>1. i \in Nat /\ i + 1 \in DOMAIN lockWaiters /\ lockWaiters'[i] = lockWaiters[i + 1]
        BY <2>1
      <4>2. ASSUME NEW j \in DOMAIN lockWaiters', lockWaiters'[i] = lockWaiters'[j] PROVE i = j
        <5>1. j \in Nat /\ j + 1 \in DOMAIN lockWaiters /\ lockWaiters'[j] = lockWaiters[j + 1]
          BY <2>1
        <5>2. i + 1 = j + 1
          BY <4>1, <4>2, <5>1 DEF RpcInv, OnceInv
        <5> QED  BY <4>1, <5>1, <5>2
      <4> QED  BY <1>1, <4>1, <4>2 DEF RpcInv, OnceInv
    <3>4. \A i \in DOMAIN lockWaiters', k \in DOMAIN waitResume' :
             waitResume'[k].expire = 0 => waitResume'[k].co # lockWaiters'[i]
      BY <2>1 DEF RpcInv, OnceInv
    <3> QED  BY <3>1, <3>2, <3>3, <3>4 DEF OnceInv
  <2> QED  BY <2>1, <2>2, <2>3
<1> QED  BY <1>2, <1>3
\* The request enters the queue: nothing else of this call is under way, and it has
\* its node in the timeout list when it has a timeout.
LEMMA PushBackInv == ASSUME RpcInv, NEW c \in Caller, PushBack(c) PROVE RpcInv'
<1>1. /\ pc[c] = "push" /\ queue' = Append(queue, req[c]) /\ UnlockQueue
      /\ pc' = [pc EXCEPT ![c] = "post"]
      /\ pc'[c] = "post" /\ \A d \in Caller \ {c} : pc'[d] = pc[d]
  BY Types DEF PushBack
<1>2. UNCHANGED <<now, n, req, outcome, timeoutList, active, permits, wpc, job, routines, answer, doneRuns>>
  BY DEF PushBack
<1>3. /\ lockOwner' = None /\ lockWaiters' \in Seq(Caller) /\ waitResume' \in Seq(Wakeup)
  BY <1>1, UnlockAt
<1>4. /\ OnceInv'
      /\ \A i \in DOMAIN waitResume' :
            \/ i \in DOMAIN waitResume /\ waitResume'[i] = waitResume[i] /\ i # Len(waitResume) + 1
            \/ i = Len(waitResume) + 1 /\ waitResume'[i].why = "mutex" /\ WakeupOK(waitResume[i])'
  BY <1>1, <1>2, UnlockInv
<1>5. /\ req[c] \in Request /\ req[c].co = c /\ req[c].n = n[c] /\ n[c] \in 1 .. MaxCalls[c]
      /\ answer[c][n[c]] = "none" /\ doneRuns[c][n[c]] = 0
  <2>1. n[c] \in Nat /\ n[c] # 0 /\ n[c] \in 0 .. MaxCalls[c] /\ MaxCalls[c] \in Nat
    <3>1. n[c] \in Nat /\ MaxCalls[c] \in Nat
      BY Types, ConstantsAssumption
    <3>2. n[c] # 0
      BY <1>1 DEF RpcInv, CallInv
    <3>3. n[c] \in 0 .. MaxCalls[c]
      BY DEF RpcInv, TypeOK
    <3> QED  BY <3>1, <3>2, <3>3
  <2>2. n[c] \in Calls(c)
    BY <2>1 DEF Calls
  <2> QED  BY <1>1, <2>1, <2>2 DEF RpcInv, CallInv, Before, Calls
<1>6. /\ queue' \in Seq(Request) /\ Len(queue') = Len(queue) + 1
      /\ \A i \in DOMAIN queue' : \/ i \in DOMAIN queue /\ queue'[i] = queue[i] /\ i # Len(queue) + 1
                                  \/ i = Len(queue) + 1 /\ queue'[i] = req[c]
  <2>1. queue \in Seq(Request) /\ req[c] \in Request /\ queue' = Append(queue, req[c])
    BY <1>1, <1>5, Types
  <2> QED  BY <2>1, AppendedAt
<1>7. TypeOK' /\ MoreTypes'
  <2>1. pc' \in [Caller -> {"idle", "lock", "mutexWait", "push", "post", "waiting"}]
    BY <1>1, Types
  <2> QED  BY <1>2, <1>3, <1>6, <2>1 DEF RpcInv, TypeOK, MoreTypes
<1>8. CallInv'
  BY <1>1, <1>2 DEF RpcInv, CallInv, Before
<1>9. LockInv'
  <2>1. Popping' = Popping
    BY <1>2 DEF Popping
  <2>2. \A d \in Caller : pc[d] # "post"
    BY <1>1 DEF RpcInv, LockInv
  <2>3. \E d \in Caller : pc'[d] = "post"
    BY <1>1
  <2>4. permits + Cardinality(Popping) + 0 = Len(queue)
    BY <2>2 DEF RpcInv, LockInv
  <2>5. permits' + Cardinality(Popping') + (IF \E d \in Caller : pc'[d] = "post" THEN 1 ELSE 0) = Len(queue')
    <3>1. IsFiniteSet(Popping) /\ Cardinality(Popping) \in Nat
      BY FS_Subset, FS_CardinalityType, ConstantsAssumption DEF Popping
    <3> QED  BY <1>2, <1>6, <2>1, <2>3, <2>4, <3>1, Types
  <2>6. /\ \A d, e \in Caller : {pc'[d], pc'[e]} \subseteq {"lock", "push", "post"} => d = e
        /\ \A d \in Caller : pc'[d] = "push" <=> lockOwner' = d
        /\ \A w \in Worker : wpc'[w] = "pop" <=> lockOwner' = w
        /\ \A w \in Worker : wpc'[w] \in {"check", "method"} <=> job'[w] # None
    BY <1>1, <1>2, <1>3, ConstantsAssumption DEF RpcInv, LockInv
  <2> QED  BY <2>5, <2>6 DEF LockInv
<1>10. \A d, i, e : TimedOK(d, i, e)' <=> TimedOK(d, i, e)
  BY <1>2 DEF TimedOK
<1>11. \A r \in Request : RequestOK(r) => RequestOK(r)' /\ ~Same(r, req[c])
  BY <1>1, <1>2, <1>5, <1>10 DEF RequestOK, Request, Before, Same
<1>12. \A r : r = req[c] => RequestOK(r)'
  <2>1. req[c].expire # 0 => req[c].care /\ TimedOK(c, n[c], req[c].expire)
    BY <1>1, <1>5, Types DEF RpcInv, CallInv, TimedOK
  <2> QED  BY <1>1, <1>2, <1>5, <1>10, <2>1 DEF RequestOK, Before
<1>13. RequestInv'
  <2>1. \A i \in DOMAIN queue' : RequestOK(queue[i])'
    <3>1. \A i \in DOMAIN queue : queue[i] \in Request /\ RequestOK(queue[i])
      BY Types DEF RpcInv, RequestInv
    <3> QED  BY <1>6, <1>11, <1>12, <3>1
  <2>2. \A w \in Worker : job[w] # None => RequestOK(job[w])'
    BY <1>2, <1>11, Types DEF RpcInv, RequestInv
  <2> QED  BY <1>2, <1>11, <2>1, <2>2, Types DEF RpcInv, RequestInv
<1>14. PlaceInv'
  <2>1. \A i \in DOMAIN queue : ~Same(queue[i], req[c]) /\ ~Same(req[c], queue[i])
    BY <1>11, Types DEF RpcInv, RequestInv, Same
  <2>2. \A w \in Worker : job[w] # None => ~Same(job[w], req[c]) /\ ~Same(req[c], job[w])
    BY <1>11, Types DEF RpcInv, RequestInv, Same
  <2>3. \A r \in routines : ~Same(r, req[c]) /\ ~Same(req[c], r)
    BY <1>11, Types DEF RpcInv, RequestInv, Same
  <2> QED  BY ONLY RpcInv, <1>2, <1>6, <2>1, <2>2, <2>3 DEF RpcInv, PlaceInv
<1>15. BackInv'
  <2>1. \A w \in Wakeup : WakeupOK(w) => WakeupOK(w)' /\ ~Result(w, req[c])
    BY <1>1, <1>2, <1>5, <1>10 DEF WakeupOK, Wakeup, Before, Result, Same
  <2>2. \A i \in DOMAIN waitResume : WakeupOK(waitResume[i]) /\ waitResume[i] \in Wakeup
    BY Types DEF RpcInv, BackInv
  <2>3. \A i \in DOMAIN waitResume' : WakeupOK(waitResume[i])'
    BY <1>2, <1>4, <2>1, <2>2
  <2>4. \A i, j \in DOMAIN waitResume' :
           waitResume'[i].why = "rpc" /\ Result(waitResume'[j], waitResume'[i]) => i = j
    BY <1>4 DEF RpcInv, BackInv, Result, Same
  <2>5. \A k \in DOMAIN waitResume' :
          /\ \A i \in DOMAIN queue' : ~Result(waitResume'[k], queue'[i])
          /\ \A w \in Worker : job'[w] # None => ~Result(waitResume'[k], job'[w])
          /\ \A r \in routines' : ~Result(waitResume'[k], r)
    <3> TAKE k \in DOMAIN waitResume'
    <3>1. CASE waitResume'[k].why = "mutex"
      BY <3>1 DEF Result
    <3>2. CASE waitResume'[k].why # "mutex"
      <4>1. k \in DOMAIN waitResume /\ waitResume'[k] = waitResume[k] /\ ~Result(waitResume[k], req[c])
        BY <1>4, <2>1, <2>2, <3>2
      <4> QED  BY ONLY RpcInv, <1>2, <1>6, <4>1 DEF RpcInv, BackInv
    <3> QED  BY <3>1, <3>2
  <2> QED  BY <2>3, <2>4, <2>5 DEF BackInv, Result, Same
<1>16. ActiveInv'
  <2>1. \A a \in Activation : ActiveOK(a) => a.co # c
    BY <1>1 DEF ActiveOK, Activation
  <2>2. \A a \in Activation : ActiveOK(a) => ActiveOK(a)'
    BY ONLY <1>1, <1>2, <1>5, <1>6, <2>1 DEF ActiveOK, Activation
  <2> QED  BY <1>2, <2>2, Types DEF RpcInv, ActiveInv
<1> QED  BY <1>4, <1>7, <1>8, <1>9, <1>13, <1>14, <1>15, <1>16 DEF RpcInv
\* post() gives the permit for the request; a one-way call returns at once.
LEMMA PushPostInv == ASSUME RpcInv, NEW c \in Caller, PushPost(c) PROVE RpcInv'
<1>1. /\ pc[c] = "post" /\ permits' = permits + 1
      /\ pc' = [pc EXCEPT ![c] = IF req[c].care THEN "waiting" ELSE "idle"]
      /\ pc'[c] = (IF req[c].care THEN "waiting" ELSE "idle")
      /\ \A d \in Caller \ {c} : pc'[d] = pc[d]
  BY Types DEF PushPost
<1>2. UNCHANGED <<now, n, req, outcome, timeoutList, waitResume, active, lockOwner, lockWaiters, queue,
                  wpc, job, routines, answer, doneRuns>>
  BY DEF PushPost, env, lock
<1>3. TypeOK' /\ MoreTypes'
  <2>1. permits' \in Nat
    BY <1>1, Types
  <2> QED  BY <1>1, <1>2, <2>1 DEF RpcInv, TypeOK, MoreTypes
<1>4. CallInv'
  <2>1. n[c] \in Nat /\ n[c] > 0
    BY <1>1, Types DEF RpcInv, CallInv
  <2> QED  BY <1>1, <1>2, <2>1 DEF RpcInv, CallInv, Before
<1>5. LockInv'
  <2>1. Popping' = Popping /\ IsFiniteSet(Popping) /\ Cardinality(Popping) \in Nat
    BY <1>2, FS_Subset, FS_CardinalityType, ConstantsAssumption DEF Popping
  <2>2. \A d \in Caller : pc'[d] # "post"
    BY <1>1 DEF RpcInv, LockInv
  <2>3. permits + Cardinality(Popping) + 1 = Len(queue)
    BY <1>1 DEF RpcInv, LockInv
  <2>4. permits' + Cardinality(Popping)' + (IF \E d \in Caller : pc'[d] = "post" THEN 1 ELSE 0) = Len(queue')
    BY <1>1, <1>2, <2>1, <2>2, <2>3, Types
  <2>5. /\ \A d, e \in Caller : {pc'[d], pc'[e]} \subseteq {"lock", "push", "post"} => d = e
        /\ \A d \in Caller : pc'[d] = "push" <=> lockOwner' = d
        /\ \A w \in Worker : wpc'[w] = "pop" <=> lockOwner' = w
        /\ \A w \in Worker : wpc'[w] \in {"check", "method"} <=> job'[w] # None
    BY <1>1, <1>2 DEF RpcInv, LockInv
  <2> QED  BY <2>4, <2>5 DEF LockInv
<1>6. \A d, i, e : TimedOK(d, i, e)' <=> TimedOK(d, i, e)
  BY <1>2 DEF TimedOK
<1>7. \A r \in Request : RequestOK(r) => RequestOK(r)'
  BY <1>1, <1>2, <1>6 DEF RequestOK, Request, Before
<1>8. \A w \in Wakeup : WakeupOK(w) => WakeupOK(w)'
  BY <1>1, <1>2, <1>6 DEF WakeupOK, Wakeup, Before
<1>9. \A a \in Activation : ActiveOK(a) => ActiveOK(a)'
  BY <1>1, <1>2 DEF ActiveOK, Activation
<1>10. RequestInv' /\ PlaceInv' /\ BackInv'
  BY <1>2, <1>7, <1>8, Types DEF RpcInv, RequestInv, PlaceInv, BackInv
<1>11. ActiveInv' /\ OnceInv'
  BY <1>1, <1>2, <1>9, Types DEF RpcInv, ActiveInv, OnceInv
<1> QED  BY <1>3, <1>4, <1>5, <1>10, <1>11 DEF RpcInv

-----------------------------------------------------------------------------

\* A step of a worker that leaves the callers, the requests and the wakeups alone.
LEMMA WorkerStep ==
  ASSUME RpcInv, TypeOK', LockInv',
         UNCHANGED <<now, pc, n, req, outcome, timeoutList, waitResume, active, lockWaiters, queue,
                     job, routines, answer, doneRuns>>
  PROVE  RpcInv'
<1>1. MoreTypes' /\ CallInv'
  BY DEF RpcInv, MoreTypes, CallInv
<1>2. \A d, i, e : TimedOK(d, i, e)' <=> TimedOK(d, i, e)
  BY DEF TimedOK
<1>3. RequestInv'
  BY <1>2 DEF RpcInv, RequestInv, RequestOK
<1>4. PlaceInv' /\ ActiveInv' /\ OnceInv'
  BY DEF RpcInv, PlaceInv, ActiveInv, ActiveOK, OnceInv
<1>5. BackInv'
  BY <1>2 DEF RpcInv, BackInv, WakeupOK
<1> QED  BY <1>1, <1>3, <1>4, <1>5 DEF RpcInv

\* A worker takes a permit for a request that is in the queue.
LEMMA PopWaitInv == ASSUME RpcInv, NEW w \in Worker, PopWait(w) PROVE RpcInv'
<1>1. /\ wpc[w] = "wait" /\ permits > 0 /\ permits' = permits - 1
      /\ wpc' = [wpc EXCEPT ![w] = "lock"]
      /\ wpc'[w] = "lock" /\ \A v \in Worker \ {w} : wpc'[v] = wpc[v]
  BY Types DEF PopWait
<1>2. UNCHANGED <<now, pc, n, req, outcome, timeoutList, waitResume, active, lockOwner, lockWaiters, queue,
                  job, routines, answer, doneRuns>>
  BY DEF PopWait, client, env, lock
<1>3. TypeOK'
  <2>1. permits' \in Nat
    BY <1>1, Types
  <2> QED  BY <1>1, <1>2, <2>1 DEF RpcInv, TypeOK
<1>4. LockInv'
  <2>1. Popping' = Popping \cup {w} /\ w \notin Popping
    BY <1>1 DEF Popping
  <2>2. IsFiniteSet(Popping) /\ Cardinality(Popping) \in Nat
    BY FS_Subset, FS_CardinalityType, ConstantsAssumption DEF Popping
  <2>3. Cardinality(Popping') = Cardinality(Popping) + 1
    BY <2>1, <2>2, FS_AddElement
  <2> DEFINE k == IF \E c \in Caller : pc[c] = "post" THEN 1 ELSE 0
  <2>4. permits + Cardinality(Popping) + k = Len(queue) /\ k \in Nat
    BY DEF RpcInv, LockInv
  <2>5. k' = k
    BY <1>2
  <2> HIDE DEF k
  <2>6. permits' + Cardinality(Popping') + k = Len(queue')
    <3> DEFINE p == permits  p1 == permits'  m == Cardinality(Popping)  m1 == Cardinality(Popping')  L == Len(queue)
    <3>1. p \in Nat /\ m \in Nat /\ k \in Nat /\ p1 = p - 1 /\ m1 = m + 1 /\ p + m + k = L
      BY <1>1, <2>2, <2>3, <2>4, Types
    <3>2. Len(queue') = L
      BY <1>2
    <3> HIDE DEF p, p1, m, m1, L
    <3>3. p1 + m1 + k = L
      BY ONLY <3>1
    <3> QED  BY ONLY <3>2, <3>3 DEF p1, m1
  <2>7. /\ \A d, e \in Caller : {pc'[d], pc'[e]} \subseteq {"lock", "push", "post"} => d = e
        /\ \A d \in Caller : pc'[d] = "push" <=> lockOwner' = d
        /\ \A v \in Worker : wpc'[v] = "pop" <=> lockOwner' = v
        /\ \A v \in Worker : wpc'[v] \in {"check", "method"} <=> job'[v] # None
    BY <1>1, <1>2 DEF RpcInv, LockInv
  <2>8. permits' + Cardinality(Popping') + k' = Len(queue')
    BY <2>5, <2>6
  <2> QED  BY <2>7, <2>8 DEF LockInv, k
<1> QED  BY <1>2, <1>3, <1>4, WorkerStep

\* A worker gets the mutex of the queue.
LEMMA PopLockInv == ASSUME RpcInv, NEW w \in Worker, PopLock(w) PROVE RpcInv'
<1>1. /\ wpc[w] = "lock" /\ lockOwner = None /\ lockOwner' = w /\ w \notin Caller
      /\ wpc' = [wpc EXCEPT ![w] = "pop"]
      /\ wpc'[w] = "pop" /\ \A v \in Worker \ {w} : wpc'[v] = wpc[v]
  BY Types, ConstantsAssumption DEF PopLock
<1>2. UNCHANGED <<now, pc, n, req, outcome, timeoutList, waitResume, active, lockWaiters, queue, permits,
                  job, routines, answer, doneRuns>>
  BY DEF PopLock, client, env
<1>3. TypeOK'
  BY <1>1, <1>2 DEF RpcInv, TypeOK
<1>4. LockInv'
  <2>1. Popping' = Popping
    BY <1>1 DEF Popping
  <2> QED  BY <1>1, <1>2, <2>1, ConstantsAssumption DEF RpcInv, LockInv
<1> QED  BY <1>2, <1>3, <1>4, WorkerStep

\* The worker keeps its request while the method runs.
LEMMA StartMethodInv == ASSUME RpcInv, NEW w \in Worker, StartMethod(w) PROVE RpcInv'
<1>1. /\ wpc[w] = "check" /\ wpc' = [wpc EXCEPT ![w] = "method"]
      /\ wpc'[w] = "method" /\ \A v \in Worker \ {w} : wpc'[v] = wpc[v]
  BY Types DEF StartMethod, Alive
<1>2. UNCHANGED <<now, pc, n, req, outcome, timeoutList, waitResume, active, lockOwner, lockWaiters, queue,
                  permits, job, routines, answer, doneRuns>>
  BY DEF StartMethod, client, env, lock
<1>3. TypeOK'
  BY <1>1, <1>2 DEF RpcInv, TypeOK
<1>4. LockInv'
  <2>1. Popping' = Popping
    BY <1>1 DEF Popping
  <2> QED  BY <1>1, <1>2, <2>1 DEF RpcInv, LockInv
<1> QED  BY <1>2, <1>3, <1>4, WorkerStep

\* A need_coroutine request goes from its worker to a coroutine of its own.
LEMMA StartRoutineInv == ASSUME RpcInv, NEW w \in Worker, StartRoutine(w) PROVE RpcInv'
<1>1. /\ wpc[w] = "check" /\ wpc' = [wpc EXCEPT ![w] = "wait"] /\ job' = [job EXCEPT ![w] = None]
      /\ wpc'[w] = "wait" /\ job'[w] = None
      /\ \A v \in Worker \ {w} : wpc'[v] = wpc[v] /\ job'[v] = job[v]
      /\ routines' = routines \cup {job[w]}
  BY Types DEF StartRoutine, Alive
<1>2. UNCHANGED <<now, pc, n, req, outcome, timeoutList, waitResume, active, lockOwner, lockWaiters, queue,
                  permits, answer, doneRuns>>
  BY DEF StartRoutine, client, env, lock
<1>3. job[w] \in Request /\ job[w] # None
  BY <1>1, Types DEF RpcInv, LockInv
<1>4. TypeOK' /\ MoreTypes' /\ CallInv'
  BY <1>1, <1>2, <1>3 DEF RpcInv, TypeOK, MoreTypes, CallInv
<1>5. LockInv'
  <2>1. Popping' = Popping
    BY <1>1 DEF Popping
  <2> QED  BY <1>1, <1>2, <2>1 DEF RpcInv, LockInv
<1>6. \A d, i, e : TimedOK(d, i, e)' <=> TimedOK(d, i, e)
  BY <1>2 DEF TimedOK
<1>7. \A r : RequestOK(r)' <=> RequestOK(r)
  BY <1>2, <1>6 DEF RequestOK
<1>8. \A x : WakeupOK(x)' <=> WakeupOK(x)
  BY <1>2, <1>6 DEF WakeupOK
<1>9. RequestInv'
  BY <1>1, <1>2, <1>3, <1>7 DEF RpcInv, RequestInv
<1>10. PlaceInv'
  BY <1>1, <1>2, <1>3 DEF RpcInv, PlaceInv, Same
<1>11. BackInv'
  BY <1>1, <1>2, <1>3, <1>8 DEF RpcInv, BackInv
<1>12. ActiveInv'
  BY <1>1, <1>2, <1>3 DEF RpcInv, ActiveInv, ActiveOK
<1>13. OnceInv'
  BY <1>2 DEF RpcInv, OnceInv
<1> QED  BY <1>4, <1>5, <1>9, <1>10, <1>11, <1>12, <1>13 DEF RpcInv

\* The worker takes the request at the front; its call is nowhere else.
LEMMA PopFrontInv == ASSUME RpcInv, NEW w \in Worker, PopFront(w) PROVE RpcInv'
<1>1. /\ wpc[w] = "pop" /\ queue # <<>> /\ queue' = Tail(queue) /\ UnlockQueue
      /\ wpc' = [wpc EXCEPT ![w] = "check"] /\ job' = [job EXCEPT ![w] = Head(queue)]
      /\ wpc'[w] = "check" /\ job'[w] = Head(queue)
      /\ \A v \in Worker \ {w} : wpc'[v] = wpc[v] /\ job'[v] = job[v]
  BY Types DEF PopFront
<1>2. UNCHANGED <<now, pc, n, req, outcome, timeoutList, active, permits, routines, answer, doneRuns>>
  BY DEF PopFront, client
<1>3. /\ lockOwner' = None /\ lockWaiters' \in Seq(Caller) /\ waitResume' \in Seq(Wakeup)
  BY <1>1, UnlockAt
<1>4. /\ OnceInv'
      /\ \A i \in DOMAIN waitResume' :
            \/ i \in DOMAIN waitResume /\ waitResume'[i] = waitResume[i] /\ i # Len(waitResume) + 1
            \/ i = Len(waitResume) + 1 /\ waitResume'[i].why = "mutex" /\ WakeupOK(waitResume[i])'
  BY <1>1, <1>2, UnlockInv
<1>5. /\ queue' \in Seq(Request) /\ Len(queue') = Len(queue) - 1
      /\ Head(queue) = queue[1] /\ 1 \in DOMAIN queue /\ Head(queue) \in Request
      /\ \A i \in DOMAIN queue' : i \in Nat /\ i + 1 \in DOMAIN queue /\ i + 1 # 1 /\ queue'[i] = queue[i + 1]
  BY <1>1, Types, TailAt
<1>6. job'[w] = queue[1] /\ job'[w] # None /\ queue[1] \in Request
  BY <1>1, <1>5, ConstantsAssumption
<1>7. TypeOK' /\ MoreTypes' /\ CallInv'
  BY <1>1, <1>2, <1>3, <1>5 DEF RpcInv, TypeOK, MoreTypes, CallInv
<1>8. LockInv'
  <2>1. Popping' = Popping \ {w} /\ w \in Popping
    BY <1>1 DEF Popping
  <2>2. IsFiniteSet(Popping) /\ Cardinality(Popping) \in Nat
    BY FS_Subset, FS_CardinalityType, ConstantsAssumption DEF Popping
  <2>3. Cardinality(Popping') = Cardinality(Popping) - 1
    BY <2>1, <2>2, FS_RemoveElement
  <2> DEFINE k == IF \E c \in Caller : pc[c] = "post" THEN 1 ELSE 0
  <2>4. permits + Cardinality(Popping) + k = Len(queue) /\ k \in Nat
    BY DEF RpcInv, LockInv
  <2>5. k' = k
    BY <1>2
  <2> HIDE DEF k
  <2>6. permits' + Cardinality(Popping') + k = Len(queue')
    <3> DEFINE p == permits  m == Cardinality(Popping)  m1 == Cardinality(Popping')  L == Len(queue)
    <3>1. p \in Nat /\ m \in Nat /\ k \in Nat /\ m1 = m - 1 /\ p + m + k = L
      BY <2>2, <2>3, <2>4, Types
    <3>2. Len(queue') = L - 1 /\ permits' = p
      BY <1>2, <1>5
    <3> HIDE DEF p, m, m1, L
    <3>3. p + m1 + k = L - 1
      BY ONLY <3>1
    <3> QED  BY ONLY <3>2, <3>3 DEF m1
  <2>7. permits' + Cardinality(Popping') + k' = Len(queue')
    BY <2>5, <2>6
  <2>8. /\ \A d, e \in Caller : {pc'[d], pc'[e]} \subseteq {"lock", "push", "post"} => d = e
        /\ \A d \in Caller : pc'[d] = "push" <=> lockOwner' = d
        /\ \A v \in Worker : wpc'[v] = "pop" <=> lockOwner' = v
        /\ \A v \in Worker : wpc'[v] \in {"check", "method"} <=> job'[v] # None
    BY <1>1, <1>2, <1>3, <1>6, ConstantsAssumption DEF RpcInv, LockInv
  <2> QED  BY <2>7, <2>8 DEF LockInv, k
<1>9. \A d, i, e : TimedOK(d, i, e)' <=> TimedOK(d, i, e)
  BY <1>2 DEF TimedOK
<1>10. \A r : RequestOK(r)' <=> RequestOK(r)
  BY <1>2, <1>9 DEF RequestOK
<1>11. \A x : WakeupOK(x)' <=> WakeupOK(x)
  BY <1>2, <1>9 DEF WakeupOK
<1>a. \A v \in Worker : job'[v] # None => (v = w /\ job'[v] = queue[1]) \/ (v # w /\ job'[v] = job[v])
  BY <1>1, <1>6
<1>12. RequestInv'
  <2>1. \A i \in DOMAIN queue' : RequestOK(queue'[i])
    BY <1>5 DEF RpcInv, RequestInv
  <2>2. \A v \in Worker : job'[v] # None => RequestOK(job'[v])
    BY <1>a, <1>5 DEF RpcInv, RequestInv
  <2> QED  BY <1>2, <1>10, <2>1, <2>2 DEF RpcInv, RequestInv
<1>13. PlaceInv'
  <2>1. \A i, j \in DOMAIN queue' : Same(queue'[i], queue'[j]) => i = j
    <3> TAKE i, j \in DOMAIN queue'
    <3> HAVE Same(queue'[i], queue'[j])
    <3>1. i + 1 = j + 1
      BY <1>5 DEF RpcInv, PlaceInv
    <3> QED  BY <1>5, <3>1
  <2>2. \A i \in DOMAIN queue' : ~Same(queue'[i], queue[1]) /\ ~Same(queue[1], queue'[i])
    BY <1>5 DEF RpcInv, PlaceInv, Same
  <2>3. \A v, x \in Worker : job'[v] # None /\ job'[x] # None /\ Same(job'[v], job'[x]) => v = x
    BY <1>a, <1>5 DEF RpcInv, PlaceInv, Same
  <2>4. \A i \in DOMAIN queue', v \in Worker : job'[v] # None => ~Same(queue'[i], job'[v])
    BY <1>a, <1>5, <2>2 DEF RpcInv, PlaceInv
  <2>5. \A i \in DOMAIN queue', r \in routines : ~Same(queue'[i], r)
    BY <1>5 DEF RpcInv, PlaceInv
  <2>6. \A v \in Worker, r \in routines : job'[v] # None => ~Same(job'[v], r)
    BY <1>a, <1>5 DEF RpcInv, PlaceInv
  <2> QED  BY <1>2, <2>1, <2>3, <2>4, <2>5, <2>6 DEF RpcInv, PlaceInv, Same
<1>14. BackInv'
  <2>1. \A i \in DOMAIN waitResume' : WakeupOK(waitResume[i])'
    BY <1>4, <1>11 DEF RpcInv, BackInv
  <2>2. \A i, j \in DOMAIN waitResume' :
           waitResume'[i].why = "rpc" /\ Result(waitResume'[j], waitResume'[i]) => i = j
    BY <1>4 DEF RpcInv, BackInv, Result, Same
  <2>3. \A k \in DOMAIN waitResume' :
          /\ \A i \in DOMAIN queue' : ~Result(waitResume'[k], queue'[i])
          /\ \A v \in Worker : job'[v] # None => ~Result(waitResume'[k], job'[v])
          /\ \A r \in routines' : ~Result(waitResume'[k], r)
    <3> TAKE k \in DOMAIN waitResume'
    <3>1. CASE waitResume'[k].why = "mutex"
      BY <3>1 DEF Result
    <3>2. CASE waitResume'[k].why # "mutex"
      <4>1. k \in DOMAIN waitResume /\ waitResume'[k] = waitResume[k]
        BY <1>4, <3>2
      <4> QED  BY ONLY RpcInv, <1>2, <1>5, <1>a, <4>1 DEF RpcInv, BackInv
    <3> QED  BY <3>1, <3>2
  <2> QED  BY <2>1, <2>2, <2>3 DEF BackInv, Result, Same
<1>15. ActiveInv'
  <2>1. \A a \in Activation : ActiveOK(a) => ActiveOK(a)'
    BY ONLY <1>2, <1>5, <1>a DEF ActiveOK, Activation
  <2> QED  BY <1>2, <2>1, Types DEF RpcInv, ActiveInv
<1> QED  BY <1>4, <1>7, <1>8, <1>12, <1>13, <1>14, <1>15 DEF RpcInv

-----------------------------------------------------------------------------

\* A worker or a coroutine of the server has the request.
Held(r) == r \in routines \/ \E w \in Worker : job[w] = r

\* The call of a request that the server has is nowhere else.
LEMMA HeldAt ==
  ASSUME RpcInv, NEW r \in Request, Held(r)
  PROVE  /\ RequestOK(r)
         /\ \A i \in DOMAIN queue : ~Same(queue[i], r)
         /\ \A k \in DOMAIN waitResume : ~Result(waitResume[k], r)
         /\ \A i \in DOMAIN active :
               active[i].why # "mutex" /\ req[active[i].co].expire = 0 /\ r.co = active[i].co => r.n # n[r.co]
<1>1. r # None
  BY ConstantsAssumption
<1>2. RequestOK(r)
  BY <1>1 DEF Held, RpcInv, RequestInv
<1>3. \A i \in DOMAIN queue : ~Same(queue[i], r)
  BY <1>1 DEF Held, RpcInv, PlaceInv
<1>4. \A k \in DOMAIN waitResume : ~Result(waitResume[k], r)
  BY <1>1 DEF Held, RpcInv, BackInv
<1>5. ASSUME NEW i \in DOMAIN active, active[i].why # "mutex", req[active[i].co].expire = 0, r.co = active[i].co
      PROVE  r.n # n[r.co]
  BY <1>1, <1>5 DEF Held, RpcInv, ActiveInv, ActiveOK
<1> QED  BY <1>2, <1>3, <1>4, <1>5

\* A request leaves the server, with or without a wakeup for its caller.
LEMMA LeaveInv ==
  ASSUME RpcInv, NEW r \in Request, Held(r), TypeOK', MoreTypes', LockInv',
         UNCHANGED <<now, pc, n, req, timeoutList, active, lockWaiters, queue>>,
         \A w \in Worker : job'[w] # None => job'[w] = job[w] /\ ~Same(job[w], r),
         routines' \subseteq routines, \A s \in routines' : ~Same(s, r),
         \A c \in Caller : \A i \in Calls(c) :
            (c = r.co /\ i = r.n) \/ (answer'[c][i] = answer[c][i] /\ doneRuns'[c][i] = doneRuns[c][i]),
         \A c \in Caller :
            outcome'[c] = outcome[c] \/ (c = r.co /\ r.n = n[c] /\ outcome'[c] = answer'[c][n[c]]),
         \/ waitResume' = waitResume
         \/ \E err \in BOOLEAN : Resume(r, err) /\ r.care /\ (err \/ answer'[r.co][r.n] # "none")
  PROVE  RpcInv'
<1>1. /\ RequestOK(r) /\ r.co \in Caller /\ r.n \in Nat /\ r.expire \in Nat
      /\ r.n \in 1 .. n[r.co] /\ (r.n = n[r.co] => r = req[r.co] /\ pc[r.co] \notin Before)
      /\ answer[r.co][r.n] = "none"
  BY HeldAt DEF RequestOK, Request
<1>2. \A c \in Caller : n[c] \in Nat /\ MaxCalls[c] \in Nat /\ n[c] <= MaxCalls[c]
  <2>1. \A c \in Caller : n[c] \in 0 .. MaxCalls[c] /\ MaxCalls[c] \in Nat
    BY ConstantsAssumption DEF RpcInv, TypeOK
  <2> QED  BY <2>1, Types
<1>3. \A c \in Caller : \A i \in 1 .. n[c] : i \in Calls(c)
  BY <1>2 DEF Calls
<1>4. CallInv'
  <2> SUFFICES ASSUME NEW c \in Caller
               PROVE  /\ \A i \in Calls(c) : i > n[c] \/ (i = n[c] /\ pc[c] \in Before)
                                               => answer'[c][i] = "none" /\ doneRuns'[c][i] = 0
                      /\ outcome'[c] = "ok" => n[c] > 0 /\ answer'[c][n[c]] = "ok"
    BY DEF RpcInv, CallInv
  <2>1. ASSUME NEW i \in Calls(c), i > n[c] \/ (i = n[c] /\ pc[c] \in Before)
        PROVE  answer'[c][i] = "none" /\ doneRuns'[c][i] = 0
    <3>1. ~(c = r.co /\ i = r.n)
      BY <1>1, <1>2, <2>1
    <3>2. answer[c][i] = "none" /\ doneRuns[c][i] = 0
      BY <2>1 DEF RpcInv, CallInv
    <3> QED  BY <3>1, <3>2
  <2>2. ASSUME outcome'[c] = "ok" PROVE n[c] > 0 /\ answer'[c][n[c]] = "ok"
    <3>1. CASE outcome'[c] = outcome[c]
      <4>1. n[c] > 0 /\ answer[c][n[c]] = "ok" /\ n[c] \in 1 .. n[c]
        BY <1>2, <2>2, <3>1 DEF RpcInv, CallInv
      <4>2. ~(c = r.co /\ n[c] = r.n)
        BY <1>1, <4>1
      <4> QED  BY <1>3, <4>1, <4>2
    <3>2. CASE c = r.co /\ r.n = n[c] /\ outcome'[c] = answer'[c][n[c]]
      BY <1>1, <2>2, <3>2
    <3> QED  BY <3>1, <3>2
  <2> QED  BY <2>1, <2>2
<1>5. \A d, i, e : TimedOK(d, i, e)' <=> TimedOK(d, i, e)
  BY DEF TimedOK
<1>6. \A q \in Request : RequestOK(q) /\ ~Same(q, r) => RequestOK(q)'
  <2> SUFFICES ASSUME NEW q \in Request, RequestOK(q), ~Same(q, r) PROVE RequestOK(q)'
    OBVIOUS
  <2>1. q.co \in Caller /\ q.n \in 1 .. n[q.co] /\ q.n \in Calls(q.co)
    BY <1>3 DEF RequestOK, Request
  <2>2. answer'[q.co][q.n] = answer[q.co][q.n] /\ doneRuns'[q.co][q.n] = doneRuns[q.co][q.n]
    BY <2>1 DEF Same
  <2> QED  BY <1>5, <2>1, <2>2 DEF RequestOK
<1>7. RequestInv'
  <2>1. \A i \in DOMAIN queue : RequestOK(queue[i])'
    BY <1>6, HeldAt, Types DEF RpcInv, RequestInv
  <2>2. \A w \in Worker : job'[w] # None => RequestOK(job[w])'
    BY <1>6, Types DEF RpcInv, RequestInv
  <2>3. \A s \in routines' : RequestOK(s)'
    BY <1>6, Types DEF RpcInv, RequestInv
  <2> QED  BY <2>1, <2>2, <2>3 DEF RequestInv
<1>8. PlaceInv'
  BY DEF RpcInv, PlaceInv
<1>9. ActiveInv'
  BY DEF RpcInv, ActiveInv, ActiveOK
<1>10. \A w \in Wakeup : WakeupOK(w) /\ ~Result(w, r) => WakeupOK(w)'
  <2> SUFFICES ASSUME NEW w \in Wakeup, WakeupOK(w), ~Result(w, r) PROVE WakeupOK(w)'
    OBVIOUS
  <2>1. CASE w.why = "mutex"
    BY <2>1 DEF WakeupOK
  <2>2. CASE w.why = "rpc"
    <3>1. w.co \in Caller /\ w.n \in 1 .. n[w.co] /\ w.n \in Calls(w.co)
      BY <1>3, <2>2 DEF WakeupOK, Wakeup
    <3>2. answer'[w.co][w.n] = answer[w.co][w.n]
      BY <2>2, <3>1 DEF Result, Same
    <3> QED  BY <1>5, <2>2, <3>1, <3>2 DEF WakeupOK
  <2> QED  BY <2>1, <2>2 DEF Wakeup
<1>11. \A i \in DOMAIN waitResume : /\ waitResume[i] \in Wakeup /\ WakeupOK(waitResume[i])
                                    /\ ~Result(waitResume[i], r)
  BY HeldAt, Types DEF RpcInv, BackInv
<1>12. CASE waitResume' = waitResume
  <2>1. BackInv'
    BY <1>10, <1>11, <1>12 DEF RpcInv, BackInv
  <2>2. OnceInv'
    BY <1>12 DEF RpcInv, OnceInv
  <2> QED  BY <1>4, <1>7, <1>8, <1>9, <2>1, <2>2 DEF RpcInv
<1>13. CASE waitResume' # waitResume
  <2>1. PICK err \in BOOLEAN : Resume(r, err) /\ r.care /\ (err \/ answer'[r.co][r.n] # "none")
    BY <1>13
  <2> DEFINE e == [co |-> r.co, expire |-> r.expire, err |-> err, why |-> "rpc", n |-> r.n]
  <2>2. /\ e \in Wakeup /\ e.co = r.co /\ e.expire = r.expire /\ e.err = err /\ e.why = "rpc" /\ e.n = r.n
        /\ waitResume' = Append(waitResume, e)
    BY <1>1, <2>1 DEF Resume, Wakeup
  <2> HIDE DEF e
  <2>3. /\ waitResume' \in Seq(Wakeup)
        /\ \A i \in DOMAIN waitResume' :
              \/ i \in DOMAIN waitResume /\ waitResume'[i] = waitResume[i] /\ i # Len(waitResume) + 1
              \/ i = Len(waitResume) + 1 /\ waitResume'[i] = e
    BY <2>2, Types, AppendedAt
  <2>4. r.expire = 0 => r.n = n[r.co] /\ r = req[r.co] /\ pc[r.co] \in {"post", "waiting"}
    BY <1>1, <2>1, Types DEF RequestOK, Before
  <2>5. \A x : x = e => WakeupOK(x)'
    BY <1>1, <1>5, <2>1, <2>2, <2>4 DEF WakeupOK, RequestOK
  <2>6. BackInv'
    <3>1. \A i \in DOMAIN waitResume' : WakeupOK(waitResume[i])'
      BY <1>10, <1>11, <2>3, <2>5
    <3>2. \A i, j \in DOMAIN waitResume' :
             waitResume'[i].why = "rpc" /\ Result(waitResume'[j], waitResume'[i]) => i = j
      BY <1>11, <2>2, <2>3 DEF RpcInv, BackInv, Result, Same
    <3>3. \A k \in DOMAIN waitResume' :
            /\ \A i \in DOMAIN queue' : ~Result(waitResume'[k], queue'[i])
            /\ \A v \in Worker : job'[v] # None => ~Result(waitResume'[k], job'[v])
            /\ \A s \in routines' : ~Result(waitResume'[k], s)
      <4> TAKE k \in DOMAIN waitResume'
      <4>1. CASE k \in DOMAIN waitResume /\ waitResume'[k] = waitResume[k]
        BY <4>1 DEF RpcInv, BackInv
      <4>2. CASE waitResume'[k] = e
        BY <4>2, <2>2, HeldAt DEF Result, Same
      <4> QED  BY <2>3, <4>1, <4>2
    <3> QED  BY <3>1, <3>2, <3>3 DEF BackInv, Result, Same
  <2>7. OnceInv'
    <3>1. \A i \in DOMAIN waitResume : r.expire = 0 /\ waitResume[i].expire = 0 => waitResume[i].co # r.co
      <4> SUFFICES ASSUME NEW i \in DOMAIN waitResume, r.expire = 0, waitResume[i].expire = 0,
                          waitResume[i].co = r.co
                   PROVE  FALSE
        OBVIOUS
      <4>1. CASE waitResume[i].why = "mutex"
        BY <1>11, <2>4, <4>1 DEF WakeupOK
      <4>2. CASE waitResume[i].why = "rpc"
        BY <1>11, <2>4, <4>2 DEF WakeupOK, Result, Same
      <4> QED  BY <1>11, <4>1, <4>2 DEF Wakeup
    <3>2. \A i \in DOMAIN active : r.expire = 0 => active[i].co # r.co
      <4> SUFFICES ASSUME NEW i \in DOMAIN active, r.expire = 0, active[i].co = r.co PROVE FALSE
        OBVIOUS
      <4>1. CASE active[i].why = "mutex"
        BY <2>4, <4>1 DEF RpcInv, ActiveInv, ActiveOK
      <4>2. CASE active[i].why # "mutex"
        BY <2>4, <4>2, HeldAt
      <4> QED  BY <4>1, <4>2
    <3>3. \A i \in DOMAIN lockWaiters : r.expire = 0 => lockWaiters[i] # r.co
      BY <2>4 DEF RpcInv, OnceInv
    <3>4. \A i \in DOMAIN active', k \in DOMAIN waitResume' :
             waitResume'[k].expire = 0 => waitResume'[k].co # active'[i].co
      BY <2>2, <2>3, <3>2 DEF RpcInv, OnceInv
    <3>5. \A i, j \in DOMAIN waitResume' :
             waitResume'[i].expire = 0 /\ waitResume'[j].expire = 0 /\ waitResume'[i].co = waitResume'[j].co => i = j
      BY <2>2, <2>3, <3>1 DEF RpcInv, OnceInv
    <3>6. \A i \in DOMAIN lockWaiters', k \in DOMAIN waitResume' :
             waitResume'[k].expire = 0 => waitResume'[k].co # lockWaiters'[i]
      BY <2>2, <2>3, <3>3 DEF RpcInv, OnceInv
    <3> QED  BY <3>4, <3>5, <3>6 DEF RpcInv, OnceInv
  <2> QED  BY <1>4, <1>7, <1>8, <1>9, <2>6, <2>7 DEF RpcInv
<1> QED  BY <1>12, <1>13

\* A request that expired in the queue goes back without a run of its method.
LEMMA ExpiredInv == ASSUME RpcInv, NEW w \in Worker, Expired(w) PROVE RpcInv'
<1> DEFINE r == job[w]
<1>1. /\ wpc[w] = "check" /\ r.expire # 0 /\ Resume(r, TRUE)
      /\ wpc' = [wpc EXCEPT ![w] = "wait"] /\ job' = [job EXCEPT ![w] = None]
      /\ wpc'[w] = "wait" /\ job'[w] = None
      /\ \A v \in Worker \ {w} : wpc'[v] = wpc[v] /\ job'[v] = job[v]
  BY Types DEF Expired
<1>2. UNCHANGED <<now, pc, n, req, outcome, timeoutList, active, lockOwner, lockWaiters, queue,
                  permits, routines, answer, doneRuns>>
  BY DEF Expired, client, lock
<1>3. r \in Request /\ r # None
  BY <1>1, Types DEF RpcInv, LockInv
<1>4. Held(r) /\ RequestOK(r) /\ r.care
  BY <1>1, <1>3, HeldAt DEF Held, RequestOK
<1>5. /\ \A v \in Worker : job'[v] # None => job'[v] = job[v] /\ ~Same(job[v], r)
      /\ \A s \in routines' : ~Same(s, r)
  BY <1>1, <1>2, <1>3 DEF RpcInv, PlaceInv, Same
<1>6. waitResume' \in Seq(Wakeup)
  <2> DEFINE e == [co |-> r.co, expire |-> r.expire, err |-> TRUE, why |-> "rpc", n |-> r.n]
  <2>1. e \in Wakeup /\ waitResume' = Append(waitResume, e)
    BY <1>1, <1>3 DEF Resume, Wakeup, Request
  <2> HIDE DEF e
  <2> QED  BY <2>1, Types, AppendedAt
<1>7. TypeOK' /\ MoreTypes'
  BY <1>1, <1>2, <1>6 DEF RpcInv, TypeOK, MoreTypes
<1>8. LockInv'
  <2>1. Popping' = Popping
    BY <1>1 DEF Popping
  <2> QED  BY <1>1, <1>2, <2>1 DEF RpcInv, LockInv
<1>9. \E err \in BOOLEAN : Resume(r, err) /\ r.care /\ (err \/ answer'[r.co][r.n] # "none")
  BY <1>1, <1>4
<1> HIDE DEF r
<1> QED  BY <1>2, <1>3, <1>4, <1>5, <1>7, <1>8, <1>9, LeaveInv

\* What the end of a method changes: the answer of its own call, and the outcome that
\* a caller without a timeout reads.
LEMMA FinishAt ==
  ASSUME RpcInv, NEW r \in Request, RequestOK(r), NEW ok \in BOOLEAN, Finish(r, ok)
  PROVE  /\ outcome' \in [Caller -> {"none", "ok", "failed", "timeout"}]
         /\ waitResume' \in Seq(Wakeup)
         /\ DOMAIN answer' = Caller /\ DOMAIN doneRuns' = Caller
         /\ \A c \in Caller : /\ answer'[c] \in [Calls(c) -> {"none", "ok", "failed"}]
                              /\ doneRuns'[c] \in [Calls(c) -> 0 .. 1]
         /\ \A c \in Caller : \A i \in Calls(c) :
               (c = r.co /\ i = r.n) \/ (answer'[c][i] = answer[c][i] /\ doneRuns'[c][i] = doneRuns[c][i])
         /\ \A c \in Caller :
               outcome'[c] = outcome[c] \/ (c = r.co /\ r.n = n[c] /\ outcome'[c] = answer'[c][n[c]])
         /\ \/ waitResume' = waitResume
            \/ \E err \in BOOLEAN : Resume(r, err) /\ r.care /\ (err \/ answer'[r.co][r.n] # "none")
<1> DEFINE a == IF ok THEN "ok" ELSE "failed"
<1>1. /\ r.co \in Caller /\ r.n \in Nat /\ r.expire \in Nat /\ r.n \in Calls(r.co)
      /\ doneRuns[r.co][r.n] = 0 /\ (r.care /\ r.expire = 0 => r.n = n[r.co])
  <2>1. r.co \in Caller /\ r.n \in 1 .. n[r.co] /\ n[r.co] \in 0 .. MaxCalls[r.co] /\ MaxCalls[r.co] \in Nat
    BY ConstantsAssumption DEF RequestOK, Request, RpcInv, TypeOK
  <2>2. r.n \in Calls(r.co)
    BY <2>1, Types DEF Calls
  <2> QED  BY <2>1, <2>2 DEF RequestOK, Request
<1>2. /\ DOMAIN answer = Caller /\ DOMAIN doneRuns = Caller
      /\ \A c \in Caller : /\ answer[c] \in [Calls(c) -> {"none", "ok", "failed"}]
                           /\ doneRuns[c] \in [Calls(c) -> 0 .. 1]
  BY DEF RpcInv, MoreTypes
<1>3. CASE r.care
  <2>1. /\ Resume(r, FALSE) /\ doneRuns' = doneRuns /\ answer' = [answer EXCEPT ![r.co][r.n] = a]
        /\ outcome' = IF r.expire = 0 THEN [outcome EXCEPT ![r.co] = a] ELSE outcome
    BY <1>3 DEF Finish
  <2>2. a \in {"ok", "failed"}
    OBVIOUS
  <2> HIDE DEF a
  <2>3. waitResume' \in Seq(Wakeup)
    <3> DEFINE e == [co |-> r.co, expire |-> r.expire, err |-> FALSE, why |-> "rpc", n |-> r.n]
    <3>1. e \in Wakeup /\ waitResume' = Append(waitResume, e)
      BY <1>1, <2>1 DEF Resume, Wakeup
    <3> HIDE DEF e
    <3> QED  BY <3>1, Types, AppendedAt
  <2>4. /\ DOMAIN answer' = Caller /\ answer'[r.co] = [answer[r.co] EXCEPT ![r.n] = a]
        /\ \A c \in Caller \ {r.co} : answer'[c] = answer[c]
    BY <1>1, <1>2, <2>1
  <2>5. answer'[r.co][r.n] = a /\ \A i \in Calls(r.co) \ {r.n} : answer'[r.co][i] = answer[r.co][i]
    BY <1>1, <1>2, <2>4
  <2>6. \A c \in Caller : answer'[c] \in [Calls(c) -> {"none", "ok", "failed"}]
    BY <1>1, <1>2, <2>2, <2>4
  <2>7. /\ outcome' \in [Caller -> {"none", "ok", "failed", "timeout"}]
        /\ \A c \in Caller : outcome'[c] = outcome[c] \/ (c = r.co /\ r.expire = 0 /\ outcome'[c] = a)
    BY <1>1, <2>1, <2>2, Types
  <2>8. \A c \in Caller :
           outcome'[c] = outcome[c] \/ (c = r.co /\ r.n = n[c] /\ outcome'[c] = answer'[c][n[c]])
    BY <1>1, <1>3, <2>5, <2>7
  <2>9. \E err \in BOOLEAN : Resume(r, err) /\ r.care /\ (err \/ answer'[r.co][r.n] # "none")
    BY <1>3, <2>1, <2>2, <2>5
  <2>10. \A c \in Caller : \A i \in Calls(c) :
            (c = r.co /\ i = r.n) \/ (answer'[c][i] = answer[c][i] /\ doneRuns'[c][i] = doneRuns[c][i])
    BY <2>1, <2>4, <2>5
  <2> QED  BY <1>2, <2>1, <2>3, <2>4, <2>6, <2>7, <2>8, <2>9, <2>10
<1>4. CASE ~r.care
  <2>1. /\ UNCHANGED <<waitResume, answer, outcome>>
        /\ doneRuns' = [doneRuns EXCEPT ![r.co][r.n] = doneRuns[r.co][r.n] + 1]
    BY <1>4 DEF Finish
  <2>2. /\ DOMAIN doneRuns' = Caller /\ doneRuns'[r.co] = [doneRuns[r.co] EXCEPT ![r.n] = 1]
        /\ \A c \in Caller \ {r.co} : doneRuns'[c] = doneRuns[c]
    BY <1>1, <1>2, <2>1
  <2>3. \A i \in Calls(r.co) \ {r.n} : doneRuns'[r.co][i] = doneRuns[r.co][i]
    BY <1>1, <1>2, <2>2
  <2>4. doneRuns'[r.co] \in [Calls(r.co) -> 0 .. 1]
    <3> DEFINE T == 0 .. 1
    <3>1. 1 \in T /\ doneRuns[r.co] \in [Calls(r.co) -> T]
      BY <1>1, <1>2
    <3> HIDE DEF T
    <3>2. doneRuns'[r.co] \in [Calls(r.co) -> T]
      BY <1>1, <2>2, <3>1
    <3> QED  BY <3>2 DEF T
  <2> QED  BY <1>2, <2>1, <2>2, <2>3, <2>4, Types
<1> QED  BY <1>3, <1>4

\* A method that ran in the worker has returned.
LEMMA FinishMethodInv == ASSUME RpcInv, NEW w \in Worker, FinishMethod(w) PROVE RpcInv'
<1> DEFINE r == job[w]
<1>1. /\ wpc[w] = "method" /\ wpc' = [wpc EXCEPT ![w] = "wait"] /\ job' = [job EXCEPT ![w] = None]
      /\ wpc'[w] = "wait" /\ job'[w] = None
      /\ \A v \in Worker \ {w} : wpc'[v] = wpc[v] /\ job'[v] = job[v]
  BY Types DEF FinishMethod
<1>2. UNCHANGED <<now, pc, n, req, timeoutList, active, lockOwner, lockWaiters, queue, permits, routines>>
  BY DEF FinishMethod, lock
<1>3. r \in Request /\ r # None
  BY <1>1, Types DEF RpcInv, LockInv
<1>4. Held(r) /\ RequestOK(r)
  BY <1>1, <1>3, HeldAt DEF Held
<1>5. /\ \A v \in Worker : job'[v] # None => job'[v] = job[v] /\ ~Same(job[v], r)
      /\ \A s \in routines' : ~Same(s, r)
  BY <1>1, <1>2, <1>3 DEF RpcInv, PlaceInv, Same
<1>6. PICK ok \in BOOLEAN : Finish(r, ok)
  BY DEF FinishMethod
<1>7. LockInv'
  <2>1. Popping' = Popping
    BY <1>1 DEF Popping
  <2> QED  BY <1>1, <1>2, <2>1 DEF RpcInv, LockInv
<1> HIDE DEF r
<1>8. /\ outcome' \in [Caller -> {"none", "ok", "failed", "timeout"}]
      /\ waitResume' \in Seq(Wakeup)
      /\ DOMAIN answer' = Caller /\ DOMAIN doneRuns' = Caller
      /\ \A c \in Caller : /\ answer'[c] \in [Calls(c) -> {"none", "ok", "failed"}]
                           /\ doneRuns'[c] \in [Calls(c) -> 0 .. 1]
  BY <1>3, <1>4, <1>6, FinishAt
<1>9. TypeOK' /\ MoreTypes'
  BY <1>1, <1>2, <1>8 DEF RpcInv, TypeOK, MoreTypes
<1> QED  BY <1>2, <1>3, <1>4, <1>5, <1>6, <1>7, <1>9, FinishAt, LeaveInv

\* A method that ran in a coroutine of its own has returned.
LEMMA FinishRoutineInv == ASSUME RpcInv, NEW r \in routines, FinishRoutine(r) PROVE RpcInv'
<1>1. UNCHANGED <<now, pc, n, req, timeoutList, active, lockOwner, lockWaiters, queue, permits, wpc, job>>
  BY DEF FinishRoutine, lock
<1>2. r \in Request /\ routines' = routines \ {r}
  BY Types DEF FinishRoutine
<1>3. Held(r) /\ RequestOK(r)
  BY <1>2, HeldAt DEF Held
<1>4. /\ \A v \in Worker : job'[v] # None => job'[v] = job[v] /\ ~Same(job[v], r)
      /\ \A s \in routines' : ~Same(s, r)
  BY <1>1, <1>2 DEF RpcInv, PlaceInv
<1>5. PICK ok \in BOOLEAN : Finish(r, ok)
  BY DEF FinishRoutine
<1>6. LockInv'
  BY <1>1 DEF RpcInv, LockInv, Popping
<1>7. /\ outcome' \in [Caller -> {"none", "ok", "failed", "timeout"}]
      /\ waitResume' \in Seq(Wakeup)
      /\ DOMAIN answer' = Caller /\ DOMAIN doneRuns' = Caller
      /\ \A c \in Caller : /\ answer'[c] \in [Calls(c) -> {"none", "ok", "failed"}]
                           /\ doneRuns'[c] \in [Calls(c) -> 0 .. 1]
  BY <1>2, <1>3, <1>5, FinishAt
<1>8. TypeOK' /\ MoreTypes' /\ routines' \subseteq routines
  BY <1>1, <1>2, <1>7 DEF RpcInv, TypeOK, MoreTypes
<1> QED  BY <1>1, <1>2, <1>3, <1>4, <1>5, <1>6, <1>8, FinishAt, LeaveInv

-----------------------------------------------------------------------------

\* An activated caller goes on: nothing else will activate it, and no request without
\* a timeout is left that could still write to its response.
LEMMA RunActiveInv == ASSUME RpcInv, RunActive PROVE RpcInv'
<1> DEFINE a == active[1]
           c == active[1].co
<1>1. /\ ThreadFree /\ active # <<>> /\ active' = Tail(active) /\ Head(active) = a
  BY Types DEF RunActive
<1>2. UNCHANGED <<now, n, req, outcome, timeoutList, waitResume, lockOwner, lockWaiters, queue, permits,
                  wpc, job, routines, answer, doneRuns>>
  BY DEF RunActive, lock, server
<1>3. /\ active' \in Seq(Activation) /\ 1 \in DOMAIN active /\ a \in Activation /\ c \in Caller
      /\ \A i \in DOMAIN active' : i \in Nat /\ i + 1 \in DOMAIN active /\ i + 1 # 1 /\ active'[i] = active[i + 1]
  <2>1. /\ active' \in Seq(Activation) /\ 1 \in DOMAIN active /\ Head(active) \in Activation
        /\ \A i \in DOMAIN active' : i \in Nat /\ i + 1 \in DOMAIN active /\ i + 1 # 1 /\ active'[i] = active[i + 1]
    BY <1>1, Types, TailAt
  <2> QED  BY <1>1, <2>1 DEF Activation
<1>4. \/ pc[c] = "waiting" /\ pc' = [pc EXCEPT ![c] = "idle"]
      \/ pc[c] = "mutexWait" /\ pc' = [pc EXCEPT ![c] = "lock"]
  BY <1>1 DEF RunActive
<1>5. /\ \/ pc[c] = "waiting" /\ pc'[c] = "idle"
         \/ pc[c] = "mutexWait" /\ pc'[c] = "lock"
      /\ \A d \in Caller \ {c} : pc'[d] = pc[d]
      /\ pc' \in [Caller -> {"idle", "lock", "mutexWait", "push", "post", "waiting"}]
  BY <1>3, <1>4, Types
<1>6. ActiveOK(a) /\ (pc[c] = "waiting" => a.why # "mutex" /\ timeoutList[c] = None)
  BY <1>3, <1>5 DEF RpcInv, ActiveInv, ActiveOK
<1>7. /\ \A i \in DOMAIN active' : active'[i].co # c
      /\ \A i \in DOMAIN waitResume : waitResume[i].expire = 0 => waitResume[i].co # c
      /\ \A i \in DOMAIN lockWaiters : lockWaiters[i] # c
  <2>1. \A i \in DOMAIN active' : active'[i].co # c
    BY <1>3 DEF RpcInv, OnceInv
  <2>2. \A i \in DOMAIN waitResume : waitResume[i].expire = 0 => waitResume[i].co # c
    BY <1>3 DEF RpcInv, OnceInv
  <2>3. \A i \in DOMAIN lockWaiters : lockWaiters[i] # c
    BY <1>3 DEF RpcInv, OnceInv
  <2> QED  BY <2>1, <2>2, <2>3
<1>8. TypeOK' /\ MoreTypes'
  BY <1>2, <1>3, <1>5 DEF RpcInv, TypeOK, MoreTypes
<1>9. \A r \in Request : /\ \/ r \in routines
                            \/ \E i \in DOMAIN queue : queue[i] = r
                            \/ \E w \in Worker : job[w] = r
                         /\ pc[c] = "waiting" /\ req[c].expire = 0 /\ r.co = c
                         => r.n # n[c]
  BY <1>6, ConstantsAssumption DEF ActiveOK
<1> HIDE DEF a, c
<1>10. CallInv'
  BY <1>2, <1>3, <1>5, <1>6 DEF RpcInv, CallInv, Before
<1>11. LockInv'
  <2>1. Popping' = Popping
    BY <1>2 DEF Popping
  <2>2. /\ ~\E d \in Caller : pc'[d] = "post"
        /\ ~\E d \in Caller : pc[d] = "post"
    BY <1>1, <1>3, <1>5 DEF ThreadFree
  <2>3. permits' + Cardinality(Popping)' + (IF \E d \in Caller : pc'[d] = "post" THEN 1 ELSE 0) = Len(queue')
    BY <1>2, <2>1, <2>2 DEF RpcInv, LockInv
  <2>4. \A d, e \in Caller : {pc'[d], pc'[e]} \subseteq {"lock", "push", "post"} => d = e
    BY <1>1, <1>3, <1>5 DEF ThreadFree
  <2>5. /\ \A d \in Caller : pc'[d] = "push" <=> lockOwner' = d
        /\ \A v \in Worker : wpc'[v] = "pop" <=> lockOwner' = v
        /\ \A v \in Worker : wpc'[v] \in {"check", "method"} <=> job'[v] # None
    BY <1>2, <1>3, <1>5 DEF RpcInv, LockInv
  <2> QED  BY <2>3, <2>4, <2>5 DEF LockInv
<1>12. \A d, i, e : TimedOK(d, i, e)' <=> TimedOK(d, i, e)
  BY <1>2 DEF TimedOK
<1>13. \A r \in Request : /\ RequestOK(r)
                          /\ (pc[c] = "waiting" /\ req[c].expire = 0 /\ r.co = c => r.n # n[c])
                          => RequestOK(r)'
  BY <1>2, <1>3, <1>5, <1>12 DEF RequestOK, Request, Before
<1>14. RequestInv'
  <2>1. \A i \in DOMAIN queue : RequestOK(queue[i])'
    BY <1>2, <1>9, <1>13, Types DEF RpcInv, RequestInv
  <2>2. \A w \in Worker : job[w] # None => RequestOK(job[w])'
    BY <1>2, <1>9, <1>13, Types DEF RpcInv, RequestInv
  <2>3. \A r \in routines : RequestOK(r)'
    BY <1>9, <1>13, Types DEF RpcInv, RequestInv
  <2> QED  BY <1>2, <2>1, <2>2, <2>3 DEF RequestInv
<1>15. \A w \in Wakeup : WakeupOK(w) /\ (w.expire = 0 => w.co # c) => WakeupOK(w)'
  BY <1>2, <1>3, <1>5, <1>12 DEF WakeupOK, Wakeup, Before
<1>16. PlaceInv' /\ BackInv'
  BY <1>2, <1>7, <1>15, Types DEF RpcInv, PlaceInv, BackInv
<1>17. \A x \in Activation : ActiveOK(x) /\ x.co # c => ActiveOK(x)'
  BY <1>2, <1>5 DEF ActiveOK, Activation
<1>18. ActiveInv'
  <2>1. \A i \in DOMAIN active' : ActiveOK(active'[i]) /\ active'[i] \in Activation
    BY <1>3, Types DEF RpcInv, ActiveInv
  <2> QED  BY <1>7, <1>17, <2>1 DEF ActiveInv
<1>19. OnceInv'
  <2>1. \A i, j \in DOMAIN active' : active'[i].co = active'[j].co => i = j
    <3> TAKE i, j \in DOMAIN active'
    <3> HAVE active'[i].co = active'[j].co
    <3>1. i + 1 = j + 1
      BY <1>3 DEF RpcInv, OnceInv
    <3> QED  BY <1>3, <3>1
  <2>2. \A i \in DOMAIN active', k \in DOMAIN waitResume : waitResume[k].expire = 0 => waitResume[k].co # active'[i].co
    BY <1>3 DEF RpcInv, OnceInv
  <2>3. \A i \in DOMAIN lockWaiters : /\ pc'[lockWaiters[i]] = "mutexWait"
                                      /\ \A k \in DOMAIN active' : active'[k].co # lockWaiters[i]
    BY <1>3, <1>5, <1>7, Types DEF RpcInv, OnceInv
  <2> QED  BY <1>2, <2>1, <2>2, <2>3 DEF RpcInv, OnceInv
<1> QED  BY <1>8, <1>10, <1>11, <1>14, <1>16, <1>18, <1>19 DEF RpcInv

\* One wakeup of the queue: it activates its caller, or it is too late and dropped.
LEMMA ResumeRoutineInv == ASSUME RpcInv, ResumeRoutine PROVE RpcInv'
<1> DEFINE w == waitResume[1]
           c == waitResume[1].co
<1>1. /\ ThreadFree /\ waitResume # <<>> /\ waitResume' = Tail(waitResume) /\ Head(waitResume) = w
  BY Types DEF ResumeRoutine
<1>2. UNCHANGED <<now, pc, n, req, lockOwner, lockWaiters, queue, permits, wpc, job, routines, answer, doneRuns>>
  BY DEF ResumeRoutine, lock, server
<1>3. /\ waitResume' \in Seq(Wakeup) /\ 1 \in DOMAIN waitResume /\ w \in Wakeup /\ c \in Caller
      /\ w.why \in {"rpc", "mutex"} /\ w.expire \in Nat /\ w.n \in Nat
      /\ \A i \in DOMAIN waitResume' : /\ i \in Nat /\ i + 1 \in DOMAIN waitResume /\ i + 1 # 1
                                       /\ waitResume'[i] = waitResume[i + 1]
  <2>1. /\ waitResume' \in Seq(Wakeup) /\ 1 \in DOMAIN waitResume /\ Head(waitResume) \in Wakeup
        /\ \A i \in DOMAIN waitResume' : /\ i \in Nat /\ i + 1 \in DOMAIN waitResume /\ i + 1 # 1
                                         /\ waitResume'[i] = waitResume[i + 1]
    BY <1>1, Types, TailAt
  <2> QED  BY <1>1, <2>1 DEF Wakeup
<1>4. /\ WakeupOK(w)
      /\ \A i \in DOMAIN queue : ~Result(w, queue[i])
      /\ \A v \in Worker : job[v] # None => ~Result(w, job[v])
      /\ \A r \in routines : ~Result(w, r)
  BY <1>3 DEF RpcInv, BackInv
<1>5. \A i \in DOMAIN waitResume' : ~(w.why = "rpc" /\ Result(waitResume'[i], w))
  BY <1>3 DEF RpcInv, BackInv
<1>6. /\ \A i, j \in DOMAIN waitResume' : waitResume'[i].why = "rpc" /\ Result(waitResume'[j], waitResume'[i]) => i = j
      /\ \A i, j \in DOMAIN waitResume' :
            waitResume'[i].expire = 0 /\ waitResume'[j].expire = 0 /\ waitResume'[i].co = waitResume'[j].co => i = j
  <2>1. ASSUME NEW i \in DOMAIN waitResume', NEW j \in DOMAIN waitResume',
               waitResume'[i].why = "rpc", Result(waitResume'[j], waitResume'[i])
        PROVE  i = j
    <3>1. i + 1 = j + 1
      BY <1>3, <2>1 DEF RpcInv, BackInv
    <3> QED  BY <1>3, <3>1
  <2>2. ASSUME NEW i \in DOMAIN waitResume', NEW j \in DOMAIN waitResume',
               waitResume'[i].expire = 0, waitResume'[j].expire = 0, waitResume'[i].co = waitResume'[j].co
        PROVE  i = j
    <3>1. i + 1 = j + 1
      BY <1>3, <2>2 DEF RpcInv, OnceInv
    <3> QED  BY <1>3, <3>1
  <2> QED  BY <2>1, <2>2
<1>7. \A k \in DOMAIN waitResume' :
        /\ waitResume'[k] \in Wakeup /\ WakeupOK(waitResume'[k])
        /\ \A i \in DOMAIN queue : ~Result(waitResume'[k], queue[i])
        /\ \A v \in Worker : job[v] # None => ~Result(waitResume'[k], job[v])
        /\ \A r \in routines : ~Result(waitResume'[k], r)
  BY <1>3, Types DEF RpcInv, BackInv
<1>8. /\ \A i \in DOMAIN active, k \in DOMAIN waitResume' : waitResume'[k].expire = 0 => waitResume'[k].co # active[i].co
      /\ \A i \in DOMAIN lockWaiters, k \in DOMAIN waitResume' :
            waitResume'[k].expire = 0 => waitResume'[k].co # lockWaiters[i]
  BY <1>3 DEF RpcInv, OnceInv
<1>l. LockInv'
  BY <1>2 DEF RpcInv, LockInv, Popping
<1>p. PlaceInv'
  BY <1>2 DEF RpcInv, PlaceInv
<1>9. CASE w.expire = 0
  <2> DEFINE e == [co |-> c, why |-> w.why, n |-> w.n]
  <2>1. UNCHANGED <<timeoutList, outcome>> /\ active' = Append(active, e)
    BY <1>1, <1>9 DEF ResumeRoutine
  <2>2. e \in Activation /\ e.co = c /\ e.why = w.why
    BY <1>3 DEF Activation
  <2> HIDE DEF e
  <2>3. /\ active' \in Seq(Activation)
        /\ \A i \in DOMAIN active' : \/ i \in DOMAIN active /\ active'[i] = active[i] /\ i # Len(active) + 1
                                     \/ i = Len(active) + 1 /\ active'[i] = e
    BY <2>1, <2>2, Types, AppendedAt
  <2>4. TypeOK' /\ MoreTypes' /\ CallInv'
    <3>1. timeoutList' = timeoutList /\ outcome' = outcome
      BY <2>1
    <3>2. TypeOK' /\ CallInv'
      BY <1>2, <3>1 DEF RpcInv, TypeOK, CallInv
    <3>3. MoreTypes'
      BY <1>2, <1>3, <2>3 DEF RpcInv, MoreTypes
    <3> QED  BY <3>2, <3>3
  <2>5. \A d, i, k : TimedOK(d, i, k)' <=> TimedOK(d, i, k)
    BY <1>2, <2>1 DEF TimedOK
  <2>6. \A r : RequestOK(r)' <=> RequestOK(r)
    BY <1>2, <2>5 DEF RequestOK
  <2>7. \A x : WakeupOK(x)' <=> WakeupOK(x)
    BY <1>2, <2>5 DEF WakeupOK
  <2>8. RequestInv' /\ BackInv'
    BY <1>2, <1>6, <1>7, <2>6, <2>7 DEF RpcInv, RequestInv, BackInv, Result, Same
  <2>9. \/ w.why = "mutex" /\ pc[c] = "mutexWait"
        \/ w.why = "rpc" /\ pc[c] = "waiting" /\ w.n = n[c] /\ req[c].expire = 0 /\ timeoutList[c] = None
    <3>1. CASE w.why = "mutex"
      BY <1>4, <3>1 DEF WakeupOK
    <3>2. CASE w.why = "rpc"
      <4>1. w.n = n[c] /\ req[c].expire = 0 /\ pc[c] \in {"post", "waiting"}
        BY <1>4, <1>9, <3>2 DEF WakeupOK
      <4>2. pc[c] = "waiting" /\ timeoutList[c] = None
        BY <1>1, <1>3, <4>1 DEF ThreadFree, RpcInv, CallInv
      <4> QED  BY <3>2, <4>1, <4>2
    <3> QED  BY <1>3, <3>1, <3>2
  <2>10. \A x : x = e => ActiveOK(x)'
    BY <1>2, <1>4, <2>1, <2>2, <2>9 DEF ActiveOK, Result, Same
  <2>11. ActiveInv'
    <3>1. \A x : ActiveOK(x)' <=> ActiveOK(x)
      BY <1>2, <2>1 DEF ActiveOK
    <3> QED  BY <2>3, <2>10, <3>1 DEF RpcInv, ActiveInv
  <2>12. OnceInv'
    <3>1. /\ \A i \in DOMAIN active : active[i].co # c
          /\ \A i \in DOMAIN lockWaiters : lockWaiters[i] # c
      BY <1>3, <1>9 DEF RpcInv, OnceInv
    <3>2. \A k \in DOMAIN waitResume' : waitResume'[k].expire = 0 => waitResume'[k].co # c
      BY <1>3, <1>9 DEF RpcInv, OnceInv
    <3>3. \A i, j \in DOMAIN active' : active'[i].co = active'[j].co => i = j
      BY <2>2, <2>3, <3>1 DEF RpcInv, OnceInv
    <3>4. \A i \in DOMAIN active', k \in DOMAIN waitResume' : waitResume'[k].expire = 0 => waitResume'[k].co # active'[i].co
      BY <1>8, <2>2, <2>3, <3>2
    <3>5. \A i \in DOMAIN lockWaiters, k \in DOMAIN active' : active'[k].co # lockWaiters[i]
      BY <2>2, <2>3, <3>1 DEF RpcInv, OnceInv
    <3> QED  BY <1>2, <1>6, <1>8, <3>3, <3>4, <3>5 DEF RpcInv, OnceInv
  <2> QED  BY <1>l, <1>p, <2>4, <2>8, <2>11, <2>12 DEF RpcInv
<1>10. CASE w.expire # 0 /\ NodeMatches(w)
  <2> DEFINE e == [co |-> c, why |-> "rpc", n |-> w.n]
             o == IF w.err \/ answer[c][timeoutList[c].n] = "failed" THEN "failed" ELSE "ok"
  <2>1. /\ timeoutList' = [timeoutList EXCEPT ![c] = None] /\ outcome' = [outcome EXCEPT ![c] = o]
        /\ active' = Append(active, e)
    BY <1>1, <1>10 DEF ResumeRoutine
  <2>2. e \in Activation /\ e.co = c /\ e.why = "rpc"
    BY <1>3 DEF Activation
  <2> HIDE DEF e
  <2>3. /\ active' \in Seq(Activation)
        /\ \A i \in DOMAIN active' : \/ i \in DOMAIN active /\ active'[i] = active[i] /\ i # Len(active) + 1
                                     \/ i = Len(active) + 1 /\ active'[i] = e
    BY <2>1, <2>2, Types, AppendedAt
  <2>4. /\ timeoutList[c] # None /\ timeoutList[c].expire = w.expire
        /\ timeoutList[c] = req[c] /\ req[c].expire # 0 /\ pc[c] = "waiting"
    BY <1>1, <1>3, <1>10 DEF NodeMatches, ThreadFree, RpcInv, CallInv
  <2>5. /\ w.why = "rpc" /\ w.n \in 1 .. n[c] /\ TimedOK(c, w.n, w.expire) /\ (w.err \/ answer[c][w.n] # "none")
    BY <1>3, <1>4, <1>10 DEF WakeupOK
  <2>6. w.n = n[c] /\ n[c] \in Nat /\ n[c] > 0 /\ timeoutList[c].n = n[c]
    <3>1. n[c] \in Nat /\ n[c] > 0
      BY <1>3, <2>5, Types
    <3>2. timeoutList[c].n = n[c]
      BY <1>3, <2>4, <3>1 DEF RpcInv, CallInv
    <3>3. w.n = n[c]
      BY <1>3, <2>4, <2>5 DEF TimedOK
    <3> QED  BY <3>1, <3>2, <3>3
  <2>7. answer[c][n[c]] \in {"none", "ok", "failed"}
    <3>1. n[c] \in Calls(c)
      <4>1. n[c] \in 0 .. MaxCalls[c] /\ MaxCalls[c] \in Nat
        BY <1>3, ConstantsAssumption DEF RpcInv, TypeOK
      <4> QED  BY <2>6, <4>1 DEF Calls
    <3> QED  BY <1>3, <3>1 DEF RpcInv, MoreTypes
  <2>8. o \in {"ok", "failed"} /\ (o = "ok" => answer[c][n[c]] = "ok")
    BY <2>5, <2>6, <2>7
  <2> HIDE DEF o
  <2>9. /\ timeoutList' \in [Caller -> Request \cup {None}]
        /\ outcome' \in [Caller -> {"none", "ok", "failed", "timeout"}]
        /\ timeoutList'[c] = None /\ outcome'[c] = o
        /\ \A d \in Caller \ {c} : timeoutList'[d] = timeoutList[d] /\ outcome'[d] = outcome[d]
    BY <1>3, <2>1, <2>8, Types
  <2>10. TypeOK' /\ MoreTypes'
    BY <1>2, <1>3, <2>3, <2>9 DEF RpcInv, TypeOK, MoreTypes
  <2>11. CallInv'
    BY <1>2, <1>3, <2>4, <2>6, <2>8, <2>9 DEF RpcInv, CallInv, Before
  <2>12. \A d \in Caller : \A i, k : ~(d = c /\ i = n[c]) /\ TimedOK(d, i, k) => TimedOK(d, i, k)'
    BY <1>2, <1>3, <2>9 DEF TimedOK
  <2>13. \A r \in Request : RequestOK(r) /\ ~Result(w, r) => RequestOK(r)'
    BY <1>2, <2>5, <2>6, <2>12 DEF RequestOK, Request, Result, Same
  <2>14. RequestInv'
    BY <1>2, <1>4, <2>13, Types DEF RpcInv, RequestInv
  <2>15. \A x \in Wakeup : WakeupOK(x) /\ ~Result(x, w) => WakeupOK(x)'
    BY <1>2, <2>5, <2>6, <2>12 DEF WakeupOK, Wakeup, Result, Same
  <2>16. BackInv'
    <3>1. \A i \in DOMAIN waitResume' : WakeupOK(waitResume[i])'
      BY <1>5, <1>7, <2>5, <2>15
    <3> QED  BY <1>2, <1>6, <1>7, <3>1 DEF BackInv, Result, Same
  <2>17. \A x \in Activation : ActiveOK(x) => ActiveOK(x)' /\ x.co # c
    BY <1>2, <2>4, <2>9 DEF ActiveOK, Activation
  <2>18. \A x : x = e => ActiveOK(x)'
    BY <1>2, <2>2, <2>4, <2>9 DEF ActiveOK
  <2>19. ActiveInv'
    <3>1. \A i \in DOMAIN active : active[i] \in Activation /\ ActiveOK(active[i])
      BY Types DEF RpcInv, ActiveInv
    <3> QED  BY <2>3, <2>17, <2>18, <3>1 DEF ActiveInv
  <2>20. OnceInv'
    <3>1. \A i \in DOMAIN active : active[i].co # c
      BY <2>17, Types DEF RpcInv, ActiveInv
    <3>2. \A i \in DOMAIN lockWaiters : lockWaiters[i] # c
      BY <2>4 DEF RpcInv, OnceInv
    <3>3. \A x \in Wakeup : WakeupOK(x) /\ x.expire = 0 => x.co # c
      BY <2>4 DEF WakeupOK, Wakeup
    <3>4. \A i, j \in DOMAIN active' : active'[i].co = active'[j].co => i = j
      BY <2>2, <2>3, <3>1 DEF RpcInv, OnceInv
    <3>5. \A i \in DOMAIN active', k \in DOMAIN waitResume' : waitResume'[k].expire = 0 => waitResume'[k].co # active'[i].co
      BY <1>7, <1>8, <2>2, <2>3, <3>3
    <3>6. \A i \in DOMAIN lockWaiters, k \in DOMAIN active' : active'[k].co # lockWaiters[i]
      BY <2>2, <2>3, <3>2 DEF RpcInv, OnceInv
    <3> QED  BY <1>2, <1>6, <1>8, <3>4, <3>5, <3>6 DEF RpcInv, OnceInv
  <2> QED  BY <1>l, <1>p, <2>10, <2>11, <2>14, <2>16, <2>19, <2>20 DEF RpcInv
<1>11. CASE w.expire # 0 /\ ~NodeMatches(w)
  <2>1. UNCHANGED <<active, timeoutList, outcome>>
    BY <1>1, <1>11 DEF ResumeRoutine
  <2>2. TypeOK' /\ MoreTypes' /\ CallInv'
    BY <1>2, <1>3, <2>1 DEF RpcInv, TypeOK, MoreTypes, CallInv
  <2>3. \A d, i, k : TimedOK(d, i, k)' <=> TimedOK(d, i, k)
    BY <1>2, <2>1 DEF TimedOK
  <2>4. \A r : RequestOK(r)' <=> RequestOK(r)
    BY <1>2, <2>3 DEF RequestOK
  <2>5. \A x : WakeupOK(x)' <=> WakeupOK(x)
    BY <1>2, <2>3 DEF WakeupOK
  <2>6. RequestInv' /\ BackInv'
    BY <1>2, <1>6, <1>7, <2>4, <2>5 DEF RpcInv, RequestInv, BackInv, Result, Same
  <2>7. ActiveInv'
    BY <1>2, <2>1 DEF RpcInv, ActiveInv, ActiveOK
  <2>8. OnceInv'
    BY <1>2, <1>6, <1>8, <2>1 DEF RpcInv, OnceInv
  <2> QED  BY <1>l, <1>p, <2>2, <2>6, <2>7, <2>8 DEF RpcInv
<1> QED  BY <1>9, <1>10, <1>11

\* The elements of two sequences in a row.
LEMMA ConcatAt ==
  ASSUME NEW S, NEW q \in Seq(S), NEW f \in Seq(S), NEW p, p = q \o f
  PROVE  /\ p \in Seq(S)
         /\ \A i \in DOMAIN p : \/ i \in DOMAIN q /\ p[i] = q[i] /\ i <= Len(q)
                                \/ i \in Nat /\ i > Len(q) /\ i - Len(q) \in DOMAIN f /\ p[i] = f[i - Len(q)]
  OBVIOUS

\* The calls whose time is over are given up, each once: a result of theirs that is
\* still on its way is too late for any later call of the same coroutine.
LEMMA TimeoutRoutineInv == ASSUME RpcInv, TimeoutRoutine PROVE RpcInv'
<1> DEFINE E == ExpiredCalls
<1>1. /\ ThreadFree
      /\ outcome' = [c \in Caller |-> IF c \in E THEN "timeout" ELSE outcome[c]]
      /\ timeoutList' = [c \in Caller |-> IF c \in E THEN None ELSE timeoutList[c]]
  BY DEF TimeoutRoutine
<1>2. UNCHANGED <<now, pc, n, req, waitResume, lockOwner, lockWaiters, queue, permits, wpc, job, routines,
                  answer, doneRuns>>
  BY DEF TimeoutRoutine, lock, server
<1>3. PICK s \in InOrder(E) :
         active' = active \o [i \in DOMAIN s |-> [co |-> s[i], why |-> "timeout", n |-> timeoutList[s[i]].n]]
  BY DEF TimeoutRoutine
<1>4. /\ E \subseteq Caller
      /\ \A c \in E : /\ timeoutList[c] # None /\ timeoutList[c].expire <= now
                      /\ timeoutList[c] \in Request /\ timeoutList[c] = req[c]
                      /\ req[c].expire # 0 /\ pc[c] = "waiting"
  BY <1>1, Types DEF ExpiredCalls, ThreadFree, RpcInv, CallInv
<1> HIDE DEF E
<1>5. /\ outcome' \in [Caller -> {"none", "ok", "failed", "timeout"}]
      /\ timeoutList' \in [Caller -> Request \cup {None}]
      /\ \A c \in E : timeoutList'[c] = None /\ outcome'[c] = "timeout"
      /\ \A c \in Caller \ E : timeoutList'[c] = timeoutList[c] /\ outcome'[c] = outcome[c]
  BY <1>1, <1>4, Types
<1>6. /\ \A i \in DOMAIN s : s[i] \in E
      /\ \A i, j \in DOMAIN s : s[i] = s[j] => i = j
      /\ Cardinality(E) \in Nat /\ DOMAIN s = 1 .. Cardinality(E)
  <2>1. Cardinality(E) \in Nat
    BY <1>4, FS_Subset, FS_CardinalityType, ConstantsAssumption
  <2>2. /\ s \in [1 .. Cardinality(E) -> E]
        /\ \A i, j \in 1 .. Cardinality(E) : i # j => s[i] # s[j]
    BY DEF InOrder, SetToSeqs
  <2> QED  BY <2>1, <2>2
<1> DEFINE f == [i \in DOMAIN s |-> [co |-> s[i], why |-> "timeout", n |-> timeoutList[s[i]].n]]
<1>7. f \in Seq(Activation)
  <2>1. \A i \in DOMAIN s : timeoutList[s[i]].n \in Nat
    BY <1>4, <1>6 DEF Request
  <2>2. \A i \in DOMAIN s : [co |-> s[i], why |-> "timeout", n |-> timeoutList[s[i]].n] \in Activation
    BY <1>4, <1>6, <2>1 DEF Activation
  <2> DEFINE m == Cardinality(E)
             g(i) == [co |-> s[i], why |-> "timeout", n |-> timeoutList[s[i]].n]
  <2>3. m \in Nat /\ f = [i \in 1 .. m |-> g(i)] /\ \A i \in 1 .. m : g(i) \in Activation
    BY <1>6, <2>2
  <2> HIDE DEF m, g, f
  <2> QED  BY <2>3
<1>8. \A i \in DOMAIN f : i \in DOMAIN s /\ f[i].co = s[i] /\ f[i].why = "timeout"
  OBVIOUS
<1>9. active' = active \o f
  BY <1>3
<1> HIDE DEF f
<1>10. /\ active' \in Seq(Activation)
       /\ \A i \in DOMAIN active' :
             \/ i \in DOMAIN active /\ active'[i] = active[i] /\ i <= Len(active)
             \/ /\ i \in Nat /\ i > Len(active) /\ i - Len(active) \in DOMAIN f
                /\ active'[i] = f[i - Len(active)]
  BY <1>7, <1>9, Types, ConcatAt
<1>11. TypeOK' /\ MoreTypes'
  BY <1>2, <1>5, <1>10 DEF RpcInv, TypeOK, MoreTypes
<1>12. CallInv'
  BY <1>2, <1>4, <1>5 DEF RpcInv, CallInv, Before
<1>13. LockInv' /\ PlaceInv'
  BY <1>2 DEF RpcInv, LockInv, Popping, PlaceInv
<1>14. \A d \in Caller : \A i, k : TimedOK(d, i, k) => TimedOK(d, i, k)'
  BY <1>2, <1>4, <1>5 DEF TimedOK
<1>15. \A r \in Request : RequestOK(r) => RequestOK(r)'
  BY <1>2, <1>14 DEF RequestOK, Request
<1>16. \A x \in Wakeup : WakeupOK(x) => WakeupOK(x)'
  BY <1>2, <1>14 DEF WakeupOK, Wakeup
<1>17. RequestInv' /\ BackInv'
  BY <1>2, <1>15, <1>16, Types DEF RpcInv, RequestInv, BackInv
<1>18. \A x \in Activation : ActiveOK(x) => ActiveOK(x)' /\ x.co \notin E
  BY <1>2, <1>4, <1>5 DEF ActiveOK, Activation
<1>19. \A x : x.co \in E /\ x.why = "timeout" => ActiveOK(x)'
  BY <1>2, <1>4, <1>5 DEF ActiveOK
<1>20. \A i \in DOMAIN active : active[i] \in Activation /\ ActiveOK(active[i]) /\ active[i].co \notin E
  BY <1>18, Types DEF RpcInv, ActiveInv
<1>21. ActiveInv'
  BY <1>6, <1>8, <1>10, <1>18, <1>19, <1>20 DEF ActiveInv
<1>22. OnceInv'
  <2>1. \A i \in DOMAIN active' : \/ i \in DOMAIN active /\ active'[i] = active[i]
                                  \/ active'[i].co \in E
    BY <1>6, <1>8, <1>10
  <2>2. \A i, j \in DOMAIN active' : active'[i].co = active'[j].co => i = j
    <3> SUFFICES ASSUME NEW i \in DOMAIN active', NEW j \in DOMAIN active', active'[i].co = active'[j].co
                 PROVE  i = j
      OBVIOUS
    <3>1. CASE active'[i].co \in E
      <4>1. /\ i \in Nat /\ i - Len(active) \in DOMAIN f /\ active'[i] = f[i - Len(active)]
            /\ j \in Nat /\ j - Len(active) \in DOMAIN f /\ active'[j] = f[j - Len(active)]
        BY <1>10, <1>20, <3>1
      <4>2. i - Len(active) = j - Len(active)
        BY <1>6, <1>8, <4>1
      <4>3. Len(active) \in Nat
        BY Types
      <4> QED  BY <4>1, <4>2, <4>3
    <3>2. CASE active'[i].co \notin E
      BY <2>1, <3>2 DEF RpcInv, OnceInv
    <3> QED  BY <3>1, <3>2
  <2>3. \A i \in DOMAIN lockWaiters : lockWaiters[i] \notin E
    BY <1>4 DEF RpcInv, OnceInv
  <2>4. \A x \in Wakeup : WakeupOK(x) /\ x.expire = 0 => x.co \notin E
    BY <1>4 DEF WakeupOK, Wakeup
  <2>5. \A k \in DOMAIN waitResume : waitResume[k].expire = 0 => waitResume[k].co \notin E
    BY <2>4, Types DEF RpcInv, BackInv
  <2>6. \A i \in DOMAIN active', k \in DOMAIN waitResume : waitResume[k].expire = 0 => waitResume[k].co # active'[i].co
    BY <2>1, <2>5 DEF RpcInv, OnceInv
  <2>7. \A i \in DOMAIN lockWaiters, k \in DOMAIN active' : active'[k].co # lockWaiters[i]
    BY <2>1, <2>3 DEF RpcInv, OnceInv
  <2> QED  BY <1>2, <2>2, <2>6, <2>7 DEF RpcInv, OnceInv
<1> QED  BY <1>11, <1>12, <1>13, <1>17, <1>21, <1>22 DEF RpcInv

-----------------------------------------------------------------------------

\* Every step keeps RpcInv.
LEMMA RpcNextInv == ASSUME SleepTimed = FALSE, RpcInv, [Next]_vars PROVE RpcInv'
<1>1. CASE vars' = vars
  <2>1. UNCHANGED <<now, pc, n, req, outcome, timeoutList, waitResume, active, lockWaiters, queue,
                    job, routines, answer, doneRuns, lockOwner, permits, wpc>>
    BY <1>1 DEF vars, client, env, lock, server
  <2>2. TypeOK' /\ LockInv'
    BY <2>1 DEF RpcInv, TypeOK, LockInv, Popping
  <2> QED  BY <2>1, <2>2, WorkerStep
<1>2. ASSUME NEW c \in Caller, TwoWayCall(c) \/ OneWayCall(c) \/ Push(c) PROVE RpcInv'
  <2>1. CASE TwoWayCall(c)
    BY <2>1, CallMethodInv, ConstantsAssumption DEF TwoWayCall
  <2>2. CASE OneWayCall(c)
    BY <2>2, CallMethodInv DEF OneWayCall
  <2>3. CASE Push(c)
    BY <2>3, PushLockInv, PushSleepInv, PushBackInv, PushPostInv DEF Push
  <2> QED  BY <1>2, <2>1, <2>2, <2>3
<1>3. ASSUME NEW w \in Worker,
             PopWait(w) \/ PopLock(w) \/ PopFront(w) \/ Expired(w) \/ StartRoutine(w) \/ StartMethod(w) \/ FinishMethod(w)
      PROVE  RpcInv'
  BY <1>3, PopWaitInv, PopLockInv, PopFrontInv, ExpiredInv, StartRoutineInv, StartMethodInv, FinishMethodInv
<1> QED  BY <1>1, <1>2, <1>3, ResumeRoutineInv, TimeoutRoutineInv, RunActiveInv, FinishRoutineInv, TickInv DEF Next

\* What RpcInv says is enough for CallsSound.
LEMMA RpcInvSound == ASSUME RpcInv PROVE CallsSound
<1>1. TypeOK
  BY DEF RpcInv
<1>2. PopFindsRequest
  <2> SUFFICES ASSUME NEW w \in Worker, wpc[w] = "pop" PROVE queue # <<>>
    BY DEF PopFindsRequest
  <2>1. w \in Popping
    BY DEF Popping
  <2>2. IsFiniteSet(Popping) /\ Cardinality(Popping) \in Nat
    BY FS_Subset, FS_CardinalityType, ConstantsAssumption DEF Popping
  <2>3. Cardinality(Popping) # 0
    BY <2>1, <2>2, FS_EmptySet
  <2> DEFINE k == IF \E c \in Caller : pc[c] = "post" THEN 1 ELSE 0
             m == Cardinality(Popping)
  <2>4. permits + m + k = Len(queue) /\ k \in Nat /\ permits \in Nat /\ m \in Nat /\ m # 0
    BY <2>2, <2>3, Types DEF RpcInv, LockInv
  <2> HIDE DEF k, m
  <2>5. Len(queue) # 0
    BY <2>4
  <2> QED  BY <2>5
<1>3. ActivatedOnce
  <2>1. \A i \in DOMAIN active : pc[active[i].co] \in {"waiting", "mutexWait"}
    BY DEF RpcInv, ActiveInv, ActiveOK
  <2> QED  BY <2>1 DEF RpcInv, OnceInv, ActivatedOnce
<1>4. OwnAnswer
  BY DEF RpcInv, CallInv, OwnAnswer
<1>5. DoneOnce
  <2> SUFFICES ASSUME NEW c \in Caller, NEW i \in Calls(c)
               PROVE  /\ doneRuns[c][i] <= 1
                      /\ doneRuns[c][i] = 1 =>
                           \A r \in (routines \cup ToSet(queue) \cup {job[w] : w \in Worker}) \ {None} :
                              ~(r.co = c /\ r.n = i)
    BY DEF DoneOnce
  <2>1. doneRuns[c][i] \in 0 .. 1
    BY DEF RpcInv, MoreTypes
  <2>2. \A r \in (routines \cup ToSet(queue) \cup {job[w] : w \in Worker}) \ {None} : RequestOK(r)
    BY DEF RpcInv, RequestInv, ToSet
  <2>3. \A r : RequestOK(r) => doneRuns[r.co][r.n] = 0
    BY DEF RequestOK
  <2> QED  BY <2>1, <2>2, <2>3
<1> QED  BY <1>1, <1>2, <1>3, <1>4, <1>5 DEF CallsSound

\* A step changes what a call returned only while its caller has not returned.
LEMMA RpcStepStable ==
  ASSUME SleepTimed = FALSE, RpcInv, [Next]_vars, NEW c \in Caller, pc[c] = "idle", pc'[c] = "idle"
  PROVE  outcome'[c] = outcome[c]
<1>1. timeoutList[c] = None
  BY DEF RpcInv, CallInv
<1>2. CASE UNCHANGED outcome
  BY <1>2
<1>3. ASSUME NEW d \in Caller, NEW care \in BOOLEAN, NEW t \in Nat, CallMethod(d, care, t)
      PROVE  outcome'[c] = outcome[c]
  <2>1. d # c
    BY <1>3, Types DEF CallMethod
  <2>2. outcome' = [outcome EXCEPT ![d] = "none"]
    BY <1>3 DEF CallMethod
  <2> QED  BY <2>1, <2>2, Types
<1>4. CASE ResumeRoutine
  <2> DEFINE w == Head(waitResume)
  <2>1. \/ UNCHANGED outcome
        \/ /\ timeoutList[w.co] # None
           /\ \E o : outcome' = [outcome EXCEPT ![w.co] = o]
    BY <1>4 DEF ResumeRoutine, NodeMatches
  <2> HIDE DEF w
  <2> QED  BY <1>1, <2>1, Types
<1>5. CASE TimeoutRoutine
  BY <1>1, <1>5 DEF TimeoutRoutine, ExpiredCalls
<1>6. ASSUME NEW r \in Request, Held(r), NEW ok \in BOOLEAN, Finish(r, ok) PROVE outcome'[c] = outcome[c]
  <2>1. RequestOK(r)
    BY <1>6, HeldAt
  <2>2. CASE r.care /\ r.expire = 0
    <3>1. r.co # c
      BY <2>1, <2>2 DEF RequestOK
    <3>2. \E o : outcome' = [outcome EXCEPT ![r.co] = o]
      BY <1>6, <2>2 DEF Finish
    <3> QED  BY <3>1, <3>2, Types
  <2>3. CASE ~(r.care /\ r.expire = 0)
    BY <1>6, <2>3 DEF Finish
  <2> QED  BY <2>2, <2>3
<1>7. ASSUME NEW w \in Worker, FinishMethod(w) PROVE outcome'[c] = outcome[c]
  <2>1. job[w] \in Request /\ Held(job[w])
    BY <1>7, Types DEF FinishMethod, RpcInv, LockInv, Held
  <2> QED  BY <1>6, <1>7, <2>1 DEF FinishMethod
<1>8. ASSUME NEW r \in routines, FinishRoutine(r) PROVE outcome'[c] = outcome[c]
  BY <1>6, <1>8, Types DEF FinishRoutine, Held
<1>9. ASSUME NEW w \in Worker,
             PopWait(w) \/ PopLock(w) \/ PopFront(w) \/ Expired(w) \/ StartRoutine(w) \/ StartMethod(w)
      PROVE  UNCHANGED outcome
  BY <1>9 DEF PopWait, PopLock, PopFront, Expired, StartRoutine, StartMethod, client
<1>10. ASSUME NEW d \in Caller, Push(d) PROVE UNCHANGED outcome
  BY <1>10 DEF Push, PushLock, PushSleep, PushBack, PushPost
<1>11. ASSUME NEW d \in Caller, TwoWayCall(d) \/ OneWayCall(d) PROVE outcome'[c] = outcome[c]
  BY <1>3, <1>11, ConstantsAssumption DEF TwoWayCall, OneWayCall
<1>12. RunActive \/ Tick \/ vars' = vars => UNCHANGED outcome
  BY DEF RunActive, Tick, vars, client
<1> QED  BY <1>2, <1>4, <1>5, <1>7, <1>8, <1>9, <1>10, <1>11, <1>12 DEF Next

\* The inductive invariant, for any number of callers, workers and calls, when no call
\* with a timeout sleeps on the queue's mutex.
THEOREM RpcInvariant == ASSUME SleepTimed = FALSE PROVE Spec => []RpcInv
<1>1. RpcInv /\ [Next]_vars => RpcInv'
  BY RpcNextInv
<1> QED  BY <1>1, RpcInitInv, PTL DEF Spec

\* CallsSound: results, timeouts and late results in any order activate a caller once,
\* give it no answer of another call and free no one-way request twice.
THEOREM CallsAreSound == ASSUME SleepTimed = FALSE PROVE Spec => []CallsSound
<1>1. RpcInv => CallsSound
  BY RpcInvSound
<1> QED  BY <1>1, RpcInvariant, PTL

\* ResultStable: what CallMethod returned does not change under its caller while the
\* server still works on the call.
THEOREM ResultsAreStable == ASSUME SleepTimed = FALSE PROVE Spec => ResultStable
<1>1. RpcInv /\ [Next]_vars =>
        [\A c \in Caller : pc[c] = "idle" /\ pc'[c] = "idle" /\ req[c] # None
           => outcome'[c] = outcome[c]]_vars
  BY RpcStepStable
<1> QED  BY <1>1, RpcInvariant, PTL DEF Spec, ResultStable

-----------------------------------------------------------------------------
(***************************************************************************)
(* Message, for any number of messages, faults, connections and requests   *)
(* and any size of the buffer.                                             *)
(*                                                                         *)
(* What is under way to the client leaves out no buffered message it still *)
(* lacks (DownInv); so even where decode() counts a serial it did not get, *)
(* that one was not buffered.  When a session moves to a new connection    *)
(* nothing has come over it, and the login acknowledges exactly what the   *)
(* client has (AckInv); what it lacks is then in the buffer, or the buffer *)
(* knows that it gave it up (BufferInv), and is sent again.                *)
(***************************************************************************)

DownMsg == [type : {"data", "jump"}, serial : Nat, intact : BOOLEAN]
UpTypes == {"login", "heartbeat"} \cup Requests
UpMsg == [type : UpTypes, serial : Nat, ack : Nat, intact : BOOLEAN]
TaskRec == [type : UpTypes, ack : Nat, conn : Nat, banned : BOOLEAN]

MessageTypes ==
    /\ lastSendSerial \in 0 .. MaxSerial
    /\ buffered \subseteq 1 .. lastSendSerial
    /\ msgBuffer \in [link : Seq(Serials), last : 0 .. MaxSerial,
                      scrap : 0 .. MaxSerial, broken : BOOLEAN]
    /\ conn \in Nat /\ att \in 0 .. conn
    /\ cRecv \in 0 .. lastSendSerial /\ srvRecv \in Nat /\ cSent \in Nat
    /\ down \in Seq(DownMsg) /\ up \in Seq(UpMsg) /\ tasks \in Seq(TaskRec)
    /\ cQueue \in Seq([type : UpTypes, serial : Nat])
    /\ got \in Seq(Serials)

\* The serials in q are increasing, and all above low.
Climbs(q, low) ==
    /\ \A i \in DOMAIN q : low < q[i].serial
    /\ \A i, j \in DOMAIN q : i < j => q[i].serial < q[j].serial

Rising(q) == \A i, j \in DOMAIN q : i < j => q[i] < q[j]

\* The message s itself is in q.
Holds(q, s) == \E j \in DOMAIN q : q[j].type = "data" /\ q[j].serial = s

\* The buffer knows what it has not got any more.
BufferInv ==
    /\ ~msgBuffer.broken /\ msgBuffer.last = lastSendSerial
    /\ Rising(msgBuffer.link)
    /\ \A i \in DOMAIN msgBuffer.link :
          msgBuffer.link[i] \in buffered /\ msgBuffer.scrap < msgBuffer.link[i]
    /\ \A s \in dropped : s \in buffered /\ s <= msgBuffer.scrap
    /\ msgBuffer.scrap <= cRecv \/ msgBuffer.scrap \in dropped
    /\ \A s \in buffered : s > cRecv => s \in Range(msgBuffer.link) \cup dropped

\* What is under way to the client leaves no buffered message out, and as long
\* as the session is attached to it none is missing at the end either.
DownInv ==
    /\ Climbs(down, cRecv)
    /\ \A i \in DOMAIN down :
          /\ down[i].serial <= lastSendSerial
          /\ ~down[i].intact => down[i].serial \in spoiled
    /\ \A s \in buffered, i \in DOMAIN down :
          cRecv < s /\ s <= down[i].serial => Holds(down, s)
    /\ alive /\ att = conn /\ att \notin closed =>
          \A s \in buffered : cRecv < s => Holds(down, s)

\* No acknowledgement is ahead of the client, and the one of the login is exact.
AckInv ==
    /\ \A i \in DOMAIN up : up[i].ack <= cRecv
    /\ \A i \in DOMAIN tasks : tasks[i].ack <= cRecv /\ tasks[i].conn <= conn
    /\ att # conn =>
          /\ down = <<>> /\ \A i \in DOMAIN up : up[i].ack = cRecv
          /\ \A i \in DOMAIN tasks : tasks[i].conn = conn => tasks[i].ack = cRecv

GotInv ==
    /\ Rising(got) /\ \A i \in DOMAIN got : got[i] <= cRecv
    /\ \A s \in buffered : s <= cRecv => s \in Range(got) \cup spoiled

MessageInv == MessageTypes /\ BufferInv /\ DownInv /\ AckInv /\ GotInv

-----------------------------------------------------------------------------
(* MessageBuffer.                                                          *)

LEMMA SerialFacts ==
    MaxSerial \in Nat /\ \A x : x \in Serials <=> x \in Nat /\ 1 <= x /\ x <= MaxSerial
  BY MessageAssumption DEF Serials

\* Two different elements of an increasing sequence differ.
LEMMA RisingLink ==
    ASSUME NEW q \in Seq(Nat), Rising(q)
    PROVE  IsInjective(q)
<1> DEFINE m == Len(q)
<1>1. m \in Nat /\ DOMAIN q = 1 .. m /\ \A i \in 1 .. m : q[i] \in Nat
  OBVIOUS
<1> HIDE DEF m
<1> SUFFICES ASSUME NEW i \in 1 .. m, NEW j \in 1 .. m, q[i] = q[j], i # j PROVE FALSE
  BY <1>1 DEF IsInjective
<1>2. i < j \/ j < i
  BY <1>1
<1>3. q[i] < q[j] \/ q[j] < q[i]
  BY <1>1, <1>2 DEF Rising
<1> QED  BY <1>1, <1>3

LEMMA RetypedSeq ==
    ASSUME NEW S, NEW T, NEW q \in Seq(T), \A i \in 1 .. Len(q) : q[i] \in S
    PROVE  q \in Seq(S)
  OBVIOUS

LEMMA SerialSeq == ASSUME NEW q \in Seq(Serials)
                   PROVE  /\ q \in Seq(Nat) /\ Len(q) \in Nat /\ DOMAIN q = 1 .. Len(q)
                          /\ \A i \in 1 .. Len(q) : q[i] \in Serials /\ q[i] \in Nat
<1>1. Serials \subseteq Nat
  BY SerialFacts
<1>2. Len(q) \in Nat /\ DOMAIN q = 1 .. Len(q) /\ \A i \in 1 .. Len(q) : q[i] \in Serials
  OBVIOUS
<1>3. \A i \in 1 .. Len(q) : q[i] \in Nat
  BY <1>1, <1>2
<1>4. q \in Seq(Nat)
  BY <1>2, <1>3, RetypedSeq
<1> QED  BY <1>2, <1>3, <1>4

\* scrapMessages() stops at the first message that was not acknowledged.
LEMMA AcknowledgedFacts ==
    ASSUME NEW link \in Seq(Serials), NEW s \in Nat, NEW num, num = Acknowledged(link, s)
    PROVE  /\ num \in 0 .. Len(link) /\ \A i \in 1 .. num : link[i] <= s
           /\ num < Len(link) => link[num + 1] > s
<1> DEFINE m == Len(link)
           T == {k \in 0 .. m : k < m => link[k + 1] > s}
<1>1. m \in Nat /\ \A k \in 1 .. m : link[k] \in Nat
  BY SerialSeq
<1>2. PICK k \in T : \A j \in T : k <= j
  <2>1. m \in T /\ T \subseteq Nat
    BY <1>1
  <2> HIDE DEF T
  <2> QED  BY <2>1, LeastNatural
<1>3. k \in 0 .. m /\ (k < m => link[k + 1] > s)
  BY <1>2
<1>4. \A i \in 1 .. k : link[i] <= s
  <2> SUFFICES ASSUME NEW i \in 1 .. k, ~(link[i] <= s) PROVE FALSE
    OBVIOUS
  <2>1. i \in 1 .. m /\ i - 1 \in 0 .. m /\ (i - 1) + 1 = i /\ i - 1 < k /\ link[i] > s
    BY <1>1, <1>3
  <2>2. i - 1 \in T
    BY <2>1
  <2>3. k <= i - 1
    <3> HIDE DEF T
    <3> QED  BY <1>2, <2>2
  <2> QED  BY <1>1, <1>3, <2>1, <2>3
<1>5. \E j \in 0 .. Len(link) :
         (\A i \in 1 .. j : link[i] <= s) /\ (j < Len(link) => link[j + 1] > s)
  BY <1>3, <1>4
<1> QED  BY <1>5 DEF Acknowledged

Buffers == [link : Seq(Serials), last : 0 .. MaxSerial, scrap : 0 .. MaxSerial, broken : BOOLEAN]

\* What is left of the buffer.
Scrapped(b, c, s) ==
    /\ c \in Buffers /\ Rising(c.link)
    /\ c.last = b.last /\ c.broken = b.broken
    /\ c.scrap = IF b.scrap < s THEN s ELSE b.scrap
    /\ \A i \in DOMAIN c.link : c.link[i] > s /\ c.link[i] \in Range(b.link)
    /\ \A x \in Range(b.link) : x > s => x \in Range(c.link)

LEMMA ScrapFacts ==
    ASSUME NEW b \in Buffers, Rising(b.link), NEW s \in 0 .. MaxSerial,
           NEW c, c = scrapMessages(b, s)
    PROVE  Scrapped(b, c, s)
<1> DEFINE link == b.link
           m == Len(link)
<1>0. link \in Seq(Serials) /\ m \in Nat /\ DOMAIN link = 1 .. m /\ s \in Nat
      /\ MaxSerial \in Nat /\ b.scrap \in 0 .. MaxSerial
      /\ \A i \in 1 .. m : link[i] \in Serials /\ link[i] \in Nat
  <2>1. link \in Seq(Serials) /\ b.scrap \in 0 .. MaxSerial
    BY DEF Buffers
  <2> QED  BY <2>1, SerialFacts, SerialSeq
<1>1. PICK num : num = Acknowledged(link, s)
  OBVIOUS
<1>2. /\ num \in 0 .. m /\ \A i \in 1 .. num : link[i] <= s
      /\ num < m => link[num + 1] > s
  BY <1>0, <1>1, AcknowledgedFacts
<1>3. /\ c = [b EXCEPT !.link = SubSeq(link, num + 1, m), !.scrap = IF b.scrap < s THEN s ELSE b.scrap]
  BY <1>1 DEF scrapMessages, Scrap
<1>4. /\ c.link = SubSeq(link, num + 1, m) /\ c.last = b.last /\ c.broken = b.broken
      /\ c.scrap = IF b.scrap < s THEN s ELSE b.scrap
  BY <1>3 DEF Buffers
<1>r. \A i, j \in 1 .. m : i < j => link[i] < link[j]
  BY <1>0 DEF Rising
<1> HIDE DEF link, m
<1>5. /\ c.link \in Seq(Serials) /\ Len(c.link) = m - num /\ DOMAIN c.link = 1 .. m - num
      /\ \A i \in 1 .. m - num : c.link[i] = link[num + i] /\ num + i \in 1 .. m
  <2>1. num + 1 \in 1 .. m + 1 /\ Len(SubSeq(link, num + 1, m)) = m - num
    <3>1. num \in Nat /\ num <= m
      BY <1>0, <1>2
    <3>2. Len(SubSeq(link, num + 1, m)) = IF num + 1 <= m THEN m - (num + 1) + 1 ELSE 0
      BY <1>0, <3>1 DEF m
    <3> QED  BY <1>0, <3>1, <3>2
  <2>2. SubSeq(link, num + 1, m) \in Seq(Serials)
    BY <1>0, <1>2 DEF m
  <2>3. \A i \in 1 .. m - num : SubSeq(link, num + 1, m)[i] = link[num + i] /\ num + i \in 1 .. m
    BY <1>0, <1>2 DEF m
  <2> QED  BY <1>4, <2>1, <2>2, <2>3
<1>6. c \in Buffers
  <2>1. (IF b.scrap < s THEN s ELSE b.scrap) \in 0 .. MaxSerial
    BY <1>0
  <2> QED  BY <1>3, <1>4, <1>5, <2>1 DEF Buffers
<1>7. Rising(c.link)
  <2> SUFFICES ASSUME NEW i \in 1 .. m - num, NEW j \in 1 .. m - num, i < j
               PROVE  c.link[i] < c.link[j]
    BY <1>5 DEF Rising
  <2>1. num + i < num + j /\ num + i \in 1 .. m /\ num + j \in 1 .. m
    BY <1>0, <1>2
  <2> QED  BY <1>5, <1>r, <2>1
<1>8. \A i \in DOMAIN c.link : c.link[i] > s /\ c.link[i] \in Range(b.link)
  <2> TAKE i \in DOMAIN c.link
  <2>1. c.link[i] = link[num + i] /\ num + i \in 1 .. m /\ i \in 1 .. m - num
    BY <1>5
  <2>2. num < m /\ num + 1 \in 1 .. m /\ (num + 1 = num + i \/ num + 1 < num + i)
    BY <1>0, <1>2, <2>1
  <2>3. link[num + 1] > s /\ link[num + 1] <= link[num + i]
    <3>1. link[num + 1] = link[num + i] \/ link[num + 1] < link[num + i]
      BY <1>r, <2>1, <2>2
    <3> QED  BY <1>0, <1>2, <2>1, <2>2, <3>1
  <2>4. link[num + i] \in Nat /\ link[num + 1] \in Nat
    BY <1>0, <2>1, <2>2
  <2>5. c.link[i] > s
    BY <1>0, <2>1, <2>3, <2>4
  <2>6. c.link[i] \in Range(b.link)
    BY <1>0, <2>1 DEF Range, link
  <2> QED  BY <2>5, <2>6
<1>9. ASSUME NEW x \in Range(b.link), x > s PROVE x \in Range(c.link)
  <2>1. PICK i \in 1 .. m : link[i] = x
    BY <1>0 DEF Range, link
  <2>2. i > num
    BY <1>0, <1>2, <1>9, <2>1
  <2>3. i - num \in 1 .. m - num /\ num + (i - num) = i
    BY <1>0, <1>2, <2>2
  <2>4. c.link[i - num] = x
    BY <1>5, <2>1, <2>3
  <2> QED  BY <1>5, <2>3, <2>4 DEF Range
<1> QED  BY <1>4, <1>6, <1>7, <1>8, <1>9 DEF Scrapped

\* What Connection::send() does to a buffer that is not broken.
Insertable(b, s) ==
    /\ b \in Buffers /\ Rising(b.link) /\ ~b.broken /\ b.last < MaxSerial
    /\ \A i \in DOMAIN b.link : b.link[i] <= b.last
    /\ s = b.last + 1

Inserted(b, c, s) ==
    /\ c \in Buffers /\ Rising(c.link) /\ ~c.broken /\ c.last = s
    /\ s \in Range(c.link)
    /\ \/ c.scrap = b.scrap /\ Range(c.link) = Range(b.link) \cup {s}
       \/ /\ b.link # <<>> /\ c.scrap = Head(b.link)
          /\ Range(c.link) = (Range(b.link) \ {Head(b.link)}) \cup {s}
          /\ \A x \in Range(c.link) : c.scrap < x

LEMMA InsertFacts ==
    ASSUME NEW b, NEW s, Insertable(b, s), NEW c, c = insertMessage(b, s)
    PROVE  Inserted(b, c, s)
<1> USE DEF Insertable
<1> DEFINE d == MakeRoom(b)
<1>0. /\ b.link \in Seq(Serials) /\ MaxSerial \in Nat /\ b.last \in 0 .. MaxSerial
      /\ Len(b.link) \in Nat /\ DOMAIN b.link = 1 .. Len(b.link)
      /\ s \in Serials /\ s \in Nat
      /\ \A i \in DOMAIN b.link : b.link[i] \in Serials /\ b.link[i] \in Nat /\ b.link[i] < s
  <2>1. b.link \in Seq(Serials) /\ b.last \in 0 .. MaxSerial
    BY DEF Buffers
  <2>2. s \in Nat /\ 1 <= s /\ s <= MaxSerial
    BY <2>1, SerialFacts
  <2> QED  BY <2>1, <2>2, SerialFacts, SerialSeq
<1>1. c = [d EXCEPT !.link = Append(d.link, s), !.last = s]
  BY DEF insertMessage
<1>i. IsInjective(b.link)
  BY <1>0, SerialSeq, RisingLink
<1>2. /\ d \in Buffers /\ ~d.broken /\ Rising(d.link)
      /\ \A i \in DOMAIN d.link : d.link[i] < s /\ d.link[i] \in Nat
      /\ \/ d.scrap = b.scrap /\ d.link = b.link
         \/ /\ b.link # <<>> /\ d.scrap = Head(b.link)
            /\ Range(d.link) = Range(b.link) \ {Head(b.link)}
            /\ \A i \in DOMAIN d.link : d.scrap < d.link[i]
  <2>1. CASE MaxMsgNum > 0 /\ Len(b.link) >= MaxMsgNum
    <3>1. b.link # <<>> /\ Len(b.link) >= 1
      BY <1>0, <2>1, MessageAssumption
    <3>2. d = [b EXCEPT !.scrap = Head(b.link), !.link = Tail(b.link)]
      BY <2>1 DEF MakeRoom
    <3>3. /\ Tail(b.link) \in Seq(Serials) /\ Head(b.link) = b.link[1]
          /\ Len(Tail(b.link)) = Len(b.link) - 1
          /\ \A i \in 1 .. Len(b.link) - 1 : Tail(b.link)[i] = b.link[i + 1] /\ i + 1 \in DOMAIN b.link
      BY <1>0, <3>1
    <3>4. Range(Tail(b.link)) = Range(b.link) \ {Head(b.link)}
      BY <1>0, <1>i, <3>1, TailLink
    <3>5. /\ d.link = Tail(b.link) /\ d.scrap = b.link[1] /\ d.broken = b.broken /\ d.last = b.last
          /\ b.link[1] \in 0 .. MaxSerial
      <4>1. b.link[1] \in Serials
        BY <1>0, <3>1
      <4> QED  BY <3>2, <3>3, <4>1, SerialFacts DEF Buffers
    <3>6. d \in Buffers
      BY <3>2, <3>3, <3>5 DEF Buffers
    <3>7. DOMAIN d.link = 1 .. Len(b.link) - 1
      BY <3>3, <3>5
    <3>8. \A i \in DOMAIN d.link : d.link[i] < s /\ d.link[i] \in Nat
      <4> TAKE i \in DOMAIN d.link
      <4>1. d.link[i] = b.link[i + 1] /\ i + 1 \in DOMAIN b.link
        BY <3>3, <3>5, <3>7
      <4> QED  BY <1>0, <4>1
    <3>9. Rising(d.link)
      <4> SUFFICES ASSUME NEW i \in DOMAIN d.link, NEW j \in DOMAIN d.link, i < j
                   PROVE  d.link[i] < d.link[j]
        BY DEF Rising
      <4>1. /\ d.link[i] = b.link[i + 1] /\ i + 1 \in DOMAIN b.link
            /\ d.link[j] = b.link[j + 1] /\ j + 1 \in DOMAIN b.link
        BY <3>3, <3>5, <3>7
      <4>2. i + 1 < j + 1
        BY <1>0, <3>7
      <4> QED  BY <4>1, <4>2 DEF Rising
    <3>10. \A i \in DOMAIN d.link : d.scrap < d.link[i]
      <4> TAKE i \in DOMAIN d.link
      <4>1. d.link[i] = b.link[i + 1] /\ i + 1 \in DOMAIN b.link
        BY <3>3, <3>5, <3>7
      <4>2. 1 < i + 1 /\ 1 \in DOMAIN b.link
        BY <1>0, <3>1, <3>7
      <4> QED  BY <3>5, <4>1, <4>2 DEF Rising
    <3> QED  BY <3>1, <3>3, <3>4, <3>5, <3>6, <3>8, <3>9, <3>10
  <2>2. CASE ~(MaxMsgNum > 0 /\ Len(b.link) >= MaxMsgNum)
    <3>1. d = b
      BY <2>2 DEF MakeRoom
    <3>2. \A i \in DOMAIN b.link : b.link[i] < s /\ b.link[i] \in Nat
      BY <1>0
    <3> QED  BY <3>1, <3>2
  <2> QED  BY <2>1, <2>2
<1> HIDE DEF d
<1>3. /\ d.link \in Seq(Serials) /\ Len(d.link) \in Nat /\ DOMAIN d.link = 1 .. Len(d.link)
  BY <1>2 DEF Buffers
<1>4. /\ c.link = Append(d.link, s) /\ c.last = s /\ c.scrap = d.scrap /\ c.broken = d.broken
      /\ s \in 0 .. MaxSerial
  <2>1. s \in 0 .. MaxSerial
    BY <1>0, SerialFacts
  <2> QED  BY <1>1, <1>2, <2>1 DEF Buffers
<1>5. /\ c.link \in Seq(Serials) /\ Range(c.link) = Range(d.link) \cup {s}
  <2> DEFINE q == d.link
  <2>1. q \in Seq(Serials) /\ c.link = Append(q, s)
    BY <1>3, <1>4
  <2> HIDE DEF q
  <2>2. Append(q, s) \in Seq(Serials) /\ Range(Append(q, s)) = Range(q) \cup {s}
    BY <1>0, <2>1, AppendLink
  <2> QED  BY <2>1, <2>2 DEF q
<1>6. c \in Buffers
  BY <1>1, <1>2, <1>4, <1>5 DEF Buffers
<1>7. Rising(c.link)
  <2> DEFINE k == Len(d.link)
  <2>1. /\ k \in Nat /\ DOMAIN c.link = 1 .. k + 1 /\ c.link[k + 1] = s
        /\ \A i \in 1 .. k : c.link[i] = d.link[i]
    <3> DEFINE q == d.link
               t == c.link
    <3>1. q \in Seq(Serials) /\ t = Append(q, s) /\ s \in Serials
      BY <1>0, <1>3, <1>4
    <3> HIDE DEF q, t
    <3>2. /\ t \in Seq(Serials) /\ Len(q) \in Nat /\ Len(t) = Len(q) + 1
          /\ t[Len(q) + 1] = s /\ \A j \in 1 .. Len(q) : t[j] = q[j]
      BY <3>1, AppendAt
    <3>3. DOMAIN t = 1 .. Len(q) + 1
      BY <3>2
    <3> QED  BY <3>2, <3>3 DEF q, t
  <2>2. \A i \in 1 .. k : d.link[i] < s
    BY <1>2, <1>3
  <2>3. \A i, j \in 1 .. k : i < j => d.link[i] < d.link[j]
    BY <1>2, <1>3 DEF Rising
  <2> HIDE DEF k
  <2> SUFFICES ASSUME NEW i \in 1 .. k + 1, NEW j \in 1 .. k + 1, i < j
               PROVE  c.link[i] < c.link[j]
    BY <2>1 DEF Rising
  <2>4. i \in 1 .. k /\ (j \in 1 .. k \/ j = k + 1)
    BY <2>1
  <2> QED  BY <2>1, <2>2, <2>3, <2>4
<1>8. \A x \in Range(c.link) : x = s \/ \E i \in DOMAIN d.link : x = d.link[i]
  BY <1>5 DEF Range
<1>9. ASSUME b.link # <<>>, d.scrap = Head(b.link), \A i \in DOMAIN d.link : d.scrap < d.link[i],
             NEW x \in Range(c.link)
      PROVE  c.scrap < x
  <2>1. Head(b.link) = b.link[1] /\ 1 \in DOMAIN b.link
    BY <1>0, <1>9
  <2>2. d.scrap < s
    BY <1>0, <1>9, <2>1
  <2> QED  BY <1>4, <1>8, <1>9, <2>2
<1> QED  BY <1>2, <1>4, <1>5, <1>6, <1>7, <1>9 DEF Inserted

-----------------------------------------------------------------------------
(* resend().                                                               *)

\* q is what resend() has sent after the first i messages of link.
ResentUpTo(q, link, i, low) ==
    /\ q \in Seq(DownMsg) /\ Climbs(q, low)
    /\ \A k \in 1 .. Len(q) : q[k].intact /\ i # 0 /\ q[k].serial <= link[i]
    /\ \A j \in 1 .. i : Holds(q, link[j])

\* r is p and then q.
Joined(r, p, q, S) ==
    /\ r \in Seq(S) /\ Len(p) \in Nat /\ Len(q) \in Nat /\ DOMAIN r = 1 .. Len(p) + Len(q)
    /\ \A k \in 1 .. Len(p) : k \in DOMAIN r /\ r[k] = p[k]
    /\ \A k \in 1 .. Len(q) : Len(p) + k \in DOMAIN r /\ r[Len(p) + k] = q[k]
    /\ \A k \in DOMAIN r : k \in 1 .. Len(p) \/ \E j \in 1 .. Len(q) : k = Len(p) + j

LEMMA ConcatParts ==
    ASSUME NEW S, NEW p \in Seq(S), NEW q \in Seq(S), NEW r, r = p \o q
    PROVE  Joined(r, p, q, S)
<1>1. /\ r \in Seq(S) /\ Len(p) \in Nat /\ Len(q) \in Nat /\ Len(r) = Len(p) + Len(q)
      /\ DOMAIN r = 1 .. Len(p) + Len(q)
  OBVIOUS
<1>2. \A k \in 1 .. Len(p) : k \in DOMAIN r /\ r[k] = p[k]
  OBVIOUS
<1>3. \A k \in 1 .. Len(q) : Len(p) + k \in DOMAIN r /\ r[Len(p) + k] = q[k]
  OBVIOUS
<1>4. ASSUME NEW k \in DOMAIN r, k \notin 1 .. Len(p)
      PROVE  \E j \in 1 .. Len(q) : k = Len(p) + j
  <2>1. k - Len(p) \in 1 .. Len(q) /\ k = Len(p) + (k - Len(p))
    BY <1>1, <1>4
  <2> QED  BY <2>1
<1> QED  BY <1>1, <1>2, <1>3, <1>4 DEF Joined

\* One more message.
LEMMA ResentStep ==
    ASSUME NEW link \in Seq(Serials), Rising(link), NEW low \in Nat,
           \A j \in DOMAIN link : low < link[j],
           NEW i \in 1 .. Len(link), NEW q, ResentUpTo(q, link, i - 1, low)
    PROVE  Again(link, i) \in Seq(DownMsg) /\ ResentUpTo(q \o Again(link, i), link, i, low)
<1> DEFINE a == Again(link, i)
           r == q \o a
           x == link[i]
<1>0. /\ Len(link) \in Nat /\ DOMAIN link = 1 .. Len(link)
      /\ \A j \in 1 .. Len(link) : link[j] \in Nat /\ link[j] \in Serials
  BY SerialSeq
<1>1. i \in Nat /\ i - 1 \in Nat /\ i # 0 /\ x \in Nat /\ low < x /\ x \in Serials /\ x - 1 \in Nat
  <2>1. i \in Nat /\ i - 1 \in Nat /\ i # 0 /\ i \in DOMAIN link
    BY <1>0
  <2>2. x \in Nat /\ x \in Serials /\ low < x
    BY <1>0, <2>1
  <2>3. 1 <= x
    BY <2>2, SerialFacts
  <2> HIDE DEF x
  <2> QED  BY <2>1, <2>2, <2>3
<1>2. ASSUME i > 1
      PROVE  i - 1 \in 1 .. Len(link) /\ link[i - 1] \in Nat /\ link[i - 1] < x /\ low < link[i - 1]
  <2>1. i - 1 \in 1 .. Len(link) /\ i - 1 < i
    BY <1>0, <1>2
  <2> QED  BY <1>0, <2>1 DEF Rising
<1>3. /\ a \in Seq(DownMsg) /\ Len(a) \in {1, 2} /\ a[Len(a)] = Data(x)
      /\ Len(a) = 2 => a[1] = Jump(x - 1) /\ i > 1 /\ link[i - 1] < x - 1
  <2>1. CASE i > 1 /\ x # link[i - 1] + 1
    <3>1. a = <<Jump(x - 1), Data(x)>>
      BY <2>1 DEF Again
    <3>2. Jump(x - 1) \in DownMsg /\ Data(x) \in DownMsg
      BY <1>1 DEF Jump, Data, DownMsg
    <3>3. link[i - 1] < x - 1
      BY <1>1, <1>2, <2>1
    <3> QED  BY <2>1, <3>1, <3>2, <3>3
  <2>2. CASE ~(i > 1 /\ x # link[i - 1] + 1)
    <3>1. a = <<Data(x)>>
      BY <2>2 DEF Again
    <3>2. Data(x) \in DownMsg
      BY <1>1 DEF Data, DownMsg
    <3> QED  BY <3>1, <3>2
  <2> QED  BY <2>1, <2>2
<1>q. /\ q \in Seq(DownMsg) /\ Len(q) \in Nat /\ DOMAIN q = 1 .. Len(q)
      /\ \A k \in 1 .. Len(q) : q[k] \in DownMsg /\ q[k].serial \in Nat
  <2>1. q \in Seq(DownMsg)
    BY DEF ResentUpTo
  <2>2. Len(q) \in Nat /\ DOMAIN q = 1 .. Len(q) /\ \A k \in 1 .. Len(q) : q[k] \in DownMsg
    BY <2>1
  <2>3. \A e \in DownMsg : e.serial \in Nat
    BY DEF DownMsg
  <2> QED  BY <2>1, <2>2, <2>3
<1> DEFINE m == Len(q)
           num == Len(a)
<1> HIDE DEF a, x
<1>4. /\ r \in Seq(DownMsg) /\ m \in Nat /\ num \in Nat /\ DOMAIN r = 1 .. m + num
      /\ \A k \in 1 .. m : k \in DOMAIN r /\ r[k] = q[k]
      /\ \A k \in 1 .. num : m + k \in DOMAIN r /\ r[m + k] = a[k]
      /\ \A k \in DOMAIN r : k \in 1 .. m \/ \E j \in 1 .. num : k = m + j
  <2>1. r = q \o a /\ a \in Seq(DownMsg) /\ q \in Seq(DownMsg)
    BY <1>3, <1>q
  <2> DEFINE S == DownMsg
  <2> HIDE DEF r, S
  <2>2. r = q \o a /\ a \in Seq(S) /\ q \in Seq(S)
    BY <2>1 DEF S
  <2>3. Joined(r, q, a, S)
    BY <2>2, ConcatParts
  <2> QED  BY <2>3 DEF Joined, S
<1>d. Data(x).serial = x /\ Data(x).type = "data" /\ Data(x).intact
      /\ Jump(x - 1).serial = x - 1 /\ Jump(x - 1).intact
  BY DEF Data, Jump
\* The serials of what was sent before are below those of a.
<1>5. \A k \in 1 .. m : /\ q[k].serial < x /\ q[k].intact /\ low < q[k].serial
                        /\ num = 2 => q[k].serial < x - 1
  <2> TAKE k \in 1 .. m
  <2>1. q[k].intact /\ i - 1 # 0 /\ q[k].serial <= link[i - 1] /\ low < q[k].serial
    BY <1>q DEF ResentUpTo, Climbs
  <2>2. i > 1
    BY <1>1, <2>1
  <2> QED  BY <1>1, <1>2, <1>3, <1>q, <2>1, <2>2
<1>6. \A k \in 1 .. num : /\ a[k].intact /\ low < a[k].serial /\ a[k].serial <= x
                        /\ \A j \in 1 .. m : q[j].serial < a[k].serial
  <2> TAKE k \in 1 .. num
  <2>1. CASE k = num
    BY <1>1, <1>3, <1>5, <1>d, <2>1
  <2>2. CASE k # num
    <3>1. num = 2 /\ k = 1
      BY <1>3, <2>2
    <3>2. a[k] = Jump(x - 1) /\ i > 1 /\ link[i - 1] < x - 1
      BY <1>3, <3>1
    <3>3. low < x - 1
      BY <1>1, <1>2, <3>2
    <3> QED  BY <1>1, <1>5, <1>d, <3>1, <3>2, <3>3
  <2> QED  BY <2>1, <2>2
<1>7. \A k \in DOMAIN r : r[k].intact /\ low < r[k].serial /\ r[k].serial <= x
  <2> TAKE k \in DOMAIN r
  <2>1. CASE k \in 1 .. m
    BY <1>1, <1>4, <1>5, <1>q, <2>1
  <2>2. CASE \E j \in 1 .. num : k = m + j
    BY <1>4, <1>6, <2>2
  <2> QED  BY <1>4, <2>1, <2>2
<1>8. ASSUME NEW k \in DOMAIN r, NEW l \in DOMAIN r, k < l
      PROVE  r[k].serial < r[l].serial
  <2>1. CASE l \in 1 .. m
    <3>1. k \in 1 .. m
      BY <1>4, <1>8, <2>1
    <3> QED  BY <1>4, <1>8, <1>q, <2>1, <3>1 DEF ResentUpTo, Climbs
  <2>2. CASE k \in 1 .. m /\ \E j \in 1 .. num : l = m + j
    BY <1>4, <1>6, <2>2
  <2>3. CASE (\E j \in 1 .. num : k = m + j) /\ (\E j \in 1 .. num : l = m + j)
    <3>1. PICK j \in 1 .. num : k = m + j
      BY <2>3
    <3>2. PICK h \in 1 .. num : l = m + h
      BY <2>3
    <3>3. num = 2 /\ j = 1 /\ h = 2
      BY <1>3, <1>4, <1>8, <3>1, <3>2
    <3>4. r[k] = Jump(x - 1) /\ r[l] = Data(x)
      BY <1>3, <1>4, <3>1, <3>2, <3>3
    <3> QED  BY <1>1, <1>d, <3>4
  <2> QED  BY <1>4, <2>1, <2>2, <2>3
<1>9. \A j \in 1 .. i : Holds(r, link[j])
  <2> TAKE j \in 1 .. i
  <2>1. CASE j = i
    <3>1. r[m + num] = Data(x) /\ m + num \in DOMAIN r
      <4>1. num \in 1 .. num
        <5> HIDE DEF num
        <5>1. num = 1 \/ num = 2
          BY <1>3 DEF num
        <5> QED  BY <5>1
      <4> QED  BY <1>3, <1>4, <4>1
    <3>2. link[j] = x
      BY <2>1 DEF x
    <3> QED  BY <1>d, <3>1, <3>2 DEF Holds
  <2>2. CASE j # i
    <3>1. j \in 1 .. i - 1
      BY <1>1, <2>2
    <3>2. PICK k \in DOMAIN q : q[k].type = "data" /\ q[k].serial = link[j]
      BY <3>1 DEF ResentUpTo, Holds
    <3>3. k \in DOMAIN r /\ r[k] = q[k]
      BY <1>4, <1>q, <3>2
    <3> QED  BY <3>2, <3>3 DEF Holds
  <2> QED  BY <2>1, <2>2
<1>10. 1 .. Len(r) = DOMAIN r
  BY <1>4
<1>11. Climbs(r, low)
  BY <1>7, <1>8 DEF Climbs
<1> HIDE DEF r, m, num
<1>12. ResentUpTo(r, link, i, low)
  BY <1>1, <1>4, <1>7, <1>9, <1>10, <1>11 DEF ResentUpTo, x
<1> QED  BY <1>3, <1>12 DEF a, r

\* What is sent again after a reconnection.
LEMMA ResentFacts ==
    ASSUME NEW link \in Seq(Serials), Rising(link), NEW low \in Nat,
           \A j \in DOMAIN link : low < link[j], NEW q, q = Resent(link)
    PROVE  /\ q \in Seq(DownMsg) /\ Climbs(q, low)
           /\ \A k \in DOMAIN q : q[k].intact /\ \E j \in DOMAIN link : q[k].serial <= link[j]
           /\ \A x \in Range(link) : Holds(q, x)
<1> DEFINE num == Len(link)
           S == DownMsg
           sent == CHOOSE sent : sent = [i \in 0 .. num |->
                      IF i = 0 THEN <<>> ELSE sent[i - 1] \o Again(link, i)]
           Step == [i \in 1 .. num |-> [p \in Seq(S) |-> p \o Again(link, i)]]
<1>n. num \in Nat /\ DOMAIN link = 1 .. num
  BY SerialSeq
<1>1. q = sent[num]
  BY DEF Resent
<1>a. \A i \in 1 .. num : Again(link, i) \in Seq(S)
  <2> TAKE i \in 1 .. num
  <2>0. /\ \A j \in 1 .. num : link[j] \in Nat /\ link[j] \in Serials
    BY SerialSeq
  <2>1. link[i] \in Nat /\ link[i] - 1 \in Nat
    BY <2>0, SerialFacts
  <2>2. Data(link[i]) \in S /\ Jump(link[i] - 1) \in S
    BY <2>1 DEF Data, Jump, DownMsg
  <2> HIDE DEF S
  <2> QED  BY <2>2 DEF Again
<1> HIDE DEF num, S
<1>2. \E f : f = [i \in 0 .. num |-> IF i = 0 THEN <<>> ELSE f[i - 1] \o Again(link, i)]
  <2>1. Step \in [1 .. num -> [Seq(S) -> Seq(S)]]
    BY <1>n, <1>a
  <2>2. <<>> \in Seq(S)
    OBVIOUS
  <2>3. \A i \in 1 .. num, p \in Seq(S) : Step[i][p] = p \o Again(link, i)
    OBVIOUS
  <2> HIDE DEF Step
  <2>4. PICK f \in [0 .. num -> Seq(S)] :
           f[0] = <<>> /\ \A i \in 1 .. num : f[i] = Step[i][f[i - 1]]
    <3> DEFINE X == Seq(S)
               base == <<>>
    <3>1. Step \in [1 .. num -> [X -> X]]
      BY <2>1
    <3>2. base \in X
      BY <2>2
    <3>3. num \in Nat
      BY <1>n
    <3> HIDE DEF X, base
    <3>4. \E f \in [0 .. num -> X] : Follows(f, num, base, Step)
      BY <3>1, <3>2, <3>3, RecursiveFunction
    <3> QED  BY <3>4 DEF X, base, Follows
  <2>a. \A i \in 1 .. num : i # 0 /\ i - 1 \in 0 .. num /\ f[i - 1] \in Seq(S)
    BY <1>n, <2>4
  <2>5. \A i \in 1 .. num : f[i] = f[i - 1] \o Again(link, i)
    BY <2>3, <2>4, <2>a
  <2>6. f = [i \in 0 .. num |-> f[i]] /\ \A i \in 0 .. num : i = 0 \/ i \in 1 .. num
    BY <1>n, <2>4
  <2>7. \A i \in 0 .. num : f[i] = IF i = 0 THEN <<>> ELSE f[i - 1] \o Again(link, i)
    BY <2>4, <2>5, <2>6, <2>a
  <2> QED  BY <2>6, <2>7
<1>3. sent = [i \in 0 .. num |-> IF i = 0 THEN <<>> ELSE sent[i - 1] \o Again(link, i)]
  BY <1>2
<1> HIDE DEF sent
<1>4. sent[0] = <<>>
  BY <1>3, <1>n
<1>5. \A i \in 1 .. num : sent[i] = sent[i - 1] \o Again(link, i)
  <2>1. \A i \in 1 .. num : i \in 0 .. num /\ i # 0
    BY <1>n
  <2> QED  BY <1>3, <2>1
<1> DEFINE P == {i \in 0 .. num : ResentUpTo(sent[i], link, i, low)}
<1>6. 0 \in P
  <2>1. ResentUpTo(<<>>, link, 0, low)
    BY DEF ResentUpTo, Climbs
  <2> QED  BY <1>n, <1>4, <2>1
<1>7. ASSUME NEW i \in 1 .. num, i - 1 \in P
      PROVE  i \in P
  <2>1. ResentUpTo(sent[i - 1], link, i - 1, low)
    BY <1>7
  <2>2. i \in 1 .. Len(link) /\ i \in 0 .. num
    BY <1>n DEF num
  <2>3. ResentUpTo(sent[i - 1] \o Again(link, i), link, i, low)
    BY <2>1, <2>2, ResentStep
  <2> QED  BY <1>5, <2>2, <2>3
<1>8. ResentUpTo(q, link, num, low)
  <2>1. num \in P
    <3> HIDE DEF P
    <3>1. \A i \in 0 .. num : i \in P
      BY <1>n, <1>6, <1>7, UpTo
    <3> QED  BY <1>n, <3>1
  <2> QED  BY <1>1, <2>1
<1>9. q \in Seq(DownMsg) /\ DOMAIN q = 1 .. Len(q)
  BY <1>8 DEF ResentUpTo
<1>10. \A k \in DOMAIN q : q[k].intact /\ \E j \in DOMAIN link : q[k].serial <= link[j]
  <2> TAKE k \in DOMAIN q
  <2>1. q[k].intact /\ num # 0 /\ q[k].serial <= link[num]
    BY <1>8, <1>9 DEF ResentUpTo
  <2>2. num \in DOMAIN link
    BY <1>n, <2>1
  <2> QED  BY <2>1, <2>2
<1>11. \A x \in Range(link) : Holds(q, x)
  BY <1>8, <1>n DEF ResentUpTo, Range
<1> QED  BY <1>8, <1>9, <1>10, <1>11 DEF ResentUpTo

-----------------------------------------------------------------------------
(* The actions.                                                            *)

LEMMA TypeFacts ==
    ASSUME MessageTypes
    PROVE  /\ MaxSerial \in Nat /\ lastSendSerial \in Nat /\ lastSendSerial <= MaxSerial
           /\ cRecv \in Nat /\ cRecv <= lastSendSerial
           /\ \A s \in buffered : s \in Nat /\ 1 <= s /\ s <= lastSendSerial
           /\ msgBuffer \in Buffers /\ msgBuffer.link \in Seq(Serials)
           /\ msgBuffer.scrap \in Nat /\ msgBuffer.scrap <= MaxSerial
           /\ conn \in Nat /\ att \in Nat /\ att <= conn
           /\ Len(down) \in Nat /\ DOMAIN down = 1 .. Len(down)
           /\ \A i \in 1 .. Len(down) :
                /\ down[i] \in DownMsg /\ down[i].serial \in Nat
                /\ down[i].type \in {"data", "jump"} /\ down[i].intact \in BOOLEAN
           /\ Len(up) \in Nat /\ DOMAIN up = 1 .. Len(up)
           /\ \A i \in 1 .. Len(up) :
                up[i] \in UpMsg /\ up[i].type \in UpTypes /\ up[i].ack \in Nat /\ up[i].serial \in Nat
           /\ Len(tasks) \in Nat /\ DOMAIN tasks = 1 .. Len(tasks)
           /\ \A i \in 1 .. Len(tasks) :
                /\ tasks[i] \in TaskRec /\ tasks[i].type \in UpTypes /\ tasks[i].ack \in Nat
                /\ tasks[i].conn \in Nat /\ tasks[i].banned \in BOOLEAN
<1>1. /\ MaxSerial \in Nat /\ lastSendSerial \in Nat /\ lastSendSerial <= MaxSerial
      /\ cRecv \in Nat /\ cRecv <= lastSendSerial
      /\ \A s \in buffered : s \in Nat /\ 1 <= s /\ s <= lastSendSerial
      /\ conn \in Nat /\ att \in Nat /\ att <= conn
  BY SerialFacts DEF MessageTypes
<1>2. msgBuffer \in Buffers /\ msgBuffer.link \in Seq(Serials) /\ msgBuffer.scrap \in 0 .. MaxSerial
  BY DEF MessageTypes, Buffers
<1>3. /\ Len(down) \in Nat /\ DOMAIN down = 1 .. Len(down)
      /\ \A i \in 1 .. Len(down) : down[i] \in DownMsg
  BY DEF MessageTypes
<1>4. \A m \in DownMsg : m.serial \in Nat /\ m.type \in {"data", "jump"} /\ m.intact \in BOOLEAN
  BY DEF DownMsg
<1>5. /\ Len(up) \in Nat /\ DOMAIN up = 1 .. Len(up)
      /\ \A i \in 1 .. Len(up) : up[i] \in UpMsg
  BY DEF MessageTypes
<1>6. \A m \in UpMsg : m.type \in UpTypes /\ m.ack \in Nat /\ m.serial \in Nat
  BY DEF UpMsg
<1>7. /\ Len(tasks) \in Nat /\ DOMAIN tasks = 1 .. Len(tasks)
      /\ \A i \in 1 .. Len(tasks) : tasks[i] \in TaskRec
  BY DEF MessageTypes
<1>8. \A m \in TaskRec : m.type \in UpTypes /\ m.ack \in Nat /\ m.conn \in Nat /\ m.banned \in BOOLEAN
  BY DEF TaskRec
<1>9. msgBuffer.scrap \in Nat /\ msgBuffer.scrap <= MaxSerial
  BY <1>1, <1>2
<1> QED  BY <1>1, <1>2, <1>3, <1>4, <1>5, <1>6, <1>7, <1>8, <1>9

\* A full buffer drops its oldest message and knows it.
LEMMA SendBuffer ==
    ASSUME MessageTypes, BufferInv, NEW nb \in BOOLEAN, send(nb)
    PROVE  BufferInv' /\ msgBuffer' \in Buffers
<1> DEFINE s == lastSendSerial + 1
           b == msgBuffer
<1>t. /\ lastSendSerial \in Nat /\ cRecv \in Nat /\ cRecv <= lastSendSerial
      /\ \A x \in buffered : x \in Nat /\ x <= lastSendSerial
      /\ b \in Buffers /\ b.link \in Seq(Serials) /\ b.scrap \in Nat
  BY TypeFacts
<1>u. /\ lastSendSerial < MaxSerial /\ lastSendSerial' = s /\ cRecv' = cRecv
      /\ msgBuffer' = IF nb THEN insertMessage(b, s) ELSE jumpToSerial(b, s)
      /\ buffered' = IF nb THEN buffered \cup {s} ELSE buffered
      /\ dropped' = dropped \cup (Range(b.link) \ Range(msgBuffer'.link))
  BY DEF send, cliVars
<1>b. /\ ~b.broken /\ b.last = lastSendSerial /\ Rising(b.link)
      /\ \A i \in DOMAIN b.link : b.link[i] \in buffered /\ b.scrap < b.link[i]
      /\ \A x \in dropped : x \in buffered /\ x <= b.scrap
      /\ b.scrap <= cRecv \/ b.scrap \in dropped
      /\ \A x \in buffered : x > cRecv => x \in Range(b.link) \cup dropped
  BY DEF BufferInv
<1>c. b.scrap < s /\ s > cRecv /\ s \in Nat
  BY <1>t, <1>b
<1>r. \A x \in Range(b.link) : x \in buffered /\ b.scrap < x /\ x < s
  <2>1. \A x \in Range(b.link) : x \in buffered /\ b.scrap < x
    BY <1>b DEF Range
  <2> QED  BY <1>t, <2>1
<1> HIDE DEF b
<1>1. CASE ~nb
  <2>1. msgBuffer' = [b EXCEPT !.last = s] /\ buffered' = buffered
    BY <1>1, <1>u, <1>b DEF jumpToSerial
  <2>2. /\ msgBuffer'.link = b.link /\ msgBuffer'.last = s /\ msgBuffer'.scrap = b.scrap
        /\ msgBuffer'.broken = b.broken
    BY <1>t, <2>1 DEF Buffers
  <2>3. dropped' = dropped
    BY <1>u, <2>2
  <2>4. BufferInv'
    BY <1>u, <1>b, <2>1, <2>2, <2>3 DEF BufferInv
  <2>5. s \in 0 .. MaxSerial
    BY <1>t, <1>u, SerialFacts
  <2>6. msgBuffer' \in Buffers
    BY <1>t, <2>1, <2>5 DEF Buffers
  <2> QED  BY <2>4, <2>6
<1>2. CASE nb
  <2>1. PICK c : c = insertMessage(b, s)
    OBVIOUS
  <2>2. msgBuffer' = c /\ buffered' = buffered \cup {s}
    BY <1>2, <1>u, <2>1
  <2>3. \A i \in DOMAIN b.link : b.link[i] <= b.last
    BY <1>b, <1>t
  <2>4. /\ c \in Buffers /\ Rising(c.link) /\ ~c.broken /\ c.last = s
        /\ s \in Range(c.link)
        /\ \/ c.scrap = b.scrap /\ Range(c.link) = Range(b.link) \cup {s}
           \/ /\ b.link # <<>> /\ c.scrap = Head(b.link)
              /\ Range(c.link) = (Range(b.link) \ {Head(b.link)}) \cup {s}
              /\ \A x \in Range(c.link) : c.scrap < x
    <3>1. b.last < MaxSerial /\ s = b.last + 1
      BY <1>b, <1>u
    <3> HIDE DEF s
    <3>2. Insertable(b, s)
      BY <1>b, <1>t, <2>3, <3>1 DEF Insertable
    <3>3. Inserted(b, c, s)
      BY <2>1, <3>2, InsertFacts
    <3> QED  BY <3>3 DEF Inserted
  <2>5. \A i \in DOMAIN c.link : c.link[i] \in Range(c.link)
    BY DEF Range
  <2>6. CASE c.scrap = b.scrap /\ Range(c.link) = Range(b.link) \cup {s}
    <3>1. dropped' = dropped
      BY <1>u, <2>2, <2>6
    <3>2. \A x \in Range(c.link) : x \in buffered' /\ c.scrap < x
      BY <1>c, <1>r, <2>2, <2>6
    <3>3. \A x \in dropped' : x \in buffered' /\ x <= c.scrap
      BY <1>b, <2>2, <2>6, <3>1
    <3>4. c.scrap <= cRecv \/ c.scrap \in dropped'
      BY <1>b, <2>6, <3>1
    <3>5. \A x \in buffered' : x > cRecv => x \in Range(c.link) \cup dropped'
      BY <1>b, <2>2, <2>6, <3>1
    <3> QED  BY <1>u, <2>2, <2>4, <2>5, <3>2, <3>3, <3>4, <3>5 DEF BufferInv
  <2>7. CASE /\ b.link # <<>> /\ c.scrap = Head(b.link)
             /\ Range(c.link) = (Range(b.link) \ {Head(b.link)}) \cup {s}
             /\ \A x \in Range(c.link) : c.scrap < x
    <3> DEFINE h == Head(b.link)
    <3>0. h \in Range(b.link)
      BY <1>t, <2>7 DEF Range
    <3>1. dropped' = dropped \cup {h}
      <4>1. h # s
        BY <1>r, <1>c, <1>t, <3>0
      <4> HIDE DEF h
      <4> QED  BY <1>u, <2>2, <2>7, <3>0, <4>1 DEF h
    <3>2. \A x \in Range(c.link) : x \in buffered' /\ c.scrap < x
      BY <1>r, <2>2, <2>7
    <3>3. \A x \in dropped' : x \in buffered' /\ x <= c.scrap
      <4>1. h \in buffered /\ b.scrap < h /\ h \in Nat /\ c.scrap = h
        BY <1>r, <1>t, <2>7, <3>0
      <4> HIDE DEF h
      <4>2. \A x \in dropped : x \in buffered /\ x \in Nat /\ x <= b.scrap
        BY <1>b, <1>t
      <4>3. \A x \in dropped : x <= h
        BY <1>t, <4>1, <4>2
      <4> QED  BY <2>2, <3>1, <4>1, <4>2, <4>3
    <3>4. c.scrap <= cRecv \/ c.scrap \in dropped'
      BY <2>7, <3>1
    <3>5. \A x \in buffered' : x > cRecv => x \in Range(c.link) \cup dropped'
      BY <1>b, <2>2, <2>7, <3>1
    <3> QED  BY <1>u, <2>2, <2>4, <2>5, <3>2, <3>3, <3>4, <3>5 DEF BufferInv
  <2> QED  BY <2>4, <2>6, <2>7
<1> QED  BY <1>1, <1>2

\* A new message comes after all that is under way.
LEMMA SendDown ==
    ASSUME MessageTypes, DownInv, NEW nb \in BOOLEAN, send(nb)
    PROVE  DownInv' /\ down' \in Seq(DownMsg)
<1> DEFINE s == lastSendSerial + 1
<1>t. /\ lastSendSerial \in Nat /\ cRecv \in Nat /\ cRecv <= lastSendSerial
      /\ \A x \in buffered : x \in Nat /\ x <= lastSendSerial
      /\ down \in Seq(DownMsg) /\ Len(down) \in Nat /\ DOMAIN down = 1 .. Len(down)
      /\ \A i \in DOMAIN down : down[i].serial \in Nat
  BY TypeFacts DEF MessageTypes
<1>u. /\ lastSendSerial' = s
      /\ UNCHANGED <<cRecv, alive, att, conn, closed, spoiled>>
      /\ buffered' \in {buffered, buffered \cup {s}}
      /\ down' = IF alive /\ att = conn /\ att \notin closed THEN down \o <<Data(s)>> ELSE down
  BY DEF send, cliVars, Transmit
<1>d. /\ \A i \in DOMAIN down : cRecv < down[i].serial
      /\ \A i, j \in DOMAIN down : i < j => down[i].serial < down[j].serial
      /\ \A i \in DOMAIN down :
          /\ down[i].serial <= lastSendSerial
          /\ ~down[i].intact => down[i].serial \in spoiled
      /\ \A x \in buffered, i \in DOMAIN down :
          cRecv < x /\ x <= down[i].serial => Holds(down, x)
      /\ alive /\ att = conn /\ att \notin closed =>
          \A x \in buffered : cRecv < x => Holds(down, x)
  BY DEF DownInv, Climbs
<1>s. s \in Nat /\ \A i \in DOMAIN down : down[i].serial < s /\ down[i].serial <= s
  BY <1>t, <1>d
<1>1. CASE ~(alive /\ att = conn /\ att \notin closed)
  <2>1. down' = down
    BY <1>1, <1>u
  <2>2. \A x \in buffered', i \in DOMAIN down : x <= down[i].serial => x \in buffered
    BY <1>u, <1>s, <1>t
  <2>3. Climbs(down, cRecv)'
    BY <1>d, <1>u, <2>1 DEF Climbs
  <2>4. \A i \in DOMAIN down : down[i].serial <= lastSendSerial'
    BY <1>u, <1>s
  <2>5. \A x \in buffered', i \in DOMAIN down :
           cRecv < x /\ x <= down[i].serial => Holds(down, x)
    BY <1>d, <2>2
  <2> QED  BY <1>1, <1>t, <1>d, <1>u, <2>1, <2>3, <2>4, <2>5 DEF DownInv, Holds
<1>2. CASE alive /\ att = conn /\ att \notin closed
  <2> DEFINE num == Len(down)
             e == Data(s)
  <2>0. e \in DownMsg /\ e.type = "data" /\ e.serial = s /\ e.intact
    BY <1>s DEF Data, DownMsg
  <2>1. down' = down \o <<e>>
    BY <1>2, <1>u
  <2> HIDE DEF e
  <2>2. /\ down' \in Seq(DownMsg) /\ Len(down') = num + 1 /\ DOMAIN down' = 1 .. num + 1
        /\ down'[num + 1] = e /\ \A i \in 1 .. num : down'[i] = down[i]
    BY <1>t, <2>0, <2>1
  <2>3. \A i \in DOMAIN down' : (i \in DOMAIN down /\ down'[i] = down[i]) \/ (i = num + 1 /\ down'[i] = e)
    BY <1>t, <2>2
  <2>4. \A i \in DOMAIN down' : /\ cRecv < down'[i].serial /\ down'[i].serial <= s
                                /\ ~down'[i].intact => down'[i].serial \in spoiled
    BY <1>t, <1>d, <1>s, <2>0, <2>3
  <2>5. ASSUME NEW i \in DOMAIN down', NEW j \in DOMAIN down', i < j
        PROVE  down'[i].serial < down'[j].serial
    <3>1. i \in DOMAIN down /\ down'[i] = down[i]
      BY <1>t, <2>2, <2>3, <2>5
    <3> QED  BY <1>d, <1>s, <2>0, <2>3, <2>5, <3>1
  <2>6. \A x \in buffered' : cRecv < x => \E j \in DOMAIN down' : down'[j].type = "data" /\ down'[j].serial = x
    <3> TAKE x \in buffered'
    <3> HAVE cRecv < x
    <3>1. CASE x \in buffered
      <4>1. PICK j \in DOMAIN down : down[j].type = "data" /\ down[j].serial = x
        BY <1>2, <1>d, <3>1 DEF Holds
      <4>2. j \in DOMAIN down' /\ down'[j] = down[j]
        BY <1>t, <2>2
      <4> QED  BY <4>1, <4>2
    <3>2. CASE x = s
      <4>1. num + 1 \in DOMAIN down'
        BY <1>t, <2>2
      <4> QED  BY <2>0, <2>2, <3>2, <4>1
    <3> QED  BY <1>u, <3>1, <3>2
  <2>7. Climbs(down, cRecv)'
    BY <1>u, <2>4, <2>5 DEF Climbs
  <2>8. \A x \in buffered' : cRecv' < x => Holds(down, x)'
    BY <1>u, <2>6 DEF Holds
  <2> QED  BY <1>u, <2>2, <2>4, <2>7, <2>8 DEF DownInv, Holds
<1> QED  BY <1>1, <1>2

LEMMA SendStep ==
    ASSUME MessageInv, NEW nb \in BOOLEAN, send(nb)
    PROVE  MessageInv'
<1> DEFINE s == lastSendSerial + 1
<1> USE DEF MessageInv
<1>1. BufferInv' /\ msgBuffer' \in Buffers
  BY SendBuffer
<1>2. DownInv' /\ down' \in Seq(DownMsg)
  BY SendDown
<1>t. /\ lastSendSerial \in Nat /\ MaxSerial \in Nat /\ cRecv \in Nat /\ cRecv <= lastSendSerial
      /\ \A x \in buffered : x \in Nat /\ 1 <= x /\ x <= lastSendSerial
  BY TypeFacts
<1>u. /\ lastSendSerial < MaxSerial /\ lastSendSerial' = s
      /\ UNCHANGED <<cRecv, att, conn, closed, spoiled, up, tasks, srvRecv, cSent, cQueue, got>>
      /\ buffered' \in {buffered, buffered \cup {s}}
      /\ att # conn => down' = down
  BY DEF send, cliVars, wrkVars, Transmit
<1>3. MessageTypes'
  <2>1. lastSendSerial' \in 0 .. MaxSerial /\ buffered' \subseteq 1 .. lastSendSerial' /\ cRecv' \in 0 .. lastSendSerial'
    BY <1>t, <1>u
  <2> QED  BY <1>1, <1>2, <1>u, <2>1 DEF MessageTypes, Buffers
<1>4. AckInv'
  BY <1>u DEF AckInv
<1>5. GotInv'
  <2>1. \A x \in buffered' : x <= cRecv => x \in buffered
    BY <1>t, <1>u
  <2> QED  BY <1>u, <2>1 DEF GotInv, Rising
<1> QED  BY <1>1, <1>2, <1>3, <1>4, <1>5

\* Steps that leave the messages where they are.
LEMMA QuietStep ==
    ASSUME MessageInv, srvRecv' \in Nat, cSent' \in Nat,
           cQueue' \in Seq([type : UpTypes, serial : Nat]),
           UNCHANGED <<lastSendSerial, buffered, msgBuffer, dropped, conn, att, cRecv, down,
                       up, tasks, got, spoiled>>,
           alive' => alive, closed \subseteq closed'
    PROVE  MessageInv'
<1> USE DEF MessageInv
<1>1. MessageTypes'
  BY DEF MessageTypes
<1>2. BufferInv'
  BY DEF BufferInv, Rising
<1>3. DownInv'
  <2>1. alive' /\ att' = conn' /\ att' \notin closed' => alive /\ att = conn /\ att \notin closed
    OBVIOUS
  <2> QED  BY <2>1 DEF DownInv, Climbs, Holds
<1>4. AckInv'
  BY DEF AckInv
<1>5. GotInv'
  BY DEF GotInv, Rising
<1> QED  BY <1>1, <1>2, <1>3, <1>4, <1>5

LEMMA BanStep == ASSUME MessageInv, setBanMessages PROVE MessageInv'
<1>1. srvRecv \in Nat /\ cSent \in Nat /\ cQueue \in Seq([type : UpTypes, serial : Nat])
  BY DEF MessageInv, MessageTypes
<1> QED  BY <1>1, QuietStep DEF setBanMessages, srvVars, netVars, cliVars

LEMMA ServerCloseStep == ASSUME MessageInv, ServerClose PROVE MessageInv'
<1>1. srvRecv \in Nat /\ cSent \in Nat /\ cQueue \in Seq([type : UpTypes, serial : Nat])
  BY DEF MessageInv, MessageTypes
<1> QED  BY <1>1, QuietStep DEF ServerClose, wrkVars, netVars, cliVars

LEMMA HeartbeatStep == ASSUME MessageInv, Heartbeat PROVE MessageInv'
<1> DEFINE Q == [type : UpTypes, serial : Nat]
           e == [type |-> "heartbeat", serial |-> 0]
<1>1. srvRecv \in Nat /\ cSent \in Nat /\ cQueue \in Seq(Q)
  BY DEF MessageInv, MessageTypes
<1>2. e \in Q /\ cQueue' = Append(cQueue, e)
  BY DEF Heartbeat, UpTypes
<1>3. cQueue' \in Seq(Q)
  <2> HIDE DEF Q, e
  <2> QED  BY <1>1, <1>2
<1> QED  BY <1>1, <1>3, QuietStep DEF Heartbeat, srvVars, wrkVars, netVars

LEMMA ClientSendStep ==
    ASSUME MessageInv, NEW type \in Requests, ClientSend(type)
    PROVE  MessageInv'
<1> DEFINE Q == [type : UpTypes, serial : Nat]
           e == [type |-> type, serial |-> cSent + 1]
<1>1. srvRecv \in Nat /\ cSent \in Nat /\ cQueue \in Seq(Q)
  BY DEF MessageInv, MessageTypes
<1>2. e \in Q /\ cQueue' = Append(cQueue, e) /\ cSent' \in Nat
  BY <1>1 DEF ClientSend, UpTypes
<1>3. cQueue' \in Seq(Q)
  <2> HIDE DEF Q, e
  <2> QED  BY <1>1, <1>2
<1> QED  BY <1>1, <1>2, <1>3, QuietStep DEF ClientSend, srvVars, wrkVars, netVars

\* A new connection: nothing is under way, and nothing on it is answered.
LEMMA ConnectStep == ASSUME MessageInv, connect PROVE MessageInv'
<1> USE DEF MessageInv
<1>t. /\ conn \in Nat /\ att \in Nat /\ att <= conn /\ cRecv \in Nat
      /\ \A i \in DOMAIN tasks : tasks[i].conn \in Nat
  BY TypeFacts
<1>u. /\ conn' = conn + 1 /\ down' = <<>> /\ up' = <<>> /\ srvRecv' = 0 /\ cSent' = 1
      /\ cQueue' = <<[type |-> "login", serial |-> 1]>>
      /\ UNCHANGED <<lastSendSerial, buffered, msgBuffer, dropped, att, cRecv, tasks, got, spoiled, closed>>
  BY DEF connect, srvVars
<1>1. MessageTypes'
  <2>1. [type |-> "login", serial |-> 1] \in [type : UpTypes, serial : Nat]
    BY DEF UpTypes
  <2>2. cQueue' \in Seq([type : UpTypes, serial : Nat])
    BY <1>u, <2>1
  <2>3. att' \in 0 .. conn' /\ conn' \in Nat
    BY <1>t, <1>u
  <2> QED  BY <1>u, <2>2, <2>3 DEF MessageTypes
<1>2. BufferInv'
  BY <1>u DEF BufferInv, Rising
<1>3. DownInv'
  <2>1. att' # conn'
    BY <1>t, <1>u
  <2> QED  BY <1>u, <2>1 DEF DownInv, Climbs
<1>4. AckInv'
  <2>1. \A i \in DOMAIN tasks : tasks[i].ack <= cRecv /\ tasks[i].conn <= conn
    BY DEF AckInv
  <2>2. \A i \in DOMAIN tasks : tasks[i].conn <= conn + 1 /\ tasks[i].conn # conn + 1
    BY <1>t, <2>1
  <2> QED  BY <1>u, <2>1, <2>2 DEF AckInv
<1>5. GotInv'
  BY <1>u DEF GotInv, Rising
<1> QED  BY <1>1, <1>2, <1>3, <1>4, <1>5

\* What the sender of the client encodes acknowledges what was received.
LEMMA EncodeStep == ASSUME MessageInv, encode PROVE MessageInv'
<1> USE DEF MessageInv
<1> DEFINE Q == [type : UpTypes, serial : Nat]
           e == [type |-> Head(cQueue).type, serial |-> Head(cQueue).serial, ack |-> cRecv, intact |-> TRUE]
<1>t. cQueue \in Seq(Q) /\ cQueue # <<>> /\ cRecv \in Nat /\ up \in Seq(UpMsg)
      /\ Len(up) \in Nat /\ DOMAIN up = 1 .. Len(up)
  BY TypeFacts DEF encode, MessageTypes
<1>q. Head(cQueue) \in Q /\ Tail(cQueue) \in Seq(Q)
  <2> HIDE DEF Q
  <2> QED  BY <1>t
<1>e. e \in UpMsg /\ e.ack = cRecv
  BY <1>q, <1>t DEF UpMsg
<1>u. /\ up' \in {up, Append(up, e)} /\ cQueue' = Tail(cQueue)
      /\ UNCHANGED <<lastSendSerial, buffered, msgBuffer, dropped, conn, att, cRecv, down,
                     tasks, got, spoiled, alive, closed, srvRecv, cSent>>
  BY DEF encode, srvVars, wrkVars
<1> HIDE DEF e, Q
<1>1. /\ up' \in Seq(UpMsg)
      /\ \A i \in DOMAIN up' : up'[i].ack = cRecv \/ \E j \in DOMAIN up : up'[i] = up[j]
  <2>1. CASE up' = up
    BY <1>t, <2>1
  <2>2. CASE up' = Append(up, e)
    <3>1. /\ up' \in Seq(UpMsg) /\ Len(up') = Len(up) + 1 /\ up'[Len(up) + 1] = e
          /\ \A k \in 1 .. Len(up) : up'[k] = up[k]
      BY <1>t, <1>e, <2>2, AppendAt
    <3>2. DOMAIN up' = 1 .. Len(up) + 1
      BY <3>1
    <3>3. \A i \in DOMAIN up' : i \in DOMAIN up \/ i = Len(up) + 1
      BY <1>t, <3>2
    <3> QED  BY <1>t, <1>e, <3>1, <3>3
  <2> QED  BY <1>u, <2>1, <2>2
<1>2. MessageTypes'
  BY <1>1, <1>q, <1>u DEF MessageTypes, Q
<1>3. BufferInv' /\ GotInv'
  BY <1>u DEF BufferInv, GotInv, Rising
<1>4. DownInv'
  BY <1>u DEF DownInv, Climbs, Holds
<1>5. AckInv'
  BY <1>1, <1>u, <1>t DEF AckInv
<1> QED  BY <1>2, <1>3, <1>4, <1>5

\* Less is under way, or something of it is spoiled.
LEMMA LessUnderWay ==
    ASSUME MessageInv, ~alive', up' \in Seq(UpMsg),
           NEW num \in 0 .. Len(down), down' = SubSeq(down, 1, num),
           NEW l \in 0 .. Len(up), up' = SubSeq(up, 1, l),
           UNCHANGED <<lastSendSerial, buffered, msgBuffer, dropped, conn, att, cRecv,
                       tasks, got, spoiled, closed, srvRecv, cSent, cQueue>>
    PROVE  MessageInv'
<1> USE DEF MessageInv
<1>t. /\ down \in Seq(DownMsg) /\ Len(down) \in Nat /\ DOMAIN down = 1 .. Len(down)
      /\ \A i \in 1 .. Len(down) : down[i].serial \in Nat
      /\ up \in Seq(UpMsg) /\ Len(up) \in Nat /\ DOMAIN up = 1 .. Len(up)
      /\ \A x \in buffered : x \in Nat
  BY TypeFacts DEF MessageTypes
<1>d. /\ down' \in Seq(DownMsg) /\ DOMAIN down' = 1 .. num
      /\ \A i \in 1 .. num : down'[i] = down[i] /\ i \in DOMAIN down
  BY <1>t
<1>p. /\ DOMAIN up' = 1 .. l /\ \A i \in 1 .. l : up'[i] = up[i] /\ i \in DOMAIN up
  BY <1>t
<1>1. MessageTypes'
  BY <1>d DEF MessageTypes
<1>2. BufferInv' /\ GotInv'
  BY DEF BufferInv, GotInv, Rising
<1>3. Climbs(down, cRecv)'
  BY <1>d DEF DownInv, Climbs
<1>4. \A i \in DOMAIN down' :
          /\ down'[i].serial <= lastSendSerial
          /\ ~down'[i].intact => down'[i].serial \in spoiled
  BY <1>d DEF DownInv
<1>5. ASSUME NEW x \in buffered, NEW i \in DOMAIN down', cRecv < x, x <= down'[i].serial
      PROVE  \E j \in DOMAIN down' : down'[j].type = "data" /\ down'[j].serial = x
  <2>1. i \in 1 .. num /\ i \in DOMAIN down /\ x <= down[i].serial
    BY <1>5, <1>d
  <2>2. PICK j \in DOMAIN down : down[j].type = "data" /\ down[j].serial = x
    BY <1>5, <2>1 DEF DownInv, Holds
  <2>3. ~(i < j)
    <3> SUFFICES ASSUME i < j PROVE FALSE
      OBVIOUS
    <3>1. down[i].serial < down[j].serial
      BY <2>1, <2>2 DEF DownInv, Climbs
    <3> QED  BY <1>t, <2>1, <2>2, <3>1
  <2>4. j \in 1 .. num
    BY <1>t, <2>1, <2>2, <2>3
  <2> QED  BY <1>d, <2>2, <2>4
<1>6. DownInv'
  BY <1>3, <1>4, <1>5 DEF DownInv, Holds
<1>7. AckInv'
  <2>1. ASSUME att # conn PROVE down' = <<>>
    <3>1. down = <<>>
      BY <2>1 DEF AckInv
    <3> QED  BY <3>1
  <2> QED  BY <1>p, <2>1 DEF AckInv
<1> QED  BY <1>1, <1>2, <1>6, <1>7

LEMMA ClientCloseStep == ASSUME MessageInv, ClientClose PROVE MessageInv'
<1>t. down \in Seq(DownMsg) /\ up \in Seq(UpMsg)
  BY DEF MessageInv, MessageTypes
<1>1. 0 \in 0 .. Len(down) /\ Len(up) \in 0 .. Len(up)
  BY <1>t
<1>2. <<>> = SubSeq(down, 1, 0) /\ up = SubSeq(up, 1, Len(up))
  BY <1>t
<1>u. /\ ~alive' /\ down' = <<>> /\ up' = up
      /\ UNCHANGED <<lastSendSerial, buffered, msgBuffer, dropped, conn, att, cRecv,
                     tasks, got, spoiled, closed, srvRecv, cSent, cQueue>>
  BY DEF ClientClose, srvVars, wrkVars
<1> QED  BY <1>t, <1>1, <1>2, <1>u, LessUnderWay

LEMMA BreakStep == ASSUME MessageInv, Break PROVE MessageInv'
<1>1. PICK i \in 0 .. Len(down), j \in 0 .. Len(up) :
         down' = SubSeq(down, 1, i) /\ up' = SubSeq(up, 1, j)
  BY DEF Break
<1>2. SubSeq(up, 1, j) \in Seq(UpMsg)
  BY DEF MessageInv, MessageTypes
<1>u. /\ ~alive'
      /\ UNCHANGED <<lastSendSerial, buffered, msgBuffer, dropped, conn, att, cRecv,
                     tasks, got, spoiled, closed, srvRecv, cSent, cQueue>>
  BY DEF Break, srvVars, wrkVars, cliVars
<1> QED  BY <1>1, <1>2, <1>u, LessUnderWay

LEMMA CorruptStep == ASSUME MessageInv, Corrupt PROVE MessageInv'
<1> USE DEF MessageInv
<1>t. down \in Seq(DownMsg) /\ DOMAIN down = 1 .. Len(down) /\ Len(down) \in Nat
      /\ \A k \in DOMAIN down : down[k] \in DownMsg
  BY TypeFacts DEF MessageTypes
<1>1. PICK i \in DOMAIN down :
          /\ down[i].type = "data"
          /\ down' = [down EXCEPT ![i].intact = FALSE]
          /\ spoiled' = spoiled \cup {down[i].serial}
  BY DEF Corrupt
<1>u. UNCHANGED <<lastSendSerial, buffered, msgBuffer, dropped, conn, att, cRecv, alive, up,
                     tasks, got, closed, srvRecv, cSent, cQueue>>
  BY DEF Corrupt, srvVars, wrkVars, cliVars
<1> DEFINE e == [down[i] EXCEPT !.intact = FALSE]
<1>e. e \in DownMsg /\ e.type = down[i].type /\ e.serial = down[i].serial
  BY <1>t DEF DownMsg
<1>2. /\ down' \in Seq(DownMsg) /\ DOMAIN down' = DOMAIN down
      /\ down'[i] = e /\ \A k \in DOMAIN down : k # i => down'[k] = down[k]
  <2>1. down' = [down EXCEPT ![i] = e]
    BY <1>1
  <2> HIDE DEF e
  <2> QED  BY <1>t, <1>e, <2>1
<1>3. \A k \in DOMAIN down : down'[k].type = down[k].type /\ down'[k].serial = down[k].serial
  BY <1>e, <1>2
<1>4. \A k \in DOMAIN down : ~down'[k].intact => down'[k].serial \in spoiled'
  <2> TAKE k \in DOMAIN down
  <2>1. CASE k = i
    <3>1. down[i].serial \in spoiled'
      BY <1>1
    <3>2. down'[k].serial = down[i].serial
      BY <1>3, <2>1
    <3> QED  BY <3>1, <3>2
  <2>2. CASE k # i
    BY <1>1, <1>2, <2>2 DEF DownInv
  <2> QED  BY <2>1, <2>2
<1>5. \A x : Holds(down, x) => \E j \in DOMAIN down' : down'[j].type = "data" /\ down'[j].serial = x
  BY <1>2, <1>3 DEF Holds
<1>6. MessageTypes'
  BY <1>u, <1>2 DEF MessageTypes
<1>7. BufferInv' /\ GotInv'
  BY <1>u, <1>1 DEF BufferInv, GotInv, Rising
<1>8. DownInv'
  <2>1. Climbs(down, cRecv)'
    BY <1>u, <1>2, <1>3 DEF DownInv, Climbs
  <2>2. \A k \in DOMAIN down' :
          /\ down'[k].serial <= lastSendSerial'
          /\ ~down'[k].intact => down'[k].serial \in spoiled'
    BY <1>u, <1>2, <1>3, <1>4 DEF DownInv
  <2>3. \A x \in buffered', k \in DOMAIN down' :
          cRecv' < x /\ x <= down'[k].serial => Holds(down, x)'
    <3> TAKE x \in buffered', k \in DOMAIN down'
    <3> HAVE cRecv' < x /\ x <= down'[k].serial
    <3>1. Holds(down, x)
      BY <1>u, <1>2, <1>3 DEF DownInv
    <3> QED  BY <1>5, <3>1 DEF Holds
  <2>4. alive' /\ att' = conn' /\ att' \notin closed' =>
          \A x \in buffered' : cRecv' < x => Holds(down, x)'
    <3> SUFFICES ASSUME alive' /\ att' = conn' /\ att' \notin closed',
                        NEW x \in buffered', cRecv' < x
                 PROVE  Holds(down, x)'
      OBVIOUS
    <3>1. Holds(down, x)
      BY <1>u DEF DownInv
    <3> QED  BY <1>5, <3>1 DEF Holds
  <2> QED  BY <2>1, <2>2, <2>3, <2>4 DEF DownInv
<1>9. AckInv'
  <2>1. ASSUME att # conn PROVE FALSE
    <3>1. down = <<>>
      BY <2>1 DEF AckInv
    <3> QED  BY <3>1, <1>1
  <2> QED  BY <1>u, <2>1 DEF AckInv
<1> QED  BY <1>6, <1>7, <1>8, <1>9

\* The server receives what the client acknowledged, and passes it on.
LEMMA ServerReceiveStep == ASSUME MessageInv, ServerReceive PROVE MessageInv'
<1> USE DEF MessageInv
<1> DEFINE m == Head(up)
           d == decode(srvRecv, m)
           e == Task(m)
<1>t. /\ up \in Seq(UpMsg) /\ up # <<>> /\ Len(up) \in Nat /\ DOMAIN up = 1 .. Len(up)
      /\ tasks \in Seq(TaskRec) /\ Len(tasks) \in Nat /\ DOMAIN tasks = 1 .. Len(tasks)
      /\ srvRecv \in Nat /\ conn \in Nat
  BY TypeFacts DEF MessageTypes, ServerReceive
<1>m. /\ m \in UpMsg /\ m = up[1] /\ 1 \in DOMAIN up
  BY <1>t
<1>f. m.type \in UpTypes /\ m.ack \in Nat /\ m.serial \in Nat
  BY <1>m DEF UpMsg
<1>u. /\ srvRecv' = d.recv /\ tasks' \in {tasks, Append(tasks, e)}
      /\ up' = Tail(up) /\ closed \subseteq closed'
      /\ UNCHANGED <<lastSendSerial, buffered, msgBuffer, dropped, conn, att, cRecv, alive, down,
                     got, spoiled, cSent, cQueue>>
  BY DEF ServerReceive, cliVars
<1>r. d.recv \in Nat
  <2>1. m.type # "jump"
    BY <1>f DEF UpTypes, Requests
  <2>2. d \in {[recv |-> srvRecv, verdict |-> "task"], [recv |-> srvRecv + 1, verdict |-> "serial"],
               [recv |-> srvRecv + 1, verdict |-> IF m.intact THEN "task" ELSE "crc"]}
    <3>1. CASE m.type = "heartbeat"
      BY <3>1 DEF decode
    <3>2. CASE m.type \notin {"heartbeat", "jump"} /\ m.serial # srvRecv + 1
      BY <3>2 DEF decode
    <3>3. CASE m.type \notin {"heartbeat", "jump"} /\ m.serial = srvRecv + 1
      BY <3>3 DEF decode
    <3> QED  BY <2>1, <3>1, <3>2, <3>3
  <2> HIDE DEF d
  <2> QED  BY <1>t, <2>2
<1>e. e \in TaskRec /\ e.ack = m.ack /\ e.conn = conn
  <2>1. (m.type = "ask" /\ ban) \in BOOLEAN
    OBVIOUS
  <2> QED  BY <1>f, <1>t, <2>1 DEF Task, TaskRec
<1>p. /\ up' \in Seq(UpMsg)
      /\ \A i \in DOMAIN up' : \E j \in DOMAIN up : up'[i] = up[j]
  <2>1. /\ Tail(up) \in Seq(UpMsg) /\ DOMAIN Tail(up) = 1 .. Len(up) - 1
        /\ \A i \in 1 .. Len(up) - 1 : Tail(up)[i] = up[i + 1]
    BY <1>t
  <2>2. \A i \in 1 .. Len(up) - 1 : i + 1 \in DOMAIN up
    BY <1>t
  <2> QED  BY <1>u, <2>1, <2>2
<1> HIDE DEF m, d, e
<1>k. /\ tasks' \in Seq(TaskRec)
      /\ \A i \in DOMAIN tasks' : tasks'[i] = e \/ \E j \in DOMAIN tasks : tasks'[i] = tasks[j]
  <2>1. CASE tasks' = tasks
    BY <1>t, <2>1
  <2>2. CASE tasks' = Append(tasks, e)
    <3>1. /\ tasks' \in Seq(TaskRec) /\ Len(tasks') = Len(tasks) + 1 /\ tasks'[Len(tasks) + 1] = e
          /\ \A k \in 1 .. Len(tasks) : tasks'[k] = tasks[k]
      BY <1>t, <1>e, <2>2, AppendAt
    <3>2. DOMAIN tasks' = 1 .. Len(tasks) + 1
      BY <3>1
    <3>3. \A i \in DOMAIN tasks' : i \in DOMAIN tasks \/ i = Len(tasks) + 1
      BY <1>t, <3>2
    <3> QED  BY <1>t, <3>1, <3>3
  <2> QED  BY <1>u, <2>1, <2>2
<1>1. MessageTypes'
  BY <1>u, <1>r, <1>p, <1>k DEF MessageTypes
<1>2. BufferInv' /\ GotInv'
  BY <1>u DEF BufferInv, GotInv, Rising
<1>3. DownInv'
  <2>1. alive' /\ att' = conn' /\ att' \notin closed' => alive /\ att = conn /\ att \notin closed
    BY <1>u
  <2> QED  BY <1>u, <2>1 DEF DownInv, Climbs, Holds
<1>4. AckInv'
  <2>1. e.ack <= cRecv /\ e.conn <= conn /\ (att # conn => e.ack = cRecv)
    BY <1>e, <1>m, <1>t DEF AckInv
  <2> QED  BY <1>u, <1>p, <1>k, <2>1 DEF AckInv
<1> QED  BY <1>1, <1>2, <1>3, <1>4

\* doTask() for a connection the session is or was attached to: whatever the
\* client acknowledged, however late, may go.
LEMMA ScrapStep ==
    ASSUME MessageInv, NEW ack \in Nat, ack <= cRecv, NEW c, c = scrapMessages(msgBuffer, ack)
    PROVE  /\ c \in Buffers /\ ~c.broken /\ c.last = lastSendSerial /\ Rising(c.link)
           /\ \A i \in DOMAIN c.link : c.link[i] \in buffered /\ c.scrap < c.link[i] /\ ack < c.link[i]
           /\ \A s \in dropped : s \in buffered /\ s <= c.scrap
           /\ c.scrap <= cRecv \/ c.scrap \in dropped
           /\ \A s \in buffered : s > cRecv => s \in Range(c.link) \cup dropped
<1> USE DEF MessageInv
<1>0. PICK B : B = msgBuffer
  OBVIOUS
<1>t. /\ MaxSerial \in Nat /\ lastSendSerial \in Nat /\ lastSendSerial <= MaxSerial
      /\ cRecv \in Nat /\ cRecv <= lastSendSerial
      /\ \A s \in buffered : s \in Nat /\ s <= lastSendSerial
      /\ B \in Buffers /\ B.scrap \in Nat
  BY <1>0, TypeFacts
<1>b. /\ ~B.broken /\ B.last = lastSendSerial /\ Rising(B.link)
      /\ \A i \in DOMAIN B.link : B.link[i] \in buffered /\ B.scrap < B.link[i]
      /\ \A x \in dropped : x \in buffered /\ x <= B.scrap
      /\ B.scrap <= cRecv \/ B.scrap \in dropped
      /\ \A x \in buffered : x > cRecv => x \in Range(B.link) \cup dropped
  BY <1>0 DEF BufferInv
<1>a. ack \in 0 .. MaxSerial
  BY <1>t
<1>1. /\ c \in Buffers /\ Rising(c.link)
      /\ c.last = B.last /\ c.broken = B.broken
      /\ c.scrap = IF B.scrap < ack THEN ack ELSE B.scrap
      /\ \A i \in DOMAIN c.link : c.link[i] > ack /\ c.link[i] \in Range(B.link)
      /\ \A x \in Range(B.link) : x > ack => x \in Range(c.link)
  <2>1. Scrapped(B, c, ack)
    BY <1>0, <1>t, <1>b, <1>a, ScrapFacts
  <2> QED  BY <2>1 DEF Scrapped
<1>2. \A x \in Range(B.link) : x \in buffered /\ B.scrap < x
  BY <1>b DEF Range
<1>3. \A i \in DOMAIN c.link : c.link[i] \in buffered /\ c.scrap < c.link[i] /\ ack < c.link[i]
  BY <1>t, <1>1, <1>2
<1>4. \A s \in dropped : s \in buffered /\ s <= c.scrap
  BY <1>t, <1>b, <1>1
<1>5. c.scrap <= cRecv \/ c.scrap \in dropped
  BY <1>b, <1>1
<1>6. \A s \in buffered : s > cRecv => s \in Range(c.link) \cup dropped
  BY <1>t, <1>b, <1>1
<1> QED  BY <1>b, <1>1, <1>3, <1>4, <1>5, <1>6

\* The session moves to the connection whose login it has got: all the client
\* still lacks is sent again on it.
LEMMA ResumeDown ==
    ASSUME MessageInv, NEW ack \in Nat, ack = cRecv, att # conn, ~(msgBuffer.scrap > ack),
           NEW c, c = scrapMessages(msgBuffer, ack), NEW q, q = Resent(c.link)
    PROVE  /\ q \in Seq(DownMsg) /\ Climbs(q, cRecv)
           /\ \A i \in DOMAIN q : q[i].serial <= lastSendSerial /\ q[i].intact
           /\ \A s \in buffered : cRecv < s => Holds(q, s)
<1> USE DEF MessageInv
<1>t. /\ lastSendSerial \in Nat /\ cRecv \in Nat
      /\ \A s \in buffered : s \in Nat /\ s <= lastSendSerial
      /\ msgBuffer.scrap \in Nat
  BY TypeFacts
<1>1. /\ c \in Buffers /\ Rising(c.link)
      /\ \A i \in DOMAIN c.link : c.link[i] \in buffered /\ ack < c.link[i]
      /\ \A s \in buffered : s > cRecv => s \in Range(c.link) \cup dropped
  <2>1. ack <= cRecv
    BY <1>t
  <2> QED  BY <2>1, ScrapStep
<1>2. c.link \in Seq(Serials)
  BY <1>1 DEF Buffers
<1>3. /\ q \in Seq(DownMsg) /\ Climbs(q, ack)
      /\ \A k \in DOMAIN q : q[k].intact /\ \E j \in DOMAIN c.link : q[k].serial <= c.link[j]
      /\ \A x \in Range(c.link) : Holds(q, x)
  <2> DEFINE link == c.link
  <2>1. link \in Seq(Serials) /\ Rising(link) /\ \A j \in DOMAIN link : ack < link[j]
    BY <1>1, <1>2
  <2>2. q = Resent(link)
    OBVIOUS
  <2> HIDE DEF link
  <2>3. /\ q \in Seq(DownMsg) /\ Climbs(q, ack)
        /\ \A k \in DOMAIN q : q[k].intact /\ \E j \in DOMAIN link : q[k].serial <= link[j]
        /\ \A x \in Range(link) : Holds(q, x)
    BY <2>1, <2>2, ResentFacts
  <2> QED  BY <2>3 DEF link
<1>4. \A k \in DOMAIN q : q[k].serial <= lastSendSerial
  <2> TAKE k \in DOMAIN q
  <2>1. PICK j \in DOMAIN c.link : q[k].serial <= c.link[j]
    BY <1>3
  <2>2. c.link[j] \in Nat /\ c.link[j] <= lastSendSerial
    BY <1>1, <1>t
  <2>3. q[k] \in DownMsg
    BY <1>3
  <2>4. q[k].serial \in Nat
    BY <2>3 DEF DownMsg
  <2> QED  BY <1>t, <2>1, <2>2, <2>4
<1>5. \A s \in buffered : cRecv < s => s \notin dropped
  <2> TAKE s \in buffered
  <2> HAVE cRecv < s
  <2>1. s \in dropped => s <= msgBuffer.scrap
    BY DEF BufferInv
  <2> QED  BY <1>t, <2>1
<1>6. \A s \in buffered : cRecv < s => Holds(q, s)
  BY <1>1, <1>3, <1>5, <1>t
<1> QED  BY <1>3, <1>4, <1>6

LEMMA DoTaskStep == ASSUME MessageInv, doTask PROVE MessageInv'
<1> USE DEF MessageInv
<1> DEFINE t == Head(tasks)
           c == scrapMessages(msgBuffer, t.ack)
<1>t. /\ tasks \in Seq(TaskRec) /\ tasks # <<>> /\ Len(tasks) \in Nat /\ DOMAIN tasks = 1 .. Len(tasks)
      /\ conn \in Nat /\ att \in Nat /\ att <= conn /\ cRecv \in Nat
      /\ msgBuffer \in Buffers /\ msgBuffer.scrap \in Nat
  BY TypeFacts DEF MessageTypes, doTask
<1>h. t \in TaskRec /\ t = tasks[1] /\ 1 \in DOMAIN tasks
  BY <1>t
<1>f. t.ack \in Nat /\ t.conn \in Nat /\ t.ack <= cRecv /\ t.conn <= conn
      /\ (att # conn /\ t.conn = conn => t.ack = cRecv)
  <2>1. t.ack \in Nat /\ t.conn \in Nat
    BY <1>h DEF TaskRec
  <2> QED  BY <1>h, <2>1 DEF AckInv
<1>k. /\ tasks' \in Seq(TaskRec)
      /\ \A i \in DOMAIN tasks' : \E j \in DOMAIN tasks : tasks'[i] = tasks[j]
  <2>1. /\ Tail(tasks) \in Seq(TaskRec) /\ DOMAIN Tail(tasks) = 1 .. Len(tasks) - 1
        /\ \A i \in 1 .. Len(tasks) - 1 : Tail(tasks)[i] = tasks[i + 1]
    BY <1>t
  <2>2. \A i \in 1 .. Len(tasks) - 1 : i + 1 \in DOMAIN tasks
    BY <1>t
  <2> QED  BY <2>1, <2>2 DEF doTask
<1>u. /\ UNCHANGED <<lastSendSerial, buffered, dropped, conn, cRecv, alive, up, srvRecv,
                     got, spoiled, cSent, cQueue>>
      /\ \/ t.conn > att /\ ResumeSession(t.conn, t.ack)
         \/ msgBuffer' = c /\ UNCHANGED <<att, closed, over, down>>
         \/ UNCHANGED <<msgBuffer, att, closed, over, down>>
  BY DEF doTask, cliVars
<1>g. GotInv'
  BY <1>u DEF GotInv, Rising
<1> HIDE DEF t
<1>p. PICK b : b = c
  OBVIOUS
<1> HIDE DEF c
<1>b. /\ b \in Buffers /\ ~b.broken /\ b.last = lastSendSerial /\ Rising(b.link)
      /\ \A i \in DOMAIN b.link : b.link[i] \in buffered /\ b.scrap < b.link[i]
      /\ \A s \in dropped : s \in buffered /\ s <= b.scrap
      /\ b.scrap <= cRecv \/ b.scrap \in dropped
      /\ \A s \in buffered : s > cRecv => s \in Range(b.link) \cup dropped
  BY <1>f, <1>p, ScrapStep DEF c
<1>1. CASE msgBuffer' \in {b, msgBuffer} /\ UNCHANGED <<att, closed, down>>
  <2>1. MessageTypes'
    BY <1>1, <1>u, <1>k, <1>b, <1>t DEF MessageTypes, Buffers
  <2>2. BufferInv'
    <3>1. CASE msgBuffer' = msgBuffer
      BY <1>u, <3>1 DEF BufferInv, Rising
    <3>2. CASE msgBuffer' = b
      BY <1>u, <1>b, <3>2 DEF BufferInv, Rising
    <3> QED  BY <1>1, <3>1, <3>2
  <2>3. DownInv'
    BY <1>1, <1>u DEF DownInv, Climbs, Holds
  <2>4. AckInv'
    BY <1>1, <1>u, <1>k DEF AckInv
  <2> QED  BY <1>g, <2>1, <2>2, <2>3, <2>4
<1>2. CASE /\ t.conn > att /\ ~(msgBuffer.scrap > t.ack) /\ msgBuffer' = b /\ att' = t.conn
           /\ closed \subseteq closed'
           /\ down' = IF alive /\ t.conn = conn /\ t.conn \notin closed
                      THEN down \o Resent(b.link) ELSE down
  <2>0. att # conn /\ down = <<>> /\ att' \in 0 .. conn
    <3>1. att # conn /\ att' \in 0 .. conn
      BY <1>2, <1>f, <1>t
    <3> QED  BY <3>1 DEF AckInv
  <2>1. BufferInv'
    BY <1>u, <1>b, <1>2 DEF BufferInv, Rising
  <2>2. CASE alive /\ t.conn = conn /\ t.conn \notin closed
    <3>1. PICK q : q = Resent(b.link)
      OBVIOUS
    <3>2. t.ack = cRecv /\ b = scrapMessages(msgBuffer, t.ack)
      BY <1>f, <1>p, <2>0, <2>2 DEF c
    <3>3. /\ q \in Seq(DownMsg) /\ Climbs(q, cRecv)
          /\ \A i \in DOMAIN q : q[i].serial <= lastSendSerial /\ q[i].intact
          /\ \A s \in buffered : cRecv < s => Holds(q, s)
      BY <1>2, <1>f, <2>0, <3>1, <3>2, ResumeDown
    <3>4. down' = q
      <4>1. <<>> \o q = q
        BY <3>3
      <4> QED  BY <1>2, <2>0, <2>2, <3>1, <4>1
    <3>5. MessageTypes'
      BY <1>2, <1>u, <1>k, <1>b, <2>0, <3>3, <3>4 DEF MessageTypes, Buffers
    <3>6. DownInv'
      BY <1>u, <3>3, <3>4 DEF DownInv, Climbs, Holds
    <3>7. AckInv'
      BY <1>2, <1>u, <1>k, <2>2 DEF AckInv
    <3> QED  BY <1>g, <2>1, <3>5, <3>6, <3>7
  <2>3. CASE ~(alive /\ t.conn = conn /\ t.conn \notin closed)
    <3>1. down' = <<>>
      BY <1>2, <2>0, <2>3
    <3>2. MessageTypes'
      BY <1>2, <1>u, <1>k, <1>b, <2>0, <3>1 DEF MessageTypes, Buffers
    <3>3. ~(alive' /\ att' = conn' /\ att' \notin closed')
      BY <1>2, <1>u, <2>3
    <3>4. DownInv'
      BY <1>u, <3>1, <3>3 DEF DownInv, Climbs
    <3>5. AckInv'
      BY <1>u, <1>k, <2>0, <3>1 DEF AckInv
    <3> QED  BY <1>g, <2>1, <3>2, <3>4, <3>5
  <2> QED  BY <2>2, <2>3
<1>3. CASE t.conn > att /\ ResumeSession(t.conn, t.ack)
  <2>1. CASE msgBuffer.broken \/ msgBuffer.scrap > t.ack
    <3>1. UNCHANGED <<msgBuffer, att, closed, down>>
      BY <1>3, <2>1 DEF ResumeSession
    <3> QED  BY <1>1, <3>1
  <2>2. CASE ~(msgBuffer.broken \/ msgBuffer.scrap > t.ack)
    <3>1. /\ msgBuffer' = b /\ att' = t.conn /\ closed \subseteq closed'
          /\ down' = IF alive /\ t.conn = conn /\ t.conn \notin closed
                     THEN down \o Resent(b.link) ELSE down
      BY <1>3, <1>p, <2>2 DEF ResumeSession, c
    <3> QED  BY <1>2, <1>3, <2>2, <3>1
  <2> QED  BY <2>1, <2>2
<1> QED  BY <1>1, <1>3, <1>p, <1>u

\* The client's decode(): recvSerial_ passes no buffered message that was not
\* received, even where a serial is not the one expected.
LEMMA DecodeFacts ==
    ASSUME MessageInv, down # <<>>, NEW m, m = down[1], NEW d, d = decode(cRecv, m)
    PROVE  /\ d.recv \in Nat /\ cRecv <= d.recv /\ d.recv <= m.serial
           /\ d.verdict \in {"task", "none", "serial", "crc"}
           /\ d.verdict = "task" => m.serial = d.recv /\ d.recv = cRecv + 1
           /\ d.verdict = "none" => m.serial = d.recv /\ m.type = "jump"
           /\ \A s \in buffered : cRecv < s /\ s <= d.recv =>
                 d.verdict \in {"task", "crc"} /\ s = m.serial
           /\ d.verdict = "crc" => m.serial \in spoiled
<1> USE DEF MessageInv
<1>t. /\ cRecv \in Nat /\ Len(down) \in Nat /\ DOMAIN down = 1 .. Len(down) /\ 1 \in DOMAIN down
      /\ m.serial \in Nat /\ m.type \in {"data", "jump"} /\ m.intact \in BOOLEAN
      /\ \A s \in buffered : s \in Nat
      /\ \A i \in DOMAIN down : down[i].serial \in Nat
  <2>1. Len(down) \in Nat /\ DOMAIN down = 1 .. Len(down) /\ 1 \in DOMAIN down
    BY DEF MessageTypes
  <2> QED  BY <2>1, TypeFacts
<1>m. cRecv < m.serial /\ (~m.intact => m.serial \in spoiled)
  BY <1>t DEF DownInv, Climbs
\* Of the buffered messages up to that serial, only this one can be missing.
<1>b. \A s \in buffered : cRecv < s /\ s <= m.serial => s = m.serial /\ m.type = "data"
  <2> TAKE s \in buffered
  <2> HAVE cRecv < s /\ s <= m.serial
  <2>1. PICK j \in DOMAIN down : down[j].type = "data" /\ down[j].serial = s
    BY <1>t DEF DownInv, Holds
  <2>2. CASE j = 1
    BY <2>1, <2>2
  <2>3. CASE j # 1
    <3>1. 1 < j
      BY <1>t, <2>3
    <3>2. m.serial < s
      BY <1>t, <2>1, <3>1 DEF DownInv, Climbs
    <3> QED  BY <1>t, <3>2
  <2> QED  BY <2>2, <2>3
<1>1. CASE m.type = "jump"
  <2>1. m.serial > cRecv /\ ~(m.serial <= cRecv)
    BY <1>t, <1>m
  <2>2. d = [recv |-> m.serial, verdict |-> "none"]
    BY <1>1, <2>1 DEF decode
  <2> QED  BY <1>1, <1>b, <1>m, <1>t, <2>2
<1>2. CASE m.type = "data" /\ m.serial = cRecv + 1
  <2>1. d = [recv |-> cRecv + 1, verdict |-> IF m.intact THEN "task" ELSE "crc"]
    BY <1>2 DEF decode
  <2> QED  BY <1>2, <1>b, <1>m, <1>t, <2>1
<1>3. CASE m.type = "data" /\ m.serial # cRecv + 1
  <2>1. d = [recv |-> cRecv + 1, verdict |-> "serial"]
    BY <1>3 DEF decode
  <2>2. cRecv + 1 < m.serial
    BY <1>3, <1>m, <1>t
  <2>3. \A s \in buffered : ~(cRecv < s /\ s <= cRecv + 1)
    BY <1>b, <1>t, <2>2
  <2> QED  BY <1>t, <2>1, <2>2, <2>3
<1> QED  BY <1>1, <1>2, <1>3, <1>t

LEMMA ReceiveDown ==
    ASSUME MessageInv, down # <<>>, NEW d, d = decode(cRecv, down[1]),
           ~(d.verdict \in {"serial", "crc"}), cRecv' = d.recv, down' = Tail(down),
           UNCHANGED <<lastSendSerial, buffered, conn, att, alive, spoiled, closed>>
    PROVE  DownInv' /\ down' \in Seq(DownMsg)
<1> USE DEF MessageInv
<1> DEFINE num == Len(down)
<1>t. /\ cRecv \in Nat /\ num \in Nat /\ num >= 1 /\ DOMAIN down = 1 .. num /\ 1 \in DOMAIN down
      /\ down \in Seq(DownMsg)
      /\ \A s \in buffered : s \in Nat
      /\ \A i \in DOMAIN down : down[i].serial \in Nat
  <2>1. down \in Seq(DownMsg) /\ num \in Nat /\ num >= 1 /\ DOMAIN down = 1 .. num /\ 1 \in DOMAIN down
    BY DEF MessageTypes
  <2> QED  BY <2>1, TypeFacts
<1>1. /\ d.recv \in Nat /\ cRecv <= d.recv /\ d.recv = down[1].serial
  <2>1. /\ d.recv \in Nat /\ cRecv <= d.recv
        /\ d.verdict \in {"task", "none", "serial", "crc"}
        /\ d.verdict = "task" => down[1].serial = d.recv
        /\ d.verdict = "none" => down[1].serial = d.recv
    BY DecodeFacts
  <2> QED  BY <2>1
<1>2. /\ down' \in Seq(DownMsg) /\ DOMAIN down' = 1 .. num - 1
      /\ \A i \in 1 .. num - 1 : down'[i] = down[i + 1] /\ i + 1 \in DOMAIN down /\ 1 < i + 1
  BY <1>t
<1>d. /\ \A i, j \in DOMAIN down : i < j => down[i].serial < down[j].serial
      /\ \A i \in DOMAIN down :
          /\ down[i].serial <= lastSendSerial
          /\ ~down[i].intact => down[i].serial \in spoiled
      /\ \A x \in buffered, i \in DOMAIN down :
          cRecv < x /\ x <= down[i].serial => Holds(down, x)
      /\ alive /\ att = conn /\ att \notin closed =>
          \A x \in buffered : cRecv < x => Holds(down, x)
  BY DEF DownInv, Climbs
<1> HIDE DEF num
<1>3. ASSUME NEW x, d.recv < x, Holds(down, x) PROVE \E j \in DOMAIN down' : down'[j].type = "data" /\ down'[j].serial = x
  <2>1. PICK j \in DOMAIN down : down[j].type = "data" /\ down[j].serial = x
    BY <1>3 DEF Holds
  <2>2. j # 1
    BY <1>1, <1>3, <1>t, <2>1
  <2>3. j - 1 \in 1 .. num - 1 /\ (j - 1) + 1 = j
    BY <1>t, <2>2
  <2>4. down'[j - 1] = down[j]
    BY <1>2, <2>3
  <2> QED  BY <1>2, <2>1, <2>3, <2>4
<1>4. \A i \in DOMAIN down' : d.recv < down'[i].serial
  BY <1>1, <1>2, <1>d, <1>t
<1>5. \A i, j \in DOMAIN down' : i < j => down'[i].serial < down'[j].serial
  <2> TAKE i, j \in DOMAIN down'
  <2> HAVE i < j
  <2>1. /\ down'[i] = down[i + 1] /\ i + 1 \in DOMAIN down
        /\ down'[j] = down[j + 1] /\ j + 1 \in DOMAIN down /\ i + 1 < j + 1
    BY <1>2, <1>t
  <2> QED  BY <1>d, <2>1
<1>6. \A i \in DOMAIN down' :
          /\ down'[i].serial <= lastSendSerial
          /\ ~down'[i].intact => down'[i].serial \in spoiled
  BY <1>2, <1>d
<1>7. ASSUME NEW x \in buffered, NEW i \in DOMAIN down', d.recv < x, x <= down'[i].serial
      PROVE  Holds(down, x)
  <2>1. down'[i] = down[i + 1] /\ i + 1 \in DOMAIN down /\ cRecv < x
    BY <1>1, <1>2, <1>7, <1>t
  <2> QED  BY <1>7, <1>d, <2>1
<1>8. ASSUME alive /\ att = conn /\ att \notin closed, NEW x \in buffered, d.recv < x
      PROVE  Holds(down, x)
  <2>1. cRecv < x
    BY <1>1, <1>8, <1>t
  <2> QED  BY <1>8, <1>d, <2>1
<1> QED  BY <1>2, <1>3, <1>4, <1>5, <1>6, <1>7, <1>8 DEF DownInv, Climbs, Holds

LEMMA ClientReceiveStep == ASSUME MessageInv, ClientReceive PROVE MessageInv'
<1> USE DEF MessageInv
<1>0. PICK m, d : m = down[1] /\ d = decode(cRecv, m)
  OBVIOUS
<1>h. down # <<>> /\ Head(down) = m /\ 1 \in DOMAIN down
  BY <1>0 DEF ClientReceive, MessageTypes
<1>u. /\ cRecv' = d.recv
      /\ got' = IF d.verdict = "task" THEN Append(got, m.serial) ELSE got
      /\ IF d.verdict \in {"serial", "crc"} THEN ~alive' /\ down' = <<>>
         ELSE down' = Tail(down) /\ alive' = alive
      /\ UNCHANGED <<lastSendSerial, buffered, msgBuffer, dropped, conn, att, up, tasks, spoiled, closed,
                     srvRecv, cSent, cQueue>>
  BY <1>0, <1>h DEF ClientReceive, srvVars, wrkVars
<1>t. /\ lastSendSerial \in Nat /\ lastSendSerial <= MaxSerial /\ MaxSerial \in Nat
      /\ cRecv \in Nat /\ cRecv <= lastSendSerial /\ m.serial \in Nat
      /\ \A s \in buffered : s \in Nat
      /\ msgBuffer.scrap \in Nat
      /\ got \in Seq(Serials)
  <2>1. DOMAIN down = 1 .. Len(down) /\ \A i \in 1 .. Len(down) : down[i].serial \in Nat
    BY TypeFacts
  <2> QED  BY <1>0, <1>h, <2>1, TypeFacts DEF MessageTypes
<1>d. /\ d.recv \in Nat /\ cRecv <= d.recv /\ d.recv <= m.serial
      /\ d.verdict \in {"task", "none", "serial", "crc"}
      /\ d.verdict = "task" => m.serial = d.recv /\ d.recv = cRecv + 1
      /\ d.verdict = "none" => m.serial = d.recv /\ m.type = "jump"
      /\ \A s \in buffered : cRecv < s /\ s <= d.recv =>
            d.verdict \in {"task", "crc"} /\ s = m.serial
      /\ d.verdict = "crc" => m.serial \in spoiled
  BY <1>0, <1>h, DecodeFacts
<1>l. m.serial <= lastSendSerial /\ d.recv <= lastSendSerial
  <2>1. m.serial <= lastSendSerial
    BY <1>0, <1>h DEF DownInv
  <2> QED  BY <1>d, <1>t, <2>1
<1>a. att = conn
  BY <1>h DEF AckInv
<1>1. DownInv' /\ down' \in Seq(DownMsg)
  <2>1. CASE d.verdict \in {"serial", "crc"}
    <3>1. ~alive' /\ down' = <<>>
      BY <1>u, <2>1
    <3> QED  BY <3>1 DEF DownInv, Climbs
  <2>2. CASE ~(d.verdict \in {"serial", "crc"})
    <3>1. down' = Tail(down) /\ alive' = alive /\ d = decode(cRecv, down[1])
      BY <1>0, <1>u, <2>2
    <3> QED  BY <1>h, <1>u, <2>2, <3>1, ReceiveDown
  <2> QED  BY <2>1, <2>2
<1>g. /\ got' \in Seq(Serials) /\ Rising(got)' /\ \A i \in DOMAIN got' : got'[i] <= d.recv
      /\ Range(got) \subseteq Range(got') /\ (d.verdict = "task" => m.serial \in Range(got'))
  <2>0. /\ Len(got) \in Nat /\ DOMAIN got = 1 .. Len(got)
        /\ \A i \in DOMAIN got : got[i] \in Nat /\ got[i] <= cRecv
        /\ \A i, j \in DOMAIN got : i < j => got[i] < got[j]
    BY <1>t, SerialSeq DEF GotInv, Rising
  <2>1. CASE d.verdict # "task"
    <3>1. got' = got
      BY <1>u, <2>1
    <3> QED  BY <1>d, <1>t, <2>0, <2>1, <3>1 DEF Rising
  <2>2. CASE d.verdict = "task"
    <3> DEFINE s == m.serial
               k == Len(got)
    <3>1. s \in Serials /\ s = d.recv /\ s = cRecv + 1
      BY <1>d, <1>l, <1>t, <2>2, SerialFacts
    <3>2. got' = Append(got, s)
      BY <1>u, <2>2
    <3> HIDE DEF s
    <3>3. /\ got' \in Seq(Serials) /\ Len(got') = k + 1 /\ got'[k + 1] = s
          /\ \A i \in 1 .. k : got'[i] = got[i]
      BY <1>t, <3>1, <3>2, AppendAt
    <3>4. DOMAIN got' = 1 .. k + 1
      BY <3>3
    <3>5. \A i \in DOMAIN got' : (i \in DOMAIN got /\ got'[i] = got[i]) \/ (i = k + 1 /\ got'[i] = s)
      BY <2>0, <3>3, <3>4
    <3>6. \A i \in DOMAIN got' : got'[i] <= d.recv
      BY <1>t, <2>0, <3>1, <3>5
    <3>7. \A i, j \in DOMAIN got' : i < j => got'[i] < got'[j]
      <4> TAKE i, j \in DOMAIN got'
      <4> HAVE i < j
      <4>1. i \in DOMAIN got /\ got'[i] = got[i]
        BY <2>0, <3>3, <3>4, <3>5
      <4>2. CASE j \in DOMAIN got /\ got'[j] = got[j]
        BY <2>0, <4>1, <4>2
      <4>3. CASE got'[j] = s
        BY <1>t, <2>0, <3>1, <4>1, <4>3
      <4> QED  BY <3>5, <4>2, <4>3
    <3>8. Range(got') = Range(got) \cup {s}
      BY <1>t, <3>1, <3>2, AppendLink
    <3> QED  BY <3>3, <3>6, <3>7, <3>8 DEF Rising, s
  <2> QED  BY <2>1, <2>2
<1>2. MessageTypes'
  <2>1. cRecv' \in 0 .. lastSendSerial'
    BY <1>d, <1>l, <1>t, <1>u
  <2> QED  BY <1>1, <1>g, <1>u, <2>1 DEF MessageTypes
<1>3. BufferInv'
  <2>1. \A s \in buffered : s > d.recv => s > cRecv
    BY <1>d, <1>t
  <2>2. msgBuffer.scrap <= cRecv => msgBuffer.scrap <= d.recv
    BY <1>d, <1>t
  <2> QED  BY <1>u, <2>1, <2>2 DEF BufferInv, Rising
<1>4. AckInv'
  <2>1. \A x \in Nat : x <= cRecv => x <= d.recv
    BY <1>d, <1>t
  <2>2. /\ \A i \in DOMAIN up : up[i].ack \in Nat
        /\ \A i \in DOMAIN tasks : tasks[i].ack \in Nat
    BY TypeFacts
  <2> QED  BY <1>a, <1>u, <2>1, <2>2 DEF AckInv
<1>5. GotInv'
  <2>1. ASSUME NEW s \in buffered, s <= d.recv
        PROVE  s \in Range(got') \cup spoiled
    <3>1. CASE s <= cRecv
      BY <1>g, <3>1 DEF GotInv
    <3>2. CASE cRecv < s
      <4>1. d.verdict \in {"task", "crc"} /\ s = m.serial
        BY <1>d, <2>1, <3>2
      <4> QED  BY <1>d, <1>g, <4>1
    <3> QED  BY <1>t, <3>1, <3>2
  <2> QED  BY <1>g, <1>u, <2>1 DEF GotInv
<1> QED  BY <1>1, <1>2, <1>3, <1>4, <1>5

-----------------------------------------------------------------------------
(* The theorems.                                                           *)

LEMMA MessageStart == ASSUME MessageInit PROVE MessageInv
<1> USE DEF MessageInit
<1>1. MessageTypes
  BY SerialFacts DEF MessageTypes, EmptyBuffer
<1>2. BufferInv
  BY DEF BufferInv, EmptyBuffer, Rising
<1>3. DownInv /\ AckInv /\ GotInv
  BY DEF DownInv, AckInv, GotInv, Climbs, Rising
<1> QED  BY <1>1, <1>2, <1>3 DEF MessageInv

LEMMA MessageStep == ASSUME MessageInv, [MessageNext]_messageVars PROVE MessageInv'
<1>1. CASE \E nb \in BOOLEAN : send(nb)
  BY <1>1, SendStep
<1>2. CASE UNCHANGED messageVars
  <2>1. srvRecv \in Nat /\ cSent \in Nat /\ cQueue \in Seq([type : UpTypes, serial : Nat])
    BY DEF MessageInv, MessageTypes
  <2> QED  BY <1>2, <2>1, QuietStep DEF messageVars, srvVars, wrkVars, netVars, cliVars
<1>3. CASE \E type \in Requests : ClientSend(type)
  BY <1>3, ClientSendStep
<1> QED  BY <1>1, <1>2, <1>3, ServerReceiveStep, DoTaskStep, BanStep, ServerCloseStep, ConnectStep,
            EncodeStep, HeartbeatStep, ClientReceiveStep, ClientCloseStep, BreakStep, CorruptStep
            DEF MessageNext

\* The inductive invariant of the messages of a session.
THEOREM MessageInvariant == MessageSpec => []MessageInv
<1>1. MessageInit => MessageInv
  BY MessageStart
<1>2. MessageInv /\ [MessageNext]_messageVars => MessageInv'
  BY MessageStep
<1> QED  BY <1>1, <1>2, PTL DEF MessageSpec

\* MessageBuffer keeps the copy of every message that the client may still ask
\* for, or knows that it gave it up, for any size of the buffer.
THEOREM MessagesRetained == MessageSpec => []Retained
<1>1. ASSUME MessageInv PROVE Retained
  <2>1. MessageTypeOK
    <3>1. buffered \subseteq Serials /\ {cRecv, srvRecv, cSent} \subseteq Nat
      <4>1. \A s \in buffered : s \in Nat /\ 1 <= s /\ s <= MaxSerial
        BY <1>1, TypeFacts DEF MessageInv
      <4>2. cRecv \in Nat /\ srvRecv \in Nat /\ cSent \in Nat
        BY <1>1, TypeFacts DEF MessageInv, MessageTypes
      <4> QED  BY <4>1, <4>2, SerialFacts
    <3> QED  BY <1>1, <3>1 DEF MessageInv, MessageTypes, MessageTypeOK
  <2>2. \A s \in buffered : s > cRecv => s \in Range(msgBuffer.link) \/ s \in dropped
    BY <1>1 DEF MessageInv, BufferInv
  <2> QED  BY <1>1, <2>1, <2>2 DEF MessageInv, BufferInv, Retained
<1> QED  BY <1>1, MessageInvariant, PTL

\* Over all its connections the client gets the messages of the session in order
\* and passes over no buffered one, however connections break.
THEOREM MessagesNotSkipped == MessageSpec => []NothingSkipped
<1>1. MessageInv => NothingSkipped
  BY DEF MessageInv, GotInv, Rising, NothingSkipped
<1> QED  BY <1>1, MessageInvariant, PTL

\* The handler for banned messages, if there is one, is not run in a coroutine.
BannedInPlace == "banned" \in DOMAIN RegisterInfo => ~RegisterInfo["banned"]

\* Which handler runs agrees with whether the message was parsed, whenever
\* setBanMessages() is called.
THEOREM HandlersGetMessages ==
    ASSUME BannedInPlace PROVE MessageSpec => []HandlerGetsMessage
<1>1. MessageInit => HandlerGetsMessage
  BY DEF MessageInit, HandlerGetsMessage
<1>2. ASSUME MessageInv, HandlerGetsMessage, [MessageNext]_messageVars
      PROVE  HandlerGetsMessage'
  <2>1. CASE doTask
    <3> DEFINE t == Head(tasks)
               h == [by |-> Handler(t), type |-> t.type, parsed |-> ~t.banned]
    <3>1. handled' \in {handled, handled \cup {h}}
      BY <2>1 DEF doTask
    <3>2. t \in TaskRec
      BY <1>2, <2>1 DEF doTask, MessageInv, MessageTypes
    <3>3. t.type \in UpTypes /\ t.banned \in BOOLEAN
      BY <3>2 DEF TaskRec
    <3> HIDE DEF t
    <3>4. t.banned => Handler(t) # t.type
      BY <3>3 DEF Handler, UpTypes, Requests, BannedInPlace
    <3>5. h.by = h.type => h.parsed
      BY <3>3, <3>4
    <3> HIDE DEF h
    <3> QED  BY <1>2, <3>1, <3>5 DEF HandlerGetsMessage
  <2>2. CASE ~doTask
    <3>1. handled' = handled
      BY <1>2, <2>2 DEF MessageNext, send, ServerReceive, setBanMessages, ServerClose, connect, encode,
                        Heartbeat, ClientReceive, ClientClose, ClientSend, Break, Corrupt,
                        messageVars, wrkVars
    <3> QED  BY <1>2, <3>1 DEF HandlerGetsMessage
  <2> QED  BY <2>1, <2>2
<1> QED  BY <1>1, <1>2, MessageInvariant, PTL DEF MessageSpec
=============================================================================
