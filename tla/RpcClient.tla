------------------------------ MODULE RpcClient ------------------------------
(***************************************************************************)
(* A channel of RpcClient (corpc_rpc_client.cpp): calls from coroutines of *)
(* one thread, the client's own thread with its coroutines                 *)
(* taskHandleRoutine and connectionRoutine, the connections of the         *)
(* channel, and what the IO layer and the server do with them.             *)
(*                                                                         *)
(* A call is a pair <<c, i>>, the i-th call of coroutine c.  As in the     *)
(* code, a connection knows a call that waits for its result only by the   *)
(* coroutine (callId) and by its expire time, which is 0 for calls without *)
(* a timeout; the clock does not go back here, so that calls with a        *)
(* timeout have different expire times (InnerRpc has the clock).           *)
(*                                                                         *)
(* Each connection goes through the phases of ConnectionSpec, which module *)
(* Connection implements: the IO actions below are the steps of that       *)
(* specification.  waitResultCoMapMutex_ is held by decode() over a step,  *)
(* so that the client's coroutines meet it locked and yield; between their *)
(* yields they are atomic, being coroutines of one thread.                 *)
(***************************************************************************)
EXTENDS Naturals, Sequences, SequencesExt, FiniteSets

CONSTANTS
    Caller,     \* calling coroutines
    Kind,       \* the calls each makes: "plain", "timed" or "oneway"
    ConnectNum, \* connections of the channel
    Conn,       \* bound: the Connection objects there can be
    None

Call == UNION {{<<c, i>> : i \in DOMAIN Kind[c]} : c \in Caller}

ASSUME RpcClientAssumption ==
    /\ IsFiniteSet(Caller) /\ Kind \in [Caller -> Seq({"plain", "timed", "oneway"})]
    /\ ConnectNum \in Nat \ {0}
    /\ None \notin Conn \cup Call

VARIABLES
    n, waiting,      \* the number of each caller's last call; it waits for a result
    result,          \* what each call returned
    live,            \* calls whose request has not been freed
    late,            \* calls whose expire time has come
    wakes,           \* waitResumeQueue_ of the calling thread
    taskQ, connQ,    \* taskQueue_ and connectionTaskQueue_
    slots, conIndex, \* connections_ and conIndex_
    dropped,         \* the channel is in clearChannelQueue_, or was
    st,              \* st_ of each connection
    waitSend,        \* waitSendTaskCoList_
    waitResult,      \* waitResultCoMap_
    decoding,        \* the response decode() has at hand: it holds the mutex
    thWait,          \* the call for which taskHandleRoutine waits for the mutex
    thNow,           \* its local now, while it handles tasks: the calls late by then
    cr,              \* connectionRoutine: where, at which connection, its local now
    io,              \* phase of each connection in the IO layer
    sendQ, datas,    \* data submitted to the sender, and datas_
    wire,            \* calls the server has and may answer
    answered,        \* calls whose own result was received
    doneRuns,        \* how often done ran, for each one-way call
    stray,           \* history: a result woke a coroutine for another call
    dead             \* history: requests read after they were freed

callVars == <<n, waiting, result, live, late>>
qVars == <<taskQ, connQ, slots, conIndex, dropped>>
connVars == <<st, waitSend, waitResult>>
ioVars == <<io, sendQ, datas>>
srvVars == <<wire, answered, decoding>>
hist == <<stray, dead>>
th == <<thWait, thNow>>
vars == <<callVars, wakes, qVars, connVars, th, cr, ioVars, srvVars, doneRuns, hist>>

KindOf(x) == Kind[x[1]][x[2]]
Care(x) == KindOf(x) # "oneway"
\* expireTime: 0, or a time no other call has
Expire(x) == IF KindOf(x) = "timed" THEN x ELSE <<>>

Idle == [at |-> "idle", conn |-> None, now |-> {}]

Init ==
    /\ n = [c \in Caller |-> 0] /\ waiting = [c \in Caller |-> FALSE]
    /\ result = [x \in Call |-> "none"]
    /\ live = {} /\ late = {} /\ wakes = <<>>
    /\ taskQ = <<>> /\ connQ = <<>>
    /\ slots = [i \in 1..ConnectNum |-> None] /\ conIndex = 1
    /\ dropped = FALSE
    /\ st = [k \in Conn |-> "unused"]
    /\ waitSend = [k \in Conn |-> <<>>]
    /\ waitResult = [k \in Conn |-> [c \in Caller |-> None]]
    /\ decoding = [k \in Conn |-> None]
    /\ thWait = None /\ thNow = None
    /\ cr = Idle
    /\ io = [k \in Conn |-> "new"]
    /\ sendQ = [k \in Conn |-> <<>>] /\ datas = [k \in Conn |-> <<>>]
    /\ wire = [k \in Conn |-> {}]
    /\ answered = {}
    /\ doneRuns = [x \in Call |-> 0]
    /\ stray = FALSE /\ dead = {}

-----------------------------------------------------------------------------
(* The calling thread: CallMethod(), and its RoutineEnvironment            *)

Current(c) == <<c, n[c]>>

CallMethod(c) ==
    LET x == <<c, n[c] + 1>> IN
    /\ ~dropped /\ ~waiting[c] /\ n[c] < Len(Kind[c])
    /\ n' = [n EXCEPT ![c] = @ + 1]
    /\ waiting' = [waiting EXCEPT ![c] = Care(x)]
    /\ live' = live \cup {x}
    /\ taskQ' = Append(taskQ, x)
    /\ UNCHANGED <<result, late, wakes, connQ, slots, conIndex, dropped, connVars,
                   th, cr, ioVars, srvVars, doneRuns, hist>>

\* CallMethod() returns in c; the request is the caller's again.
Return(c, r) ==
    /\ waiting' = [waiting EXCEPT ![c] = FALSE]
    /\ result' = [result EXCEPT ![Current(c)] = r]
    /\ live' = live \ {Current(c)}

\* resumeRoutine finds the call in the timeout list, if it has a timeout.
Resumed(x) == KindOf(x) = "timed" => waiting[x[1]] /\ Current(x[1]) = x

\* resumeRoutine takes one element.  failed: err is not 0, or the controller
\* of a call without timeout was set to failed before.
Resume ==
    LET x == Head(wakes).call
        c == x[1]
    IN  /\ wakes # <<>>
        /\ wakes' = Tail(wakes)
        /\ \/ /\ Resumed(x)
              /\ Return(c, IF Head(wakes).failed THEN "failed" ELSE "ok")
              /\ stray' = (stray \/ ~waiting[c] \/ Current(c) # x)
           \/ /\ ~Resumed(x)
              /\ UNCHANGED <<waiting, result, live, stray>>
        /\ UNCHANGED <<n, late, qVars, connVars, th, cr, ioVars, srvVars,
                       doneRuns, dead>>

\* The expire time of a call comes ...
Expires(x) ==
    /\ KindOf(x) = "timed" /\ x \notin late
    /\ waiting[x[1]] /\ Current(x[1]) = x
    /\ late' = late \cup {x}
    /\ UNCHANGED <<n, waiting, result, live, wakes, qVars, connVars, th, cr,
                   ioVars, srvVars, doneRuns, hist>>

\* ... and timeoutRoutine sees it.
Timeout(c) ==
    /\ waiting[c] /\ Current(c) \in late
    /\ Return(c, "timeout")
    /\ UNCHANGED <<n, late, wakes, qVars, connVars, th, cr, ioVars, srvVars,
                   doneRuns, hist>>

-----------------------------------------------------------------------------
(* What the coroutines of the client's thread share                        *)

Locked(k) == decoding[k] # None

\* connectionRoutine is at a yield: the other coroutines may run.
CrAway == cr.at # "drain"

Submit(k, x) == sendQ' = [sendQ EXCEPT ![k] = Append(@, x)]

\* waitResultCoMap_[co] = task
AwaitResult(k, x) == waitResult' = [waitResult EXCEPT ![k][x[1]] = x]

\* resumeCoroutine() for each call in xs, with an error for those in bad.
WakeAll(xs, bad) == [i \in DOMAIN xs |-> [call |-> xs[i], failed |-> xs[i] \in bad]]

\* done->Run() for each one-way call in xs; it frees the request.
RunDone(xs) ==
    LET ones == {x \in ToSet(xs) : ~Care(x)} IN
    /\ doneRuns' = [x \in Call |-> doneRuns[x] + IF x \in ones THEN 1 ELSE 0]
    /\ live' = live \ ones

-----------------------------------------------------------------------------
(* taskHandleRoutine and getNextConnection()                               *)

NextIndex == (conIndex % Len(slots)) + 1
NextSlot == slots[NextIndex]
\* A slot without connection is treated as one whose connection is closed.
NextStatus == IF NextSlot = None THEN "CLOSED" ELSE st[NextSlot]

\* now is read when the routine finds tasks, and used until there are no more.
Now == IF thNow = None THEN late ELSE thNow
GoOn(q) == thNow' = IF q = <<>> THEN None ELSE Now

\* taskHandleRoutine takes a task.  The channel must still have connections:
\* without one the code would use a null pointer (see the README).
TakeTask(x) ==
    /\ thWait = None /\ CrAway
    /\ taskQ # <<>> /\ x = Head(taskQ)
    /\ slots # <<>>
    /\ taskQ' = Tail(taskQ)
    /\ conIndex' = NextIndex

\* The task is handled without a wait.
TaskAtOnce(x) == TakeTask(x) /\ GoOn(Tail(taskQ)) /\ UNCHANGED thWait

\* The next connection does not exist or is closed: a new one is to be connected.
TaskConnects(x) ==
    /\ TaskAtOnce(x)
    /\ NextStatus = "CLOSED"
    /\ \E k \in Conn :
          /\ st[k] = "unused" /\ k = CHOOSE j \in Conn : st[j] = "unused"
          /\ slots' = [slots EXCEPT ![NextIndex] = k]
          /\ st' = [st EXCEPT ![k] = "CONNECTING"]
          /\ connQ' = Append(connQ, [type |-> "CONNECT", conn |-> k])
          /\ waitSend' = [waitSend EXCEPT ![k] = Append(@, x)]
    /\ UNCHANGED <<callVars, wakes, dropped, waitResult, cr, ioVars,
                   srvVars, doneRuns, hist>>

TaskWaits(x) ==
    /\ TaskAtOnce(x)
    /\ NextStatus = "CONNECTING"
    /\ waitSend' = [waitSend EXCEPT ![NextSlot] = Append(@, x)]
    /\ UNCHANGED <<callVars, wakes, connQ, slots, dropped, st, waitResult,
                   cr, ioVars, srvVars, doneRuns, hist>>

TaskSends(x) ==
    /\ TaskAtOnce(x)
    /\ NextStatus = "CONNECTED" /\ x \notin Now
    /\ \/ ~Care(x) /\ UNCHANGED waitResult
       \/ Care(x) /\ ~Locked(NextSlot) /\ AwaitResult(NextSlot, x)
    /\ Submit(NextSlot, x)
    /\ UNCHANGED <<callVars, wakes, connQ, slots, dropped, st, waitSend, cr,
                   io, datas, srvVars, doneRuns, hist>>

\* now >= expireTime: the task is dropped.
TaskExpired(x) ==
    /\ TaskAtOnce(x)
    /\ NextStatus = "CONNECTED" /\ x \in Now
    /\ UNCHANGED <<callVars, wakes, connQ, slots, dropped, connVars, cr,
                   ioVars, srvVars, doneRuns, hist>>

\* The mutex of the map is taken: the coroutine yields ...
TaskLock(x) ==
    /\ TakeTask(x)
    /\ NextStatus = "CONNECTED" /\ x \notin Now
    /\ Care(x) /\ Locked(NextSlot)
    /\ thWait' = <<NextSlot, x>> /\ thNow' = Now
    /\ UNCHANGED <<callVars, wakes, connQ, slots, dropped, connVars, cr, ioVars,
                   srvVars, doneRuns, hist>>

\* ... and goes on when it gets it, whatever the connection is by then.
TaskLocked ==
    /\ thWait # None /\ CrAway /\ ~Locked(thWait[1])
    /\ AwaitResult(thWait[1], thWait[2])
    /\ Submit(thWait[1], thWait[2])
    /\ thWait' = None /\ GoOn(taskQ)
    /\ UNCHANGED <<callVars, wakes, qVars, st, waitSend, cr, io, datas, srvVars,
                   doneRuns, hist>>

TaskHandleRoutine ==
    \/ \E x \in Call : \/ TaskConnects(x) \/ TaskWaits(x) \/ TaskSends(x)
                       \/ TaskExpired(x) \/ TaskLock(x)
    \/ TaskLocked

-----------------------------------------------------------------------------
(* connectionRoutine                                                       *)

At(p, k) == [at |-> p, conn |-> k, now |-> {}]
IsAt(p, k) == cr.at = p /\ cr.conn = k

PopConnTask(t, k) ==
    /\ cr = Idle
    /\ connQ # <<>> /\ Head(connQ) = [type |-> t, conn |-> k]
    /\ connQ' = Tail(connQ)

\* CLOSE: the calls that wait for a result fail with ENETDOWN, and done of the
\* one-way calls left in datas_ runs.
FailWaiting(k) ==
    LET map == waitResult[k]
        cs == SetToSeq({c \in Caller : map[c] # None})
        xs == [i \in DOMAIN cs |-> map[cs[i]]]
    IN  /\ wakes' = wakes \o WakeAll(xs, Call)
        /\ waitResult' = [waitResult EXCEPT ![k] = [c \in Caller |-> None]]
        /\ RunDone(datas[k])

\* The mutex of the map is free: onClose() comes after the last decode().
CloseTask(k) ==
    /\ PopConnTask("CLOSE", k)
    /\ st' = [st EXCEPT ![k] = "CLOSED"]
    /\ FailWaiting(k)
    /\ UNCHANGED <<n, waiting, result, late, taskQ, slots, conIndex, dropped,
                   waitSend, th, cr, ioVars, srvVars, hist>>

\* CONNECT: sleep(1), connect() and co_poll() yield.
ConnectTask(k) ==
    /\ PopConnTask("CONNECT", k)
    /\ cr' = At("connect", k)
    /\ UNCHANGED <<callVars, wakes, taskQ, slots, conIndex, dropped, connVars,
                   th, ioVars, srvVars, doneRuns, hist>>

\* Bound: a connection may be lost only while there is another one to take.
Spare == \E k \in Conn : st[k] = "unused"

OneWay == {x \in Call : ~Care(x)}

\* The calls in xs that have a coroutine waiting.
Cared(xs) ==
    LET kept[i \in 0 .. Len(xs)] ==
          IF i = 0 THEN <<>>
          ELSE IF xs[i] \in OneWay THEN kept[i - 1] ELSE Append(kept[i - 1], xs[i])
    IN  kept[Len(xs)]

\* The calls that wait for the connection are woken with errno.  A call
\* without timeout has its controller set to failed whatever errno is.
FailUnsent(k, errno) ==
    /\ wakes' = wakes \o WakeAll(Cared(waitSend[k]),
                              {x \in Call : KindOf(x) = "plain" \/ errno # 0})
    /\ RunDone(waitSend[k])

\* Mutation: the list of the calls that wait for the connection is not emptied.
ConnectFailsMutant(k) ==
    /\ cr = At("connect", k) /\ Spare
    /\ st' = [st EXCEPT ![k] = "CLOSED"]
    /\ \E errno \in {0, 1} : FailUnsent(k, errno)
    /\ connQ' = Append(connQ, [type |-> "CLOSE", conn |-> k])
    /\ cr' = Idle
    /\ UNCHANGED <<n, waiting, result, late, taskQ, slots, conIndex, dropped,
                   waitSend, waitResult, th, ioVars, srvVars, hist>>

\* The connection cannot be made.  errno is that of connect(), or 0 when
\* the failure was found with getsockopt().
ConnectFails(k) ==
    /\ cr = At("connect", k) /\ Spare
    /\ st' = [st EXCEPT ![k] = "CLOSED"]
    /\ \E errno \in {0, 1} : FailUnsent(k, errno)
    /\ waitSend' = [waitSend EXCEPT ![k] = <<>>]
    /\ cr' = Idle
    /\ UNCHANGED <<n, waiting, result, late, qVars, waitResult, th, ioVars,
                   srvVars, hist>>

\* io->addConnection()
Connected(k) ==
    /\ cr = At("connect", k)
    /\ st' = [st EXCEPT ![k] = "CONNECTED"]
    /\ io' = [io EXCEPT ![k] = "open"]
    /\ cr' = [At("drain", k) EXCEPT !.now = late]
    /\ UNCHANGED <<callVars, wakes, qVars, waitSend, waitResult, th, sendQ,
                   datas, srvVars, doneRuns, hist>>

\* The calls in waitSendTaskCoList_ are sent one after the other.
DrainSends(k) ==
    LET x == Head(waitSend[k]) IN
    /\ waitSend[k] # <<>>
    /\ \/ IsAt("drain", k) /\ x \notin cr.now
       \/ IsAt("drainLock", k)
    /\ \/ ~Care(x) /\ UNCHANGED waitResult
       \/ Care(x) /\ ~Locked(k) /\ AwaitResult(k, x)
    /\ Submit(k, x)
    /\ waitSend' = [waitSend EXCEPT ![k] = Tail(@)]
    /\ cr' = [cr EXCEPT !.at = "drain"]
    /\ UNCHANGED <<callVars, wakes, qVars, st, th, io, datas, srvVars,
                   doneRuns, hist>>

DrainExpired(k) ==
    /\ IsAt("drain", k)
    /\ waitSend[k] # <<>> /\ Head(waitSend[k]) \in cr.now
    /\ waitSend' = [waitSend EXCEPT ![k] = Tail(@)]
    /\ UNCHANGED <<callVars, wakes, qVars, st, waitResult, th, cr, ioVars,
                   srvVars, doneRuns, hist>>

DrainLock(k) ==
    /\ IsAt("drain", k)
    /\ waitSend[k] # <<>> /\ Head(waitSend[k]) \notin cr.now
    /\ Care(Head(waitSend[k])) /\ Locked(k)
    /\ cr' = [cr EXCEPT !.at = "drainLock"]
    /\ UNCHANGED <<callVars, wakes, qVars, connVars, th, ioVars, srvVars,
                   doneRuns, hist>>

Drained(k) ==
    /\ IsAt("drain", k) /\ waitSend[k] = <<>>
    /\ cr' = Idle
    /\ UNCHANGED <<callVars, wakes, qVars, connVars, th, ioVars, srvVars,
                   doneRuns, hist>>

ConnectionRoutine(k) ==
    \/ CloseTask(k) \/ ConnectTask(k) \/ ConnectFails(k) \/ Connected(k)
    \/ DrainSends(k) \/ DrainExpired(k) \/ DrainLock(k) \/ Drained(k)

-----------------------------------------------------------------------------
(* clearChannelRoutine                                                     *)

\* The last owner of the channel goes when all calls have returned, their
\* tasks have been handled and the connections have been added to the IO
\* layer (see the README for a channel that goes earlier).
DropChannel ==
    /\ ~dropped
    /\ \A c \in Caller : n[c] = Len(Kind[c]) /\ ~waiting[c]
    /\ taskQ = <<>> /\ thWait = None
    /\ \A i \in DOMAIN slots : slots[i] # None => io[slots[i]] # "new"
    /\ dropped' = TRUE
    /\ UNCHANGED <<callVars, wakes, taskQ, connQ, slots, conIndex, connVars, th,
                   cr, ioVars, srvVars, doneRuns, hist>>

\* close() of the connections, which end some time later, and connections_.clear()
ClearChannel ==
    /\ dropped /\ slots # <<>> /\ CrAway
    /\ slots' = <<>>
    /\ UNCHANGED <<callVars, wakes, taskQ, connQ, conIndex, dropped, connVars, th,
                   cr, ioVars, srvVars, doneRuns, hist>>

-----------------------------------------------------------------------------
(* The IO layer, by the steps of ConnectionSpec, and the server            *)

IoAccept(k) ==
    /\ io[k] = "open" /\ sendQ[k] # <<>>
    /\ datas' = [datas EXCEPT ![k] = Append(@, Head(sendQ[k]))]
    /\ sendQ' = [sendQ EXCEPT ![k] = Tail(@)]
    /\ UNCHANGED <<callVars, wakes, qVars, connVars, th, cr, io, srvVars,
                   doneRuns, hist>>

\* Mutation: done of a one-way call does not run.
CleanDataOnClosingMutant(x) == UNCHANGED <<doneRuns, live>>

\* cleanDataOnClosing()
CleanDataOnClosing(x) == RunDone(<<x>>)

IoClean(k) ==
    /\ io[k] \in {"closing", "closed"} /\ sendQ[k] # <<>>
    /\ CleanDataOnClosing(Head(sendQ[k]))
    /\ sendQ' = [sendQ EXCEPT ![k] = Tail(@)]
    /\ UNCHANGED <<n, waiting, result, late, wakes, qVars, connVars, th, cr, io,
                   datas, srvVars, hist>>

\* encode(): the request is read; done of a one-way call runs.
Encode(k) ==
    LET x == Head(datas[k]) IN
    /\ io[k] \in {"open", "closing"} /\ datas[k] # <<>>
    /\ datas' = [datas EXCEPT ![k] = Tail(@)]
    /\ dead' = IF x \in live THEN dead ELSE dead \cup {x}
    /\ wire' = [wire EXCEPT ![k] = IF Care(x) THEN @ \cup {x} ELSE @]
    /\ RunDone(<<x>>)
    /\ UNCHANGED <<n, waiting, result, late, wakes, qVars, connVars, th, cr, io,
                   sendQ, answered, decoding, stray>>

\* The peer leaves, or the connection is closed.
IoCloses(k) ==
    /\ io[k] = "open" /\ (Spare \/ dropped)
    /\ io' = [io EXCEPT ![k] = "closing"]
    /\ UNCHANGED <<callVars, wakes, qVars, connVars, th, cr, sendQ, datas,
                   srvVars, doneRuns, hist>>

\* onClose()
OnClose(k) ==
    /\ io[k] = "closing" /\ decoding[k] = None
    /\ io' = [io EXCEPT ![k] = "closed"]
    /\ connQ' = Append(connQ, [type |-> "CLOSE", conn |-> k])
    /\ UNCHANGED <<callVars, wakes, taskQ, slots, conIndex, dropped, connVars, th,
                   cr, sendQ, datas, srvVars, doneRuns, hist>>

\* The server answers, and decode() takes the mutex of the map ...
DecodeLock(k, x) ==
    /\ io[k] \in {"open", "closing"}
    /\ x \in wire[k] /\ ~Locked(k)
    /\ decoding' = [decoding EXCEPT ![k] = x]
    /\ wire' = [wire EXCEPT ![k] = @ \ {x}]
    /\ UNCHANGED <<callVars, wakes, qVars, connVars, th, cr, ioVars, answered,
                   doneRuns, hist>>

\* The call found under the callId of the response has its expire time.
Matches(task, x) == task # None /\ Expire(task) = Expire(x)

\* ... erases the call, writes the result and resumes the caller.
Decode(k) ==
    LET x == decoding[k]
        task == waitResult[k][x[1]]
    IN  /\ Locked(k)
        /\ decoding' = [decoding EXCEPT ![k] = None]
        /\ \/ /\ Matches(task, x)
              /\ waitResult' = [waitResult EXCEPT ![k][x[1]] = None]
              /\ answered' = IF task = x THEN answered \cup {x} ELSE answered
              /\ stray' = (stray \/ task # x)
              /\ wakes' = Append(wakes, [call |-> task, failed |-> FALSE])
           \/ /\ ~Matches(task, x)
              /\ UNCHANGED <<waitResult, answered, stray, wakes>>
        /\ UNCHANGED <<callVars, qVars, st, waitSend, th, cr, ioVars, wire,
                       doneRuns, dead>>

IO(k) == IoAccept(k) \/ IoClean(k) \/ Encode(k) \/ Decode(k)

-----------------------------------------------------------------------------

Next ==
    \/ \E c \in Caller : CallMethod(c) \/ Timeout(c)
    \/ \E x \in Call : Expires(x)
    \/ Resume
    \/ TaskHandleRoutine
    \/ DropChannel \/ ClearChannel
    \/ \E k \in Conn :
          \/ ConnectionRoutine(k) \/ IO(k) \/ IoCloses(k) \/ OnClose(k)
          \/ \E x \in Call : DecodeLock(k, x)

\* The threads keep running, and connect() returns.  The server need not
\* answer, and no connection needs to be lost.
Fairness ==
    /\ WF_vars(Resume) /\ WF_vars(TaskHandleRoutine)
    /\ \A c \in Caller : WF_vars(Timeout(c))
    /\ \A k \in Conn :
          /\ WF_vars(ConnectionRoutine(k)) /\ WF_vars(IO(k)) /\ WF_vars(OnClose(k))

Spec == Init /\ [][Next]_vars /\ Fairness

-----------------------------------------------------------------------------
(* Properties                                                              *)

\* The types of the variables.
TypeOK ==
    /\ \A c \in Caller : n[c] \in 0 .. Len(Kind[c])
    /\ waiting \in [Caller -> BOOLEAN]
    /\ result \in [Call -> {"none", "ok", "failed", "timeout"}]
    /\ live \subseteq Call /\ late \subseteq Call /\ answered \subseteq Call
    /\ wakes \in Seq([call : Call, failed : BOOLEAN])
    /\ taskQ \in Seq(Call)
    /\ connQ \in Seq([type : {"CONNECT", "CLOSE"}, conn : Conn])
    /\ slots \in Seq(Conn \cup {None}) /\ dropped \in BOOLEAN
    /\ st \in [Conn -> {"unused", "CONNECTING", "CONNECTED", "CLOSED"}]
    /\ \A k \in Conn : {waitSend[k], sendQ[k], datas[k]} \subseteq Seq(Call)
    /\ waitResult \in [Conn -> [Caller -> Call \cup {None}]]
    /\ io \in [Conn -> {"new", "open", "closing", "closed"}]
    /\ doneRuns \in [Call -> 0..1]

\* The assertions of connectionRoutine hold: a connection to be closed has no
\* call that waits for it to be connected, a CONNECT task finds its connection
\* CONNECTING, and no call waits for a result on a connection that is not
\* connected yet.
AssertsHold ==
    /\ cr = Idle /\ connQ # <<>> =>
          LET k == Head(connQ).conn IN
          IF Head(connQ).type = "CLOSE" THEN waitSend[k] = <<>> ELSE st[k] = "CONNECTING"
    /\ \A k \in Conn : io[k] = "new" => \A c \in Caller : waitResult[k][c] = None

\* The result of a call, an error or a late answer wakes the coroutine that
\* made the call, while it waits for this call and for no later one.
WokenByOwnResult == ~stray

\* No assertion of the client's threads fails, and a call is woken by what is
\* meant for it.
ClientSound == TypeOK /\ AssertsHold /\ WokenByOwnResult

\* done of a one-way call, which frees its request, runs exactly once, whether
\* the request is encoded, refused because the connection is closing, left in
\* datas_ at the end, or never sent because connecting failed.
OneWayDoneOnce ==
    \A x \in {y \in Call : ~Care(y)} : n[x[1]] >= x[2] ~> [](doneRuns[x] = 1)

\* connectionRoutine wakes the calls of a connection that failed "for error
\* handling": a call that returns without an error has its result.
SuccessMeansAnswered == \A x \in Call : result[x] = "ok" => x \in answered

\* CallMethod() does not copy the request of a call with a timeout, as "an RPC
\* between processes need not": encode() only reads requests that are kept.
RequestAlive == dead = {}
=============================================================================
