----------------------------- MODULE RpcServer -----------------------------
(***************************************************************************)
(* RpcServer (corpc_rpc_server.cpp) between the bytes of a request and the *)
(* bytes of its reply: the registered services, decode(), the worker's     *)
(* handlers, the call of the method, the reply through the sender, and who *)
(* deletes the request, the response and the controller.                   *)
(*                                                                         *)
(* An RpcServerTask is shared by the worker's task and, once it has been   *)
(* sent, by the sender's queue, which is another thread's; whoever lets go *)
(* of it last deletes it.  A method that does not care about its response  *)
(* has none; with delete_in_done it gets a closure that deletes the        *)
(* request and that the service may run after the method has returned.     *)
(***************************************************************************)
EXTENDS Integers, Sequences, SequencesExt, FiniteSets

CONSTANTS
    Requests,    \* call ids
    Services,    \* service ids that clients ask for
    Offered,     \* the services of the application: their methods' options
    Handlers,    \* coroutines in taskHandleRoutine()
    IoHandlers,  \* those that IO::start() has started
    ErrorCodes   \* what services pass to SetErrorCode()

\* reply: the client waits for a response; coroutine: need_coroutine; otherwise
\* not_care_response, with delete_in_done or without.
Options == {"reply", "coroutine", "oneway", "deleteInDone"}

ASSUME RpcServerAssumption ==
    /\ DOMAIN Offered \subseteq Services
    /\ \A s \in DOMAIN Offered : Offered[s] \in Seq(Options)
    /\ IoHandlers \subseteq Handlers
    /\ ErrorCodes \subseteq Int

VARIABLES
    services,    \* services_
    server,      \* "new", "listening" or "failed"
    handlers,    \* the handlers that run
    peer,        \* the connection: "none", "open" or "closed"
    wire,        \* the requests that have arrived, not yet decoded
    method,      \* the options of the method of a request
    workQueue,   \* queue_ of the worker
    busy,        \* the request whose method a handler runs itself, or {}
    stage,       \* "none", "sent", "queued", "called", "returned" or "over"
    deletes,     \* how often request, response and controller were deleted
    holders,     \* who holds the RpcServerTask
    done,        \* the closure: "none", "pending" or "run"
    controller,  \* error text and error code
    sendQueue,   \* what the sender has to send
    replies      \* what was sent

queueVars == <<wire, workQueue, busy, sendQueue, replies>>
taskVars == <<method, stage, deletes, holders, done, controller>>
rpcServerVars == <<services, server, handlers, peer, queueVars, taskVars>>

NoError == [text |-> FALSE, code |-> 0]
Objects == {"request", "response", "controller"}

RpcServerInit ==
    /\ services = <<>>
    /\ server = "new" /\ handlers = IoHandlers
    /\ peer = "none" /\ wire = <<>>
    /\ method = [r \in Requests |-> "none"]
    /\ workQueue = <<>> /\ busy = [h \in Handlers |-> {}]
    /\ stage = [r \in Requests |-> "none"]
    /\ deletes = [r \in Requests |-> [o \in Objects |-> 0]]
    /\ holders = [r \in Requests |-> {}]
    /\ done = [r \in Requests |-> "none"]
    /\ controller = [r \in Requests |-> NoError]
    /\ sendQueue = <<>> /\ replies = <<>>

-----------------------------------------------------------------------------
(* Starting the server.                                                    *)

\* TcpAcceptor::start(): there is a socket that can be bound to the port, or not.
AcceptorStart(bound) == server' = IF bound THEN "listening" ELSE "failed"

\* MultiThreadWorker::start() and CoroutineWorker::start().
WorkerStart == handlers' = Handlers

\* Server::start(): without an acceptor the worker is not started.  create() does
\* not look at the result.
start(bound) ==
    /\ server = "new"
    /\ AcceptorStart(bound)
    /\ IF bound THEN WorkerStart ELSE UNCHANGED handlers
    /\ UNCHANGED <<services, peer, queueVars, taskVars>>

\* registerService(): a service id is registered once.  Applications register
\* their services before they let clients in.
registerService(s) ==
    /\ peer = "none" /\ s \notin DOMAIN services
    /\ services' = [x \in DOMAIN services \cup {s} |->
                       IF x = s THEN Offered[s] ELSE services[x]]
    /\ UNCHANGED <<server, handlers, peer, queueVars, taskVars>>

\* The acceptor hands a connection to the IO layer.
acceptRoutine ==
    /\ server = "listening" /\ peer = "none"
    /\ peer' = "open"
    /\ UNCHANGED <<services, server, handlers, queueVars, taskVars>>

\* A client sends a request: any service id and method id, a body that can be
\* parsed or not.
ClientSends(r, s, m, parses) ==
    /\ peer = "open" /\ stage[r] = "none"
    /\ wire' = Append(wire, [callId |-> r, serviceId |-> s, methodId |-> m, parses |-> parses])
    /\ stage' = [stage EXCEPT ![r] = "sent"]
    /\ UNCHANGED <<services, server, handlers, peer, workQueue, busy, sendQueue, replies, method,
                   deletes, holders, done, controller>>

PeerCloses ==
    /\ peer = "open" /\ peer' = "closed"
    /\ UNCHANGED <<services, server, handlers, queueVars, taskVars>>

-----------------------------------------------------------------------------
(* From the bytes to the worker.                                           *)

\* getMethod(): method ids count from 0.
getMethod(s, m) ==
    IF s \in DOMAIN services /\ m < Len(services[s]) THEN services[s][m + 1] ELSE "none"

HasResponse(opt) == opt \in {"reply", "coroutine"}

\* decode() in the receiver's thread; a request for an unknown method, and one
\* that cannot be parsed, is dropped without a reply.
decode ==
    /\ wire # <<>>
    /\ wire' = Tail(wire)
    /\ LET head == Head(wire)
           r == head.callId
           opt == getMethod(head.serviceId, head.methodId)
       IN  IF opt = "none" \/ ~head.parses
           THEN /\ stage' = [stage EXCEPT ![r] = "over"]
                /\ UNCHANGED <<workQueue, method, holders, done>>
           ELSE /\ stage' = [stage EXCEPT ![r] = "queued"]
                /\ method' = [method EXCEPT ![r] = opt]
                /\ holders' = [holders EXCEPT ![r] = {"task"}]
                /\ done' = [done EXCEPT ![r] = IF opt = "deleteInDone" THEN "pending" ELSE "none"]
                /\ workQueue' = Append(workQueue, r)
    /\ UNCHANGED <<services, server, handlers, peer, busy, sendQueue, replies, deletes, controller>>

-----------------------------------------------------------------------------
(* The worker.                                                             *)

\* doTask() calls the method itself or starts a coroutine for it.
doTask(h, r) ==
    /\ busy' = [busy EXCEPT ![h] = IF method[r] = "coroutine" THEN {} ELSE {r}]
    /\ stage' = [stage EXCEPT ![r] = "called"]

\* A handler pops a task and does it.
taskHandleRoutine(h) ==
    /\ h \in handlers /\ busy[h] = {} /\ workQueue # <<>>
    /\ doTask(h, Head(workQueue))
    /\ workQueue' = Tail(workQueue)
    /\ UNCHANGED <<services, server, handlers, peer, wire, sendQueue, replies, method, deletes,
                   holders, done, controller>>

\* The service, in its method: SetFailed(), SetErrorCode().
SetFailed(r) ==
    /\ stage[r] = "called" /\ HasResponse(method[r])
    /\ controller' = [controller EXCEPT ![r] =
                         [text |-> TRUE, code |-> IF @.code = 0 THEN -1 ELSE @.code]]
    /\ UNCHANGED <<services, server, handlers, peer, queueVars, method, stage, deletes, holders,
                   done>>

SetErrorCode(r, code) ==
    /\ stage[r] = "called" /\ HasResponse(method[r])
    /\ controller' = [controller EXCEPT ![r].code = code]
    /\ UNCHANGED <<services, server, handlers, peer, queueVars, method, stage, deletes, holders,
                   done>>

\* The service runs the closure, in its method or later: callDoneHandle().
callDoneHandle(r) ==
    /\ stage[r] \in {"called", "returned", "over"} /\ done[r] = "pending"
    /\ done' = [done EXCEPT ![r] = "run"]
    /\ deletes' = [deletes EXCEPT ![r]["request"] = @ + 1]
    /\ UNCHANGED <<services, server, handlers, peer, queueVars, method, stage, holders, controller>>

\* The method has returned: the task goes to the sender if there is a response.
Sends(r) ==
    /\ stage[r] = "called"
    /\ stage' = [stage EXCEPT ![r] = "returned"]
    /\ IF HasResponse(method[r])
       THEN /\ sendQueue' = Append(sendQueue, r)
            /\ holders' = [holders EXCEPT ![r] = @ \cup {"sender"}]
       ELSE UNCHANGED <<sendQueue, holders>>
    /\ UNCHANGED <<services, server, handlers, peer, wire, workQueue, busy, replies, method, deletes,
                   done, controller>>

\* What decode() made for a request with this method.
Parts(opt) == IF HasResponse(opt) THEN Objects ELSE {"request"}

\* mutant: the request is deleted in any case
MutDestroyed(r) == Parts(method[r])

\* ~RpcServerTask(): what the closure deletes is left to it.
Destroyed(r) == IF done[r] = "none" THEN Parts(method[r]) ELSE Parts(method[r]) \ {"request", "controller"}

\* The last holder that lets go of the task deletes it.
LetGo(r, who) ==
    /\ holders' = [holders EXCEPT ![r] = @ \ {who}]
    /\ deletes' = IF holders[r] # {who} THEN deletes
                  ELSE [deletes EXCEPT ![r] =
                           [o \in Objects |-> @[o] + (IF o \in Destroyed(r) THEN 1 ELSE 0)]]

\* destory(): the worker's task lets go, and its handler takes the next one.
destory(r) ==
    /\ stage[r] = "returned"
    /\ stage' = [stage EXCEPT ![r] = "over"]
    /\ LetGo(r, "task")
    /\ busy' = [h \in Handlers |-> busy[h] \ {r}]
    /\ UNCHANGED <<services, server, handlers, peer, wire, workQueue, sendQueue, replies, method,
                   done, controller>>

-----------------------------------------------------------------------------
(* The sender's thread.                                                    *)

\* The code decides, not the text.
Failed(r) == controller[r].code # 0

\* encode(): a reply carries the call id and either the response or the error.
encode ==
    /\ sendQueue # <<>>
    /\ LET r == Head(sendQueue)
       IN  /\ replies' = IF peer = "open"
                         THEN Append(replies, [callId |-> r,
                                               error |-> IF Failed(r) THEN controller[r] ELSE NoError])
                         ELSE replies
           /\ LetGo(r, "sender")
    /\ sendQueue' = Tail(sendQueue)
    /\ UNCHANGED <<services, server, handlers, peer, wire, workQueue, busy, method, stage, done,
                   controller>>

-----------------------------------------------------------------------------

TaskStep(r) ==
    \/ SetFailed(r) \/ callDoneHandle(r) \/ Sends(r) \/ destory(r)
    \/ \E code \in ErrorCodes : SetErrorCode(r, code)

RpcServerNext ==
    \/ \E bound \in BOOLEAN : start(bound)
    \/ \E s \in DOMAIN Offered : registerService(s)
    \/ acceptRoutine \/ PeerCloses
    \/ \E r \in Requests, s \in Services, m \in 0 .. Cardinality(Options), parses \in BOOLEAN :
          ClientSends(r, s, m, parses)
    \/ decode \/ encode
    \/ \E h \in Handlers : taskHandleRoutine(h)
    \/ \E r \in Requests : TaskStep(r)

RpcServerSpec == RpcServerInit /\ [][RpcServerNext]_rpcServerVars

\* The threads go on and the methods of services return.
RpcServerFairness ==
    /\ WF_rpcServerVars(decode) /\ WF_rpcServerVars(encode)
    /\ \A h \in Handlers : WF_rpcServerVars(taskHandleRoutine(h))
    /\ \A r \in Requests : WF_rpcServerVars(Sends(r) \/ destory(r))

-----------------------------------------------------------------------------

RpcServerTypeOK ==
    /\ \A s \in DOMAIN services : services[s] \in Seq(Options)
    /\ server \in {"new", "listening", "failed"} /\ peer \in {"none", "open", "closed"}
    /\ handlers \subseteq Handlers
    /\ method \in [Requests -> Options \cup {"none"}]
    /\ busy \in [Handlers -> SUBSET Requests]
    /\ stage \in [Requests -> {"none", "sent", "queued", "called", "returned", "over"}]
    /\ deletes \in [Requests -> [Objects -> Nat]]
    /\ holders \in [Requests -> SUBSET {"task", "sender"}]
    /\ done \in [Requests -> {"none", "pending", "run"}]
    /\ workQueue \in Seq(Requests) /\ sendQueue \in Seq(Requests)

\* The objects of a request that decode() has made.
Made(r) ==
    IF method[r] = "none" THEN {} ELSE Parts(method[r])

\* Nothing is deleted twice, nothing while the worker or the sender can still
\* use it (only the closure may delete the request earlier), and everything is
\* deleted once the worker, the sender and the closure are through with it.
DeletedOnce ==
    \A r \in Requests, o \in Objects :
        /\ deletes[r][o] <= IF o \in Made(r) THEN 1 ELSE 0
        /\ deletes[r][o] = 1 => holders[r] = {} \/ (o = "request" /\ done[r] = "run")
        /\ o \in Made(r) /\ holders[r] = {} /\ done[r] # "pending" => deletes[r][o] = 1

\* A request is in one place: what the sender has to send is held by it, what
\* runs in a handler is held by the worker's task.
TasksHeld ==
    /\ IsInjective(workQueue) /\ IsInjective(sendQueue)
    /\ \A r \in Requests :
          /\ r \in ToSet(workQueue) <=> stage[r] = "queued"
          /\ r \in ToSet(sendQueue) <=> "sender" \in holders[r]
          /\ "task" \in holders[r] <=> stage[r] \in {"queued", "called", "returned"}
          /\ \A h \in Handlers : r \in busy[h] => stage[r] \in {"called", "returned"}

\* A reply answers one request of the client that waits for one, and says that
\* the call failed when the service said so.
RepliesRight ==
    /\ \A i, j \in DOMAIN replies : replies[i].callId = replies[j].callId => i = j
    /\ \A i \in DOMAIN replies :
          LET r == replies[i].callId
          IN  HasResponse(method[r]) /\ stage[r] \in {"returned", "over"}
                  /\ replies[i].error.code = controller[r].code

RpcServerSound == RpcServerTypeOK /\ DeletedOnce /\ TasksHeld /\ RepliesRight

Answered(r) == peer = "closed" \/ \E i \in DOMAIN replies : replies[i].callId = r

\* Every request for a method with a response is answered, unless the connection
\* is closed.
RequestsAnswered == <>[](\A r \in Requests : HasResponse(method[r]) => Answered(r))
=============================================================================
