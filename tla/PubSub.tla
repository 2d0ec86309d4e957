------------------------------- MODULE PubSub -------------------------------
(***************************************************************************)
(* The publish/subscribe service.  Threads (Envs) subscribe callbacks to   *)
(* topics; the first subscription of a topic is queued for registerRoutine *)
(* of the service's thread, which enters it in topicToEnvsMap_ and, if the *)
(* topic is new, writes to a pipe; subscribeRoutine waits for the pipe and *)
(* for its redis connection, subscribes again when topics were added, and  *)
(* hands messages to the queues of the threads.                            *)
(*                                                                         *)
(* The redis server and the client library are external: a connection that *)
(* SUBSCRIBEs gets an acknowledgement per topic and then every message     *)
(* published; the library reads any number of replies from the socket and  *)
(* keeps those that are not asked for yet in its reader.                   *)
(***************************************************************************)
EXTENDS Integers, Sequences, FiniteSets, SequencesExt

CONSTANTS
    Envs, Topics,
    MaxPublish,   \* messages published
    MaxBreaks,    \* connections that break, or that cannot be had
    MaxCallbacks  \* callbacks subscribed, all threads and topics together

ASSUME PubSubAssumption ==
    IsFiniteSet(Topics) /\ {MaxPublish, MaxBreaks, MaxCallbacks} \subseteq Nat

VARIABLES
    callbacks,   \* topicCallbackMap_ of each thread: how many for each topic
    registering, \* queue_ of the service
    envs,        \* topicToEnvsMap_: the threads of each topic
    wakeups,     \* bytes in pipe_
    routine,     \* subscribeRoutine: "top", "take", "subscribe", "subreply", "poll",
                 \* "unsubscribe", "unreply", or "crash"
    command,     \* the topics in commandStr
    redis,       \* "none", "up" or "broken"
    subscribed,  \* what the server knows of this connection
    socket,      \* replies not yet read
    unread,      \* replies in the library's reader
    queue,       \* queue_ of each thread
    last,        \* the last message given to the callbacks of each thread
    published, breaks

pubsubVars == <<callbacks, registering, envs, wakeups, routine, command, redis, subscribed,
                socket, unread, queue, last, published, breaks>>
linkVars == <<redis, subscribed, socket, unread>>

Known == {t \in Topics : envs[t] # <<>>}

\* Only the first callback of a topic registers it.
First(n) == n = 1

\* SubscribeEnv::addSubscribeCallback.
Subscribe(e, t) ==
    /\ SumFunctionOnSet([p \in Envs \X Topics |-> callbacks[p[1]][p[2]]], Envs \X Topics)
          < MaxCallbacks
    /\ callbacks' = [callbacks EXCEPT ![e][t] = @ + 1]
    /\ registering' = IF First(callbacks[e][t] + 1) THEN Append(registering, <<t, e>>)
                                                    ELSE registering
    /\ UNCHANGED <<envs, wakeups, routine, command, linkVars, queue, last, published, breaks>>

\* mutant: subscribeRoutine is not told of a new topic
MutTold(t) == 0

Told(t) == IF envs[t] = <<>> THEN 1 ELSE 0

\* registerRoutine: one message of its queue.
register ==
    /\ registering # <<>>
    /\ LET t == Head(registering)[1] e == Head(registering)[2]
       IN  /\ wakeups' = wakeups + Told(t)
           /\ envs' = [envs EXCEPT ![t] = Append(@, e)]
    /\ registering' = Tail(registering)
    /\ UNCHANGED <<callbacks, routine, command, linkVars, queue, last, published, breaks>>

\* subscribeRoutine writes the command and then makes sure of a connection.
Prepare ==
    /\ routine = "top"
    /\ command' = Known
    /\ routine' = IF Known = {} THEN "poll" ELSE IF redis = "none" THEN "take" ELSE "subscribe"
    /\ UNCHANGED <<callbacks, registering, envs, wakeups, linkVars, queue, last, published, breaks>>

\* proxy.take(): a fresh connection, or a null pointer that is dereferenced.
TakeRedis ==
    /\ routine = "take"
    /\ \/ /\ routine' = "subscribe" /\ redis' = "up"
          /\ subscribed' = {} /\ socket' = <<>> /\ unread' = <<>>
          /\ UNCHANGED breaks
       \/ /\ routine' = "crash" /\ breaks < MaxBreaks /\ breaks' = breaks + 1
          /\ UNCHANGED linkVars
    /\ UNCHANGED <<callbacks, registering, envs, wakeups, command, queue, last, published>>

Ack == <<"ack", 0>>
Acks(n) == [k \in 1 .. n |-> Ack]

\* The SUBSCRIBE and UNSUBSCRIBE commands reach the server, if it is there.
Command ==
    /\ \/ /\ routine = "subscribe" /\ routine' = "subreply"
          /\ subscribed' = IF redis = "up" THEN subscribed \cup command ELSE subscribed
          /\ socket' = IF redis = "up" THEN socket \o Acks(Cardinality(command)) ELSE socket
       \/ /\ routine = "unsubscribe" /\ routine' = "unreply"
          /\ subscribed' = {}
          /\ socket' = IF redis = "up" THEN socket \o Acks(IF subscribed = {} THEN 1 ELSE
                                                          Cardinality(subscribed))
                                       ELSE socket
    /\ UNCHANGED <<callbacks, registering, envs, wakeups, command, redis, unread, queue, last,
                   published, breaks>>

\* The library's redisGetReply: from the reader, else after a read of the socket.
GetReply(reply) ==
    \/ /\ unread # <<>> /\ reply = Head(unread)
       /\ unread' = Tail(unread) /\ UNCHANGED socket
    \/ /\ unread = <<>>
       /\ \E n \in 1 .. Len(socket) :
             /\ reply = socket[1]
             /\ unread' = SubSeq(socket, 2, n)
             /\ socket' = SubSeq(socket, n + 1, Len(socket))

Replies == {Ack} \cup Topics \X (1 .. MaxPublish)

\* redisCommand takes the first reply there is, whatever it is, or fails.
CommandReplied ==
    /\ routine \in {"subreply", "unreply"}
    /\ \/ \E reply \in Replies : GetReply(reply)
       \/ redis = "broken" /\ UNCHANGED <<socket, unread>>
    /\ routine' = IF routine = "subreply" THEN "poll" ELSE "top"
    /\ UNCHANGED <<callbacks, registering, envs, wakeups, command, redis, subscribed, queue, last,
                   published, breaks>>

\* One for every time the thread registered for the topic.
Copies(reply, e) ==
    LET registered == envs[reply[1]]
    IN  [k \in 1 .. Cardinality({i \in DOMAIN registered : registered[i] = e}) |-> reply]

\* poll() says that the connection can be read: one reply, a message for the
\* queues of the threads of its topic or a late acknowledgement.
Receive ==
    /\ routine = "poll" /\ redis # "none" /\ (socket # <<>> \/ redis = "broken")
    /\ \E reply \in Replies :
          /\ GetReply(reply)
          /\ queue' = IF reply = Ack THEN queue
                      ELSE [e \in Envs |-> queue[e] \o Copies(reply, e)]
    /\ UNCHANGED <<callbacks, registering, envs, wakeups, routine, command, redis, subscribed,
                   last, published, breaks>>

\* redisGetReply fails: the connection is put back as broken.
ReceiveFails ==
    /\ routine = "poll" /\ redis = "broken" /\ unread = <<>>
    /\ redis' = "none" /\ routine' = "top" /\ subscribed' = {}
    /\ UNCHANGED <<callbacks, registering, envs, wakeups, command, socket, unread, queue, last,
                   published, breaks>>

AfterPipe == IF redis = "none" THEN "top" ELSE "unsubscribe"

\* poll() says that the pipe can be read: all of it is (the read takes 16 bytes).
ReadWakeups ==
    /\ routine = "poll" /\ wakeups > 0
    /\ wakeups' = IF wakeups > 16 THEN wakeups - 16 ELSE 0
    /\ routine' = AfterPipe
    /\ UNCHANGED <<callbacks, registering, envs, command, linkVars, queue, last, published,
                   breaks>>

\* SubscribeEnv::deamonRoutine: the callbacks of the topic are called, each at
\* once or in a coroutine of its own, which starts at once.
callback(e) ==
    /\ queue[e] # <<>>
    /\ queue' = [queue EXCEPT ![e] = Tail(@)]
    /\ last' = [last EXCEPT ![e] = Head(queue[e])[2]]
    /\ UNCHANGED <<callbacks, registering, envs, wakeups, routine, command, linkVars, published,
                   breaks>>

\* Some process publishes to a topic (_publish).
Publish(t) ==
    /\ published < MaxPublish
    /\ published' = published + 1
    /\ socket' = IF redis = "up" /\ t \in subscribed THEN Append(socket, <<t, published + 1>>)
                                                     ELSE socket
    /\ UNCHANGED <<callbacks, registering, envs, wakeups, routine, command, redis, subscribed,
                   unread, queue, last, breaks>>

\* The connection breaks; some of what has arrived can still be read.
Break ==
    /\ redis = "up" /\ breaks < MaxBreaks
    /\ redis' = "broken" /\ subscribed' = {} /\ breaks' = breaks + 1
    /\ UNCHANGED <<callbacks, registering, envs, wakeups, routine, command, socket, unread, queue,
                   last, published>>

\* at: "top", or "poll" once it waits for the first topic.
PubSubInit(at) ==
    /\ callbacks = [e \in Envs |-> [t \in Topics |-> 0]] /\ registering = <<>>
    /\ envs = [t \in Topics |-> <<>>] /\ wakeups = 0
    /\ routine = at /\ command = {}
    /\ redis = "none" /\ subscribed = {} /\ socket = <<>> /\ unread = <<>>
    /\ queue = [e \in Envs |-> <<>>] /\ last = [e \in Envs |-> 0]
    /\ published = 0 /\ breaks = 0

subscribeRoutine == Prepare \/ TakeRedis \/ Command \/ CommandReplied \/ Receive \/ ReceiveFails
                    \/ ReadWakeups

PubSubNext ==
    /\ routine # "crash"
    /\ \/ \E e \in Envs, t \in Topics : Subscribe(e, t)
       \/ register \/ subscribeRoutine
       \/ \E e \in Envs : callback(e)
       \/ \E t \in Topics : Publish(t)
       \/ Break

\* The routines of the service run when there is something for them.
PubSubFairness == /\ WF_pubsubVars(routine # "crash" /\ register)
                  /\ WF_pubsubVars(subscribeRoutine)
-----------------------------------------------------------------------------
\* A thread gets messages of topics it has callbacks for, in the order in
\* which they were published and none twice, whatever is lost.
PubSubOrder ==
    \A e \in Envs : \A k \in DOMAIN queue[e] :
        /\ queue[e][k][2] > last[e]
        /\ \A j \in 1 .. k - 1 : queue[e][j][2] < queue[e][k][2]
        /\ callbacks[e][queue[e][k][1]] > 0

\* Whatever breaks and whenever topics are added, the service ends up subscribed
\* to every topic that a thread has callbacks for, unless take() failed.
SubscribedInTheEnd ==
    <>[](routine = "crash" \/ \A e \in Envs, t \in Topics :
                                 callbacks[e][t] > 0 => t \in subscribed)
=============================================================================
