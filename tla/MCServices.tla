---- MODULE MCServices ----
(***************************************************************************)
(* The queues between threads, the life of coroutines, and the services    *)
(* that stand on them in one run; a behaviour is one of its parts, the     *)
(* others stay idle.                                                       *)
(*   "mpsc": two producers, and fewer nodes than pushes, so that addresses *)
(*       are reused;                                                       *)
(*   "sync": two producers that push two items each into the queue with a  *)
(*       lock;                                                             *)
(*   "lives": two threads, two addresses and three coroutines;             *)
(*   "server": two requests, and two handlers of which IO has started one; *)
(*   "pool": four coroutines that share two connections of either kind;    *)
(*   "pubsub": two threads that subscribe to two topics.                   *)
(***************************************************************************)
EXTENDS MpscQueue, SyncQueue, RoutineEnv, RpcServer, Pool, PubSub

CONSTANTS p1, p2, a1, a2, a3

VARIABLE part

queues == <<mpscVars, syncVars>>
vars == <<part, queues, envVars, rpcServerVars, poolVars, pubsubVars>>

Pushes == [p \in Pusher |-> IF p = p1 THEN 3 ELSE 2]

OneService == [s \in {1} |-> <<"reply", "coroutine", "oneway", "deleteInDone">>]

Init ==
    /\ MpscInit /\ SyncQueueInit /\ RoutineEnvInit /\ RpcServerInit /\ PoolInit
    /\ \/ part = "pubsub" /\ PubSubInit("top") /\ kindOfPool = "redis"
       \/ part \in {"mpsc", "sync", "lives", "server"} /\ PubSubInit("poll") /\ kindOfPool = "redis"
       \/ part = "pool" /\ PubSubInit("poll")

Next ==
    \/ part = "mpsc" /\ MpscNext /\ UNCHANGED <<part, syncVars, envVars, rpcServerVars, poolVars, pubsubVars>>
    \/ part = "sync" /\ SyncQueueNext /\ UNCHANGED <<part, mpscVars, envVars, rpcServerVars, poolVars, pubsubVars>>
    \/ part = "lives" /\ RoutineEnvNext /\ UNCHANGED <<part, queues, rpcServerVars, poolVars, pubsubVars>>
    \/ part = "server" /\ RpcServerNext /\ UNCHANGED <<part, queues, envVars, poolVars, pubsubVars>>
    \/ part = "pool" /\ PoolNext /\ UNCHANGED <<part, queues, envVars, rpcServerVars, pubsubVars>>
    \/ part = "pubsub" /\ PubSubNext /\ UNCHANGED <<part, queues, envVars, rpcServerVars, poolVars>>

Spec ==
    /\ Init /\ [][Next]_vars
    /\ MpscFairness /\ SyncQueueFairness /\ RoutineEnvFairness /\ RpcServerFairness /\ PubSubFairness

\* The services keep what their users rely on: a coroutine is released once and
\* counted while it is a key one, what a request of the server allocates is deleted
\* once and answered once, a connection has one owner and is counted once, and a
\* thread gets the messages of its topics once and in order.
ServicesSound == SyncQueueSound /\ EnvSound /\ RpcServerSound /\ PoolSound /\ PubSubOrder

\* Both queues between threads are queues: what several threads push is popped
\* once, and in the order of the pushes of each thread.
QueuesFifo == Fifo /\ SyncFifo

\* Nothing is left lying: what was pushed to a queue is popped, coroutines that
\* ended are released, requests are answered, and every topic that a thread asked
\* for is subscribed.
ServicesSettle ==
    AllPopped /\ SyncAllPopped /\ LivesEnd /\ RequestsAnswered /\ SubscribedInTheEnd
====
