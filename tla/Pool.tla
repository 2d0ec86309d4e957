-------------------------------- MODULE Pool --------------------------------
(***************************************************************************)
(* The connection pools of corpc_redis, corpc_mysql, corpc_memcached and   *)
(* corpc_mongodb, four classes with one control.  take() and put() run as  *)
(* coroutines of the pool's thread and yield in the waiting list and, for  *)
(* redis and mysql, while a connection is being opened; a memcached_st and *)
(* a mongoc_client_t are made without any I/O.  A coroutine that leaves    *)
(* the waiting list is resumed on the spot and takes the newest idle       *)
(* connection, if any.                                                     *)
(***************************************************************************)
EXTENDS Integers, Sequences, FiniteSets, SequencesExt

CONSTANTS
    Users,     \* coroutines that use the pool
    MaxConnect \* maxConnectNum_

ASSUME PoolAssumption == MaxConnect \in Nat \ {0} /\ 0 \notin Users

VARIABLES
    kindOfPool, \* "redis", "mysql", "memcached" or "mongodb"
    user,     \* "out", "open" (take() connects), "wait", "retry" (a put() connects
              \* for it) or "has"
    held,     \* the connection a user has, 0 for none
    idle,     \* idleList_
    waiting,  \* waitingList_
    count     \* realConnectCount_

poolVars == <<kindOfPool, user, held, idle, waiting, count>>

\* Handles: addresses of connections, used again after they are freed.
Handles == 1 .. MaxConnect
New == CHOOSE h \in Handles : h \notin Range(idle) /\ \A u \in Users : held[u] # h

\* The users in ws are resumed one after the other with the idle connections q.
Resume(ws, q) ==
    LET Place(u) == CHOOSE k \in DOMAIN ws : ws[k] = u
        Given(u) == IF Place(u) <= Len(q) THEN q[Len(q) + 1 - Place(u)] ELSE 0
        n == IF Len(ws) < Len(q) THEN Len(ws) ELSE Len(q)
    IN  /\ idle' = SubSeq(q, 1, Len(q) - n)
        /\ held' = [u \in Users |-> IF u \in Range(ws) THEN Given(u) ELSE held[u]]
        /\ user' = [u \in Users |-> IF u \notin Range(ws) THEN user[u]
                                    ELSE IF Given(u) = 0 THEN "out" ELSE "has"]

(***************************************************************************)
(* take(): an idle connection, a new one, or a place in the waiting list.  *)
(***************************************************************************)
TakeIdle(u) ==
    /\ user[u] = "out" /\ idle # <<>>
    /\ Resume(<<u>>, idle) /\ UNCHANGED <<waiting, count>>

MayOpen(u) == user[u] = "out" /\ idle = <<>> /\ count < MaxConnect

\* The connection is counted before it is opened.
TakeOpens(u) ==
    /\ MayOpen(u)
    /\ count' = count + 1 /\ user' = [user EXCEPT ![u] = "open"]
    /\ UNCHANGED <<held, idle, waiting>>

TakeWaits(u) ==
    /\ user[u] = "out" /\ idle = <<>> /\ count >= MaxConnect
    /\ waiting' = Append(waiting, u) /\ user' = [user EXCEPT ![u] = "wait"]
    /\ UNCHANGED <<held, idle, count>>

\* The connection could not be opened: those who wait are resumed and, as
\* nothing is idle while they wait (PoolSound), fail too.
Fails(u) ==
    /\ waiting' = <<>>
    /\ user' = [v \in Users |-> IF v = u \/ v \in Range(waiting) THEN "out" ELSE user[v]]
    /\ UNCHANGED <<held, idle>>

TakeOpened(u) ==
    /\ user[u] = "open"
    /\ held' = [held EXCEPT ![u] = New] /\ user' = [user EXCEPT ![u] = "has"]
    /\ UNCHANGED <<kindOfPool, idle, waiting, count>>

TakeFails(u) ==
    /\ user[u] = "open"
    /\ count' = count - 1 /\ Fails(u)
    /\ UNCHANGED kindOfPool

\* Opened in the same step, or not.
TakeMakes(u) ==
    /\ MayOpen(u)
    /\ \/ /\ count' = count + 1
          /\ held' = [held EXCEPT ![u] = New] /\ user' = [user EXCEPT ![u] = "has"]
          /\ UNCHANGED <<idle, waiting>>
       \/ Fails(u) /\ UNCHANGED count

TakeYielding(u) == TakeIdle(u) \/ TakeOpens(u) \/ TakeWaits(u)
TakeAtOnce(u) == TakeIdle(u) \/ TakeMakes(u) \/ TakeWaits(u)

RedisTake(u) == kindOfPool = "redis" /\ TakeYielding(u)
MysqlTake(u) == kindOfPool = "mysql" /\ TakeYielding(u)
MemcachedTake(u) == kindOfPool = "memcached" /\ TakeAtOnce(u)
MongodbTake(u) == kindOfPool = "mongodb" /\ TakeAtOnce(u)

(***************************************************************************)
(* put()                                                                   *)
(***************************************************************************)
PutBack(u) ==
    IF waiting = <<>>
    THEN /\ idle' = Append(idle, held[u])
         /\ user' = [user EXCEPT ![u] = "out"] /\ held' = [held EXCEPT ![u] = 0]
         /\ UNCHANGED waiting
    ELSE /\ waiting' = Tail(waiting)
         /\ user' = [user EXCEPT ![u] = "out", ![Head(waiting)] = "has"]
         /\ held' = [held EXCEPT ![u] = 0, ![Head(waiting)] = held[u]]
         /\ UNCHANGED idle

\* A sound connection.
PutSound(u) ==
    /\ user[u] = "has"
    /\ IF Len(idle) < MaxConnect
       THEN PutBack(u) /\ UNCHANGED count
       ELSE /\ count' = count - 1
            /\ user' = [user EXCEPT ![u] = "out"] /\ held' = [held EXCEPT ![u] = 0]
            /\ UNCHANGED <<idle, waiting>>

\* mutant: the connection that failed is still counted
MutDropped == count

Dropped == count - 1

Reopens == waiting # <<>> /\ Dropped < MaxConnect

\* After an error the connection is freed;
PutDrops(u) ==
    /\ user[u] = "has" /\ ~Reopens
    /\ user' = [user EXCEPT ![u] = "out"] /\ held' = [held EXCEPT ![u] = 0]
    /\ count' = Dropped
    /\ UNCHANGED <<idle, waiting>>

\* another one is opened for the coroutine that has waited longest, which
\* leaves the list at once.
PutReopens(u) ==
    /\ user[u] = "has" /\ Reopens
    /\ held' = [held EXCEPT ![u] = 0]
    /\ waiting' = Tail(waiting)
    /\ user' = [user EXCEPT ![u] = "out", ![Head(waiting)] = "retry"]
    /\ count' = Dropped + 1
    /\ UNCHANGED idle

PutOpened(u) ==
    /\ user[u] = "retry"
    /\ Resume(<<u>>, Append(idle, New))
    /\ UNCHANGED <<kindOfPool, waiting, count>>

\* put() cannot connect: the one it was for is resumed first, then the others.
PutFails(u) ==
    /\ user[u] = "retry"
    /\ count' = count - 1
    /\ waiting' = <<>>
    /\ Resume(<<u>> \o waiting, idle)
    /\ UNCHANGED kindOfPool

\* The same in one step: the coroutine that has waited longest gets the new
\* connection, or all that wait fail.
PutRemakes(u) ==
    /\ user[u] = "has" /\ Reopens
    /\ \/ /\ count' = Dropped + 1 /\ waiting' = Tail(waiting)
          /\ user' = [user EXCEPT ![u] = "out", ![Head(waiting)] = "has"]
          /\ held' = [held EXCEPT ![u] = 0, ![Head(waiting)] = held[u]]
       \/ /\ count' = Dropped /\ waiting' = <<>>
          /\ user' = [v \in Users |-> IF v = u \/ v \in Range(waiting) THEN "out" ELSE user[v]]
          /\ held' = [held EXCEPT ![u] = 0]
    /\ UNCHANGED idle

PutYielding(u) == PutSound(u) \/ PutDrops(u) \/ PutReopens(u)
PutAtOnce(u) == PutSound(u) \/ PutDrops(u) \/ PutRemakes(u)

RedisPut(u) == kindOfPool = "redis" /\ PutYielding(u)
MysqlPut(u) == kindOfPool = "mysql" /\ PutYielding(u)
MemcachedPut(u) == kindOfPool = "memcached" /\ PutAtOnce(u)
MongodbPut(u) == kindOfPool = "mongodb" /\ PutAtOnce(u)

\* clearIdleRoutine(): connections that have been idle for a minute.
ClearIdle ==
    \E k \in 1 .. Len(idle) :
        /\ idle' = SubSeq(idle, k + 1, Len(idle))
        /\ count' = count - k
        /\ UNCHANGED <<kindOfPool, user, held, waiting>>

RedisClearIdle == kindOfPool = "redis" /\ ClearIdle
MysqlClearIdle == kindOfPool = "mysql" /\ ClearIdle
MemcachedClearIdle == kindOfPool = "memcached" /\ ClearIdle
MongodbClearIdle == kindOfPool = "mongodb" /\ ClearIdle

\* The proxy of a pool: take() waits for the answer, put() does not.
RedisProxy(u) == RedisTake(u) \/ RedisPut(u)
MysqlProxy(u) == MysqlTake(u) \/ MysqlPut(u)
MemcachedProxy(u) == MemcachedTake(u) \/ MemcachedPut(u)
MongodbProxy(u) == MongodbTake(u) \/ MongodbPut(u)

Empty ==
    /\ user = [u \in Users |-> "out"] /\ held = [u \in Users |-> 0]
    /\ idle = <<>> /\ waiting = <<>> /\ count = 0

RedisInit == kindOfPool = "redis" /\ Empty
MysqlInit == kindOfPool = "mysql" /\ Empty
MemcachedInit == kindOfPool = "memcached" /\ Empty
MongodbInit == kindOfPool = "mongodb" /\ Empty

PoolInit == RedisInit \/ MysqlInit \/ MemcachedInit \/ MongodbInit

PoolCall(u) ==
    /\ RedisProxy(u) \/ MysqlProxy(u) \/ MemcachedProxy(u) \/ MongodbProxy(u)
    /\ UNCHANGED kindOfPool

PoolNext ==
    \/ \E u \in Users : \/ PoolCall(u) \/ TakeOpened(u) \/ TakeFails(u)
                        \/ PutOpened(u) \/ PutFails(u)
    \/ RedisClearIdle \/ MysqlClearIdle \/ MemcachedClearIdle \/ MongodbClearIdle
-----------------------------------------------------------------------------
In(state) == {u \in Users : user[u] = state}

\* realConnectCount_ counts what is idle, in use or being opened, and stays in
\* its bound; no connection has two owners; coroutines wait only while nothing
\* is idle and every connection is in use or being opened (the assertions of
\* put() follow).
PoolSound ==
    /\ count = Len(idle) + Cardinality(In("has")) + Cardinality(In("open"))
                 + Cardinality(In("retry"))
    /\ count \in 0 .. MaxConnect
    /\ \A u \in Users : /\ held[u] # 0 <=> user[u] = "has"
                        /\ held[u] \notin Range(idle)
                        /\ \A v \in Users \ {u} : held[u] # 0 => held[u] # held[v]
    /\ IsInjective(idle)
    /\ Range(waiting) = In("wait") /\ IsInjective(waiting)
    /\ waiting # <<>> => idle = <<>> /\ count = MaxConnect
=============================================================================
