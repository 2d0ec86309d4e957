----------------------------- MODULE Connection -----------------------------
(***************************************************************************)
(* The life of one connection in the IO layer, from accept() to onClose()  *)
(* (corpc_io.cpp).  Five kinds of threads work on it:                      *)
(*                                                                         *)
(*   - the acceptor builds it, tells its owner (onConnect) and hands it to *)
(*     the sender and to the receiver, all under the connection's lock_;   *)
(*   - workers call send() and close() on it as soon as onConnect() has    *)
(*     told them of it;                                                    *)
(*   - a sender thread runs taskQueueRoutine, which takes INIT, CLOSE and  *)
(*     DATA tasks, and one connectionRoutine, which encodes and writes;    *)
(*     the two are coroutines of one thread;                               *)
(*   - a receiver thread runs a connectionRoutine that reads until the     *)
(*     connection ends and then takes it down;                             *)
(*   - the heartbeater's thread sends heartbeats and closes connections    *)
(*     that are silent.                                                    *)
(*                                                                         *)
(* The queues between them are the ones of module MpscQueue, lock_ is a    *)
(* Mutex and closeSem_ a Semaphore (modules Mutex and SemaphoreSpec); they *)
(* are taken here at their promises.  The bytes of a message are not       *)
(* modelled: a buffer is a sequence of whole messages.                     *)
(***************************************************************************)
EXTENDS Naturals, Sequences

CONSTANTS
    Data,   \* what workers send
    Beats,  \* the heartbeats the heartbeater sends at most
    Bad,    \* data that encode() may refuse (needCrypt, and no crypter yet)
    User,   \* worker coroutines that call close()
    NeedHB, \* needHB_
    Hb, Acc \* the heartbeater and the acceptor

NoOne == "noone"

ASSUME ConnectionAssumption ==
    /\ Data \cap Beats = {}
    /\ Bad \subseteq Data
    /\ Hb \notin User /\ Acc \notin User /\ Hb # Acc /\ Acc # NoOne
    /\ NeedHB \in BOOLEAN

VARIABLES
    acc,        \* where the acceptor is in buildAndAddConnection()
    added,      \* sendThreadIndex_ has been set
    lock,       \* who holds lock_
    pc,         \* where each caller of close() is
    sendQ,      \* the sender's task queue
    spc,        \* where Sender::connectionRoutine is
    datas,      \* datas_
    buf,        \* what is being written
    rpc,        \* where Receiver::connectionRoutine is
    isClosing, closed, isHBing, \* the flags of the connection
    closeSem,   \* closeSem_
    fdOpen,     \* the descriptor has not been closed
    shut,       \* the directions that have been shut down
    peer,       \* the other side is there
    hbQ,        \* the heartbeater's queue
    hbList,     \* the connection is in heartbeatList_
    fate,       \* what has become of each piece of data
    fault       \* history: the peer left, or a message was not decodable or encodable

accVars == <<acc, added>>
flags == <<isClosing, closed, isHBing>>
fdVars == <<closeSem, fdOpen, shut>>
sndVars == <<spc, datas, buf>>
hbVars == <<hbQ, hbList>>
vars == <<accVars, lock, pc, sendQ, sndVars, rpc, flags, fdVars, peer, hbVars,
          fate, fault>>

Closer == User \cup {Hb}
All == Data \cup Beats

Task(t, d) == [type |-> t, data |-> d]
Init ==
    /\ acc = "build" /\ added = FALSE
    /\ lock = NoOne
    /\ pc = [c \in Closer |-> "idle"]
    /\ sendQ = <<>>
    /\ spc = "none" /\ datas = <<>> /\ buf = <<>>
    /\ rpc = "none"
    /\ isClosing = FALSE /\ closed = FALSE /\ isHBing = FALSE
    /\ closeSem = 0 /\ fdOpen = TRUE /\ shut = {}
    /\ peer = TRUE
    /\ hbQ = <<>> /\ hbList = FALSE
    /\ fate = [d \in All |-> "new"]
    /\ fault = FALSE

-----------------------------------------------------------------------------
(* Server::buildAndAddConnection() and IO::addConnection()                 *)

AccGoTo(from, to) == acc = from /\ acc' = to

\* Heartbeater::addConnection(), for a connection that needs heartbeats
Build ==
    /\ AccGoTo("build", "lock")
    /\ isHBing' = NeedHB
    /\ hbQ' = IF NeedHB THEN Append(hbQ, "START") ELSE hbQ
    /\ UNCHANGED <<added, lock, pc, sendQ, sndVars, rpc, isClosing, closed,
                   fdVars, peer, hbList, fate, fault>>

AccLock ==
    /\ lock = NoOne
    /\ AccGoTo("lock", "connect")
    /\ lock' = Acc
    /\ UNCHANGED <<added, pc, sendQ, sndVars, rpc, flags, fdVars, peer, hbVars,
                   fate, fault>>

\* onConnect(): from now on the workers know of the connection.
OnConnect ==
    /\ AccGoTo("connect", "index")
    /\ UNCHANGED <<added, lock, pc, sendQ, sndVars, rpc, flags, fdVars, peer,
                   hbVars, fate, fault>>

\* Sender::addConnection() sets sendThreadIndex_ ...
SetIndex ==
    /\ AccGoTo("index", "init")
    /\ added' = TRUE
    /\ UNCHANGED <<lock, pc, sendQ, sndVars, rpc, flags, fdVars, peer, hbVars,
                   fate, fault>>

\* ... and pushes the INIT task.
PushInit ==
    /\ AccGoTo("init", "recv")
    /\ sendQ' = Append(sendQ, Task("INIT", NoOne))
    /\ UNCHANGED <<added, lock, pc, sndVars, rpc, flags, fdVars, peer, hbVars,
                   fate, fault>>

\* Receiver::addConnection()
PushReceiver ==
    /\ AccGoTo("recv", "unlock")
    /\ rpc' = "queued"
    /\ UNCHANGED <<added, lock, pc, sendQ, sndVars, flags, fdVars, peer, hbVars,
                   fate, fault>>

AccUnlock ==
    /\ AccGoTo("unlock", "done")
    /\ lock' = NoOne
    /\ UNCHANGED <<added, pc, sendQ, sndVars, rpc, flags, fdVars, peer, hbVars,
                   fate, fault>>

Acceptor ==
    \/ Build \/ AccLock \/ OnConnect \/ SetIndex \/ PushInit \/ PushReceiver
    \/ AccUnlock

-----------------------------------------------------------------------------
(* Connection::send() and Connection::close()                              *)

\* Connection::send().  A send() before SetIndex would use the index -1; the
\* model leaves it out (see the README).
Send(d) ==
    /\ added
    /\ fate[d] = "new"
    /\ sendQ' = Append(sendQ, Task("DATA", d))
    /\ fate' = [fate EXCEPT ![d] = "submitted"]
    /\ UNCHANGED <<accVars, lock, pc, sndVars, rpc, flags, fdVars, peer, hbVars,
                   fault>>

Known == acc \notin {"build", "lock", "connect"}

PcGoTo(c, from, to) == pc[c] = from /\ pc' = [pc EXCEPT ![c] = to]

\* close() returns at once when isOpen() is false.
CloseCheck(c) ==
    /\ c \in User => Known
    /\ PcGoTo(c, IF c = Hb THEN "check" ELSE "idle",
              IF isClosing \/ closed THEN "done" ELSE "lock")
    /\ UNCHANGED <<accVars, lock, sendQ, sndVars, rpc, flags, fdVars, peer,
                   hbVars, fate, fault>>

CloseLock(c) ==
    /\ lock = NoOne
    /\ PcGoTo(c, "lock", "push")
    /\ lock' = c
    /\ UNCHANGED <<accVars, sendQ, sndVars, rpc, flags, fdVars, peer, hbVars,
                   fate, fault>>

\* IO::removeConnection()
ClosePush(c) ==
    /\ PcGoTo(c, "push", "unlock")
    /\ sendQ' = Append(sendQ, Task("CLOSE", NoOne))
    /\ UNCHANGED <<accVars, lock, sndVars, rpc, flags, fdVars, peer, hbVars,
                   fate, fault>>

CloseUnlock(c) ==
    /\ PcGoTo(c, "unlock", "hb")
    /\ lock' = NoOne
    /\ UNCHANGED <<accVars, sendQ, sndVars, rpc, flags, fdVars, peer, hbVars,
                   fate, fault>>

CloseIsHBing(c) ==
    /\ PcGoTo(c, "hb", IF isHBing THEN "stop" ELSE "done")
    /\ UNCHANGED <<accVars, lock, sendQ, sndVars, rpc, flags, fdVars, peer,
                   hbVars, fate, fault>>

\* Heartbeater::removeConnection()
StopHeartbeat ==
    /\ isHBing' = FALSE
    /\ hbQ' = Append(hbQ, "STOP")

CloseStop(c) ==
    /\ PcGoTo(c, "stop", "done")
    /\ StopHeartbeat
    /\ UNCHANGED <<accVars, lock, sendQ, sndVars, rpc, isClosing, closed,
                   fdVars, peer, hbList, fate, fault>>

Close(c) ==
    \/ CloseCheck(c) \/ CloseLock(c) \/ ClosePush(c) \/ CloseUnlock(c)
    \/ CloseIsHBing(c) \/ CloseStop(c)

-----------------------------------------------------------------------------
(* Sender: taskQueueRoutine and connectionRoutine, coroutines of one thread *)

\* connectionRoutine has not begun, sleeps, waits in write(), or is over:
\* taskQueueRoutine may run.
RoutineAway == spc \in {"none", "hang", "write", "end"}

\* co_resume() of a hung connectionRoutine
ResumeIfHung == spc' = IF spc = "hang" THEN "top" ELSE spc

PopTask(t) ==
    /\ RoutineAway
    /\ sendQ # <<>> /\ Head(sendQ).type = t
    /\ sendQ' = Tail(sendQ)

PopInit ==
    /\ PopTask("INIT")
    /\ spc' = "top"
    /\ UNCHANGED <<accVars, lock, pc, datas, buf, rpc, flags, fdVars, peer,
                   hbVars, fate, fault>>

\* Mutation: a hung connectionRoutine is not resumed.
PopCloseMutant ==
    /\ PopTask("CLOSE")
    /\ isClosing' = TRUE
    /\ UNCHANGED <<accVars, lock, pc, sndVars, rpc, closed, isHBing, fdVars,
                   peer, hbVars, fate, fault>>

PopClose ==
    /\ PopTask("CLOSE")
    /\ isClosing' = TRUE
    /\ IF isClosing THEN UNCHANGED spc ELSE ResumeIfHung
    /\ UNCHANGED <<accVars, lock, pc, datas, buf, rpc, closed, isHBing, fdVars,
                   peer, hbVars, fate, fault>>

\* Mutation: data is queued without a look at isClosing_.
PopDataMutant ==
    LET d == Head(sendQ).data IN
    /\ PopTask("DATA")
    /\ datas' = Append(datas, d)
    /\ fate' = [fate EXCEPT ![d] = "queued"]
    /\ ResumeIfHung
    /\ UNCHANGED <<accVars, lock, pc, buf, rpc, flags, fdVars, peer, hbVars, fault>>

PopData ==
    LET d == Head(sendQ).data IN
    /\ PopTask("DATA")
    /\ \/ /\ ~isClosing
          /\ datas' = Append(datas, d)
          /\ fate' = [fate EXCEPT ![d] = "queued"]
          /\ ResumeIfHung
       \/ /\ isClosing
          /\ fate' = [fate EXCEPT ![d] = "cleaned"]
          /\ UNCHANGED <<datas, spc>>
    /\ UNCHANGED <<accVars, lock, pc, buf, rpc, flags, fdVars, peer, hbVars, fault>>

\* The data at positions 1..n of datas_ leaves it for the buffer.
Encode(n) ==
    /\ datas' = SubSeq(datas, n + 1, Len(datas))
    /\ fate' = [d \in All |->
                  IF \E i \in 1..n : datas[i] = d THEN "taken" ELSE fate[d]]

\* downflow() fills the buffer, and write() begins.
Downflow ==
    /\ spc = "top"
    /\ \E n \in 1..Len(datas) :
          /\ buf' = SubSeq(datas, 1, n)
          /\ Encode(n)
    /\ spc' = "write"
    /\ UNCHANGED <<accVars, lock, pc, sendQ, rpc, flags, fdVars, peer, hbVars,
                   fault>>

\* encode() refuses a message: what was encoded before it is lost with the
\* buffer, and the routine ends.
DownflowFails ==
    /\ spc = "top"
    /\ \E n \in 1..Len(datas) :
          /\ datas[n] \in Bad
          /\ Encode(n - 1)
    /\ spc' = "closing"
    /\ fault' = TRUE
    /\ UNCHANGED <<accVars, lock, pc, sendQ, buf, rpc, flags, fdVars, peer, hbVars>>

\* Nothing to send: the routine ends if the connection is closing, else it hangs.
DownflowNone ==
    /\ spc = "top" /\ datas = <<>>
    /\ spc' = IF isClosing THEN "closing" ELSE "hang"
    /\ UNCHANGED <<accVars, lock, pc, sendQ, datas, buf, rpc, flags, fdVars, peer,
                   hbVars, fate, fault>>

\* Mutation: after a write the routine ends if the connection is closing.
WriteDoneMutant ==
    /\ spc = "write" /\ "WR" \notin shut
    /\ spc' = IF isClosing THEN "closing" ELSE "top"
    /\ buf' = <<>>
    /\ UNCHANGED <<accVars, lock, pc, sendQ, datas, rpc, flags, fdVars, peer,
                   hbVars, fate, fault>>

WriteDone ==
    /\ spc = "write" /\ "WR" \notin shut
    /\ spc' = "top"
    /\ buf' = <<>>
    /\ UNCHANGED <<accVars, lock, pc, sendQ, datas, rpc, flags, fdVars, peer,
                   hbVars, fate, fault>>

WriteFails ==
    /\ spc = "write" /\ ("WR" \in shut \/ ~peer)
    /\ spc' = "closing"
    /\ UNCHANGED <<accVars, lock, pc, sendQ, datas, buf, rpc, flags, fdVars, peer,
                   hbVars, fate, fault>>

\* The end of connectionRoutine: isClosing_, shutdown(SHUT_RD), closeSem_.post().
EndClosing ==
    /\ spc = "closing" /\ spc' = "shut"
    /\ isClosing' = TRUE
    /\ UNCHANGED <<accVars, lock, pc, sendQ, datas, buf, rpc, closed, isHBing,
                   fdVars, peer, hbVars, fate, fault>>

EndShutdown ==
    /\ spc = "shut" /\ spc' = "post"
    /\ shut' = shut \cup {"RD"}
    /\ UNCHANGED <<accVars, lock, pc, sendQ, datas, buf, rpc, flags, closeSem,
                   fdOpen, peer, hbVars, fate, fault>>

EndPost ==
    /\ spc = "post" /\ spc' = "end"
    /\ closeSem' = closeSem + 1
    /\ UNCHANGED <<accVars, lock, pc, sendQ, datas, buf, rpc, flags, fdOpen, shut,
                   peer, hbVars, fate, fault>>

SenderThread ==
    \/ PopInit \/ PopClose \/ PopData
    \/ Downflow \/ DownflowFails \/ DownflowNone \/ WriteDone \/ WriteFails
    \/ EndClosing \/ EndShutdown \/ EndPost

-----------------------------------------------------------------------------
(* Receiver: connectionDispatchRoutine and connectionRoutine               *)

RpcGoTo(from, to) == rpc = from /\ rpc' = to

RecvStart ==
    /\ RpcGoTo("queued", "read")
    /\ UNCHANGED <<accVars, lock, pc, sendQ, sndVars, flags, fdVars, peer, hbVars,
                   fate, fault>>

\* upflow() returns false: a message is too long or cannot be decoded.
UpflowFails ==
    /\ RpcGoTo("read", "remove")
    /\ fault' = TRUE
    /\ UNCHANGED <<accVars, lock, pc, sendQ, sndVars, flags, fdVars, peer, hbVars,
                   fate>>

\* read() returns 0 or an error.
ReadEnds ==
    /\ "RD" \in shut \/ ~peer
    /\ RpcGoTo("read", "remove")
    /\ UNCHANGED <<accVars, lock, pc, sendQ, sndVars, flags, fdVars, peer, hbVars,
                   fate, fault>>

RecvRemove ==
    /\ RpcGoTo("remove", "shutdown")
    /\ sendQ' = Append(sendQ, Task("CLOSE", NoOne))
    /\ UNCHANGED <<accVars, lock, pc, sndVars, flags, fdVars, peer, hbVars, fate,
                   fault>>

RecvShutdown ==
    /\ RpcGoTo("shutdown", "wait")
    /\ shut' = shut \cup {"WR"}
    /\ UNCHANGED <<accVars, lock, pc, sendQ, sndVars, flags, closeSem, fdOpen, peer,
                   hbVars, fate, fault>>

\* Mutation: the receiver does not wait for the sender.
RecvWaitMutant ==
    /\ RpcGoTo("wait", "close")
    /\ UNCHANGED <<accVars, lock, pc, sendQ, sndVars, flags, fdVars, peer, hbVars,
                   fate, fault>>

\* closeSem_.wait()
RecvWait ==
    /\ closeSem > 0
    /\ RpcGoTo("wait", "close")
    /\ closeSem' = closeSem - 1
    /\ UNCHANGED <<accVars, lock, pc, sendQ, sndVars, flags, fdOpen, shut, peer,
                   hbVars, fate, fault>>

RecvCloseFd ==
    /\ RpcGoTo("close", "closed")
    /\ fdOpen' = FALSE
    /\ UNCHANGED <<accVars, lock, pc, sendQ, sndVars, flags, closeSem, shut, peer,
                   hbVars, fate, fault>>

RecvClosed ==
    /\ RpcGoTo("closed", "hb")
    /\ closed' = TRUE
    /\ UNCHANGED <<accVars, lock, pc, sendQ, sndVars, isClosing, isHBing, fdVars,
                   peer, hbVars, fate, fault>>

RecvIsHBing ==
    /\ RpcGoTo("hb", IF isHBing THEN "stop" ELSE "onclose")
    /\ UNCHANGED <<accVars, lock, pc, sendQ, sndVars, flags, fdVars, peer, hbVars,
                   fate, fault>>

RecvStop ==
    /\ RpcGoTo("stop", "onclose")
    /\ StopHeartbeat
    /\ UNCHANGED <<accVars, lock, pc, sendQ, sndVars, isClosing, closed, fdVars,
                   peer, hbList, fate, fault>>

OnClose ==
    /\ RpcGoTo("onclose", "end")
    /\ UNCHANGED <<accVars, lock, pc, sendQ, sndVars, flags, fdVars, peer, hbVars,
                   fate, fault>>

ReceiverThread ==
    \/ RecvStart \/ ReadEnds \/ RecvRemove \/ RecvShutdown \/ RecvWait
    \/ RecvCloseFd \/ RecvClosed \/ RecvIsHBing \/ RecvStop \/ OnClose

-----------------------------------------------------------------------------
(* Heartbeater: dispatchRoutine and heartbeatRoutine, coroutines of one    *)
(* thread.  heartbeatRoutine yields while it sleeps and while it waits for *)
(* lock_ in close().                                                       *)

HbAway == pc[Hb] \in {"idle", "lock", "done"}

HbDispatch ==
    /\ HbAway
    /\ hbQ # <<>>
    /\ hbQ' = Tail(hbQ)
    /\ hbList' = (Head(hbQ) = "START")
    /\ UNCHANGED <<accVars, lock, pc, sendQ, sndVars, rpc, flags, fdVars, peer,
                   fate, fault>>

HbRemoveClosed ==
    /\ pc[Hb] = "idle" /\ hbList /\ closed
    /\ hbList' = FALSE
    /\ UNCHANGED <<accVars, lock, pc, sendQ, sndVars, rpc, flags, fdVars, peer, hbQ,
                   fate, fault>>

\* No heartbeat for too long.  The times are far longer than an accept takes.
HbTimeout ==
    /\ acc = "done"
    /\ hbList /\ ~closed
    /\ PcGoTo(Hb, "idle", "check")
    /\ hbList' = FALSE
    /\ UNCHANGED <<accVars, lock, sendQ, sndVars, rpc, flags, fdVars, peer, hbQ,
                   fate, fault>>

\* A heartbeat is due: it is sent and the connection stays in the list.
HbBeat(d) ==
    /\ acc = "done"
    /\ pc[Hb] = "idle" /\ hbList /\ ~closed
    /\ Send(d)

Heartbeater ==
    \/ HbDispatch \/ HbRemoveClosed \/ HbTimeout
    \/ \E d \in Beats : HbBeat(d)

-----------------------------------------------------------------------------

\* The other side closes the connection or dies.
PeerLeaves ==
    /\ peer
    /\ peer' = FALSE
    /\ fault' = TRUE
    /\ UNCHANGED <<accVars, lock, pc, sendQ, sndVars, rpc, flags, fdVars, hbVars,
                   fate>>

Next ==
    \/ Acceptor \/ SenderThread \/ ReceiverThread \/ Heartbeater
    \/ \E d \in Data : Send(d)
    \/ \E c \in Closer : Close(c)
    \/ UpflowFails
    \/ PeerLeaves

\* Every thread keeps running, and a write() ends some time: the peer reads,
\* or leaves, or the connection is shut down.  Nobody has to send or to call
\* close(), and the peer need not leave.
Fairness ==
    /\ WF_vars(Acceptor) /\ WF_vars(SenderThread) /\ WF_vars(ReceiverThread)
    /\ WF_vars(HbDispatch) /\ WF_vars(HbRemoveClosed)
    /\ \A c \in Closer : WF_vars(pc[c] # "idle" /\ Close(c))

Spec == Init /\ [][Next]_vars /\ Fairness

-----------------------------------------------------------------------------
(* Properties                                                              *)

SenderTask == [type : {"INIT", "CLOSE"}, data : {NoOne}] \cup [type : {"DATA"}, data : All]

\* The types of the variables; closeSem_ is posted at most once.
TypeOK ==
    /\ acc \in {"build", "lock", "connect", "index", "init", "recv", "unlock", "done"}
    /\ added \in BOOLEAN
    /\ lock \in Closer \cup {Acc, NoOne}
    /\ pc \in [Closer -> {"idle", "check", "lock", "push", "unlock", "hb", "stop",
                           "done"}]
    /\ sendQ \in Seq(SenderTask)
    /\ spc \in {"none", "top", "hang", "write", "closing", "shut", "post", "end"}
    /\ datas \in Seq(All) /\ buf \in Seq(All)
    /\ rpc \in {"none", "queued", "read", "remove", "shutdown", "wait", "close",
                "closed", "hb", "stop", "onclose", "end"}
    /\ {isClosing, closed, isHBing, fdOpen, peer, hbList, fault} \subseteq BOOLEAN
    /\ closeSem \in 0..1
    /\ shut \subseteq {"RD", "WR"}
    /\ hbQ \in Seq({"START", "STOP"})
    /\ fate \in [All -> {"new", "submitted", "queued", "taken", "cleaned"}]

\* The receiver closes the descriptor only when the sender is through with
\* it: no write() or shutdown() of connectionRoutine can hit a descriptor
\* that was closed and perhaps given to another connection.
FdSafe == ~fdOpen => spc = "end"

\* lock_ is there so that a close() made from onConnect() does not remove the
\* connection from the IO layer before it has been added: whenever a caller
\* of close() is about to push its task, the sender's index is known.
AddedBeforeRemoved == \A c \in Closer : pc[c] = "push" => added

\* No thread uses the descriptor or the sender's index out of its time.
ConnectionSound == TypeOK /\ FdSafe /\ AddedBeforeRemoved

\* close() lets the data go out first: unless the peer left or a message was
\* broken, connectionRoutine ends with nothing left in datas_ or unwritten,
\* although CLOSE may come while it hangs, encodes or waits in write().
SentBeforeClose == spc = "end" /\ ~fault => datas = <<>> /\ buf = <<>>

\* The IO layer keeps its promise to the owner of the connection: see
\* ConnectionSpec.
Phase == IF rpc = "end" THEN "closed" ELSE IF isClosing THEN "closing" ELSE "open"
Promise == INSTANCE ConnectionSpec WITH Data <- All, phase <- Phase
Implements == Promise!Spec

\* Whoever ends a connection (a close(), the peer, the heartbeater), it ends
\* with onClose() and leaves the heartbeater's list for good: the sender and
\* the receiver do not wait for each other for ever.
CloseCompletes == (isClosing \/ ~peer) ~> [](rpc = "end" /\ ~hbList)

-----------------------------------------------------------------------------
(* The inductive invariant behind ConnectionSound, SentBeforeClose and     *)
(* Implements.                                                             *)

\* A caller of close() gets lock_ only after the acceptor is through with it.
AcceptFirst ==
    /\ acc \in {"init", "recv", "unlock", "done"} => added
    /\ acc \in {"connect", "index", "init", "recv", "unlock"} => lock = Acc
    /\ \A c \in Closer :
          /\ pc[c] \in {"check", "lock"} => Known
          /\ pc[c] \in {"push", "unlock", "hb", "stop"} => acc = "done"

\* The receiver has waited for the sender, whose end it does not disturb.
SenderEnded == rpc \in {"close", "closed", "hb", "stop", "onclose", "end"}

TakenDown ==
    /\ acc \notin {"unlock", "done"} => rpc = "none"
    /\ closeSem = 1 => spc = "end" /\ ~SenderEnded
    /\ SenderEnded => spc = "end"
    /\ ~fdOpen => SenderEnded
    /\ spc \in {"shut", "post", "end"} => isClosing

\* Unless something failed it is the end of the sender that ends the receiver,
\* and the sender ends with nothing left.
NothingLeft ==
    /\ ~peer => fault
    /\ "RD" \in shut => spc \in {"post", "end"}
    /\ "WR" \in shut => rpc \notin {"none", "queued", "read"}
    /\ rpc \notin {"none", "queued", "read"} /\ ~fault => spc \in {"post", "end"}
    /\ spc \in {"none", "top", "hang"} => buf = <<>>
    /\ spc \in {"closing", "shut", "post", "end"} /\ ~fault => datas = <<>> /\ buf = <<>>

\* There is one INIT task, and every piece of data is in one task at most.
TasksOnce ==
    /\ \A i, j \in DOMAIN sendQ :
          sendQ[i] = sendQ[j] /\ sendQ[i].type # "CLOSE" => i = j
    /\ \A i \in DOMAIN sendQ :
          sendQ[i].type = "INIT" => spc = "none" /\ acc \in {"recv", "unlock", "done"}
    /\ acc \notin {"recv", "unlock", "done"} => spc = "none"

\* What is in a queue has the fate that belongs to it.
FatesKnown ==
    /\ \A i \in DOMAIN sendQ : sendQ[i].type = "DATA" => fate[sendQ[i].data] = "submitted"
    /\ \A i \in DOMAIN datas : fate[datas[i]] = "queued"
    /\ \A i, j \in DOMAIN datas : datas[i] = datas[j] => i = j

ConnInv ==
    TypeOK /\ AcceptFirst /\ TakenDown /\ NothingLeft /\ TasksOnce /\ FatesKnown
=============================================================================
