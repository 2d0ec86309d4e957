-------------------------- MODULE ConnectionProofs --------------------------
(***************************************************************************)
(* Proofs about Connection for any data, any heartbeats and any number of  *)
(* callers of close().  ConnInv is inductive; its parts are independent of *)
(* each other except that the one INIT task (TasksOnce) lets the sender's  *)
(* connectionRoutine begin only once, so that its end is for good.  From   *)
(* there TakenDown follows the semaphore closeSem_ to the receiver, and    *)
(* NothingLeft follows the causes of an end backwards.                     *)
(***************************************************************************)
EXTENDS Connection, UdpHandshake, FiniteSetTheorems, WellFoundedInduction, TLAPS

-----------------------------------------------------------------------------
(* Sequences                                                               *)

\* The elements of a queue after push_back.
LEMMA AppendFacts ==
    ASSUME NEW S, NEW s \in Seq(S), NEW e \in S, NEW i \in DOMAIN Append(s, e)
    PROVE  \/ i \in DOMAIN s /\ Append(s, e)[i] = s[i]
           \/ i = Len(s) + 1 /\ i \notin DOMAIN s /\ Append(s, e)[i] = e
  OBVIOUS

\* The elements of a queue after pop_front.
LEMMA TailFacts ==
    ASSUME NEW S, NEW s \in Seq(S), s # <<>>, NEW i \in DOMAIN Tail(s)
    PROVE  i \in Nat /\ i + 1 # 1 /\ i + 1 \in DOMAIN s /\ Tail(s)[i] = s[i + 1]
  OBVIOUS

\* The elements that are left when the first n are gone.
LEMMA DropFacts ==
    ASSUME NEW S, NEW s \in Seq(S), NEW n \in 0 .. Len(s)
    PROVE  /\ SubSeq(s, n + 1, Len(s)) \in Seq(S)
           /\ \A i \in DOMAIN SubSeq(s, n + 1, Len(s)) :
                 /\ i \in Nat /\ i + n \in DOMAIN s /\ i + n \notin 1 .. n
                 /\ SubSeq(s, n + 1, Len(s))[i] = s[i + n]
  OBVIOUS

-----------------------------------------------------------------------------
(* The queue of the sender.                                                *)

\* A task is pushed.
LEMMA Pushed ==
    ASSUME TypeOK, NEW t \in SenderTask, sendQ' = Append(sendQ, t)
    PROVE  /\ sendQ' \in Seq(SenderTask)
           /\ \A i \in DOMAIN sendQ' :
                 \/ i \in DOMAIN sendQ /\ sendQ'[i] = sendQ[i]
                 \/ i = Len(sendQ) + 1 /\ i \notin DOMAIN sendQ /\ sendQ'[i] = t
<1>1. sendQ \in Seq(SenderTask)
  BY DEF TypeOK
<1> QED  BY <1>1, AppendFacts

\* A CLOSE task disturbs nothing in the queue.
LEMMA PushedClose ==
    ASSUME ConnInv, sendQ' = Append(sendQ, Task("CLOSE", NoOne)),
           UNCHANGED <<acc, spc, datas, fate>>
    PROVE  sendQ' \in Seq(SenderTask) /\ TasksOnce' /\ FatesKnown'
<1> DEFINE t == Task("CLOSE", NoOne)
<1>1. t \in SenderTask /\ t.type = "CLOSE"
  BY DEF Task, SenderTask
<1>2. sendQ' = Append(sendQ, t)
  OBVIOUS
<1> HIDE DEF t
<1>3. /\ sendQ' \in Seq(SenderTask)
      /\ \A i \in DOMAIN sendQ' :
                 \/ i \in DOMAIN sendQ /\ sendQ'[i] = sendQ[i]
                 \/ i = Len(sendQ) + 1 /\ i \notin DOMAIN sendQ /\ sendQ'[i] = t
  BY <1>1, <1>2, Pushed DEF ConnInv
<1>q. UNCHANGED <<acc, spc, datas, fate>>
  OBVIOUS
<1>4. TasksOnce'
  BY ONLY <1>1, <1>3, <1>q, ConnInv DEF ConnInv, TasksOnce
<1>5. FatesKnown'
  BY ONLY <1>1, <1>3, <1>q, ConnInv DEF ConnInv, FatesKnown
<1> QED  BY <1>3, <1>4, <1>5

\* A task is popped.
LEMMA Popped ==
    ASSUME TypeOK, NEW t, PopTask(t)
    PROVE  /\ 1 \in DOMAIN sendQ /\ Head(sendQ) = sendQ[1] /\ sendQ[1] \in SenderTask
           /\ sendQ[1].type = t
           /\ sendQ' \in Seq(SenderTask)
           /\ \A i \in DOMAIN sendQ' :
                 i \in Nat /\ i + 1 # 1 /\ i + 1 \in DOMAIN sendQ /\ sendQ'[i] = sendQ[i + 1]
<1>1. sendQ \in Seq(SenderTask) /\ sendQ # <<>> /\ Head(sendQ).type = t /\ sendQ' = Tail(sendQ)
  BY DEF TypeOK, PopTask
<1>2. 1 \in DOMAIN sendQ /\ Head(sendQ) = sendQ[1] /\ sendQ[1] \in SenderTask
  BY <1>1
<1>3. sendQ' \in Seq(SenderTask)
  BY <1>1
<1> QED  BY <1>1, <1>2, <1>3, TailFacts

\* A task that is popped was there once, unless it is a CLOSE.
LEMMA PoppedOnce ==
    ASSUME TypeOK, TasksOnce, NEW t, PopTask(t)
    PROVE  /\ \A i, j \in DOMAIN sendQ' :
                 sendQ'[i] = sendQ'[j] /\ sendQ'[i].type # "CLOSE" => i = j
           /\ t # "CLOSE" => \A i \in DOMAIN sendQ' : sendQ'[i] # sendQ[1]
<1>1. /\ 1 \in DOMAIN sendQ /\ sendQ[1].type = t
      /\ \A i \in DOMAIN sendQ' :
            i \in Nat /\ i + 1 # 1 /\ i + 1 \in DOMAIN sendQ /\ sendQ'[i] = sendQ[i + 1]
  BY Popped
<1>2. \A i, j \in DOMAIN sendQ : sendQ[i] = sendQ[j] /\ sendQ[i].type # "CLOSE" => i = j
  BY DEF TasksOnce
<1>3. ASSUME NEW i \in DOMAIN sendQ', NEW j \in DOMAIN sendQ',
             sendQ'[i] = sendQ'[j], sendQ'[i].type # "CLOSE"
      PROVE  i = j
  <2>1. i + 1 = j + 1
    BY ONLY <1>1, <1>2, <1>3
  <2> QED  BY ONLY <1>1, <2>1
<1>4. ASSUME t # "CLOSE", NEW i \in DOMAIN sendQ' PROVE sendQ'[i] # sendQ[1]
  BY ONLY <1>1, <1>2, <1>4
<1> QED  BY <1>3, <1>4

\* Two INIT tasks are equal, and so are two tasks with the same data.
LEMMA SameTask ==
    ASSUME NEW a \in SenderTask, NEW b \in SenderTask, a.type = b.type,
           a.type = "INIT" \/ a.data = b.data
    PROVE  a = b
  BY DEF SenderTask

-----------------------------------------------------------------------------
(* What a step leaves alone keeps its part of the invariant.               *)

\* The part about the acceptor and close().
LEMMA AcceptKept ==
    ASSUME AcceptFirst, UNCHANGED <<acc, added, lock, pc>> PROVE AcceptFirst'
  BY DEF AcceptFirst, Known

\* The part about the end of the sender and the receiver.
LEMMA DownKept ==
    ASSUME TakenDown, UNCHANGED <<acc, rpc, closeSem, spc, fdOpen, isClosing>> PROVE TakenDown'
  BY DEF TakenDown, SenderEnded

\* The part about what is left at the end.
LEMMA LeftKept ==
    ASSUME NothingLeft, UNCHANGED <<peer, fault, shut, rpc, spc, buf, datas>> PROVE NothingLeft'
  BY DEF NothingLeft

\* The part about the queue of tasks.
LEMMA TasksKept == ASSUME TasksOnce, UNCHANGED <<sendQ, spc, acc>> PROVE TasksOnce'
  BY DEF TasksOnce

\* The part about what has become of the data.
LEMMA FatesKept == ASSUME FatesKnown, UNCHANGED <<sendQ, datas, fate>> PROVE FatesKnown'
  BY DEF FatesKnown

\* The constructor of Connection establishes the invariant.
LEMMA InitInv == Init => ConnInv
<1> SUFFICES ASSUME Init PROVE ConnInv
  OBVIOUS
<1>1. TypeOK
  <2>1. {isClosing, closed, isHBing, fdOpen, peer, hbList, fault} \subseteq BOOLEAN
    BY DEF Init
  <2>2. closeSem \in 0..1
    BY DEF Init
  <2>5. added \in BOOLEAN
    BY DEF Init
  <2>3. fate \in [All -> {"new", "submitted", "queued", "taken", "cleaned"}]
    BY DEF Init
  <2>4. /\ sendQ \in Seq(SenderTask) /\ datas \in Seq(All) /\ buf \in Seq(All)
        /\ hbQ \in Seq({"START", "STOP"})
    BY DEF Init
  <2> QED  BY <2>1, <2>2, <2>3, <2>4, <2>5 DEF Init, TypeOK
<1>2. AcceptFirst /\ TakenDown
  BY DEF Init, AcceptFirst, TakenDown, SenderEnded
<1>3. NothingLeft /\ TasksOnce /\ FatesKnown
  BY DEF Init, NothingLeft, TasksOnce, FatesKnown
<1> QED  BY <1>1, <1>2, <1>3 DEF ConnInv

-----------------------------------------------------------------------------
(* The acceptor.                                                           *)

\* ConnInv is kept by the steps of buildAndAddConnection() that push nothing.
LEMMA AcceptorInv ==
    ASSUME ConnInv, Build \/ AccLock \/ OnConnect \/ SetIndex \/ PushReceiver \/ AccUnlock
    PROVE  ConnInv'
<1>u. UNCHANGED <<pc, sendQ, spc, datas, buf, closeSem, fdOpen, isClosing, shut, peer,
                 fault, fate>>
  BY DEF Build, AccLock, OnConnect, SetIndex, PushReceiver, AccUnlock, sndVars, flags, fdVars
<1>1. TypeOK'
  <2>1. acc' \in {"build", "lock", "connect", "index", "init", "recv", "unlock", "done"}
    BY DEF Build, AccLock, OnConnect, SetIndex, PushReceiver, AccUnlock, AccGoTo
  <2>2. added' \in BOOLEAN /\ lock' \in Closer \cup {Acc, NoOne}
    BY DEF Build, AccLock, OnConnect, SetIndex, PushReceiver, AccUnlock, accVars, ConnInv,
           TypeOK
  <2>3. rpc' \in {"none", "queued", "read", "remove", "shutdown", "wait", "close",
                  "closed", "hb", "stop", "onclose", "end"}
    BY DEF Build, AccLock, OnConnect, SetIndex, PushReceiver, AccUnlock, ConnInv, TypeOK
  <2>4. hbQ' \in Seq({"START", "STOP"})
    <3>1. hbQ \in Seq({"START", "STOP"})
      BY DEF ConnInv, TypeOK
    <3>2. hbQ' = hbQ \/ hbQ' = Append(hbQ, "START")
      BY DEF Build, AccLock, OnConnect, SetIndex, PushReceiver, AccUnlock, hbVars
    <3> QED  BY <3>1, <3>2
  <2>5. {isClosing', closed', isHBing', fdOpen', peer', hbList', fault'} \subseteq BOOLEAN
    BY ConnectionAssumption DEF Build, AccLock, OnConnect, SetIndex, PushReceiver, AccUnlock,
           hbVars, flags, fdVars, ConnInv, TypeOK
  <2> QED  BY <1>u, <2>1, <2>2, <2>3, <2>4, <2>5 DEF ConnInv, TypeOK
<1>2. AcceptFirst'
  <2>1. CASE Build
    BY <1>u, <2>1 DEF Build, AccGoTo, ConnInv, AcceptFirst, Known
  <2>2. CASE AccLock
    BY <1>u, <2>2 DEF AccLock, AccGoTo, ConnInv, AcceptFirst, Known
  <2>3. CASE OnConnect
    BY <1>u, <2>3 DEF OnConnect, AccGoTo, ConnInv, AcceptFirst, Known
  <2>4. CASE SetIndex
    BY <1>u, <2>4 DEF SetIndex, AccGoTo, ConnInv, AcceptFirst, Known
  <2>5. CASE PushReceiver
    BY <1>u, <2>5 DEF PushReceiver, AccGoTo, ConnInv, AcceptFirst, Known
  <2>6. CASE AccUnlock
    BY <1>u, <2>6 DEF AccUnlock, AccGoTo, ConnInv, AcceptFirst, Known
  <2> QED  BY <2>1, <2>2, <2>3, <2>4, <2>5, <2>6
<1>3. TakenDown'
  BY <1>u DEF Build, AccLock, OnConnect, SetIndex, PushReceiver, AccUnlock, AccGoTo, ConnInv,
              TakenDown, SenderEnded
<1>4. NothingLeft'
  BY <1>u DEF Build, AccLock, OnConnect, SetIndex, PushReceiver, AccUnlock, AccGoTo, ConnInv,
              TakenDown, NothingLeft
<1>5. TasksOnce'
  BY <1>u DEF Build, AccLock, OnConnect, SetIndex, PushReceiver, AccUnlock, AccGoTo, ConnInv,
              TasksOnce
<1>6. FatesKnown'
  BY <1>u, FatesKept DEF ConnInv
<1> QED  BY <1>1, <1>2, <1>3, <1>4, <1>5, <1>6 DEF ConnInv

\* ConnInv is kept by Sender::addConnection(): the INIT task is the only one.
LEMMA PushInitInv == ASSUME ConnInv, PushInit PROVE ConnInv'
<1> DEFINE t == Task("INIT", NoOne)
<1>t. t \in SenderTask /\ t.type = "INIT"
  BY DEF Task, SenderTask
<1>q. sendQ' = Append(sendQ, t)
  BY DEF PushInit
<1> HIDE DEF t
<1>u. /\ UNCHANGED <<added, lock, pc, spc, datas, buf, rpc, isClosing, closed, isHBing,
                     closeSem, fdOpen, shut, peer, hbQ, hbList, fate, fault>>
      /\ acc = "init" /\ acc' = "recv"
  BY DEF PushInit, AccGoTo, sndVars, flags, fdVars, hbVars
<1>p. /\ sendQ' \in Seq(SenderTask)
      /\ \A i \in DOMAIN sendQ' :
            \/ i \in DOMAIN sendQ /\ sendQ'[i] = sendQ[i]
            \/ i = Len(sendQ) + 1 /\ i \notin DOMAIN sendQ /\ sendQ'[i] = t
  BY <1>t, <1>q, Pushed DEF ConnInv
<1>1. TypeOK'
  BY ONLY ConnInv, <1>u, <1>p DEF ConnInv, TypeOK, Closer
<1>2. AcceptFirst'
  BY ONLY ConnInv, <1>u DEF ConnInv, AcceptFirst, Known
<1>3. TakenDown'
  BY ONLY ConnInv, <1>u DEF ConnInv, TakenDown, SenderEnded
<1>4. NothingLeft'
  BY ONLY ConnInv, <1>u, LeftKept DEF ConnInv
<1>5. TasksOnce'
  <2>1. spc = "none" /\ \A i \in DOMAIN sendQ : sendQ[i] # t
    BY ONLY ConnInv, <1>t, <1>u DEF ConnInv, TasksOnce
  <2> QED  BY ONLY ConnInv, <1>t, <1>u, <1>p, <2>1 DEF ConnInv, TasksOnce
<1>6. FatesKnown'
  BY ONLY ConnInv, <1>t, <1>u, <1>p DEF ConnInv, FatesKnown
<1> QED  BY <1>1, <1>2, <1>3, <1>4, <1>5, <1>6 DEF ConnInv
-----------------------------------------------------------------------------
(* send() and close().                                                     *)

\* ConnInv is kept by send(): the data had not been given to the sender.
LEMMA SendInv == ASSUME ConnInv, NEW d \in All, Send(d) PROVE ConnInv'
<1> DEFINE t == Task("DATA", d)
<1>t. t \in SenderTask /\ t.type = "DATA" /\ t.data = d
  BY DEF Task, SenderTask
<1>q. sendQ' = Append(sendQ, t)
  BY DEF Send
<1> HIDE DEF t
<1>u. /\ UNCHANGED <<acc, added, lock, pc, spc, datas, buf, rpc, isClosing, closed, isHBing,
                     closeSem, fdOpen, shut, peer, hbQ, hbList, fault>>
      /\ fate[d] = "new" /\ fate' = [fate EXCEPT ![d] = "submitted"]
  BY DEF Send, accVars, sndVars, flags, fdVars, hbVars
<1>f. /\ fate' \in [All -> {"new", "submitted", "queued", "taken", "cleaned"}]
      /\ fate'[d] = "submitted" /\ \A e \in All : e # d => fate'[e] = fate[e]
  BY <1>u DEF ConnInv, TypeOK
<1>p. /\ sendQ' \in Seq(SenderTask)
      /\ \A i \in DOMAIN sendQ' :
            \/ i \in DOMAIN sendQ /\ sendQ'[i] = sendQ[i]
            \/ i = Len(sendQ) + 1 /\ i \notin DOMAIN sendQ /\ sendQ'[i] = t
  BY <1>t, <1>q, Pushed DEF ConnInv
<1>v. UNCHANGED <<acc, added, lock, pc, spc, datas, buf, rpc, isClosing, closed, isHBing,
                  closeSem, fdOpen, shut, peer, hbQ, hbList, fault>>
  BY <1>u
<1>1. TypeOK'
  BY ONLY ConnInv, <1>v, <1>p, <1>f DEF ConnInv, TypeOK, Closer
<1>2. AcceptFirst'
  BY ONLY ConnInv, <1>v, AcceptKept DEF ConnInv
<1>3. TakenDown'
  BY ONLY ConnInv, <1>v, DownKept DEF ConnInv
<1>4. NothingLeft'
  BY ONLY ConnInv, <1>v, LeftKept DEF ConnInv
<1>d. \A i \in DOMAIN sendQ : sendQ[i].type = "DATA" => sendQ[i].data # d /\ sendQ[i].data \in All
  <2>1. sendQ \in Seq(SenderTask) /\ fate[d] = "new"
    BY <1>u DEF ConnInv, TypeOK
  <2>2. \A i \in DOMAIN sendQ : sendQ[i] \in SenderTask
    BY <2>1
  <2>3. \A i \in DOMAIN sendQ : sendQ[i].type = "DATA" => sendQ[i].data \in All
    BY <2>2 DEF SenderTask
  <2> QED  BY <2>1, <2>3 DEF ConnInv, FatesKnown
<1>5. TasksOnce'
  <2>1. \A i \in DOMAIN sendQ : sendQ[i] # t
    BY ONLY <1>t, <1>d
  <2> QED  BY ONLY ConnInv, <1>t, <1>v, <1>p, <2>1 DEF ConnInv, TasksOnce
<1>6. FatesKnown'
  <2>1. \A i \in DOMAIN datas : datas[i] # d /\ datas[i] \in All
    BY <1>u DEF ConnInv, TypeOK, FatesKnown
  <2> QED  BY ONLY ConnInv, <1>t, <1>v, <1>p, <1>f, <1>d, <2>1 DEF ConnInv, FatesKnown
<1> QED  BY <1>1, <1>2, <1>3, <1>4, <1>5, <1>6 DEF ConnInv

\* ConnInv is kept by a step of close() that pushes no task to the sender.
LEMMA CloseInv ==
    ASSUME ConnInv, NEW c \in Closer,
           CloseCheck(c) \/ CloseLock(c) \/ CloseUnlock(c) \/ CloseIsHBing(c) \/ CloseStop(c)
    PROVE  ConnInv'
<1>u. UNCHANGED <<acc, added, sendQ, spc, datas, buf, rpc, isClosing, closed, closeSem, fdOpen,
                  shut, peer, hbList, fate, fault>>
  BY DEF CloseCheck, CloseLock, CloseUnlock, CloseIsHBing, CloseStop, accVars, sndVars, flags,
         fdVars, hbVars
<1>p. /\ pc \in [Closer -> {"idle", "check", "lock", "push", "unlock", "hb", "stop", "done"}]
      /\ \E to \in {"done", "lock", "push", "hb", "stop"} : pc' = [pc EXCEPT ![c] = to]
  BY DEF CloseCheck, CloseLock, CloseUnlock, CloseIsHBing, CloseStop, PcGoTo, ConnInv, TypeOK
<1>1. TypeOK'
  <2>1. pc' \in [Closer -> {"idle", "check", "lock", "push", "unlock", "hb", "stop", "done"}]
    BY <1>p
  <2>2. lock' \in Closer \cup {Acc, NoOne}
    BY DEF CloseCheck, CloseLock, CloseUnlock, CloseIsHBing, CloseStop, ConnInv, TypeOK
  <2>3. isHBing' \in BOOLEAN
    BY DEF CloseCheck, CloseLock, CloseUnlock, CloseIsHBing, CloseStop, StopHeartbeat, flags,
           ConnInv, TypeOK
  <2>4. hbQ' \in Seq({"START", "STOP"})
    <3>1. hbQ \in Seq({"START", "STOP"})
      BY DEF ConnInv, TypeOK
    <3>2. hbQ' = hbQ \/ hbQ' = Append(hbQ, "STOP")
      BY DEF CloseCheck, CloseLock, CloseUnlock, CloseIsHBing, CloseStop, StopHeartbeat, hbVars
    <3> QED  BY <3>1, <3>2
  <2> QED  BY <1>u, <2>1, <2>2, <2>3, <2>4 DEF ConnInv, TypeOK
<1>2. AcceptFirst'
  <2>1. CASE CloseCheck(c)
    <3>1. /\ UNCHANGED <<acc, added, lock>>
          /\ Known
          /\ pc' = [pc EXCEPT ![c] = "done"] \/ pc' = [pc EXCEPT ![c] = "lock"]
      BY <2>1 DEF CloseCheck, PcGoTo, accVars, Closer, ConnInv, AcceptFirst
    <3> QED  BY <1>p, <3>1 DEF ConnInv, AcceptFirst, Known
  <2>2. CASE CloseLock(c)
    <3>1. /\ pc[c] = "lock" /\ lock = NoOne /\ pc' = [pc EXCEPT ![c] = "push"]
      BY <2>2 DEF CloseLock, PcGoTo
    <3>2. acc = "done"
      BY <3>1, ConnectionAssumption DEF ConnInv, AcceptFirst, TypeOK, Known
    <3> QED  BY <1>u, <1>p, <3>1, <3>2 DEF ConnInv, AcceptFirst, Known
  <2>3. CASE CloseUnlock(c) \/ CloseIsHBing(c) \/ CloseStop(c)
    <3>1. pc[c] \in {"unlock", "hb", "stop"}
      BY <2>3 DEF CloseUnlock, CloseIsHBing, CloseStop, PcGoTo
    <3>2. acc = "done"
      BY <3>1 DEF ConnInv, AcceptFirst
    <3> QED  BY <1>u, <1>p, <3>2 DEF ConnInv, AcceptFirst, Known
  <2> QED  BY <2>1, <2>2, <2>3
<1>3. TakenDown' /\ NothingLeft'
  BY <1>u, DownKept, LeftKept DEF ConnInv
<1>4. TasksOnce' /\ FatesKnown'
  BY <1>u, TasksKept, FatesKept DEF ConnInv
<1> QED  BY <1>1, <1>2, <1>3, <1>4 DEF ConnInv

\* ConnInv is kept by IO::removeConnection() in close().
LEMMA ClosePushInv == ASSUME ConnInv, NEW c \in Closer, ClosePush(c) PROVE ConnInv'
<1>u. UNCHANGED <<acc, added, lock, spc, datas, buf, rpc, isClosing, closed, isHBing, closeSem,
                  fdOpen, shut, peer, hbQ, hbList, fate, fault>>
  BY DEF ClosePush, accVars, sndVars, flags, fdVars, hbVars
<1>p. /\ pc \in [Closer -> {"idle", "check", "lock", "push", "unlock", "hb", "stop", "done"}]
      /\ pc[c] = "push" /\ pc' = [pc EXCEPT ![c] = "unlock"]
  BY DEF ClosePush, PcGoTo, ConnInv, TypeOK
<1>q. sendQ' \in Seq(SenderTask) /\ TasksOnce' /\ FatesKnown'
  BY <1>u, PushedClose DEF ClosePush
<1>1. TypeOK'
  <2>1. pc' \in [Closer -> {"idle", "check", "lock", "push", "unlock", "hb", "stop", "done"}]
    BY <1>p
  <2> QED  BY ONLY ConnInv, <1>u, <1>q, <2>1 DEF ConnInv, TypeOK
<1>2. AcceptFirst'
  BY ONLY ConnInv, <1>u, <1>p DEF ConnInv, AcceptFirst, Known
<1>3. TakenDown' /\ NothingLeft'
  BY ONLY ConnInv, <1>u, DownKept, LeftKept DEF ConnInv
<1> QED  BY <1>q, <1>1, <1>2, <1>3 DEF ConnInv
-----------------------------------------------------------------------------
(* The sender.                                                             *)

\* ConnInv is kept by the INIT task: it begins the one connectionRoutine.
LEMMA PopInitInv == ASSUME ConnInv, PopInit PROVE ConnInv'
<1>u. /\ UNCHANGED <<acc, added, lock, pc, datas, buf, rpc, isClosing, closed, isHBing, closeSem,
                     fdOpen, shut, peer, hbQ, hbList, fate, fault>>
      /\ spc' = "top" /\ PopTask("INIT")
  BY DEF PopInit, accVars, flags, fdVars, hbVars
<1>p. /\ 1 \in DOMAIN sendQ /\ sendQ[1] \in SenderTask /\ sendQ[1].type = "INIT"
      /\ sendQ' \in Seq(SenderTask)
      /\ \A i \in DOMAIN sendQ' :
            i \in Nat /\ i + 1 # 1 /\ i + 1 \in DOMAIN sendQ /\ sendQ'[i] = sendQ[i + 1]
  BY <1>u, Popped DEF ConnInv
<1>o. /\ \A i, j \in DOMAIN sendQ' :
            sendQ'[i] = sendQ'[j] /\ sendQ'[i].type # "CLOSE" => i = j
      /\ \A i \in DOMAIN sendQ' : sendQ'[i] # sendQ[1]
  BY <1>u, PoppedOnce DEF ConnInv
<1>s. spc = "none" /\ acc \in {"recv", "unlock", "done"}
  BY <1>p DEF ConnInv, TasksOnce
<1>v. UNCHANGED <<acc, added, lock, pc, datas, buf, rpc, isClosing, closed, isHBing, closeSem,
                  fdOpen, shut, peer, hbQ, hbList, fate, fault>> /\ spc' = "top"
  BY <1>u
<1>1. TypeOK'
  BY ONLY ConnInv, <1>v, <1>p DEF ConnInv, TypeOK
<1>2. AcceptFirst'
  BY <1>v, AcceptKept DEF ConnInv
<1>3. TakenDown'
  BY ONLY ConnInv, <1>v, <1>s DEF ConnInv, TakenDown, SenderEnded
<1>4. NothingLeft'
  BY ONLY ConnInv, <1>v, <1>s DEF ConnInv, NothingLeft
<1>5. TasksOnce'
  <2>1. \A i \in DOMAIN sendQ' : sendQ'[i] \in SenderTask
    BY ONLY <1>p
  <2>2. \A i \in DOMAIN sendQ' : sendQ'[i].type # "INIT"
    BY ONLY <1>p, <1>o, <2>1, SameTask
  <2> QED  BY ONLY <1>v, <1>o, <1>s, <2>2 DEF TasksOnce
<1>6. FatesKnown'
  BY ONLY ConnInv, <1>v, <1>p DEF ConnInv, FatesKnown
<1> QED  BY <1>1, <1>2, <1>3, <1>4, <1>5, <1>6 DEF ConnInv

\* ConnInv is kept by the CLOSE task.
LEMMA PopCloseInv == ASSUME ConnInv, PopClose PROVE ConnInv'
<1>u. /\ UNCHANGED <<acc, added, lock, pc, datas, buf, rpc, closed, isHBing, closeSem,
                     fdOpen, shut, peer, hbQ, hbList, fate, fault>>
      /\ isClosing' = TRUE /\ (spc' = spc \/ (spc = "hang" /\ spc' = "top"))
      /\ PopTask("CLOSE")
  BY DEF PopClose, ResumeIfHung, accVars, fdVars, hbVars
<1>p. /\ sendQ' \in Seq(SenderTask)
      /\ \A i \in DOMAIN sendQ' :
            i \in Nat /\ i + 1 # 1 /\ i + 1 \in DOMAIN sendQ /\ sendQ'[i] = sendQ[i + 1]
  BY <1>u, Popped DEF ConnInv
<1>o. \A i, j \in DOMAIN sendQ' : sendQ'[i] = sendQ'[j] /\ sendQ'[i].type # "CLOSE" => i = j
  BY <1>u, PoppedOnce DEF ConnInv
<1>v. /\ UNCHANGED <<acc, added, lock, pc, datas, buf, rpc, closed, isHBing, closeSem,
                     fdOpen, shut, peer, hbQ, hbList, fate, fault>>
      /\ isClosing' = TRUE /\ (spc' = spc \/ (spc = "hang" /\ spc' = "top"))
  BY <1>u
<1>1. TypeOK'
  <2>1. isClosing' \in BOOLEAN
    BY <1>v
  <2> QED  BY ONLY ConnInv, <1>v, <1>p, <2>1 DEF ConnInv, TypeOK
<1>2. AcceptFirst'
  BY <1>v, AcceptKept DEF ConnInv
<1>3. TakenDown'
  BY ONLY ConnInv, <1>v DEF ConnInv, TakenDown, SenderEnded
<1>4. NothingLeft'
  BY ONLY ConnInv, <1>v DEF ConnInv, NothingLeft
<1>5. TasksOnce'
  BY ONLY ConnInv, <1>v, <1>p, <1>o DEF ConnInv, TasksOnce
<1>6. FatesKnown'
  BY ONLY ConnInv, <1>v, <1>p DEF ConnInv, FatesKnown
<1> QED  BY <1>1, <1>2, <1>3, <1>4, <1>5, <1>6 DEF ConnInv

\* ConnInv is kept by a DATA task: a connection that is closing takes no data.
LEMMA PopDataInv == ASSUME ConnInv, PopData PROVE ConnInv'
<1> DEFINE d == sendQ[1].data
<1>u. /\ UNCHANGED <<acc, added, lock, pc, buf, rpc, isClosing, closed, isHBing, closeSem,
                     fdOpen, shut, peer, hbQ, hbList, fault>>
      /\ PopTask("DATA")
  BY DEF PopData, accVars, flags, fdVars, hbVars
<1>p. /\ 1 \in DOMAIN sendQ /\ Head(sendQ) = sendQ[1]
      /\ sendQ[1] \in SenderTask /\ sendQ[1].type = "DATA"
      /\ sendQ' \in Seq(SenderTask)
      /\ \A i \in DOMAIN sendQ' :
            i \in Nat /\ i + 1 # 1 /\ i + 1 \in DOMAIN sendQ /\ sendQ'[i] = sendQ[i + 1]
  BY <1>u, Popped DEF ConnInv
<1>o. /\ \A i, j \in DOMAIN sendQ' :
            sendQ'[i] = sendQ'[j] /\ sendQ'[i].type # "CLOSE" => i = j
      /\ \A i \in DOMAIN sendQ' : sendQ'[i] # sendQ[1]
  BY <1>u, PoppedOnce DEF ConnInv
<1>d. d \in All /\ fate[d] = "submitted"
  BY <1>p DEF SenderTask, ConnInv, FatesKnown
<1>e. \A i \in DOMAIN sendQ' :
         sendQ'[i].type = "DATA" => sendQ'[i].data # d /\ sendQ'[i].data \in All
  <2>1. \A i \in DOMAIN sendQ' : sendQ'[i] \in SenderTask
    BY ONLY <1>p
  <2>2. \A i \in DOMAIN sendQ' : sendQ'[i].type = "DATA" => sendQ'[i].data \in All
    BY ONLY <2>1 DEF SenderTask
  <2> QED  BY ONLY <1>p, <1>o, <2>1, <2>2, SameTask
<1>a. \/ /\ ~isClosing /\ datas' = Append(datas, d)
         /\ fate' = [fate EXCEPT ![d] = "queued"]
         /\ spc' = spc \/ (spc = "hang" /\ spc' = "top")
      \/ /\ isClosing /\ fate' = [fate EXCEPT ![d] = "cleaned"]
         /\ datas' = datas /\ spc' = spc
  BY <1>p DEF PopData, ResumeIfHung
<1> HIDE DEF d
<1>s. spc \in {"none", "hang", "write", "end"}
  BY <1>u DEF PopTask, RoutineAway
<1>v. UNCHANGED <<acc, added, lock, pc, buf, rpc, isClosing, closed, isHBing, closeSem,
                  fdOpen, shut, peer, hbQ, hbList, fault>>
  BY <1>u
<1>t. spc' = spc \/ (spc = "hang" /\ spc' = "top")
  BY <1>a
<1>f. /\ fate' \in [All -> {"new", "submitted", "queued", "taken", "cleaned"}]
      /\ \A e \in All : e # d => fate'[e] = fate[e]
  BY <1>a, <1>d DEF ConnInv, TypeOK
<1>g. /\ datas' \in Seq(All)
      /\ \/ datas' = datas /\ isClosing
         \/ /\ ~isClosing /\ fate'[d] = "queued"
            /\ \A i \in DOMAIN datas' :
                  \/ i \in DOMAIN datas /\ datas'[i] = datas[i]
                  \/ i = Len(datas) + 1 /\ i \notin DOMAIN datas /\ datas'[i] = d
  <2>1. datas \in Seq(All)
    BY DEF ConnInv, TypeOK
  <2>2. CASE datas' = datas /\ isClosing
    BY <2>1, <2>2
  <2>3. CASE datas' = Append(datas, d) /\ ~isClosing /\ fate' = [fate EXCEPT ![d] = "queued"]
    <3>1. fate'[d] = "queued"
      BY <1>d, <2>3 DEF ConnInv, TypeOK
    <3>2. datas' \in Seq(All)
      BY <1>d, <2>1, <2>3
    <3> QED  BY <1>d, <2>1, <2>3, <3>1, <3>2, AppendFacts
  <2> QED  BY <1>a, <2>2, <2>3
<1>1. TypeOK'
  BY ONLY ConnInv, <1>v, <1>p, <1>f, <1>g, <1>t DEF ConnInv, TypeOK
<1>2. AcceptFirst'
  BY <1>v, AcceptKept DEF ConnInv
<1>3. TakenDown'
  BY ONLY ConnInv, <1>v, <1>t DEF ConnInv, TakenDown, SenderEnded
<1>4. NothingLeft'
  <2>1. datas' = datas \/ spc' \in {"none", "hang", "top", "write"}
    BY ONLY ConnInv, <1>g, <1>s, <1>t DEF ConnInv, TakenDown
  <2>2. CASE datas' = datas
    BY ONLY ConnInv, <1>v, <1>t, <2>2 DEF ConnInv, NothingLeft
  <2>3. CASE spc' \in {"none", "hang", "top", "write"}
    BY ONLY ConnInv, <1>v, <1>t, <2>3 DEF ConnInv, NothingLeft
  <2> QED  BY <2>1, <2>2, <2>3
<1>5. TasksOnce'
  BY ONLY ConnInv, <1>v, <1>p, <1>o, <1>t DEF ConnInv, TasksOnce
<1>6. FatesKnown'
  <2>1. \A i \in DOMAIN sendQ' : sendQ'[i].type = "DATA" => fate'[sendQ'[i].data] = "submitted"
    BY ONLY ConnInv, <1>p, <1>e, <1>f DEF ConnInv, FatesKnown
  <2>2. \A i \in DOMAIN datas : datas[i] # d /\ datas[i] \in All
    BY <1>d DEF ConnInv, TypeOK, FatesKnown
  <2>3. \A i \in DOMAIN datas' : fate'[datas'[i]] = "queued"
    BY ONLY ConnInv, <1>f, <1>g, <2>2 DEF ConnInv, FatesKnown
  <2>4. \A i, j \in DOMAIN datas' : datas'[i] = datas'[j] => i = j
    BY ONLY ConnInv, <1>g, <2>2 DEF ConnInv, FatesKnown
  <2> QED  BY <2>1, <2>3, <2>4 DEF FatesKnown
<1> QED  BY <1>1, <1>2, <1>3, <1>4, <1>5, <1>6 DEF ConnInv
\* What a step of downflow() that encodes n messages does to datas_ and fate.
LEMMA EncodeFacts ==
    ASSUME ConnInv, NEW n \in 0 .. Len(datas), Encode(n)
    PROVE  /\ datas' \in Seq(All)
           /\ fate' \in [All -> {"new", "submitted", "queued", "taken", "cleaned"}]
           /\ \A d \in All : fate[d] # "queued" => fate'[d] = fate[d]
           /\ \A i \in DOMAIN datas' : fate'[datas'[i]] = "queued"
           /\ \A i, j \in DOMAIN datas' : datas'[i] = datas'[j] => i = j
<1>1. /\ datas \in Seq(All) /\ DOMAIN datas = 1 .. Len(datas)
      /\ fate \in [All -> {"new", "submitted", "queued", "taken", "cleaned"}]
  BY DEF ConnInv, TypeOK
<1>2. /\ \A i \in DOMAIN datas : fate[datas[i]] = "queued" /\ datas[i] \in All
      /\ \A i, j \in DOMAIN datas : datas[i] = datas[j] => i = j
  BY <1>1 DEF ConnInv, FatesKnown
<1>3. /\ datas' \in Seq(All)
      /\ \A i \in DOMAIN datas' : /\ i \in Nat /\ i + n \in DOMAIN datas
                                  /\ i + n \notin 1 .. n /\ datas'[i] = datas[i + n]
  <2>1. datas' = SubSeq(datas, n + 1, Len(datas))
    BY DEF Encode
  <2> QED  BY <1>1, <2>1, DropFacts
<1>4. fate' = [d \in All |-> IF \E i \in 1..n : datas[i] = d THEN "taken" ELSE fate[d]]
  BY DEF Encode
<1>5. fate' \in [All -> {"new", "submitted", "queued", "taken", "cleaned"}]
  BY ONLY <1>1, <1>4
<1>6. 1 .. n \subseteq DOMAIN datas
  BY <1>1
<1>7. ASSUME NEW d \in All, fate[d] # "queued" PROVE fate'[d] = fate[d]
  BY ONLY <1>2, <1>4, <1>6, <1>7
<1>8. ASSUME NEW i \in DOMAIN datas' PROVE fate'[datas'[i]] = "queued"
  <2>1. \A j \in 1 .. n : datas[j] # datas[i + n]
    BY ONLY <1>2, <1>3, <1>6, <1>8
  <2>2. fate'[datas[i + n]] = fate[datas[i + n]]
    BY ONLY <1>2, <1>3, <1>4, <1>8, <2>1
  <2> QED  BY ONLY <1>2, <1>3, <1>8, <2>2
<1>9. ASSUME NEW i \in DOMAIN datas', NEW j \in DOMAIN datas', datas'[i] = datas'[j]
      PROVE  i = j
  <2>1. i + n = j + n /\ i \in Nat /\ j \in Nat
    BY ONLY <1>2, <1>3, <1>9
  <2> QED  BY <2>1
<1> QED  BY <1>3, <1>5, <1>7, <1>8, <1>9

\* ConnInv is kept by downflow(), whether it encodes or refuses a message.
LEMMA DownflowInv == ASSUME ConnInv, Downflow \/ DownflowFails PROVE ConnInv'
<1>u. /\ UNCHANGED <<acc, added, lock, pc, sendQ, rpc, isClosing, closed, isHBing, closeSem,
                     fdOpen, shut, peer, hbQ, hbList>>
      /\ spc = "top"
      /\ \/ spc' = "write" /\ fault' = fault
         \/ spc' = "closing" /\ fault' = TRUE /\ buf' = buf
  BY DEF Downflow, DownflowFails, accVars, flags, fdVars, hbVars
<1>0. datas \in Seq(All) /\ DOMAIN datas = 1 .. Len(datas) /\ Len(datas) \in Nat
  BY DEF ConnInv, TypeOK
<1>e. \E n \in 0 .. Len(datas) : Encode(n)
  <2>1. CASE Downflow
    BY <1>0, <2>1 DEF Downflow
  <2>2. CASE DownflowFails
    <3>1. PICK n \in 1 .. Len(datas) : Encode(n - 1)
      BY <2>2 DEF DownflowFails
    <3>2. n - 1 \in 0 .. Len(datas)
      BY <1>0
    <3> QED  BY <3>1, <3>2
  <2> QED  BY <2>1, <2>2
<1>f. /\ datas' \in Seq(All)
      /\ fate' \in [All -> {"new", "submitted", "queued", "taken", "cleaned"}]
      /\ \A d \in All : fate[d] # "queued" => fate'[d] = fate[d]
      /\ \A i \in DOMAIN datas' : fate'[datas'[i]] = "queued"
      /\ \A i, j \in DOMAIN datas' : datas'[i] = datas'[j] => i = j
  BY <1>e, EncodeFacts
<1>b. buf' \in Seq(All)
  <2>1. CASE Downflow
    <3>1. PICK n \in 1 .. Len(datas) : buf' = SubSeq(datas, 1, n)
      BY <2>1 DEF Downflow
    <3> QED  BY ONLY <1>0, <3>1
  <2>2. CASE DownflowFails
    BY <2>2 DEF DownflowFails, ConnInv, TypeOK
  <2> QED  BY <2>1, <2>2
<1>1. TypeOK'
  <2>1. fault' \in BOOLEAN
    BY <1>u DEF ConnInv, TypeOK
  <2> QED  BY ONLY ConnInv, <1>u, <1>f, <1>b, <2>1 DEF ConnInv, TypeOK
<1>2. AcceptFirst'
  BY <1>u, AcceptKept DEF ConnInv
<1>3. TakenDown'
  BY ONLY ConnInv, <1>u DEF ConnInv, TakenDown, SenderEnded
<1>4. NothingLeft'
  BY ONLY ConnInv, <1>u DEF ConnInv, NothingLeft
<1>5. TasksOnce'
  BY ONLY ConnInv, <1>u DEF ConnInv, TasksOnce
<1>6. FatesKnown'
  <2>1. sendQ \in Seq(SenderTask)
    BY DEF ConnInv, TypeOK
  <2>2. \A i \in DOMAIN sendQ : sendQ[i] \in SenderTask
    BY <2>1
  <2>3. \A i \in DOMAIN sendQ :
           sendQ[i].type = "DATA" => sendQ[i].data \in All /\ fate[sendQ[i].data] = "submitted"
    BY <2>2 DEF SenderTask, ConnInv, FatesKnown
  <2> QED  BY ONLY <1>u, <1>f, <2>3 DEF FatesKnown
<1> QED  BY <1>1, <1>2, <1>3, <1>4, <1>5, <1>6 DEF ConnInv

\* ConnInv is kept by the other steps of connectionRoutine.
LEMMA RoutineInv ==
    ASSUME ConnInv,
           DownflowNone \/ WriteDone \/ WriteFails \/ EndClosing \/ EndShutdown \/ EndPost
    PROVE  ConnInv'
<1>u. UNCHANGED <<acc, added, lock, pc, sendQ, datas, rpc, closed, isHBing, fdOpen, peer, hbQ,
                  hbList, fate, fault>>
  BY DEF DownflowNone, WriteDone, WriteFails, EndClosing, EndShutdown, EndPost, accVars, flags,
         fdVars, hbVars
<1>s. /\ spc \in {"top", "write", "closing", "shut", "post"}
      /\ spc' \in {"closing", "hang", "top", "shut", "post", "end"}
  BY DEF DownflowNone, WriteDone, WriteFails, EndClosing, EndShutdown, EndPost
<1>1. TypeOK'
  <2>1. isClosing' \in BOOLEAN
    BY DEF DownflowNone, WriteDone, WriteFails, EndClosing, EndShutdown, EndPost, flags,
           ConnInv, TypeOK
  <2>2. shut' \subseteq {"RD", "WR"}
    BY DEF DownflowNone, WriteDone, WriteFails, EndClosing, EndShutdown, EndPost, fdVars,
           ConnInv, TypeOK
  <2>3. closeSem' \in 0..1
    <3>1. closeSem \in 0..1
      BY DEF ConnInv, TypeOK
    <3>2. CASE EndPost
      BY <3>1, <3>2 DEF EndPost, ConnInv, TakenDown
    <3>3. CASE ~EndPost
      BY <3>1, <3>3 DEF DownflowNone, WriteDone, WriteFails, EndClosing, EndShutdown, fdVars
    <3> QED  BY <3>2, <3>3
  <2>4. buf' \in Seq(All)
    <3>1. buf \in Seq(All)
      BY DEF ConnInv, TypeOK
    <3>2. CASE WriteDone
      <4>1. buf' = <<>>
        BY <3>2 DEF WriteDone
      <4> QED  BY <4>1
    <3>3. CASE ~WriteDone
      <4>1. buf' = buf
        BY <3>3 DEF DownflowNone, WriteFails, EndClosing, EndShutdown, EndPost
      <4> QED  BY <3>1, <4>1
    <3> QED  BY <3>2, <3>3
  <2> QED  BY ONLY ConnInv, <1>u, <1>s, <2>1, <2>2, <2>3, <2>4 DEF ConnInv, TypeOK
<1>2. AcceptFirst'
  BY <1>u, AcceptKept DEF ConnInv
<1>3. TakenDown'
  <2>1. CASE DownflowNone \/ WriteDone \/ WriteFails
    BY <1>u, <2>1 DEF DownflowNone, WriteDone, WriteFails, flags, fdVars, ConnInv, TakenDown,
                      SenderEnded
  <2>2. CASE EndClosing \/ EndShutdown
    BY <1>u, <2>2 DEF EndClosing, EndShutdown, flags, fdVars, ConnInv, TakenDown, SenderEnded
  <2>3. CASE EndPost
    BY <1>u, <2>3 DEF EndPost, flags, fdVars, ConnInv, TakenDown, SenderEnded
  <2> QED  BY <2>1, <2>2, <2>3
<1>4. NothingLeft'
  <2>1. CASE DownflowNone
    BY <1>u, <2>1 DEF DownflowNone, fdVars, ConnInv, NothingLeft
  <2>2. CASE WriteDone
    BY <1>u, <2>2 DEF WriteDone, fdVars, ConnInv, NothingLeft
  <2>3. CASE WriteFails
    BY <1>u, <2>3 DEF WriteFails, fdVars, ConnInv, NothingLeft
  <2>4. CASE EndClosing
    BY <1>u, <2>4 DEF EndClosing, fdVars, ConnInv, NothingLeft
  <2>5. CASE EndShutdown
    BY <1>u, <2>5 DEF EndShutdown, ConnInv, NothingLeft
  <2>6. CASE EndPost
    BY <1>u, <2>6 DEF EndPost, ConnInv, NothingLeft
  <2> QED  BY <2>1, <2>2, <2>3, <2>4, <2>5, <2>6
<1>5. TasksOnce'
  BY ONLY ConnInv, <1>u, <1>s DEF ConnInv, TasksOnce
<1>6. FatesKnown'
  BY <1>u, FatesKept DEF ConnInv
<1> QED  BY <1>1, <1>2, <1>3, <1>4, <1>5, <1>6 DEF ConnInv

-----------------------------------------------------------------------------
(* The receiver, the heartbeater and the peer.                             *)

\* ConnInv is kept by the receiver's steps that push no task to the sender.
LEMMA ReceiverInv ==
    ASSUME ConnInv,
           \/ RecvStart \/ ReadEnds \/ RecvShutdown \/ RecvWait \/ RecvCloseFd \/ RecvClosed
           \/ RecvIsHBing \/ RecvStop \/ OnClose \/ UpflowFails
    PROVE  ConnInv'
<1>u. UNCHANGED <<acc, added, lock, pc, sendQ, spc, datas, buf, isClosing, peer, hbList, fate>>
  BY DEF RecvStart, ReadEnds, RecvShutdown, RecvWait, RecvCloseFd, RecvClosed, RecvIsHBing,
         RecvStop, OnClose, UpflowFails, accVars, sndVars, flags, hbVars
<1>a. acc \in {"unlock", "done"}
  BY DEF RecvStart, ReadEnds, RecvShutdown, RecvWait, RecvCloseFd, RecvClosed, RecvIsHBing,
         RecvStop, OnClose, UpflowFails, RpcGoTo, ConnInv, TakenDown
<1>1. TypeOK'
  <2>1. rpc' \in {"none", "queued", "read", "remove", "shutdown", "wait", "close",
                  "closed", "hb", "stop", "onclose", "end"}
    BY DEF RecvStart, ReadEnds, RecvShutdown, RecvWait, RecvCloseFd, RecvClosed, RecvIsHBing,
           RecvStop, OnClose, UpflowFails, RpcGoTo
  <2>2. closed' \in BOOLEAN /\ isHBing' \in BOOLEAN /\ fdOpen' \in BOOLEAN /\ fault' \in BOOLEAN
    BY DEF RecvStart, ReadEnds, RecvShutdown, RecvWait, RecvCloseFd, RecvClosed, RecvIsHBing,
           RecvStop, OnClose, UpflowFails, StopHeartbeat, flags, fdVars, ConnInv, TypeOK
  <2>3. shut' \subseteq {"RD", "WR"}
    BY DEF RecvStart, ReadEnds, RecvShutdown, RecvWait, RecvCloseFd, RecvClosed, RecvIsHBing,
           RecvStop, OnClose, UpflowFails, fdVars, ConnInv, TypeOK
  <2>4. closeSem' \in 0..1
    BY DEF RecvStart, ReadEnds, RecvShutdown, RecvWait, RecvCloseFd, RecvClosed, RecvIsHBing,
           RecvStop, OnClose, UpflowFails, fdVars, ConnInv, TypeOK
  <2>5. hbQ' \in Seq({"START", "STOP"})
    <3>1. hbQ \in Seq({"START", "STOP"})
      BY DEF ConnInv, TypeOK
    <3>2. hbQ' = hbQ \/ hbQ' = Append(hbQ, "STOP")
      BY DEF RecvStart, ReadEnds, RecvShutdown, RecvWait, RecvCloseFd, RecvClosed, RecvIsHBing,
             RecvStop, OnClose, UpflowFails, StopHeartbeat, hbVars
    <3> QED  BY <3>1, <3>2
  <2> QED  BY ONLY ConnInv, <1>u, <2>1, <2>2, <2>3, <2>4, <2>5 DEF ConnInv, TypeOK
<1>2. AcceptFirst'
  BY <1>u, AcceptKept DEF ConnInv
<1>3. TakenDown'
  <2>1. CASE RecvStart \/ ReadEnds \/ UpflowFails \/ RecvShutdown
    BY <1>u, <1>a, <2>1 DEF RecvStart, ReadEnds, UpflowFails, RecvShutdown, RpcGoTo, fdVars,
                            ConnInv, TakenDown, SenderEnded
  <2>2. CASE RecvWait
    <3>1. closeSem = 1 /\ closeSem' = 0
      BY <2>2 DEF RecvWait, ConnInv, TypeOK
    <3> QED  BY <1>u, <1>a, <2>2, <3>1 DEF RecvWait, RpcGoTo, ConnInv, TakenDown, SenderEnded
  <2>3. CASE RecvCloseFd \/ RecvClosed
    BY <1>u, <1>a, <2>3 DEF RecvCloseFd, RecvClosed, RpcGoTo, fdVars, ConnInv, TakenDown,
                            SenderEnded
  <2>4. CASE RecvIsHBing \/ RecvStop \/ OnClose
    BY <1>u, <1>a, <2>4 DEF RecvIsHBing, RecvStop, OnClose, RpcGoTo, fdVars, ConnInv,
                            TakenDown, SenderEnded
  <2> QED  BY <2>1, <2>2, <2>3, <2>4
<1>4. NothingLeft'
  <2>1. CASE RecvStart \/ ReadEnds \/ UpflowFails
    BY <1>u, <2>1 DEF RecvStart, ReadEnds, UpflowFails, RpcGoTo, fdVars, ConnInv, NothingLeft
  <2>2. CASE RecvShutdown
    BY <1>u, <2>2 DEF RecvShutdown, RpcGoTo, ConnInv, NothingLeft
  <2>3. CASE RecvWait \/ RecvCloseFd \/ RecvClosed
    BY <1>u, <2>3 DEF RecvWait, RecvCloseFd, RecvClosed, RpcGoTo, fdVars, ConnInv, NothingLeft
  <2>4. CASE RecvIsHBing \/ RecvStop \/ OnClose
    BY <1>u, <2>4 DEF RecvIsHBing, RecvStop, OnClose, RpcGoTo, fdVars, ConnInv, NothingLeft
  <2> QED  BY <2>1, <2>2, <2>3, <2>4
<1>5. TasksOnce' /\ FatesKnown'
  BY <1>u, TasksKept, FatesKept DEF ConnInv
<1> QED  BY <1>1, <1>2, <1>3, <1>4, <1>5 DEF ConnInv

\* ConnInv is kept by IO::removeConnection() of the receiver.
LEMMA RecvRemoveInv == ASSUME ConnInv, RecvRemove PROVE ConnInv'
<1>u. /\ UNCHANGED <<acc, added, lock, pc, spc, datas, buf, isClosing, closed, isHBing, closeSem,
                     fdOpen, shut, peer, hbQ, hbList, fate, fault>>
      /\ rpc = "remove" /\ rpc' = "shutdown"
  BY DEF RecvRemove, RpcGoTo, accVars, sndVars, flags, fdVars, hbVars
<1>q. sendQ' \in Seq(SenderTask) /\ TasksOnce' /\ FatesKnown'
  BY <1>u, PushedClose DEF RecvRemove
<1>1. TypeOK'
  BY ONLY ConnInv, <1>u, <1>q DEF ConnInv, TypeOK
<1>2. AcceptFirst'
  BY <1>u, AcceptKept DEF ConnInv
<1>3. TakenDown'
  BY ONLY ConnInv, <1>u DEF ConnInv, TakenDown, SenderEnded
<1>4. NothingLeft'
  BY ONLY ConnInv, <1>u DEF ConnInv, NothingLeft
<1> QED  BY <1>q, <1>1, <1>2, <1>3, <1>4 DEF ConnInv

\* ConnInv is kept by the heartbeater and by the peer.
LEMMA OthersInv ==
    ASSUME ConnInv, HbDispatch \/ HbRemoveClosed \/ HbTimeout \/ PeerLeaves
    PROVE  ConnInv'
<1>u. UNCHANGED <<acc, added, lock, sendQ, spc, datas, buf, rpc, isClosing, closed, isHBing,
                  closeSem, fdOpen, shut, fate>>
  BY DEF HbDispatch, HbRemoveClosed, HbTimeout, PeerLeaves, accVars, sndVars, flags, fdVars
<1>p. \/ pc' = pc
      \/ acc = "done" /\ pc' = [pc EXCEPT ![Hb] = "check"]
  BY DEF HbDispatch, HbRemoveClosed, HbTimeout, PeerLeaves, PcGoTo
<1>h. Hb \in Closer
  BY DEF Closer
<1>1. TypeOK'
  <2>1. pc' \in [Closer -> {"idle", "check", "lock", "push", "unlock", "hb", "stop", "done"}]
    BY <1>p, <1>h DEF ConnInv, TypeOK
  <2>2. hbList' \in BOOLEAN /\ peer' \in BOOLEAN /\ fault' \in BOOLEAN
    BY DEF HbDispatch, HbRemoveClosed, HbTimeout, PeerLeaves, hbVars, ConnInv, TypeOK
  <2>3. hbQ' \in Seq({"START", "STOP"})
    <3>1. hbQ \in Seq({"START", "STOP"})
      BY DEF ConnInv, TypeOK
    <3>2. hbQ' = hbQ \/ (hbQ # <<>> /\ hbQ' = Tail(hbQ))
      BY DEF HbDispatch, HbRemoveClosed, HbTimeout, PeerLeaves, hbVars
    <3> QED  BY <3>1, <3>2
  <2> QED  BY ONLY ConnInv, <1>u, <2>1, <2>2, <2>3 DEF ConnInv, TypeOK
<1>2. AcceptFirst'
  <2>1. pc \in [Closer -> {"idle", "check", "lock", "push", "unlock", "hb", "stop", "done"}]
    BY DEF ConnInv, TypeOK
  <2> QED  BY ONLY ConnInv, <1>u, <1>p, <1>h, <2>1 DEF ConnInv, AcceptFirst, Known
<1>3. TakenDown'
  BY <1>u, DownKept DEF ConnInv
<1>4. NothingLeft'
  BY <1>u DEF HbDispatch, HbRemoveClosed, HbTimeout, PeerLeaves, ConnInv, NothingLeft
<1>5. TasksOnce' /\ FatesKnown'
  BY <1>u, TasksKept, FatesKept DEF ConnInv
<1> QED  BY <1>1, <1>2, <1>3, <1>4, <1>5 DEF ConnInv

-----------------------------------------------------------------------------
(* The theorems.                                                           *)

\* ConnInv is inductive.
LEMMA NextInv == ConnInv /\ [Next]_vars => ConnInv'
<1> SUFFICES ASSUME ConnInv, [Next]_vars PROVE ConnInv'
  OBVIOUS
<1>1. CASE Acceptor
  BY <1>1, AcceptorInv, PushInitInv DEF Acceptor
<1>2. CASE SenderThread
  BY <1>2, PopInitInv, PopCloseInv, PopDataInv, DownflowInv, RoutineInv DEF SenderThread
<1>3. CASE ReceiverThread \/ UpflowFails
  BY <1>3, ReceiverInv, RecvRemoveInv DEF ReceiverThread
<1>4. CASE Heartbeater \/ PeerLeaves
  BY <1>4, OthersInv, SendInv DEF Heartbeater, HbBeat, All
<1>5. CASE \E d \in Data : Send(d)
  BY <1>5, SendInv DEF All
<1>6. CASE \E c \in Closer : Close(c)
  BY <1>6, CloseInv, ClosePushInv DEF Close
<1>7. CASE UNCHANGED vars
  <2>1. AcceptFirst' /\ TakenDown' /\ NothingLeft'
    BY <1>7, AcceptKept, DownKept, LeftKept
       DEF ConnInv, vars, accVars, sndVars, flags, fdVars, hbVars
  <2>2. TasksOnce' /\ FatesKnown'
    BY <1>7, TasksKept, FatesKept DEF ConnInv, vars, accVars, sndVars, flags, fdVars, hbVars
  <2>3. TypeOK'
    BY <1>7 DEF ConnInv, TypeOK, vars, accVars, sndVars, flags, fdVars, hbVars
  <2> QED  BY <2>1, <2>2, <2>3 DEF ConnInv
<1> QED  BY <1>1, <1>2, <1>3, <1>4, <1>5, <1>6, <1>7 DEF Next

\* The inductive invariant holds in every reachable state, for any data, any
\* heartbeats and any number of coroutines that call close().
THEOREM ConnectionInvariant == Spec => []ConnInv
  BY InitInv, NextInv, PTL DEF Spec

\* The descriptor is closed after the sender's last use of it, and no close()
\* reaches the sender before the connection was added to it.
THEOREM ConnectionOwned == Spec => []ConnectionSound
<1>1. ConnInv => ConnectionSound
  <2> SUFFICES ASSUME ConnInv PROVE ConnectionSound
    OBVIOUS
  <2>1. FdSafe
    BY DEF ConnInv, TakenDown, FdSafe
  <2>2. AddedBeforeRemoved
    BY DEF ConnInv, AcceptFirst, AddedBeforeRemoved
  <2> QED  BY <2>1, <2>2 DEF ConnInv, ConnectionSound
<1> QED  BY <1>1, ConnectionInvariant, PTL

\* close() lets everything go out that was queued before it, unless the peer
\* left or a message was broken.
THEOREM CloseSendsAll == Spec => []SentBeforeClose
<1>1. ConnInv => SentBeforeClose
  BY DEF ConnInv, NothingLeft, SentBeforeClose
<1> QED  BY <1>1, ConnectionInvariant, PTL
-----------------------------------------------------------------------------
(* The connection implements ConnectionSpec.                               *)

\* A step that changes neither the phase nor what has become of the data.
LEMMA PhaseKept == ASSUME UNCHANGED <<rpc, isClosing>> PROVE Phase' = Phase
  BY DEF Phase

\* A piece of data goes from one fate to the next.
LEMMA OneMoves ==
    ASSUME TypeOK, NEW d \in All, NEW from, NEW to, fate[d] = from,
           fate' = [fate EXCEPT ![d] = to], Phase' = Phase
    PROVE  Promise!Move({d}, from, to)
<1>1. fate' = [e \in All |-> IF e \in {d} THEN to ELSE fate[e]]
  BY DEF TypeOK
<1> QED  BY <1>1 DEF Promise!Move

\* send() is Submit.
LEMMA SendRefines == ASSUME ConnInv, NEW d \in All, Send(d) PROVE Promise!Next
<1>1. Phase' = Phase
  BY PhaseKept DEF Send, flags
<1>2. Promise!Submit(d)
  BY <1>1, OneMoves DEF Send, ConnInv, Promise!Submit
<1> QED  BY <1>2 DEF Promise!Next

\* The DATA task is Accept, or Clean when the connection is closing.
LEMMA PopDataRefines == ASSUME ConnInv, PopData PROVE Promise!Next
<1> DEFINE d == sendQ[1].data
<1>1. Phase' = Phase
  BY PhaseKept DEF PopData, flags
<1>2. Head(sendQ) = sendQ[1] /\ d \in All /\ fate[d] = "submitted"
  <2>1. PopTask("DATA")
    BY DEF PopData
  <2>2. /\ 1 \in DOMAIN sendQ /\ Head(sendQ) = sendQ[1]
        /\ sendQ[1] \in SenderTask /\ sendQ[1].type = "DATA"
    BY <2>1, Popped DEF ConnInv
  <2> QED  BY <2>2 DEF SenderTask, ConnInv, FatesKnown
<1>3. \/ ~isClosing /\ fate' = [fate EXCEPT ![d] = "queued"]
      \/ isClosing /\ fate' = [fate EXCEPT ![d] = "cleaned"]
  BY <1>2 DEF PopData
<1> HIDE DEF d
<1>4. CASE ~isClosing /\ fate' = [fate EXCEPT ![d] = "queued"]
  <2>1. Phase = "open"
    BY <1>4 DEF Phase, ConnInv, TakenDown, SenderEnded
  <2>2. Promise!Move({d}, "submitted", "queued")
    BY <1>1, <1>2, <1>4, OneMoves DEF ConnInv
  <2> QED  BY <1>2, <2>1, <2>2 DEF Promise!Next, Promise!Accept
<1>5. CASE isClosing /\ fate' = [fate EXCEPT ![d] = "cleaned"]
  <2>1. Phase # "open"
    BY <1>5 DEF Phase
  <2>2. Promise!Move({d}, "submitted", "cleaned")
    BY <1>1, <1>2, <1>5, OneMoves DEF ConnInv
  <2> QED  BY <1>2, <2>1, <2>2 DEF Promise!Next, Promise!Clean
<1> QED  BY <1>3, <1>4, <1>5

\* downflow() is Take of the messages it encodes, if there are any.
LEMMA DownflowRefines ==
    ASSUME ConnInv, Downflow \/ DownflowFails
    PROVE  Promise!Next \/ UNCHANGED <<Phase, fate>>
<1>0. datas \in Seq(All) /\ DOMAIN datas = 1 .. Len(datas) /\ Len(datas) \in Nat
  BY DEF ConnInv, TypeOK
<1>1. Phase' = Phase /\ Phase # "closed"
  BY DEF Downflow, DownflowFails, flags, Phase, ConnInv, TakenDown, SenderEnded
<1>2. PICK n \in 0 .. Len(datas) : Encode(n)
  <2>1. CASE Downflow
    BY <1>0, <2>1 DEF Downflow
  <2>2. CASE DownflowFails
    <3>1. PICK m \in 1 .. Len(datas) : Encode(m - 1)
      BY <2>2 DEF DownflowFails
    <3>2. m - 1 \in 0 .. Len(datas)
      BY <1>0
    <3> QED  BY <3>1, <3>2
  <2> QED  BY <2>1, <2>2
<1> DEFINE S == {datas[i] : i \in 1 .. n}
<1>3. 1 .. n \subseteq DOMAIN datas
  BY <1>0
<1>4. S \in SUBSET All /\ \A d \in S : fate[d] = "queued"
  BY <1>0, <1>3 DEF ConnInv, FatesKnown
<1>5. fate' = [d \in All |-> IF d \in S THEN "taken" ELSE fate[d]]
  BY <1>2 DEF Encode
<1> HIDE DEF S
<1>6. CASE S = {}
  <2>1. fate' = fate
    BY <1>5, <1>6 DEF ConnInv, TypeOK
  <2> QED  BY <1>1, <2>1
<1>7. CASE S # {}
  <2>1. Promise!Take(S)
    BY <1>1, <1>4, <1>5, <1>7 DEF Promise!Take, Promise!Move
  <2> QED  BY <1>4, <2>1 DEF Promise!Next
<1> QED  BY <1>6, <1>7

\* The CLOSE task, or the end of connectionRoutine, is Closing.
LEMMA ClosingRefines ==
    ASSUME ConnInv, UNCHANGED <<rpc, fate>>, isClosing' = TRUE
    PROVE  Promise!Next \/ UNCHANGED <<Phase, fate>>
<1>1. CASE Phase = "open"
  <2>1. Phase' = "closing"
    BY <1>1 DEF Phase
  <2> QED  BY <1>1, <2>1 DEF Promise!Next, Promise!Closing
<1>2. CASE Phase # "open"
  <2>1. Phase' = Phase
    BY <1>2 DEF Phase
  <2> QED  BY <2>1
<1> QED  BY <1>1, <1>2

\* onClose() of the owner comes after the connection is closing.
LEMMA OnCloseRefines == ASSUME ConnInv, OnClose PROVE Promise!Next
<1>1. Phase = "closing" /\ Phase' = "closed" /\ fate' = fate
  BY DEF OnClose, RpcGoTo, Phase, ConnInv, TakenDown, SenderEnded
<1> QED  BY <1>1 DEF Promise!Next, Promise!OnClose

\* The other steps of the receiver do not end it.
LEMMA ReceiverRefines ==
    ASSUME ConnInv,
           \/ RecvStart \/ ReadEnds \/ RecvRemove \/ RecvShutdown \/ RecvWait \/ RecvCloseFd
           \/ RecvClosed \/ RecvIsHBing \/ RecvStop \/ UpflowFails \/ PushReceiver
    PROVE  UNCHANGED <<Phase, fate>>
<1>1. isClosing' = isClosing /\ fate' = fate
  BY DEF RecvStart, ReadEnds, RecvRemove, RecvShutdown, RecvWait, RecvCloseFd, RecvClosed,
         RecvIsHBing, RecvStop, UpflowFails, PushReceiver, flags
<1>2. rpc # "end" /\ rpc' # "end"
  BY DEF RecvStart, ReadEnds, RecvRemove, RecvShutdown, RecvWait, RecvCloseFd, RecvClosed,
         RecvIsHBing, RecvStop, UpflowFails, PushReceiver, RpcGoTo, AccGoTo, ConnInv, TakenDown
<1> QED  BY <1>1, <1>2 DEF Phase

\* The IO layer keeps ConnectionSpec's promise to the owner of a connection:
\* nothing is queued once it is closing, and nothing of the connection is
\* touched after onClose().
THEOREM ConnectionRefines == Spec => Implements
<1>1. Init => Promise!Init
  BY DEF Init, Promise!Init, Phase
<1>2. ConnInv /\ [Next]_vars => [Promise!Next]_<<Phase, fate>>
  <2> SUFFICES ASSUME ConnInv, [Next]_vars PROVE Promise!Next \/ UNCHANGED <<Phase, fate>>
    OBVIOUS
  <2>1. CASE Acceptor
    <3>1. CASE PushReceiver
      BY <3>1, ReceiverRefines
    <3>2. CASE ~PushReceiver
      BY <2>1, <3>2, PhaseKept DEF Acceptor, Build, AccLock, OnConnect, SetIndex, PushInit, AccUnlock, flags
    <3> QED  BY <3>1, <3>2
  <2>2. CASE SenderThread
    <3>1. CASE PopClose \/ EndClosing
      BY <3>1, ClosingRefines DEF PopClose, EndClosing
    <3>2. CASE PopInit \/ DownflowNone \/ WriteDone \/ WriteFails \/ EndShutdown \/ EndPost
      BY <3>2, PhaseKept DEF PopInit, DownflowNone, WriteDone, WriteFails, EndShutdown,
                             EndPost, flags
    <3> QED  BY <2>2, <3>1, <3>2, PopDataRefines, DownflowRefines DEF SenderThread
  <2>3. CASE ReceiverThread \/ UpflowFails
    BY <2>3, ReceiverRefines, OnCloseRefines DEF ReceiverThread
  <2>4. CASE Heartbeater \/ PeerLeaves
    <3>1. CASE \E d \in Beats : HbBeat(d)
      BY <3>1, SendRefines DEF HbBeat, All
    <3>2. CASE HbDispatch \/ HbRemoveClosed \/ HbTimeout \/ PeerLeaves
      BY <3>2, PhaseKept DEF HbDispatch, HbRemoveClosed, HbTimeout, PeerLeaves, flags
    <3> QED  BY <2>4, <3>1, <3>2 DEF Heartbeater
  <2>5. CASE \E d \in Data : Send(d)
    BY <2>5, SendRefines DEF All
  <2>6. CASE \E c \in Closer : Close(c)
    BY <2>6, PhaseKept DEF Close, CloseCheck, CloseLock, ClosePush, CloseUnlock, CloseIsHBing,
                           CloseStop, flags
  <2>7. CASE UNCHANGED vars
    BY <2>7, PhaseKept DEF vars, flags
  <2> QED  BY <2>1, <2>2, <2>3, <2>4, <2>5, <2>6, <2>7 DEF Next
<1> QED  BY <1>1, <1>2, ConnectionInvariant, PTL DEF Spec, Implements, Promise!Spec, Promise!specVars

-----------------------------------------------------------------------------
(***************************************************************************)
(* The handshake that makes a UDP connection, for every number of tries    *)
(* and sockets.  What has to be carried along is where HANDSHAKE_4 comes   *)
(* from: one that is on its way to the client, however late, was sent from *)
(* a socket that was a connection then, and such a socket is a connection  *)
(* still or closed.                                                        *)
(***************************************************************************)

\* One client address and the server.
HandshakeSpec == HandshakeInit /\ [][HandshakeNext]_hsVars

HsTypeOK ==
    /\ kind \in {"cpp", "unity"}
    /\ phase \in {"shake1", "shake2", "connected", "failed"}
    /\ stale \in 0 .. MaxStale
    /\ shaking \in BOOLEAN
    /\ socks \in Seq({"shaking", "connected", "closed", "leaked"})
    /\ Len(socks) <= MaxSockets
    /\ tries \in 0 .. TryTimes /\ (tries > 0 <=> shaking)
    /\ toServer \subseteq {"H1", "H3", "data"}
    /\ toClient \subseteq {"H2", "H4", "UN", "data"}

\* shakingClient_ knows of the one handshake that goes on.
OneHandshake ==
    /\ shaking <=> \E i \in DOMAIN socks : socks[i] = "shaking"
    /\ \A i, j \in DOMAIN socks : socks[i] = "shaking" /\ socks[j] = "shaking" => i = j

\* Where HANDSHAKE_4 comes from.
Served == \E i \in DOMAIN socks : socks[i] \in {"connected", "closed"}
Answered == phase = "connected" \/ "H4" \in toClient => Served

HsInv == HsTypeOK /\ OneHandshake /\ Answered

\* The bounds are numbers.
LEMMA BoundsNat ==
    /\ TryTimes \in Nat /\ TryTimes > 0 /\ MaxSockets \in Nat /\ MaxSockets > 0
    /\ MaxStale \in Nat /\ MaxStale > 0
  BY HandshakeAssumption

-----------------------------------------------------------------------------
(* What the server does to its sockets.                                    *)

\* The types of what a handshake leaves when it is over.
HandshakeOver ==
    /\ tries' \in 0 .. TryTimes /\ (tries' > 0 <=> shaking') /\ shaking' \in BOOLEAN

\* A handshake ends: the one socket that is shaking becomes st, and what was a
\* connection or closed stays so.
LEMMA EndHandshakeInv ==
    ASSUME HsTypeOK, OneHandshake, shaking,
           NEW to \in {"connected", "closed", "leaked"}, EndHandshake(to)
    PROVE  /\ socks' \in Seq({"shaking", "connected", "closed", "leaked"})
           /\ Len(socks') = Len(socks) /\ OneHandshake' /\ HandshakeOver
           /\ (Served \/ to \in {"connected", "closed"}) => Served'
<1> DEFINE k == CHOOSE i \in DOMAIN socks : socks[i] = "shaking"
<1>1. k \in DOMAIN socks /\ socks[k] = "shaking"
  BY DEF OneHandshake
<1>2. socks' = [socks EXCEPT ![k] = to] /\ shaking' = FALSE /\ tries' = 0
  BY DEF EndHandshake
<1> HIDE DEF k
<1>3. DOMAIN socks' = DOMAIN socks /\ Len(socks') = Len(socks)
      /\ socks' \in Seq({"shaking", "connected", "closed", "leaked"})
  BY <1>1, <1>2 DEF HsTypeOK
<1>4. \A i \in DOMAIN socks : socks'[i] = IF i = k THEN to ELSE socks[i]
  BY <1>2
<1>5. \A i \in DOMAIN socks : socks'[i] # "shaking"
  BY <1>1, <1>4 DEF OneHandshake
<1>6. OneHandshake'
  BY <1>2, <1>3, <1>5 DEF OneHandshake
<1>7. (Served \/ to \in {"connected", "closed"}) => Served'
  BY <1>1, <1>3, <1>4 DEF Served
<1>8. HandshakeOver
  <2>1. tries' \in 0 .. TryTimes /\ ~(tries' > 0)
    BY <1>2, BoundsNat
  <2> QED  BY <1>2, <2>1 DEF HandshakeOver
<1> QED  BY <1>2, <1>3, <1>6, <1>7, <1>8

\* The kernel's choice of a socket exists.
LEMMA NewestOpen ==
    ASSUME HsTypeOK, Open # {}
    PROVE  Newest \in Open
<1> DEFINE n == Len(socks)
           Ages == {n - i : i \in Open}
<1>1. n \in Nat /\ \A i \in Open : i \in 1 .. n
  BY DEF HsTypeOK, Open
<1>2. Ages \subseteq Nat /\ Ages # {}
  BY <1>1
<1>3. PICK a \in Ages : \A b \in Ages : a <= b
  <2> DEFINE R == OpToRel(<, Nat)
  <2> HIDE DEF Ages
  <2>1. IsWellFoundedOn(R, Nat)
    BY NatLessThanWellFounded
  <2>2. \A a, b \in Nat : <<b, a>> \notin R => a <= b
    BY DEF OpToRel
  <2> HIDE DEF R
  <2>3. \E a \in Ages : \A b \in Ages : <<b, a>> \notin R
    BY <1>2, <2>1, WFMin
  <2> QED  BY <1>2, <2>2, <2>3
<1>4. PICK i \in Open : a = n - i
  BY <1>3
<1>5. \A j \in Open : n - i <= n - j
  BY <1>3, <1>4
<1>6. \A j \in Open : j <= i
  BY <1>1, <1>4, <1>5
<1> QED  BY <1>4, <1>6 DEF Newest

\* The socket that gets a datagram is one of the server's.
LEMMA ServesOne ==
    ASSUME HsTypeOK, NEW s, Serves(s)
    PROVE  \E i \in DOMAIN socks : socks[i] = s
<1>1. Newest \in Open /\ socks[Newest] = s
  BY NewestOpen DEF Serves
<1> QED  BY <1>1 DEF Open

-----------------------------------------------------------------------------
(* The steps of the server.                                                *)

\* acceptRoutine() opens a socket for a client that is not in a handshake.
LEMMA AcceptInv ==
    ASSUME HsInv, NEW m \in toServer, acceptRoutine(m) PROVE HsInv'
<1> USE DEF HsInv
<1>0. /\ UNCHANGED <<kind, phase, stale>> /\ toServer' = toServer \ {m}
      /\ m \in {"H1", "H3", "data"}
  BY DEF acceptRoutine, HsTypeOK
<1>1. CASE m = "H1" /\ ~shaking
  <2>1. /\ Len(socks) < MaxSockets /\ shaking' = TRUE /\ tries' = TryTimes
        /\ socks' = Append(socks, "shaking") /\ ToClient({"H2"})
    BY <1>1 DEF acceptRoutine
  <2>2. /\ DOMAIN socks = 1 .. Len(socks) /\ DOMAIN socks' = 1 .. Len(socks) + 1
        /\ Len(socks) \in Nat /\ Len(socks') = Len(socks) + 1
        /\ socks' \in Seq({"shaking", "connected", "closed", "leaked"})
        /\ \A i \in DOMAIN socks : socks'[i] = socks[i]
        /\ socks'[Len(socks) + 1] = "shaking"
    BY <2>1 DEF HsTypeOK
  <2>3. toClient' \subseteq {"H2", "H4", "UN", "data"} /\ ("H4" \in toClient' => "H4" \in toClient)
    BY <2>1 DEF ToClient, HsTypeOK
  <2>4. HsTypeOK'
    BY <1>0, <2>1, <2>2, <2>3, BoundsNat DEF HsTypeOK
  <2>5. OneHandshake'
    <3>1. \A i \in DOMAIN socks : socks[i] # "shaking"
      BY <1>1 DEF OneHandshake
    <3>2. \A i \in DOMAIN socks' : i = Len(socks) + 1 \/ i \in DOMAIN socks
      BY <2>2
    <3>3. Len(socks) + 1 \in DOMAIN socks'
      BY <2>2
    <3>4. \A i \in DOMAIN socks' : socks'[i] = "shaking" => i = Len(socks) + 1
      BY <2>2, <3>1, <3>2
    <3> QED  BY <2>1, <2>2, <3>3, <3>4 DEF OneHandshake
  <2>6. Answered'
    <3>1. DOMAIN socks \subseteq DOMAIN socks'
      BY <2>2
    <3> QED  BY <1>0, <2>2, <2>3, <3>1 DEF Answered, Served
  <2> QED  BY <2>4, <2>5, <2>6
<1>2. CASE ~(m = "H1" /\ ~shaking)
  <2>1. UNCHANGED <<shaking, socks, tries>> /\ ToClient(ListenReply(m))
    BY <1>2 DEF acceptRoutine
  <2>2. toClient' \subseteq {"H2", "H4", "UN", "data"} /\ ("H4" \in toClient' => "H4" \in toClient)
    BY <1>0, <2>1 DEF ToClient, ListenReply, HsTypeOK
  <2> QED  BY <1>0, <2>1, <2>2 DEF HsTypeOK, OneHandshake, Answered, Served
<1> QED  BY <1>1, <1>2

\* handshakeRoutine() reads a datagram: HANDSHAKE_4 goes out with the socket
\* becoming a connection.
LEMMA HandshakeReadInv ==
    ASSUME HsInv, NEW m \in toServer, HandshakeRead(m) PROVE HsInv'
<1> USE DEF HsInv
<1>0. /\ UNCHANGED <<kind, phase, stale>> /\ toServer' = toServer \ {m}
      /\ m \in {"H1", "H3", "data"} /\ shaking
  BY ServesOne DEF HandshakeRead, HsTypeOK, OneHandshake
<1>1. CASE m = "H3"
  <2>1. EndHandshake("connected") /\ ToClient({"H4"})
    BY <1>1 DEF HandshakeRead
  <2>2. /\ socks' \in Seq({"shaking", "connected", "closed", "leaked"})
        /\ Len(socks') = Len(socks) /\ OneHandshake' /\ HandshakeOver
        /\ Served'
    BY <1>0, <2>1, EndHandshakeInv
  <2>3. toClient' \subseteq {"H2", "H4", "UN", "data"}
    BY <2>1 DEF ToClient, HsTypeOK
  <2>4. HsTypeOK'
    BY <1>0, <2>2, <2>3, BoundsNat DEF HsTypeOK, HandshakeOver
  <2> QED  BY <2>2, <2>4 DEF Answered
<1>2. CASE m = "H1"
  <2>1. ToClient({"H2"}) /\ UNCHANGED <<shaking, socks, tries>>
    BY <1>2 DEF HandshakeRead
  <2>2. toClient' \subseteq {"H2", "H4", "UN", "data"} /\ ("H4" \in toClient' => "H4" \in toClient)
    BY <2>1 DEF ToClient, HsTypeOK
  <2> QED  BY <1>0, <2>1, <2>2 DEF HsTypeOK, OneHandshake, Answered, Served
<1>3. CASE m = "data"
  <2>1. EndHandshake("closed") /\ UNCHANGED toClient
    BY <1>3 DEF HandshakeRead
  <2>2. /\ socks' \in Seq({"shaking", "connected", "closed", "leaked"})
        /\ Len(socks') = Len(socks) /\ OneHandshake' /\ HandshakeOver
        /\ Served'
    BY <1>0, <2>1, EndHandshakeInv
  <2>4. HsTypeOK'
    BY <1>0, <2>1, <2>2, BoundsNat DEF HsTypeOK, HandshakeOver
  <2> QED  BY <2>2, <2>4 DEF Answered
<1> QED  BY <1>0, <1>1, <1>2, <1>3

\* handshakeRoutine() tries again or gives up, and then leaks its socket.
LEMMA HandshakeTimeoutInv == ASSUME HsInv, HandshakeTimeout PROVE HsInv'
<1> USE DEF HsInv
<1>0. UNCHANGED <<kind, phase, stale, toServer>> /\ shaking
  BY DEF HandshakeTimeout
<1>1. CASE tries > 1
  <2>1. tries' = tries - 1 /\ ToClient({"H2"}) /\ UNCHANGED <<shaking, socks>>
    BY <1>1 DEF HandshakeTimeout
  <2>2. toClient' \subseteq {"H2", "H4", "UN", "data"} /\ ("H4" \in toClient' => "H4" \in toClient)
    BY <2>1 DEF ToClient, HsTypeOK
  <2>3. tries' \in 0 .. TryTimes /\ tries' > 0
    BY <1>1, <2>1, BoundsNat DEF HsTypeOK
  <2> QED  BY <1>0, <2>1, <2>2, <2>3 DEF HsTypeOK, OneHandshake, Answered, Served
<1>2. CASE ~(tries > 1)
  <2>1. EndHandshake("leaked") /\ UNCHANGED toClient
    BY <1>2 DEF HandshakeTimeout
  <2>2. /\ socks' \in Seq({"shaking", "connected", "closed", "leaked"})
        /\ Len(socks') = Len(socks) /\ OneHandshake' /\ HandshakeOver
        /\ Served => Served'
    BY <1>0, <2>1, EndHandshakeInv
  <2>4. HsTypeOK'
    BY <1>0, <2>1, <2>2 DEF HsTypeOK, HandshakeOver
  <2> QED  BY <1>0, <2>1, <2>2, <2>4 DEF Answered
<1> QED  BY <1>1, <1>2

\* The client is gone.
LEMMA HandshakeRefusedInv == ASSUME HsInv, HandshakeRefused PROVE HsInv'
<1> USE DEF HsInv
<1>0. UNCHANGED <<kind, phase, stale, toServer, toClient>> /\ shaking /\ EndHandshake("closed")
  BY DEF HandshakeRefused
<1>1. /\ socks' \in Seq({"shaking", "connected", "closed", "leaked"})
      /\ Len(socks') = Len(socks) /\ OneHandshake' /\ HandshakeOver
      /\ Served => Served'
  BY <1>0, EndHandshakeInv
<1>2. HsTypeOK'
  BY <1>0, <1>1 DEF HsTypeOK, HandshakeOver
<1> QED  BY <1>0, <1>1, <1>2 DEF Answered

\* A connection answers HANDSHAKE_3 with HANDSHAKE_4.
LEMMA UpflowInv == ASSUME HsInv, NEW m \in toServer, udp_upflow(m) PROVE HsInv'
<1> USE DEF HsInv
<1>1. /\ UNCHANGED <<kind, phase, stale, shaking, socks, tries>> /\ toServer' = toServer \ {m}
      /\ ToClient(UpflowReply(m))
  BY DEF udp_upflow
<1>2. Served
  BY ServesOne DEF udp_upflow, Served
<1>3. toClient' \subseteq {"H2", "H4", "UN", "data"}
  BY <1>1 DEF ToClient, UpflowReply, HsTypeOK
<1> QED  BY <1>1, <1>2, <1>3 DEF HsTypeOK, OneHandshake, Answered, Served

\* The server sends on a connection, or closes one.
LEMMA ServerInv == ASSUME HsInv, ServerSends \/ ServerCloses PROVE HsInv'
<1> USE DEF HsInv
<1>1. CASE ServerSends
  <2>1. toClient' \subseteq {"H2", "H4", "UN", "data"} /\ ("H4" \in toClient' => "H4" \in toClient)
    BY <1>1 DEF ServerSends, ToClient, HsTypeOK
  <2> QED  BY <1>1, <2>1 DEF ServerSends, HsTypeOK, OneHandshake, Answered, Served
<1>2. CASE ServerCloses
  <2>1. PICK i \in Open : socks[i] = "connected" /\ socks' = [socks EXCEPT ![i] = "closed"]
    BY <1>2 DEF ServerCloses
  <2>2. /\ i \in DOMAIN socks /\ DOMAIN socks' = DOMAIN socks /\ Len(socks') = Len(socks)
        /\ socks' \in Seq({"shaking", "connected", "closed", "leaked"})
        /\ socks'[i] = "closed"
        /\ \A j \in DOMAIN socks : socks'[j] = IF j = i THEN "closed" ELSE socks[j]
    BY <2>1 DEF Open, HsTypeOK
  <2>3. UNCHANGED <<kind, phase, stale, shaking, tries, toServer, toClient>>
    BY <1>2 DEF ServerCloses
  <2>4. OneHandshake'
    BY <2>1, <2>2, <2>3 DEF OneHandshake
  <2>5. Served'
    BY <2>2 DEF Served
  <2> QED  BY <2>2, <2>3, <2>4, <2>5 DEF HsTypeOK, Answered
<1> QED  BY <1>1, <1>2

-----------------------------------------------------------------------------
(* The steps of the client and of the network.                             *)

\* The client takes a datagram: only HANDSHAKE_4 makes it connected.
LEMMA ClientReceivesInv ==
    ASSUME HsInv, NEW m \in toClient, CppReceives(m) \/ UnityReceives(m) PROVE HsInv'
<1> USE DEF HsInv
<1>0. /\ UNCHANGED <<kind, shaking, socks, tries>> /\ toClient' = toClient \ {m}
      /\ m \in {"H2", "H4", "UN", "data"} /\ phase \in {"shake1", "shake2", "connected"}
  BY DEF CppReceives, UnityReceives, HsTypeOK
<1>1. /\ CppPhase(m) \in {"shake1", "shake2", "connected", "failed"}
      /\ UnityPhase(m) \in {"shake1", "shake2", "connected", "failed"}
      /\ CppPhase(m) = "connected" => phase = "connected" \/ m = "H4"
      /\ UnityPhase(m) = "connected" => phase = "connected" \/ m = "H4"
  BY <1>0 DEF CppPhase, UnityPhase
<1>2. CASE stale' = stale /\ (Enter(CppPhase(m)) \/ Enter(UnityPhase(m)))
  <2>1. /\ phase' \in {"shake1", "shake2", "connected", "failed"}
        /\ phase' = "connected" => phase = "connected" \/ "H4" \in toClient
        /\ toServer' \subseteq {"H1", "H3", "data"}
    BY <1>1, <1>2 DEF Enter, ToServer, Sends, HsTypeOK
  <2> QED  BY <1>0, <1>2, <2>1 DEF HsTypeOK, OneHandshake, Answered, Served
<1>3. CASE stale > 0 /\ stale' = stale - 1 /\ UNCHANGED <<phase, toServer>>
  <2>1. stale' \in 0 .. MaxStale
    BY <1>3, BoundsNat DEF HsTypeOK
  <2> QED  BY <1>0, <1>3, <2>1 DEF HsTypeOK, OneHandshake, Answered, Served
<1> QED  BY <1>2, <1>3 DEF CppReceives, UnityReceives

\* The client sends again after a timeout, or sends on its connection.
LEMMA ClientSendsInv == ASSUME HsInv, ClientTimeout \/ ClientSends PROVE HsInv'
<1> USE DEF HsInv
<1>1. toServer' \subseteq {"H1", "H3", "data"}
  BY DEF ClientTimeout, ClientSends, ToServer, HsTypeOK
<1>2. stale' \in 0 .. MaxStale
  BY BoundsNat DEF ClientTimeout, ClientSends, HsTypeOK
<1>3. UNCHANGED <<kind, phase, shaking, socks, tries, toClient>>
  BY DEF ClientTimeout, ClientSends
<1> QED  BY <1>1, <1>2, <1>3 DEF HsTypeOK, OneHandshake, Answered, Served

\* A datagram is lost, or ends in a socket that nobody reads.
LEMMA LostInv ==
    ASSUME HsInv, LoseDatagram \/ \E m \in toServer : Unread(m) PROVE HsInv'
<1> USE DEF HsInv
<1>1. /\ UNCHANGED <<kind, phase, stale, shaking, socks, tries>>
      /\ toServer' \subseteq toServer /\ toClient' \subseteq toClient
  BY DEF LoseDatagram, Unread
<1> QED  BY <1>1 DEF HsTypeOK, OneHandshake, Answered, Served

-----------------------------------------------------------------------------
(* The theorems.                                                           *)

\* No socket and nothing answered at first.
LEMMA HsInitInv == HandshakeInit => HsInv
<1> SUFFICES ASSUME HandshakeInit PROVE HsInv
  OBVIOUS
<1>1. tries \in 0 .. TryTimes /\ ~(tries > 0) /\ stale \in 0 .. MaxStale
  BY BoundsNat DEF HandshakeInit
<1>2. socks = <<>> /\ ~shaking /\ shaking \in BOOLEAN /\ DOMAIN socks = {} /\ Len(socks) = 0
  <2>1. socks = <<>> /\ shaking = FALSE
    BY DEF HandshakeInit
  <2>2. DOMAIN socks = {} /\ Len(socks) = 0
    BY <2>1
  <2> QED  BY <2>1, <2>2
<1>3. socks \in Seq({"shaking", "connected", "closed", "leaked"}) /\ Len(socks) <= MaxSockets
  BY <1>2, BoundsNat
<1>4. /\ kind \in {"cpp", "unity"} /\ phase \in {"shake1", "shake2", "connected", "failed"}
      /\ toServer \subseteq {"H1", "H3", "data"} /\ toClient \subseteq {"H2", "H4", "UN", "data"}
  BY DEF HandshakeInit
<1>5. HsTypeOK
  BY <1>1, <1>2, <1>3, <1>4 DEF HsTypeOK
<1> QED  BY <1>2, <1>5 DEF HandshakeInit, HsInv, OneHandshake, Answered

\* Every step keeps the invariant.
LEMMA HsNextInv == HsInv /\ [HandshakeNext]_hsVars => HsInv'
<1> SUFFICES ASSUME HsInv, [HandshakeNext]_hsVars PROVE HsInv'
  OBVIOUS
<1>1. CASE HandshakeNext
  BY <1>1, AcceptInv, HandshakeReadInv, UpflowInv, LostInv, ClientReceivesInv,
     HandshakeTimeoutInv, HandshakeRefusedInv, ServerInv, ClientSendsInv DEF HandshakeNext
<1>2. CASE UNCHANGED hsVars
  BY <1>2 DEF hsVars, HsInv, HsTypeOK, OneHandshake, Answered, Served
<1> QED  BY <1>1, <1>2

\* A HANDSHAKE_4 on its way comes from a socket of a connection, and one
\* handshake with a client goes on at a time.
THEOREM HandshakeInvariant == HandshakeSpec => []HsInv
  BY HsInitInv, HsNextInv, PTL DEF HandshakeSpec

\* The invariant gives the property of the run.
LEMMA InvServed == HsInv => ConnectedMeansServed
<1> SUFFICES ASSUME HsInv PROVE ConnectedMeansServed
  OBVIOUS
<1> DEFINE S == {i \in DOMAIN socks : socks[i] = "shaking"}
<1>1. Cardinality(S) = IF shaking THEN 1 ELSE 0
  <2>1. CASE shaking
    <3>1. PICK i \in DOMAIN socks : socks[i] = "shaking"
      BY <2>1 DEF HsInv, OneHandshake
    <3>2. S = {i}
      BY <3>1 DEF HsInv, OneHandshake
    <3> QED  BY <2>1, <3>2, FS_Singleton
  <2>2. CASE ~shaking
    <3>1. S = {}
      BY <2>2 DEF HsInv, OneHandshake
    <3> QED  BY <2>2, <3>1, FS_EmptySet
  <2> QED  BY <2>1, <2>2
<1>2. phase = "connected" => Served
  BY DEF HsInv, Answered
<1>3. phase = "connected" /\ Len(socks) = 1 => socks[1] # "shaking"
  BY <1>2 DEF Served, HsInv, HsTypeOK
<1> QED  BY <1>1, <1>2, <1>3 DEF ConnectedMeansServed, Served

\* A client that takes the handshake for done has, or had, a connection at the
\* server, and shakingClient_ knows of the one handshake that goes on.
THEOREM HandshakeServed == HandshakeSpec => []ConnectedMeansServed
  BY HandshakeInvariant, InvServed, PTL

=============================================================================
