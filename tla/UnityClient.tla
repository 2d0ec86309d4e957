---------------------------- MODULE UnityClient ----------------------------
(***************************************************************************)
(* The Unity clients TcpMessageClient, UdpMessageClient and                *)
(* KcpMessageClient after their handshake (UdpHandshake): Start(), Close() *)
(* and Update() run on Unity's main thread; every Start() leaves two tasks *)
(* to the thread pool, RecvMsgLoop() and SendMsgLoop(), that share the two *)
(* AsyncMessageQueues and the object's fields with it.  A task gets the    *)
(* token of cts_ when the pool begins it and reads the socket's field      *)
(* whenever it uses it, so a task of a closed connection can meet the next *)
(* one.  Connections are numbered; 0 is null.                              *)
(*                                                                         *)
(* The two loops meet only in the main thread: a behaviour follows those   *)
(* of one side, and of the others that they may report an error.           *)
(***************************************************************************)
EXTENDS Integers, Sequences

CONSTANTS
    Kinds,         \* of clients: "tcp", "udp", "kcp"
    MaxStarts,     \* calls of Start()
    MaxSends,      \* messages given to Send()
    MaxFromServer, \* messages of the server per connection
    MaxFaults      \* failures of the network, and connections the server closes

ASSUME UnityAssumption ==
    /\ Kinds \subseteq {"tcp", "udp", "kcp"}
    /\ MaxStarts \in Nat /\ MaxSends \in Nat /\ MaxFromServer \in Nat /\ MaxFaults \in Nat

VARIABLES
    client,    \* "tcp", "udp" or "kcp"
    side,      \* "send" or "recv"
    main,      \* what the main thread is in
    field,     \* the fields socket (tcpClient_, udpSocket_), cts_, running_ and the serials
    cancelled, \* cancelled tokens
    recvMsgQueue, sendMsgQueue,
    task,      \* the task of each Start()
    readable, onWire,   \* per connection: to be read, and written
    sends, given,  \* messages given to Send(); those that the server has sent
    handled,   \* messages that HandleMessage() was called with
    clean,     \* no Start() has found a task of an earlier one
    faults     \* how many there have been

stepVars == <<client, side, main, field, cancelled, recvMsgQueue, sendMsgQueue, task, readable,
               onWire, sends, given, handled, clean>>
unityVars == <<stepVars, faults>>
queueVars == <<recvMsgQueue, sendMsgQueue>>
netVars == <<readable, onWire, given>>
doneVars == <<sends, handled, clean>>

Sessions == 1 .. MaxStarts

Msg(type, s, n) == [type |-> type, s |-> s, n |-> n]
Disconnect == Msg("disconnect", 0, 0)

\* Bytes of two frames read as one: no serial fits.
Garbage == Msg("msg", 0, 0)

(***************************************************************************)
(* AsyncMessageQueue: a queue and a semaphore, which Clear() leaves alone. *)
(***************************************************************************)
Enqueue(q, m) == [items |-> Append(q.items, m), permits |-> q.permits + 1]

\* With the null that a permit without an item gives.
Dequeue(q) == [items |-> IF q.items = <<>> THEN <<>> ELSE Tail(q.items), permits |-> q.permits - 1]

Clear(q) == [q EXCEPT !.items = <<>>]

Over == [at |-> "done", ct |-> 0, got |-> Disconnect, serial |-> 0]
Goes(t, at) == task' = [task EXCEPT ![t] = [Over EXCEPT !.at = at, !.ct = task[t].ct]]
Stops(t) == Goes(t, "done")

(***************************************************************************)
(* The main thread.                                                        *)
(***************************************************************************)
Started == Len(SelectSeq([s \in Sessions |-> task[s].at], LAMBDA a : a # "none"))

\* Start() up to its await.  Nobody calls it while it is going on.
StartConnects ==
    /\ main = "idle" /\ field.socket = 0 /\ Started < MaxStarts
    /\ field' = [field EXCEPT !.socket = Started + 1]
    /\ main' = "starting"
    /\ clean' = (clean /\ \A t \in Sessions : task[t].at \in {"none", "done"})
    /\ UNCHANGED <<client, side, cancelled, queueVars, task, netVars, sends, handled>>

StartFails ==
    /\ main = "starting" /\ main' = "idle"
    /\ field' = [field EXCEPT !.socket = 0]
    /\ task' = [task EXCEPT ![field.socket] = Over]
    /\ UNCHANGED <<client, side, cancelled, queueVars, netVars, doneVars>>

\* The serials of a connection start at 0, but the UDP client never resets them.
FirstSerials(f) == IF client = "udp" THEN f ELSE [f EXCEPT !.lastSend = 0, !.lastRecv = 0]

StartEnds ==
    /\ main = "starting" /\ main' = "idle"
    /\ field' = FirstSerials([field EXCEPT !.cts = field.socket, !.running = TRUE])
    /\ recvMsgQueue' = Clear(recvMsgQueue) /\ sendMsgQueue' = Clear(sendMsgQueue)
    /\ task' = [task EXCEPT ![field.socket] = [Over EXCEPT !.at = "starting"]]
    /\ UNCHANGED <<client, side, cancelled, netVars, doneVars>>

\* Send() may be called at any time; what is given to it without a connection
\* is cleared by the next Start().  A heartbeat goes the same way, without a
\* serial, and is not followed.
UnitySend ==
    /\ main \in {"idle", "update"}
    /\ side = "send" /\ sends.all < MaxSends
    /\ sends' = [sends EXCEPT !.all = @ + 1, !.n[field.cts] = @ + 1]
    /\ sendMsgQueue' = Enqueue(sendMsgQueue, Msg("msg", field.cts, sends'.n[field.cts]))
    /\ UNCHANGED <<client, side, main, field, cancelled, recvMsgQueue, task, netVars, handled, clean>>

\* Close(), called by the user or by Update(): the socket is closed (before or
\* after the token is cancelled) ...
CloseBegins(from) ==
    IF field.cts = 0 THEN main' = from /\ UNCHANGED sendMsgQueue
    ELSE /\ main' = [idle |-> "closing", update |-> "closing in Update"][from]
         /\ sendMsgQueue' = Enqueue(sendMsgQueue, Disconnect)

UnityClose ==
    /\ main = "idle" /\ field.cts # 0 /\ CloseBegins("idle")
    /\ UNCHANGED <<client, side, field, cancelled, recvMsgQueue, task, netVars, doneVars>>

\* ... and the fields are cleared; the Update() of the TCP and UDP clients goes
\* on with its loop after a Close().
CloseEnds ==
    /\ main \in {"closing", "closing in Update"}
    /\ main' = IF main = "closing" \/ client = "kcp" THEN "idle" ELSE "update"
    /\ cancelled' = cancelled \cup {field.cts}
    /\ field' = [field EXCEPT !.cts = 0, !.socket = 0, !.running = FALSE]
    /\ UNCHANGED <<client, side, queueVars, task, netVars, doneVars>>

\* Update() finds that no heartbeat has come for too long.
UpdateTimesOut ==
    /\ main = "idle" /\ field.running /\ CloseBegins("update")
    /\ UNCHANGED <<client, side, field, cancelled, recvMsgQueue, task, netVars, doneVars>>

\* Update() reads the queue until it gets a null; what it takes in one call or
\* in several is the same, but for the rest of a call that has closed.
Updating == main = "update" \/ (main = "idle" /\ field.running)

UpdateTakes ==
    /\ Updating /\ recvMsgQueue.permits > 0 /\ recvMsgQueue.items # <<>>
    /\ recvMsgQueue' = Dequeue(recvMsgQueue)
    /\ LET m == Head(recvMsgQueue.items) IN
       IF m.type = "disconnect" THEN CloseBegins("update") /\ UNCHANGED handled
       ELSE /\ handled' = Append(handled, m)
            /\ UNCHANGED <<main, sendMsgQueue>>
    /\ UNCHANGED <<client, side, field, cancelled, task, netVars, sends, clean>>

UpdateGetsNull ==
    /\ Updating /\ (recvMsgQueue.permits = 0 \/ recvMsgQueue.items = <<>>)
    /\ main' = "idle"
    /\ recvMsgQueue' = IF recvMsgQueue.permits > 0 THEN Dequeue(recvMsgQueue) ELSE recvMsgQueue
    /\ UNCHANGED <<client, side, field, cancelled, sendMsgQueue, task, netVars, doneVars>>

(***************************************************************************)
(* The tasks.                                                              *)
(***************************************************************************)
\* Task.Run() evaluates cts_.Token only now; if cts_ is null the task fails.
TaskBegins(t) ==
    /\ task[t].at = "starting"
    /\ task' = [task EXCEPT ![t] = IF field.cts = 0 THEN Over
                                   ELSE [Over EXCEPT !.at = "loop", !.ct = field.cts]]
    /\ UNCHANGED <<client, side, main, field, cancelled, queueVars, netVars, doneVars>>

\* The loop's condition, and what waits with the token in the loop.
LoopEnds(t) ==
    /\ task[t].at = "loop" /\ task[t].ct \in cancelled /\ Stops(t)
    /\ UNCHANGED <<client, side, main, field, cancelled, queueVars, netVars, doneVars>>

Loops(t, what) == side = what /\ task[t].at = "loop" /\ task[t].ct \notin cancelled

SendTakes(t) ==
    /\ Loops(t, "send") /\ sendMsgQueue.permits > 0
    /\ sendMsgQueue' = Dequeue(sendMsgQueue)
    /\ IF sendMsgQueue.items = <<>> THEN UNCHANGED task
       ELSE LET m == Head(sendMsgQueue.items) IN
            IF m.type = "disconnect" THEN Stops(t)
            ELSE task' = [task EXCEPT ![t].at = "got", ![t].got = m]
    /\ UNCHANGED <<client, side, main, field, cancelled, recvMsgQueue, netVars, doneVars>>

\* The message gets its header, with the next serial.
SendStamps(t) ==
    /\ side = "send" /\ task[t].at = "got"
    /\ field' = [field EXCEPT !.lastSend = @ + 1]
    /\ task' = [task EXCEPT ![t].at = "write", ![t].serial = field.lastSend + 1]
    /\ UNCHANGED <<client, side, main, cancelled, queueVars, netVars, doneVars>>

\* A message that is too large ends the connection.
SendRefuses(t) ==
    /\ side = "send" /\ task[t].at = "got"
    /\ recvMsgQueue' = Enqueue(recvMsgQueue, Disconnect)
    /\ Stops(t)
    /\ UNCHANGED <<client, side, main, field, cancelled, sendMsgQueue, netVars, doneVars>>

\* Where a write goes: to the connection that the field has now; the TCP
\* client's carries the token; a KCP object of a closed connection is disposed.
Target(t) ==
    CASE client = "tcp" -> IF task[t].ct \in cancelled THEN 0 ELSE field.socket
      [] client = "udp" -> field.socket
      [] client = "kcp" -> field.cts

SendWrites(t) ==
    /\ side = "send" /\ task[t].at = "write"
    /\ IF Target(t) = 0 THEN Stops(t) /\ UNCHANGED onWire
       ELSE /\ onWire' = [onWire EXCEPT ![Target(t)] =
                             Append(@, [m |-> task[t].got, serial |-> task[t].serial])]
            /\ Goes(t, "loop")
    /\ UNCHANGED <<client, side, main, field, cancelled, queueVars, readable, given, doneVars>>

\* A write fails: only the TCP client tells the main thread.
SendFails(t) ==
    /\ side = "send" /\ task[t].at = "write" /\ client # "kcp"
    /\ recvMsgQueue' = IF client = "tcp" /\ task[t].ct \notin cancelled
                       THEN Enqueue(recvMsgQueue, Disconnect) ELSE recvMsgQueue
    /\ Stops(t)
    /\ UNCHANGED <<client, side, main, field, cancelled, sendMsgQueue, netVars, doneVars>>

\* One message, or the end, is read.  Two tasks may each read a part of a frame
\* of a TCP stream.
RecvReads(t) ==
    /\ Loops(t, "recv") /\ field.socket # 0 /\ readable[field.socket] # <<>>
    /\ readable' = [readable EXCEPT ![field.socket] = Tail(@)]
    /\ \E m \in {Head(readable[field.socket])} \cup
               {Garbage : x \in {u \in Sessions \ {t} : client = "tcp" /\ Loops(u, "recv")}} :
          task' = [task EXCEPT ![t].at = "got", ![t].got = m]
    /\ UNCHANGED <<client, side, main, field, cancelled, queueVars, onWire, given, doneVars>>

\* A read fails; on a UDP socket that Close() is closing this may go unsaid.
RecvFails(t) ==
    /\ Loops(t, "recv")
    /\ Stops(t)
    /\ \/ recvMsgQueue' = Enqueue(recvMsgQueue, Disconnect)
       \/ /\ client # "tcp" /\ main \in {"closing", "closing in Update"}
          /\ UNCHANGED recvMsgQueue
    /\ UNCHANGED <<client, side, main, field, cancelled, sendMsgQueue, netVars, doneVars>>

Fits(m) == m.type = "msg" /\ m.n = field.lastRecv + 1

\* What was read is given to Update(), whatever has become of the token.
RecvPuts(t) ==
    /\ side = "recv" /\ task[t].at = "got"
    /\ IF Fits(task[t].got)
       THEN /\ recvMsgQueue' = Enqueue(recvMsgQueue, task[t].got)
            /\ field' = [field EXCEPT !.lastRecv = @ + 1]
            /\ Goes(t, "loop")
       ELSE /\ recvMsgQueue' = Enqueue(recvMsgQueue, Disconnect)
            /\ Stops(t) /\ UNCHANGED field
    /\ UNCHANGED <<client, side, main, cancelled, sendMsgQueue, netVars, doneVars>>

\* The server sends its messages with serials from 1, or closes.
PeerSends(s) ==
    /\ side = "recv" /\ s = field.cts /\ given[s] < MaxFromServer
    /\ given' = [given EXCEPT ![s] = @ + 1]
    /\ readable' = [readable EXCEPT ![s] = Append(@, Msg("msg", s, given[s] + 1))]
    /\ UNCHANGED <<client, side, main, field, cancelled, queueVars, task, onWire, doneVars>>

PeerCloses(s) ==
    /\ side = "recv" /\ s = field.cts /\ given[s] <= MaxFromServer
    /\ given' = [given EXCEPT ![s] = MaxFromServer + 1]
    /\ readable' = [readable EXCEPT ![s] = Append(@, Disconnect)]
    /\ UNCHANGED <<client, side, main, field, cancelled, queueVars, task, onWire, doneVars>>

\* The task of the other side of the connection has failed.
OtherFails ==
    /\ field.cts # 0
    /\ recvMsgQueue' = Enqueue(recvMsgQueue, Disconnect)
    /\ UNCHANGED <<client, side, main, field, cancelled, sendMsgQueue, task, netVars, doneVars>>

UnityInit(kinds, sides) ==
    /\ client \in kinds /\ side \in sides /\ main = "idle"
    /\ field = [socket |-> 0, cts |-> 0, running |-> FALSE, lastSend |-> 0, lastRecv |-> 0]
    /\ cancelled = {} /\ clean = TRUE /\ faults = 0 /\ handled = <<>>
    /\ recvMsgQueue = [items |-> <<>>, permits |-> 0]
    /\ sendMsgQueue = [items |-> <<>>, permits |-> 0]
    /\ task = [t \in Sessions |-> [Over EXCEPT !.at = "none"]]
    /\ readable = [s \in Sessions |-> <<>>]
    /\ onWire = [s \in Sessions |-> <<>>]
    /\ given = [s \in Sessions |-> 0]
    /\ sends = [all |-> 0, n |-> [s \in {0} \cup Sessions |-> 0]]

Update == UpdateTakes \/ UpdateGetsNull

\* What a task does for itself, faults left out.
TaskStep(t) ==
    \/ TaskBegins(t) \/ LoopEnds(t)
    \/ SendTakes(t) \/ SendStamps(t) \/ SendWrites(t)
    \/ RecvReads(t) \/ RecvPuts(t)

\* The last task of a connection that sends is over: the server hears nothing
\* any more and closes, and so the client gets no heartbeats.
Silent == side = "send" /\ \A t \in Sessions : task[t].ct = field.cts => task[t].at = "done"

Works ==
    \/ StartConnects \/ StartEnds \/ UnitySend \/ UnityClose \/ CloseEnds
    \/ (Silent /\ UpdateTimesOut) \/ Update
    \/ \E t \in Sessions : TaskStep(t)
    \/ \E s \in Sessions : PeerSends(s)

Fails ==
    \/ StartFails \/ UpdateTimesOut \/ OtherFails
    \/ \E t \in Sessions : SendRefuses(t) \/ SendFails(t) \/ RecvFails(t)
    \/ \E s \in Sessions : PeerCloses(s)

UnityNext ==
    \/ Works /\ UNCHANGED faults
    \/ Fails /\ faults < MaxFaults /\ faults' = faults + 1

UnityFairness ==
    /\ WF_stepVars(StartEnds) /\ WF_stepVars(CloseEnds) /\ WF_stepVars(Update)
    /\ WF_stepVars(Silent /\ UpdateTimesOut)
    /\ \A t \in Sessions : WF_stepVars(TaskStep(t))
-----------------------------------------------------------------------------
\* What is in a queue can be taken out of it: Clear() at a Start() and the
\* permits it leaves never leave a message without a permit.
PermitsCover ==
    /\ Len(recvMsgQueue.items) <= recvMsgQueue.permits
    /\ Len(sendMsgQueue.items) <= sendMsgQueue.permits

Of(s, seq) == SelectSeq(seq, LAMBDA m : m.s = s)

\* As long as every Start() finds the earlier tasks over, what is written to a
\* connection are the messages given to Send() for it, in order, with consecutive
\* serials; what is handled are the server's messages of the connection, in order.
SessionsApart ==
    clean =>
      /\ \A s \in Sessions :
            \A i \in DOMAIN onWire[s] :
                /\ onWire[s][i].m.s = s /\ onWire[s][i].m.n = i
                /\ onWire[s][i].serial = IF client = "udp" THEN onWire[s][1].serial + i - 1 ELSE i
      /\ \A i \in DOMAIN handled : handled[i].s # 0
      /\ \A s \in Sessions : \A i \in DOMAIN Of(s, handled) : Of(s, handled)[i].n = i

UnitySound == PermitsCover /\ SessionsApart

\* The tasks of a closed connection come to an end, a message given to Send() or
\* read from the server does not stay in its queue, and a client whose sender is
\* over with messages left to send closes.
UnityServed ==
    /\ \A t \in Sessions : []<>(task[t].ct = field.cts \/ task[t].at \in {"none", "done"})
    /\ []<>(~field.running \/ sendMsgQueue.items = <<>>)
    /\ []<>(~field.running \/ recvMsgQueue.items = <<>>)
=============================================================================
