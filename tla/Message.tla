------------------------------ MODULE Message ------------------------------
(***************************************************************************)
(* MessageTerminal, MessageBuffer and TcpClient: a server pushes numbered  *)
(* messages to a client over connections that break, keeps a copy of the   *)
(* ones marked needBuffer until the client has acknowledged them, and      *)
(* sends them again after a reconnection.                                  *)
(*                                                                         *)
(* A message is its serial number.  The server's Connection objects of one *)
(* session are numbered by the TCP connection they belong to; they share   *)
(* one MessageBuffer.  The handler that moves a session to a new           *)
(* connection (ResumeSession) belongs to the application: it is modelled   *)
(* from the interface MessageTerminal::Connection offers for it.           *)
(***************************************************************************)
EXTENDS Integers, Sequences, FiniteSets, SequencesExt

CONSTANTS
    MaxSerial,    \* messages the server sends
    MaxMsgNum,    \* maxMsgNum_ of the buffer, 0 for no limit
    MaxFaults,    \* times the network cuts a connection or corrupts a message
    MaxRequests,  \* requests of the client, the login requests not counted
    MaxConns,     \* connections the client makes
    MaxBans,      \* calls of setBanMessages()
    RegisterInfo  \* registerMessageMap_: registered type -> needCoroutine

ASSUME MessageAssumption ==
    /\ {MaxSerial, MaxMsgNum, MaxFaults, MaxRequests, MaxConns, MaxBans}
         \subseteq Nat
    /\ "login" \in DOMAIN RegisterInfo
    /\ \A t \in DOMAIN RegisterInfo : RegisterInfo[t] \in BOOLEAN

Serials == 1 .. MaxSerial
Requests == {"ask", "other"}   \* "other" has no handler of its own

VARIABLES
    msgBuffer,   \* msgBuffer_ of the session
    lastSendSerial, \* lastSendSerial_ of the session's connection
    att,         \* the connection the session is attached to
    closed,      \* connections the server knows to be closed
    srvRecv,     \* recvSerial_ of the server's end of the newest connection
    tasks,       \* the worker's queue
    ban,         \* banned, of the type "ask"
    conn,        \* the newest connection
    alive,       \* its two ends can still talk
    down, up,    \* what is under way on it
    cOpen,       \* isOpen() of the client's end
    cRecv,       \* its recvSerial_
    cSent,       \* its lastSendSerial_
    cQueue,      \* its sender's queue
    cError,      \* a decodeError of the client's end, "no" at first
    buffered,    \* serials sent with needBuffer
    got,         \* serials given to the client's worker, in order
    handled,     \* which handler the server ran, and whether it got a message
    dropped,     \* serials a full buffer gave up
    spoiled,     \* serials the network corrupted on their way to the client
    over,        \* the session could not be resumed
    breaks, requests, bans

srvVars == <<msgBuffer, lastSendSerial, att, closed, buffered, dropped, over>>
wrkVars == <<srvRecv, tasks, ban, handled, bans>>
netVars == <<conn, alive, down, up, breaks, spoiled>>
cliVars == <<cOpen, cRecv, cSent, cQueue, cError, got, requests>>
messageVars == <<srvVars, wrkVars, netVars, cliVars>>

(***************************************************************************)
(* MessageBuffer                                                           *)
(***************************************************************************)
EmptyBuffer == [link |-> <<>>, last |-> 0, scrap |-> 0, broken |-> FALSE]

\* What insertMessage() and jumpToSerial() do when the serial is not the next.
BreakBuffer(b) == [b EXCEPT !.broken = TRUE, !.link = <<>>]

\* A full buffer drops its oldest message.
MakeRoom(b) ==
    IF MaxMsgNum > 0 /\ Len(b.link) >= MaxMsgNum
    THEN [b EXCEPT !.scrap = Head(b.link), !.link = Tail(b.link)]
    ELSE b

insertMessage(b, s) ==
    IF b.broken THEN b
    ELSE IF s # b.last + 1 THEN BreakBuffer(MakeRoom(b))
    ELSE [MakeRoom(b) EXCEPT !.link = Append(@, s), !.last = s]

jumpToSerial(b, s) ==
    IF b.broken THEN b
    ELSE IF s # b.last + 1 THEN BreakBuffer(b)
    ELSE [b EXCEPT !.last = s]

\* How many messages from the front on were acknowledged with s.
Acknowledged(link, s) ==
    CHOOSE n \in 0 .. Len(link) :
        /\ \A i \in 1 .. n : link[i] <= s
        /\ n < Len(link) => link[n + 1] > s

Scrap(b, n, s) ==
    [b EXCEPT !.link = SubSeq(@, n + 1, Len(@)), !.scrap = IF @ < s THEN s ELSE @]

\* mutant: keeps the message that was acknowledged
MutScrapKeeps(b, s) == Scrap(b, Acknowledged(b.link, s - 1), s)

\* mutant: removes the message after the one that was acknowledged
MutScrapOneMore(b, s) == Scrap(b, Acknowledged(b.link, s + 1), s)

scrapMessages(b, s) == Scrap(b, Acknowledged(b.link, s), s)

(***************************************************************************)
(* Sending.                                                                *)
(***************************************************************************)
Data(s) == [type |-> "data", serial |-> s, intact |-> TRUE]
Jump(s) == [type |-> "jump", serial |-> s, intact |-> TRUE]

\* A message given to the attached connection's sender reaches the wire when
\* that connection is the newest one and still works.
Transmit(ms) ==
    down' = IF alive /\ att = conn /\ att \notin closed THEN down \o ms ELSE down

\* Connection::send() of a message with a type > 0, with or without needBuffer.
send(needBuffer) ==
    /\ lastSendSerial < MaxSerial /\ ~over
    /\ att \in closed => needBuffer
    /\ LET s == lastSendSerial + 1 IN
       /\ lastSendSerial' = s
       /\ msgBuffer' = IF needBuffer THEN insertMessage(msgBuffer, s)
                                     ELSE jumpToSerial(msgBuffer, s)
       /\ buffered' = IF needBuffer THEN buffered \cup {s} ELSE buffered
       /\ dropped' = dropped \cup (Range(msgBuffer.link) \ Range(msgBuffer'.link))
       /\ Transmit(<<Data(s)>>)
    /\ UNCHANGED <<att, closed, over, wrkVars, conn, alive, up, breaks, spoiled,
                   cliVars>>

\* What resend() sends for a buffered message: before one that does not follow
\* the one before it a message that moves the client to its serial.
Again(link, i) ==
    IF i > 1 /\ link[i] # link[i - 1] + 1
    THEN <<Jump(link[i] - 1), Data(link[i])>>
    ELSE <<Data(link[i])>>

Resent(link) ==
    LET sent[i \in 0 .. Len(link)] == IF i = 0 THEN <<>> ELSE sent[i - 1] \o Again(link, i)
    IN  sent[Len(link)]

(***************************************************************************)
(* MessageTerminal::decode(), the same at both ends: the new recvSerial_   *)
(* and whether the message becomes a task, nothing or an error.  System    *)
(* messages (type < 0) have no serial of their own and are not checked.    *)
(***************************************************************************)
decode(recv, m) ==
    CASE m.type = "heartbeat" -> [recv |-> recv, verdict |-> "task"]
      [] m.type = "jump" /\ m.serial <= recv ->
            [recv |-> recv, verdict |-> "serial"]
      [] m.type = "jump" /\ m.serial > recv ->
            [recv |-> m.serial, verdict |-> "none"]
      [] m.type \notin {"heartbeat", "jump"} /\ m.serial # recv + 1 ->
            [recv |-> recv + 1, verdict |-> "serial"]
      [] m.type \notin {"heartbeat", "jump"} /\ m.serial = recv + 1 ->
            [recv |-> recv + 1, verdict |-> IF m.intact THEN "task" ELSE "crc"]

(***************************************************************************)
(* The server.                                                             *)
(***************************************************************************)
\* The task decode() builds; banned is read here, and a banned message is not
\* parsed.
Task(m) ==
    [type |-> m.type, ack |-> m.ack, conn |-> conn,
     banned |-> m.type = "ask" /\ ban]

\* The receiver of the server decodes the next message of the client.
ServerReceive ==
    /\ up # <<>> /\ conn \notin closed
    /\ LET d == decode(srvRecv, Head(up)) IN
       /\ srvRecv' = d.recv
       /\ tasks' = IF d.verdict = "task" THEN Append(tasks, Task(Head(up))) ELSE tasks
       /\ closed' = IF d.verdict \in {"serial", "crc"}
                    THEN closed \cup {conn} ELSE closed
    /\ up' = Tail(up)
    /\ UNCHANGED <<msgBuffer, lastSendSerial, att, buffered, dropped, over, ban, handled,
                   bans, conn, alive, down, breaks, spoiled, cliVars>>

\* mutant: reads banned again when the task is run
MutHandler(t) ==
    LET key == IF ban /\ t.type = "ask" THEN "banned" ELSE t.type IN
    IF key \notin DOMAIN RegisterInfo THEN "otherMessageHandle" ELSE key

\* The handler doTask() runs for a message, in place or through
\* taskCallRoutine(), which looks the type up again; "none" when there is none.
Handler(t) ==
    LET key == IF t.banned THEN "banned" ELSE t.type IN
    IF key \notin DOMAIN RegisterInfo
    THEN IF t.banned THEN "none" ELSE "otherMessageHandle"
    ELSE IF RegisterInfo[key] THEN t.type ELSE key

\* The application moves the session to the connection whose login request it
\* has got: the client says what it received last, and the buffer must still
\* hold all that came after it.
ResumeSession(c, ack) ==
    IF msgBuffer.broken \/ msgBuffer.scrap > ack
    THEN /\ over' = TRUE
         /\ UNCHANGED <<msgBuffer, att, closed, down>>
    ELSE LET b == scrapMessages(msgBuffer, ack) IN
         /\ msgBuffer' = b
         /\ att' = c
         /\ closed' = closed \cup (0 .. c - 1)
         /\ down' = IF alive /\ c = conn /\ c \notin closed
                    THEN down \o Resent(b.link) ELSE down
         /\ UNCHANGED over

\* MessageWorkerTask::doTask(); a connection the session has not been attached
\* to has no msgBuffer_.
doTask ==
    /\ tasks # <<>> /\ ~over
    /\ LET t == Head(tasks) IN
       /\ handled' = IF t.type \in {"heartbeat", "login"} THEN handled
                     ELSE handled \cup {[by |-> Handler(t), type |-> t.type,
                                         parsed |-> ~t.banned]}
       /\ IF t.type = "login" /\ t.conn > att
          THEN ResumeSession(t.conn, t.ack)
          ELSE /\ msgBuffer' = IF t.conn <= att THEN scrapMessages(msgBuffer, t.ack)
                                                ELSE msgBuffer
               /\ UNCHANGED <<att, closed, over, down>>
    /\ tasks' = Tail(tasks)
    /\ UNCHANGED <<lastSendSerial, buffered, dropped, srvRecv, ban, bans, conn, alive, up,
                   breaks, spoiled, cliVars>>

\* setBanMessages(), in a thread of its own.
setBanMessages ==
    /\ bans < MaxBans /\ bans' = bans + 1
    /\ ban' = ~ban
    /\ UNCHANGED <<srvVars, srvRecv, tasks, handled, netVars, cliVars>>

\* The server finds out that a connection is dead.
ServerClose ==
    /\ ~alive /\ conn \notin closed
    /\ closed' = closed \cup {conn}
    /\ UNCHANGED <<msgBuffer, lastSendSerial, att, buffered, dropped, over, wrkVars, netVars,
                   cliVars>>

(***************************************************************************)
(* The client.                                                             *)
(***************************************************************************)
\* mutant: a client that has had a connection makes no other
MutMayConnect == ~cOpen /\ conn = 0

\* connect() refuses only while the connection is open.
MayConnect == ~cOpen

\* TcpClient::connect(): the new connection takes over recvSerial_ of the old
\* one, and nothing else.  The application logs in on it.
connect ==
    /\ MayConnect /\ ~over /\ conn < MaxConns
    /\ conn' = conn + 1 /\ alive' = TRUE /\ down' = <<>> /\ up' = <<>>
    /\ cOpen' = TRUE /\ cSent' = 1
    /\ cQueue' = <<[type |-> "login", serial |-> 1]>>
    /\ srvRecv' = 0
    /\ UNCHANGED <<srvVars, tasks, ban, handled, bans, breaks, spoiled, cRecv,
                   cError, got, requests>>

\* MessageClient::send()
ClientSend(type) ==
    /\ cOpen /\ requests < MaxRequests
    /\ requests' = requests + 1
    /\ cSent' = cSent + 1
    /\ cQueue' = Append(cQueue, [type |-> type, serial |-> cSent + 1])
    /\ UNCHANGED <<srvVars, wrkVars, netVars, cOpen, cRecv, cError, got>>

\* The Heartbeater gives the sender of the connection a heartbeat.
Heartbeat ==
    /\ cOpen /\ alive
    /\ \A m \in Range(cQueue) \cup Range(up) \cup Range(tasks) : m.type # "heartbeat"
    /\ cQueue' = Append(cQueue, [type |-> "heartbeat", serial |-> 0])
    /\ UNCHANGED <<srvVars, wrkVars, netVars, cOpen, cRecv, cSent, cError, got,
                   requests>>

\* The sender encodes the next message: the acknowledgement is recvSerial_ of
\* this moment, not of the moment of send().
encode ==
    /\ cOpen /\ cQueue # <<>>
    /\ up' = IF alive
             THEN Append(up, [type |-> Head(cQueue).type, serial |-> Head(cQueue).serial,
                              ack |-> cRecv, intact |-> TRUE])
             ELSE up
    /\ cQueue' = Tail(cQueue)
    /\ UNCHANGED <<srvVars, wrkVars, conn, alive, down, breaks, spoiled, cOpen,
                   cRecv, cSent, cError, got, requests>>

\* The client's receiver decodes the next message; an error closes the
\* connection.
ClientReceive ==
    /\ cOpen /\ down # <<>>
    /\ LET d == decode(cRecv, Head(down)) IN
       /\ cRecv' = d.recv
       /\ got' = IF d.verdict = "task" THEN Append(got, Head(down).serial) ELSE got
       /\ IF d.verdict \in {"serial", "crc"}
          THEN /\ cError' = d.verdict /\ cOpen' = FALSE /\ alive' = FALSE
               /\ down' = <<>>
          ELSE /\ down' = Tail(down)
               /\ UNCHANGED <<cError, cOpen, alive>>
    /\ UNCHANGED <<srvVars, wrkVars, conn, up, breaks, spoiled, cSent, cQueue,
                   requests>>

\* The client finds out that its connection is dead.
ClientClose ==
    /\ cOpen /\ (~alive \/ conn \in closed)
    /\ cOpen' = FALSE /\ alive' = FALSE /\ down' = <<>>
    /\ UNCHANGED <<srvVars, wrkVars, conn, up, breaks, spoiled, cRecv, cSent,
                   cQueue, cError, got, requests>>

(***************************************************************************)
(* The network: a broken connection delivers a part of what was under way. *)
(***************************************************************************)
Break ==
    /\ alive /\ breaks + Cardinality(spoiled) < MaxFaults
    /\ alive' = FALSE /\ breaks' = breaks + 1
    /\ \E i \in 0 .. Len(down), j \in 0 .. Len(up) :
          down' = SubSeq(down, 1, i) /\ up' = SubSeq(up, 1, j)
    /\ UNCHANGED <<srvVars, wrkVars, conn, spoiled, cliVars>>

Corrupt ==
    /\ breaks + Cardinality(spoiled) < MaxFaults
    /\ \E i \in DOMAIN down :
          /\ down[i].type = "data"
          /\ down' = [down EXCEPT ![i].intact = FALSE]
          /\ spoiled' = spoiled \cup {down[i].serial}
    /\ UNCHANGED <<srvVars, wrkVars, conn, alive, up, breaks, cliVars>>

MessageInit ==
    /\ msgBuffer = EmptyBuffer /\ lastSendSerial = 0 /\ att = 0 /\ closed = {0}
    /\ srvRecv = 0 /\ tasks = <<>> /\ ban \in BOOLEAN
    /\ conn = 0 /\ alive = FALSE /\ down = <<>> /\ up = <<>>
    /\ cOpen = FALSE /\ cRecv = 0 /\ cSent = 0 /\ cQueue = <<>> /\ cError = "no"
    /\ buffered = {} /\ got = <<>> /\ handled = {} /\ over = FALSE
    /\ dropped = {} /\ spoiled = {} /\ breaks = 0 /\ requests = 0 /\ bans = 0

MessageNext ==
    \/ send(TRUE) \/ send(FALSE)
    \/ ServerReceive \/ doTask \/ setBanMessages \/ ServerClose
    \/ connect \/ encode \/ Heartbeat \/ ClientReceive \/ ClientClose
    \/ \E type \in Requests : ClientSend(type)
    \/ Break \/ Corrupt

MessageSpec == MessageInit /\ [][MessageNext]_messageVars

MessageFairSpec ==
    /\ MessageSpec
    /\ WF_messageVars(ServerReceive) /\ WF_messageVars(doTask) /\ WF_messageVars(ServerClose)
    /\ WF_messageVars(connect) /\ WF_messageVars(encode)
    /\ WF_messageVars(ClientReceive) /\ WF_messageVars(ClientClose)
-----------------------------------------------------------------------------
MessageTypeOK ==
    /\ lastSendSerial \in 0 .. MaxSerial
    /\ buffered \subseteq Serials
    /\ msgBuffer \in [link : Seq(Serials), last : 0 .. MaxSerial,
                      scrap : 0 .. MaxSerial, broken : BOOLEAN]
    /\ att \in 0 .. conn
    /\ {cRecv, srvRecv, cSent} \subseteq Nat
    /\ got \in Seq(Serials)

\* Nothing is lost in silence and nothing comes twice: what the client got is
\* in increasing order, and every buffered message at or below the serial it
\* acknowledges (decode's recvSerial_, encode's header field) has reached it,
\* over all its connections, unless the network spoiled that very message.
NothingSkipped ==
    /\ \A i, j \in DOMAIN got : i < j => got[i] < got[j]
    /\ \A s \in buffered : s <= cRecv => s \in Range(got) \cup spoiled

\* The copy of a buffered message is there as long as the client may ask for
\* it: scrapMessages(), called for every acknowledgement of whatever
\* connection and however late, only removes what was received, except that a
\* full buffer gives up its oldest message and then knows that it did.  The
\* serials never break the buffer.
Retained ==
    /\ MessageTypeOK
    /\ ~msgBuffer.broken /\ msgBuffer.last = lastSendSerial
    /\ \A s \in buffered : s > cRecv => \/ s \in Range(msgBuffer.link)
                                        \/ s \in dropped
    /\ msgBuffer.scrap <= cRecv \/ msgBuffer.scrap \in dropped

\* The handler registered for a type is never run without its message: the
\* value of banned that decode() recorded decides both whether the body is
\* parsed and which handler runs, whenever setBanMessages() is called.
HandlerGetsMessage ==
    \A h \in handled : h.by = h.type => h.parsed

\* Every buffered message reaches the client in the end, however often the
\* connection breaks, unless the network spoiled it, or the buffer had to give
\* one up and the session could not be resumed.
AllDelivered ==
    \A s \in Serials : (s \in buffered) ~> (s \in Range(got) \cup spoiled \/ over)
=============================================================================
