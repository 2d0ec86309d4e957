---------------------------- MODULE UdpHandshake ----------------------------
(***************************************************************************)
(* The four-message handshake that opens a UDP or KCP connection:          *)
(* UdpAcceptor at the server; UdpClient of the C++ library or the Unity    *)
(* client at the other end; one client address.  Datagrams (H1 .. H4, UN   *)
(* for "unshake", "data" for anything longer than a handshake message) are *)
(* lost and overtake each other.                                           *)
(*                                                                         *)
(* The server has a listening socket and, per handshake, a socket that is  *)
(* connected to the client's address: the kernel gives a datagram of that  *)
(* client to the newest such socket, but now and then to the listening one *)
(* (the comment at corpc_io.cpp:689).                                      *)
(***************************************************************************)
EXTENDS Integers, Sequences, FiniteSets, SequencesExt

CONSTANTS
    TryTimes,    \* trytimes in handshakeRoutine (4)
    MaxSockets,  \* sockets the server opens for the client
    MaxStale     \* receives the Unity client has left behind

ASSUME HandshakeAssumption ==
    {TryTimes, MaxSockets, MaxStale} \subseteq Nat \ {0}

VARIABLES
    kind,       \* "cpp" or "unity"
    phase,      \* of the client: "shake1", "shake2", "connected" or "failed"
    stale,      \* ReceiveAsync calls that timed out and are still pending
    shaking,    \* the client is in shakingClient_
    socks,      \* the connected sockets of the server, oldest first
    tries,      \* trytimes of the handshake that is going on
    toServer, toClient

hsVars == <<kind, phase, stale, shaking, socks, tries, toServer, toClient>>

Open == {i \in DOMAIN socks : socks[i] # "closed"}
Newest == CHOOSE i \in Open : \A j \in Open : j <= i

\* The newest socket of the server is in state st.
Serves(st) == Open # {} /\ socks[Newest] = st

ToClient(ms) == toClient' = IF phase = "failed" THEN toClient ELSE toClient \cup ms
ToServer(ms) == toServer' = toServer \cup ms

(***************************************************************************)
(* The server.                                                             *)
(***************************************************************************)
\* mutant: HANDSHAKE_3 at the listening socket ends the handshake
MutListenReply(m) == CASE m = "data" -> {"UN"} [] m = "H3" -> {"H4"} [] OTHER -> {}

\* What acceptRoutine() answers to a datagram that opens no handshake.
ListenReply(m) == CASE m = "data" -> {"UN"} [] m = "H3" -> {"H2"} [] OTHER -> {}

\* acceptRoutine(): HANDSHAKE_1 opens a socket and starts handshakeRoutine(),
\* which sends HANDSHAKE_2 at once.
acceptRoutine(m) ==
    /\ m \in toServer /\ toServer' = toServer \ {m}
    /\ IF m = "H1" /\ ~shaking
       THEN /\ Len(socks) < MaxSockets
            /\ shaking' = TRUE /\ tries' = TryTimes
            /\ socks' = Append(socks, "shaking")
            /\ ToClient({"H2"})
       ELSE /\ ToClient(ListenReply(m))
            /\ UNCHANGED <<shaking, socks, tries>>
    /\ UNCHANGED <<kind, phase, stale>>

\* handshakeRoutine() is over and its socket becomes st.
EndHandshake(st) ==
    /\ socks' = [socks EXCEPT ![CHOOSE i \in DOMAIN socks : socks[i] = "shaking"] = st]
    /\ shaking' = FALSE /\ tries' = 0

\* handshakeRoutine() reads a datagram: HANDSHAKE_3 is answered and makes the
\* connection, another handshake message makes it send HANDSHAKE_2 again, and
\* anything else ends the handshake.
HandshakeRead(m) ==
    /\ m \in toServer /\ toServer' = toServer \ {m}
    /\ Serves("shaking")
    /\ CASE m = "H3" -> EndHandshake("connected") /\ ToClient({"H4"})
         [] m = "H1" -> ToClient({"H2"}) /\ UNCHANGED <<shaking, socks, tries>>
         [] m = "data" -> EndHandshake("closed") /\ UNCHANGED toClient
    /\ UNCHANGED <<kind, phase, stale>>

\* read() in handshakeRoutine() times out.  The last time the routine ends
\* without closing the socket.
HandshakeTimeout ==
    /\ shaking
    /\ IF tries > 1
       THEN /\ tries' = tries - 1 /\ ToClient({"H2"})
            /\ UNCHANGED <<shaking, socks>>
       ELSE EndHandshake("leaked") /\ UNCHANGED toClient
    /\ UNCHANGED <<kind, phase, stale, toServer>>

\* read() or write() fails because the client has closed its socket.
HandshakeRefused ==
    /\ shaking /\ phase = "failed"
    /\ EndHandshake("closed")
    /\ UNCHANGED <<kind, phase, stale, toServer, toClient>>

\* mutant: HANDSHAKE_3 is dropped like the other handshake messages
MutUpflowReply(m) == {}

\* UdpPipeline::upflow() and KcpPipeline::upflow(): a handshake message is late;
\* HANDSHAKE_3 says that HANDSHAKE_4 did not arrive.
UpflowReply(m) == IF m = "H3" THEN {"H4"} ELSE {}

udp_upflow(m) ==
    /\ m \in toServer /\ toServer' = toServer \ {m}
    /\ Serves("connected") /\ ToClient(UpflowReply(m))
    /\ UNCHANGED <<kind, phase, stale, shaking, socks, tries>>

\* A datagram of the client ends up in a socket that nobody reads any more.
Unread(m) ==
    /\ m \in toServer /\ toServer' = toServer \ {m}
    /\ Serves("leaked")
    /\ UNCHANGED <<kind, phase, stale, shaking, socks, tries, toClient>>

\* The server sends a message or a heartbeat on a connection of the client.
ServerSends ==
    /\ \E i \in Open : socks[i] = "connected"
    /\ ToClient({"data"})
    /\ UNCHANGED <<kind, phase, stale, shaking, socks, tries, toServer>>

\* The Heartbeater closes a connection whose client does not talk on it.
ServerCloses ==
    /\ phase # "connected"
    /\ \E i \in Open : /\ socks[i] = "connected"
                       /\ socks' = [socks EXCEPT ![i] = "closed"]
    /\ UNCHANGED <<kind, phase, stale, shaking, tries, toServer, toClient>>

(***************************************************************************)
(* The client: UdpClient::connect() and UdpMessageClient.Handshake().      *)
(***************************************************************************)
\* The phase in which a datagram leaves the client; in the second phase the
\* C++ client takes another HANDSHAKE_2 for a request to send HANDSHAKE_3
\* again, the Unity client for an error.
CppPhase(m) ==
    CASE phase = "shake1" -> IF m = "H2" THEN "shake2" ELSE "failed"
      [] phase = "shake2" -> IF m = "H4" THEN "connected"
                             ELSE IF m = "H2" THEN "shake2" ELSE "failed"
      [] phase = "connected" -> "connected"

UnityPhase(m) ==
    CASE phase = "shake1" -> IF m = "H2" THEN "shake2" ELSE "failed"
      [] phase = "shake2" -> IF m = "H4" THEN "connected" ELSE "failed"
      [] phase = "connected" -> IF m = "UN" THEN "failed" ELSE "connected"

\* What the client sends on its way into phase ph.
Sends(ph) == IF ph = "shake2" THEN {"H3"} ELSE {}

Enter(ph) ==
    /\ phase' = ph
    /\ ToServer(Sends(ph))

CppReceives(m) ==
    /\ kind = "cpp" /\ phase # "failed"
    /\ m \in toClient /\ toClient' = toClient \ {m}
    /\ Enter(CppPhase(m))
    /\ UNCHANGED <<kind, stale, shaking, socks, tries>>

\* The datagram goes to the oldest pending ReceiveAsync: to one whose wait has
\* timed out, as long as there is one, and then nobody looks at it.
UnityReceives(m) ==
    /\ kind = "unity" /\ phase # "failed"
    /\ m \in toClient /\ toClient' = toClient \ {m}
    /\ IF stale > 0
       THEN stale' = stale - 1 /\ UNCHANGED <<phase, toServer>>
       ELSE Enter(UnityPhase(m)) /\ UNCHANGED stale
    /\ UNCHANGED <<kind, shaking, socks, tries>>

\* poll() or Task.Delay() runs out: the phase's message is sent again.
ClientTimeout ==
    /\ phase \in {"shake1", "shake2"}
    /\ ToServer(IF phase = "shake1" THEN {"H1"} ELSE {"H3"})
    /\ stale' = IF kind = "unity" /\ stale < MaxStale THEN stale + 1 ELSE stale
    /\ UNCHANGED <<kind, phase, shaking, socks, tries, toClient>>

\* The connected client sends a message or a heartbeat.
ClientSends ==
    /\ phase = "connected" /\ ToServer({"data"})
    /\ UNCHANGED <<kind, phase, stale, shaking, socks, tries, toClient>>

LoseDatagram ==
    /\ \/ \E m \in toServer : toServer' = toServer \ {m} /\ UNCHANGED toClient
       \/ \E m \in toClient : toClient' = toClient \ {m} /\ UNCHANGED toServer
    /\ UNCHANGED <<kind, phase, stale, shaking, socks, tries>>

HandshakeInit ==
    /\ kind \in {"cpp", "unity"} /\ phase = "shake1" /\ stale = 0
    /\ shaking = FALSE /\ socks = <<>> /\ tries = 0
    /\ toServer = {"H1"} /\ toClient = {}

HandshakeNext ==
    \/ \E m \in toServer : \/ acceptRoutine(m) \/ HandshakeRead(m)
                           \/ udp_upflow(m) \/ Unread(m)
    \/ \E m \in toClient : CppReceives(m) \/ UnityReceives(m)
    \/ HandshakeTimeout \/ HandshakeRefused \/ ServerSends \/ ServerCloses
    \/ ClientTimeout \/ ClientSends \/ LoseDatagram

\* The datagrams that take the handshake further, at the socket the kernel prefers.
ShakeReceived ==
    \/ Open = {} /\ acceptRoutine("H1")
    \/ HandshakeRead("H3") \/ udp_upflow("H3")

ShakeAnswered == CppReceives(IF phase = "shake1" THEN "H2" ELSE "H4")

\* Timers fire.
HandshakeFairness == WF_hsVars(ClientTimeout) /\ WF_hsVars(HandshakeTimeout)
-----------------------------------------------------------------------------
\* A client that takes the handshake for done has a connection at the server,
\* or had one that the server has closed since: HANDSHAKE_4 is only ever sent
\* from the socket of the connection.  No two handshakes with the client go on
\* at once, and shakingClient_ knows of the one that does.
ConnectedMeansServed ==
    /\ phase = "connected" => \E i \in DOMAIN socks : socks[i] \in {"connected", "closed"}
    /\ phase = "connected" /\ Len(socks) = 1 => socks[1] # "shaking"
    /\ Cardinality({i \in DOMAIN socks : socks[i] = "shaking"}) = IF shaking THEN 1 ELSE 0

\* The C++ client's connect() comes to an end, connected or failed, whatever is
\* lost, unless the server has given up on it: a socket it has leaked swallows
\* what the client sends, and after one it has closed the listening socket
\* answers HANDSHAKE_3 with HANDSHAKE_2 for ever.
HandshakeEnds ==
    []<>(kind = "cpp" => \/ phase \in {"connected", "failed"}
                         \/ \E i \in DOMAIN socks : socks[i] \in {"leaked", "closed"})
=============================================================================
