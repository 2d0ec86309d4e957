---- MODULE MCTransport ----
(***************************************************************************)
(* What is under a connection in one run; a behaviour is one of its parts: *)
(* "handshake" and "data", the two phases of a KCP connection; "timers",   *)
(* when it flushes; or "stream", a TCP connection.                         *)
(***************************************************************************)
EXTENDS UdpHandshake, UnityKcp, KcpTimers, Stream

VARIABLE part

vars == <<part, hsVars, unityVars, kcpTimerVars, streamVars>>

Link(unity, packages, wnd, rcvWnd, maxNet) ==
    [unity |-> unity, packages |-> packages, sndWnd |-> wnd, rcvWnd |-> rcvWnd, maxNet |-> maxNet]

PlainLink == Link("none", <<2, 1>>, 2, 2, 2)

\* With windows of two segments a third one waits; a receiver's window of one
\* is closed by every segment.
MCLinks ==
    {PlainLink, Link("sender", <<1, 2>>, 1, 2, 1),
     Link("receiver", <<2>>, 2, 2, 1), Link("receiver", <<1, 1>>, 2, 1, 1)}

HandshakeOver ==
    /\ kind = "cpp" /\ phase = "connected" /\ stale = 0
    /\ shaking = FALSE /\ socks = <<"connected">> /\ tries = 0
    /\ toServer = {} /\ toClient = {}

\* The clock is set back, or ahead by more than MaxSlap.
MCSettings == {-2, 4}

\* The third message is unknown, the last one too large.
MCBodySizes == <<3, 0, 1, 6, 9>>

Init ==
    /\ KcpInit /\ UnityKcpInit
    /\ \/ part = "handshake" /\ HandshakeInit /\ StreamInit("hang")
       \/ part \in {"data", "timers"} /\ HandshakeOver /\ StreamInit("hang")
       \/ part = "stream" /\ HandshakeOver /\ StreamInit("downflow")
    /\ part # "data" => link = PlainLink
    /\ KcpTimersInit(IF part = "timers" THEN "update" ELSE "over")

HandshakeStep == part = "handshake" /\ HandshakeNext /\ UNCHANGED <<part, unityVars, kcpTimerVars, streamVars>>
DataStep == part = "data" /\ UnityKcpNext /\ UNCHANGED <<part, hsVars, kcpTimerVars, streamVars>>
StreamStep == part = "stream" /\ StreamNext /\ UNCHANGED <<part, hsVars, unityVars, kcpTimerVars>>
TimersStep == part = "timers" /\ KcpTimersNext /\ UNCHANGED <<part, hsVars, unityVars, streamVars>>

Next == HandshakeStep \/ DataStep \/ StreamStep \/ TimersStep

\* Of the datagrams that take a handshake or a transfer further, one that is
\* sent again and again arrives in the end.
UdpFairness ==
    /\ SF_vars(\/ ShakeReceived /\ UNCHANGED <<part, unityVars, kcpTimerVars, streamVars>>
               \/ NextReceived /\ UNCHANGED <<part, hsVars, kcpTimerVars, streamVars>>)
    /\ SF_vars(\/ ShakeAnswered /\ UNCHANGED <<part, unityVars, kcpTimerVars, streamVars>>
               \/ NextAnswered /\ UNCHANGED <<part, hsVars, kcpTimerVars, streamVars>>)

Spec == /\ Init /\ [][Next]_vars
        /\ HandshakeFairness /\ LinkFairness /\ UdpFairness /\ StreamFairness
        /\ KcpTimersFairness

\* What either transport gives to the layer above is what was sent: KCP
\* acknowledges only what has arrived, and TCP messages are cut out of the
\* stream whole and in order.  What KCP holds back it flushes in time.
DataIntact ==
    /\ IF link.unity = "none" THEN AckedArrived ELSE UnityHeld
    /\ StreamIntact /\ KcpTimersSound

\* Everything that is sent arrives, over KCP in spite of losses and over TCP
\* however the stream is cut; KCP's flushes go on.
AllArrive == AllReceived /\ AllHanded /\ KcpGoesOn
====
