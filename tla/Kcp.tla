-------------------------------- MODULE Kcp --------------------------------
(***************************************************************************)
(* ikcp.c as corpc_kcp.cpp uses it (nodelay(1, 20, 2, 1): no congestion    *)
(* window): packages from one end to the other over UDP, which loses,      *)
(* delays and reorders; a segment that was sent twice arrives twice.  Each *)
(* call of ikcp_* is one step, made under kcpMtx_; the receiver's upflow() *)
(* is several of them, and the update coroutine of either end flushes      *)
(* between any two.                                                        *)
(*                                                                         *)
(* A package is its number and the count of its fragments.  A segment      *)
(* stands for a datagram of its own: losing a datagram of several loses    *)
(* them one by one.  Sequence numbers wrap at SnMod (2^32 in the code).    *)
(* The two directions of a connection do not touch each other; one is      *)
(* modelled.                                                               *)
(***************************************************************************)
EXTENDS Integers, Sequences, FiniteSets, FiniteSetsExt, SequencesExt, TLC

CONSTANTS
    Links,     \* the connections that are modelled, see below
    SnMod,     \* sequence numbers are taken modulo this
    FirstSn    \* the number of the next segment when the model starts

\* A connection: the end that runs the C# library, the packages (fragment
\* counts) that write() is given, snd_wnd and rcv_wnd, and a bound on the
\* datagrams under way in one direction.
\* CORPC_MAX_KCP_PACKAGE_SIZE is 10 segments, the window is 32: a package that
\* did not fit the receiver's window could never be put together.
ASSUME KcpAssumption ==
    /\ \A l \in Links :
         /\ l.unity \in {"none", "sender", "receiver"}
         /\ \A i \in DOMAIN l.packages : l.packages[i] \in 1 .. l.rcvWnd
         /\ {l.sndWnd, l.rcvWnd} \subseteq Nat \ {0} /\ l.maxNet \in Nat
         /\ SnMod >= 4 * (l.sndWnd + l.rcvWnd)
    /\ SnMod \in Nat /\ FirstSn \in 0 .. SnMod - 1

VARIABLES
    link,                 \* the connection: one of Links
    written,              \* packages given to ikcp_send()
    snd_queue, snd_buf,   \* segments not yet numbered; numbered ones not yet acknowledged
    snd_una, snd_nxt,
    rmt_wnd,              \* the window the other end last told
    probing,              \* probe_wait # 0
    toRcv, toSnd,         \* datagrams under way
    rcv_buf, rcv_queue,   \* segments out of order; segments in order, not yet taken
    rcv_nxt,
    acklist,              \* acknowledgements to flush
    tell,                 \* IKCP_ASK_TELL
    drain,                \* the receiver is in the kcpRecv() loop of upflow()
    received              \* packages ikcp_recv() returned

sndVars == <<written, snd_queue, snd_buf, snd_una, snd_nxt, rmt_wnd, probing>>
rcvVars == <<rcv_buf, rcv_queue, rcv_nxt, acklist, tell, drain, received>>
kcpVars == <<link, sndVars, rcvVars, toRcv, toSnd>>

Packages == link.packages
SndWnd == link.sndWnd
RcvWnd == link.rcvWnd
MaxNet == link.maxNet

\* _itimediff(): the difference as a signed number.
Diff(a, b) ==
    LET d == (a - b) % SnMod IN IF 2 * d < SnMod THEN d ELSE d - SnMod

Plus(sn, k) == (sn + k) % SnMod

Min2(a, b) == IF a < b THEN a ELSE b

\* UDP keeps MaxNet datagrams and what was sent last: older ones are pushed out.
Sent(net, new) ==
    LET room == IF Cardinality(new) < MaxNet THEN MaxNet - Cardinality(new) ELSE 0
        old == net \ new
    IN  IF new = {} THEN {net}
        ELSE {new \cup kept :
                kept \in {k \in SUBSET old : Cardinality(k) = Min2(room, Cardinality(old))}}

(***************************************************************************)
(* The sender.                                                             *)
(***************************************************************************)
AtSender == link.unity # "sender" /\ UNCHANGED link

\* mutant: counts the fragments up
MutFragments(m) == [i \in 1 .. Packages[m] |-> [pkg |-> m, frg |-> i - 1]]

\* ikcp_send(): the fragments of a package, the last one with frg = 0.
Fragments(m) == [i \in 1 .. Packages[m] |-> [pkg |-> m, frg |-> Packages[m] - i]]

\* Connection::write() of one package; the flush that follows is a Flush step.
ikcp_send ==
    /\ AtSender
    /\ written < Len(Packages)
    /\ written' = written + 1
    /\ snd_queue' = snd_queue \o Fragments(written + 1)
    /\ UNCHANGED <<snd_buf, snd_una, snd_nxt, rmt_wnd, probing, rcvVars, toRcv,
                   toSnd>>

\* How many segments ikcp_flush() moves from snd_queue to snd_buf.
CanSend ==
    LET room == Min2(SndWnd, rmt_wnd) - Diff(snd_nxt, snd_una)
    IN  IF room > 0 THEN Min2(room, Len(snd_queue)) ELSE 0

Push(seg) == [cmd |-> "PUSH", sn |-> seg.sn, pkg |-> seg.pkg, frg |-> seg.frg]
WASK == [cmd |-> "WASK"]

\* mutant: segments are sent once and never again
MutFlush(again, probe) ==
    /\ AtSender
    /\ LET new == [i \in 1 .. CanSend |-> snd_queue[i] @@ [sn |-> Plus(snd_nxt, i - 1)]] IN
       /\ snd_buf' = snd_buf \o new
       /\ snd_nxt' = Plus(snd_nxt, Len(new))
       /\ snd_queue' = SubSeq(snd_queue, Len(new) + 1, Len(snd_queue))
       /\ toRcv' \in Sent(toRcv, {Push(s) : s \in Range(new)}
                                   \cup (IF probe THEN {WASK} ELSE {}))
    /\ probe => probing
    /\ probing' = (rmt_wnd = 0)
    /\ UNCHANGED <<written, snd_una, rmt_wnd, rcvVars, toSnd>>

\* ikcp_flush() at the sender, by ikcp_update() or after write(): what the
\* window allows is numbered and sent; of what was sent before, the segments
\* in again, whose resendts has passed or which enough acknowledgements have
\* overtaken, are sent again; a closed window is probed when its time has come.
Flush(again, probe) ==
    /\ AtSender
    /\ LET new == [i \in 1 .. CanSend |-> snd_queue[i] @@ [sn |-> Plus(snd_nxt, i - 1)]] IN
       /\ snd_buf' = snd_buf \o new
       /\ snd_nxt' = Plus(snd_nxt, Len(new))
       /\ snd_queue' = SubSeq(snd_queue, Len(new) + 1, Len(snd_queue))
       /\ toRcv' \in Sent(toRcv, {Push(s) : s \in again \cup Range(new)}
                                   \cup (IF probe THEN {WASK} ELSE {}))
    /\ probe => rmt_wnd = 0 /\ probing
    /\ probing' = (rmt_wnd = 0)
    /\ UNCHANGED <<written, snd_una, rmt_wnd, rcvVars, toSnd>>

FlushSome == \E again \in SUBSET Range(snd_buf), probe \in BOOLEAN : Flush(again, probe)

\* The flush at which every timer has run out.
FlushAll == Flush(Range(snd_buf), rmt_wnd = 0 /\ probing)

\* ikcp_input() at the sender: every segment tells the window and una; an
\* acknowledgement also its own sn, if it is one of those in flight.
InputAtSender(p) ==
    /\ AtSender
    /\ p \in toSnd /\ toSnd' = toSnd \ {p}
    /\ rmt_wnd' = p.wnd
    /\ LET una == SelectSeq(snd_buf, LAMBDA s : Diff(p.una, s.sn) <= 0)
           acked == SelectSeq(una, LAMBDA s : p.cmd = "ACK" => s.sn # p.sn)
       IN  /\ snd_buf' = acked
           /\ snd_una' = IF acked = <<>> THEN snd_nxt ELSE Head(acked).sn
    /\ UNCHANGED <<written, snd_queue, snd_nxt, probing, rcvVars, toRcv>>

(***************************************************************************)
(* The receiver.                                                           *)
(***************************************************************************)
AtReceiver == link.unity # "receiver" /\ UNCHANGED link

\* The loop that ikcp_parse_data() and ikcp_recv() end with: segments that
\* are next in order move from rcv_buf to rcv_queue while the window allows.
MoveAvailable(buf, que) ==
    LET Next(i) == {s \in buf : s.sn = Plus(rcv_nxt, i)}
        n == Max({k \in 0 .. Cardinality(buf) :
                     /\ \A i \in 0 .. k - 1 : Next(i) # {}
                     /\ k > 0 => Len(que) + k <= RcvWnd})
    IN  /\ rcv_buf' = buf \ UNION {Next(i) : i \in 0 .. n - 1}
        /\ rcv_queue' = que \o [i \in 1 .. n |-> CHOOSE s \in Next(i - 1) : TRUE]
        /\ rcv_nxt' = Plus(rcv_nxt, n)

\* A segment is acknowledged unless it is beyond the window,
Acked(sn) == Diff(sn, Plus(rcv_nxt, RcvWnd)) < 0

\* and stored unless it is beyond the window or has been received.
Stored(sn) == Acked(sn) /\ Diff(sn, rcv_nxt) >= 0

\* ikcp_input() at the receiver, in upflow().
InputAtReceiver(p) ==
    /\ AtReceiver
    /\ p \in toRcv /\ ~drain /\ toRcv' = toRcv \ {p}
    /\ IF p.cmd = "PUSH"
       THEN /\ acklist' = IF Acked(p.sn) THEN acklist \cup {p.sn} ELSE acklist
            /\ IF Stored(p.sn)
               THEN MoveAvailable(rcv_buf \cup {[sn |-> p.sn, pkg |-> p.pkg, frg |-> p.frg]},
                                  rcv_queue)
               ELSE UNCHANGED <<rcv_buf, rcv_queue, rcv_nxt>>
            /\ UNCHANGED tell
       ELSE /\ tell' = TRUE
            /\ UNCHANGED <<acklist, rcv_buf, rcv_queue, rcv_nxt>>
    /\ drain' = TRUE
    /\ UNCHANGED <<received, sndVars, toSnd>>

\* ikcp_peeksize(): the fragments of the first package are all there.
Complete == rcv_queue # <<>> /\ Len(rcv_queue) >= Head(rcv_queue).frg + 1

\* ikcp_recv(): the segments up to the one with frg = 0 are a package; when
\* the queue was full the other end is told that there is room again.
ikcp_recv ==
    /\ AtReceiver
    /\ drain
    /\ IF Complete
       THEN LET n == Min({i \in DOMAIN rcv_queue : rcv_queue[i].frg = 0})
                pkg == Head(rcv_queue).pkg
                whole == [i \in 1 .. n |-> [pkg |-> rcv_queue[i].pkg, frg |-> rcv_queue[i].frg]]
                           = Fragments(pkg)
            IN  /\ received' = Append(received, IF whole THEN pkg ELSE 0)
                /\ MoveAvailable(rcv_buf, SubSeq(rcv_queue, n + 1, Len(rcv_queue)))
                /\ tell' = (tell \/ (Len(rcv_queue) >= RcvWnd /\ Len(rcv_queue') < RcvWnd))
                /\ UNCHANGED drain
       ELSE drain' = FALSE /\ UNCHANGED <<received, rcv_buf, rcv_queue, rcv_nxt, tell>>
    /\ UNCHANGED <<acklist, sndVars, toRcv, toSnd>>

\* ikcp_flush() at the receiver: the acknowledgements, and the window if asked.
FlushAcks ==
    /\ AtReceiver
    /\ acklist # {} \/ tell
    /\ LET wnd == RcvWnd - Len(rcv_queue)   \* ikcp_wnd_unused()
       IN  toSnd' \in Sent(toSnd,
             {[cmd |-> "ACK", sn |-> n, una |-> rcv_nxt, wnd |-> wnd] : n \in acklist}
             \cup (IF tell THEN {[cmd |-> "WINS", una |-> rcv_nxt, wnd |-> wnd]} ELSE {}))
    /\ acklist' = {} /\ tell' = FALSE
    /\ UNCHANGED <<rcv_buf, rcv_queue, rcv_nxt, drain, received, sndVars, toRcv>>

(***************************************************************************)
(* UDP loses datagrams.                                                    *)
(***************************************************************************)
Lose ==
    /\ link.unity = "none"   \* with C# at an end, only newer datagrams push out older ones
    /\ \/ \E p \in toRcv : toRcv' = toRcv \ {p} /\ UNCHANGED toSnd
       \/ \E p \in toSnd : toSnd' = toSnd \ {p} /\ UNCHANGED toRcv
    /\ UNCHANGED <<link, sndVars, rcvVars>>

KcpInit ==
    /\ link \in Links
    /\ written = 0 /\ snd_queue = <<>> /\ snd_buf = <<>>
    /\ snd_una = FirstSn /\ snd_nxt = FirstSn /\ rcv_nxt = FirstSn
    /\ rmt_wnd = RcvWnd /\ probing = FALSE
    /\ toRcv = {} /\ toSnd = {} /\ rcv_buf = {} /\ rcv_queue = <<>>
    /\ acklist = {} /\ tell = FALSE /\ drain = FALSE /\ received = <<>>

KcpNext ==
    \/ ikcp_send \/ FlushSome
    \/ \E p \in toSnd : InputAtSender(p)
    \/ \E p \in toRcv : InputAtReceiver(p)
    \/ ikcp_recv \/ FlushAcks \/ Lose

-----------------------------------------------------------------------------
\* What KCP promises: packages come out whole, in order, each once.
Fifo == INSTANCE FifoQueue WITH
            Value <- UNION {DOMAIN l.packages : l \in Links},
            q <- [i \in 1 .. written - Len(received) |-> Len(received) + i],
            got <- received

KcpImplements == Fifo!Spec

\* A segment leaves the sender only after it has arrived, and the windows
\* bound what is under way and what is kept.
AckedArrived ==
    /\ Diff(snd_nxt, snd_una) <= SndWnd
    /\ Diff(snd_una, rcv_nxt) <= Cardinality(rcv_buf)
    /\ \A k \in 0 .. Diff(snd_nxt, rcv_nxt) - 1 :
         LET sn == Plus(rcv_nxt, k) IN
         \/ \E s \in Range(snd_buf) : s.sn = sn
         \/ \E s \in rcv_buf : s.sn = sn
    /\ Len(rcv_queue) <= RcvWnd
    /\ \A s \in rcv_buf : Diff(s.sn, rcv_nxt) \in 0 .. RcvWnd - 1

\* Everything that was written is received in the end, also when the window
\* was closed and the datagram that opens it was lost.
AllReceived == []<>(Len(received) = written)
=============================================================================
