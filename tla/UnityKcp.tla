------------------------------ MODULE UnityKcp ------------------------------
(***************************************************************************)
(* The C# KCP of the Unity client (KcpCore.cs, Kcp.cs) at one end of a     *)
(* connection, ikcp.c (module Kcp) at the other.                           *)
(*                                                                         *)
(* ikcp.c runs under one mutex.  The C# library has a lock for each of its *)
(* lists and none for its counters, and three threads of KcpMessageClient  *)
(* call it: Update() flushes in the main thread, RecvMsgLoop() calls       *)
(* Input() and TryRecv(), SendMsgLoop() calls Send().  A step here is what *)
(* one thread does between two points where another can see a difference.  *)
(*                                                                         *)
(* The congestion window (NoDelay() is never called, so it is in force) is *)
(* any number from 1; the times of a segment decide which are sent again,  *)
(* as in Kcp.                                                              *)
(***************************************************************************)
EXTENDS Kcp

VARIABLES
    frag,   \* fragments of package written that Send() has enqueued
    fl,     \* Flush(): where it is, the segment it has numbered, its window, the
            \* segments of this flush, the wnd and una it puts on what it sends, and
            \* whether it has told the window
    inp     \* RecvMsgLoop(): where it is, and the datagram in Input()

threadVars == <<frag, fl, inp>>
unityVars == <<kcpVars, threadVars>>

CsSends == link.unity = "sender" /\ UNCHANGED link
CsReceives == link.unity = "receiver" /\ UNCHANGED link

(***************************************************************************)
(* The sender.                                                             *)
(***************************************************************************)
\* Send() enqueues a package fragment by fragment; snd_queueLock keeps out
\* other senders, not Flush().
Send ==
    /\ CsSends
    /\ LET begins == written = 0 \/ frag = Packages[written]
           pkg == IF begins THEN written + 1 ELSE written
           i == IF begins THEN 1 ELSE frag + 1
       IN  /\ pkg <= Len(Packages)
           /\ written' = pkg /\ frag' = i
           /\ snd_queue' = Append(snd_queue, Fragments(pkg)[i])
    /\ UNCHANGED <<snd_buf, snd_una, snd_nxt, rmt_wnd, probing, rcvVars, toRcv, toSnd,
                   fl, inp>>

\* Flush(), first part: a closed window is probed, if due; the flag is set and
\* cleared in the same call.
FlushProbe(due) ==
    /\ CsSends /\ fl.at = "idle"
    /\ due => rmt_wnd = 0 /\ probing
    /\ probing' = (rmt_wnd = 0)
    /\ toRcv' \in Sent(toRcv, IF due THEN {WASK} ELSE {})
    /\ fl' = [fl EXCEPT !.at = "window"]
    /\ UNCHANGED <<written, snd_queue, snd_buf, snd_una, snd_nxt, rmt_wnd, rcvVars, toSnd,
                   frag, inp>>

\* cwnd_, of a cwnd that is never below 1.
FlushWindow ==
    /\ CsSends /\ fl.at = "window"
    /\ \E cwnd \in 1 .. SndWnd : fl' = [fl EXCEPT !.at = "number", !.win = Min2(cwnd, rmt_wnd)]
    /\ UNCHANGED <<sndVars, rcvVars, toRcv, toSnd, frag, inp>>

\* A segment is numbered, and snd_nxt counts it before snd_buf has it.
FlushNumber ==
    /\ CsSends /\ fl.at = "number"
    /\ IF Diff(snd_nxt, Plus(snd_una, fl.win)) < 0 /\ snd_queue # <<>>
       THEN /\ fl' = [fl EXCEPT !.at = "add", !.seg = <<Head(snd_queue) @@ [sn |-> snd_nxt]>>]
            /\ snd_queue' = Tail(snd_queue)
            /\ snd_nxt' = Plus(snd_nxt, 1)
       ELSE fl' = [fl EXCEPT !.at = "send", !.win = 0] /\ UNCHANGED <<snd_queue, snd_nxt>>
    /\ UNCHANGED <<written, snd_buf, snd_una, rmt_wnd, probing, rcvVars, toRcv, toSnd,
                   frag, inp>>

FlushAdd ==
    /\ CsSends /\ fl.at = "add"
    /\ snd_buf' = snd_buf \o fl.seg
    /\ fl' = [fl EXCEPT !.at = "number", !.seg = <<>>, !.new = @ \cup {fl.seg[1].sn}]
    /\ UNCHANGED <<written, snd_queue, snd_una, snd_nxt, rmt_wnd, probing, rcvVars, toRcv,
                   toSnd, frag, inp>>

\* With snd_bufLock: the new segments are sent, and those in again once more.
FlushSend(again) ==
    /\ CsSends /\ fl.at = "send"
    /\ LET new == {s \in Range(snd_buf) : s.sn \in fl.new}
       IN  toRcv' \in Sent(toRcv, {Push(s) : s \in again \cup new})
    /\ fl' = [fl EXCEPT !.at = "idle", !.new = {}]
    /\ UNCHANGED <<sndVars, rcvVars, toSnd, frag, inp>>

\* Shrink_buf()
Shrink_buf(buf) == IF buf = <<>> THEN snd_nxt ELSE Head(buf).sn

\* Parse_una()
Parse_una(una) == SelectSeq(snd_buf, LAMBDA s : Diff(una, s.sn) <= 0)

\* Input(): every segment tells the window and una.
InputUna(p) ==
    /\ CsSends /\ inp.at = "idle"
    /\ p \in toSnd /\ toSnd' = toSnd \ {p}
    /\ rmt_wnd' = p.wnd
    /\ snd_buf' = Parse_una(p.una)
    /\ snd_una' = Shrink_buf(snd_buf')
    /\ inp' = IF p.cmd = "ACK" THEN [at |-> "ack", pkt |-> {p}] ELSE inp
    /\ UNCHANGED <<written, snd_queue, snd_nxt, probing, rcvVars, toRcv, frag, fl>>

\* Parse_ack(): what the two counters do not admit is not looked for.
Parse_ack ==
    /\ CsSends /\ inp.at = "ack"
    /\ LET sn == (CHOOSE p \in inp.pkt : TRUE).sn
           known == Diff(sn, snd_una) >= 0 /\ Diff(sn, snd_nxt) < 0
       IN  snd_buf' = SelectSeq(snd_buf, LAMBDA s : known => s.sn # sn)
    /\ snd_una' = Shrink_buf(snd_buf')
    /\ inp' = [at |-> "idle", pkt |-> {}]
    /\ UNCHANGED <<written, snd_queue, snd_nxt, rmt_wnd, probing, rcvVars, toRcv, toSnd,
                   frag, fl>>

(***************************************************************************)
(* The receiver.                                                           *)
(***************************************************************************)
\* Input(): a segment inside the window is put on the list of those to
\* acknowledge before it is stored.
Input(p) ==
    /\ CsReceives /\ inp.at = "idle"
    /\ p \in toRcv /\ toRcv' = toRcv \ {p}
    /\ IF p.cmd = "PUSH"
       THEN /\ acklist' = IF Acked(p.sn) THEN acklist \cup {p.sn} ELSE acklist
            /\ inp' = IF Stored(p.sn) THEN [at |-> "parse", pkt |-> {p}]
                                      ELSE [inp EXCEPT !.at = "recv"]
            /\ UNCHANGED tell
       ELSE tell' = TRUE /\ inp' = [inp EXCEPT !.at = "recv"] /\ UNCHANGED acklist
    /\ UNCHANGED <<sndVars, rcv_buf, rcv_queue, rcv_nxt, drain, received, toSnd, frag, fl>>

\* Parse_data(): stored once, then Move_Rcv_buf_2_Rcv_queue(), whose lock Flush()
\* does not take: in the middle of it Flush() sees less room than there is.
Parse_data ==
    /\ CsReceives /\ inp.at = "parse"
    /\ MoveAvailable(rcv_buf \cup {[sn |-> p.sn, pkg |-> p.pkg, frg |-> p.frg] : p \in inp.pkt},
                     rcv_queue)
    /\ inp' = [at |-> "recv", pkt |-> {}]
    /\ UNCHANGED <<sndVars, acklist, tell, drain, received, toRcv, toSnd, frag, fl>>

\* UncheckRecv() takes the first package, moves what now has room, and asks to
\* tell the window if that has opened it.
UncheckRecv ==
    LET n == Min({i \in DOMAIN rcv_queue : rcv_queue[i].frg = 0})
        pkg == Head(rcv_queue).pkg
        whole == [i \in 1 .. n |-> [pkg |-> rcv_queue[i].pkg, frg |-> rcv_queue[i].frg]]
                   = Fragments(pkg)
    IN  /\ received' = Append(received, IF whole THEN pkg ELSE 0)
        /\ MoveAvailable(rcv_buf, SubSeq(rcv_queue, n + 1, Len(rcv_queue)))
        /\ tell' = (tell \/ (Len(rcv_queue) >= RcvWnd /\ Len(rcv_queue') < RcvWnd))

\* TryRecv(), until it finds no complete package.
TryRecv ==
    /\ CsReceives /\ inp.at = "recv"
    /\ IF Complete
       THEN UncheckRecv /\ UNCHANGED inp
       ELSE inp' = [inp EXCEPT !.at = "idle"] /\ UNCHANGED <<received, rcv_buf, rcv_queue, rcv_nxt, tell>>
    /\ UNCHANGED <<sndVars, acklist, drain, toRcv, toSnd, frag, fl>>

\* Wnd_unused()
Wnd_unused == RcvWnd - Len(rcv_queue)

\* Flush(): Wnd_unused() and rcv_nxt are read one after the other,
FlushWnd ==
    /\ CsReceives /\ fl.at = "idle"
    /\ fl' = [fl EXCEPT !.at = "una", !.wnd = Wnd_unused]
    /\ UNCHANGED <<sndVars, rcvVars, toRcv, toSnd, frag, inp>>

FlushUna ==
    /\ CsReceives /\ fl.at = "una"
    /\ fl' = [fl EXCEPT !.at = "acks", !.una = rcv_nxt]
    /\ UNCHANGED <<sndVars, rcvVars, toRcv, toSnd, frag, inp>>

\* the acknowledgements are sent with them,
FlushAcklist ==
    /\ CsReceives /\ fl.at = "acks"
    /\ toSnd' \in Sent(toSnd, {[cmd |-> "ACK", sn |-> n, una |-> fl.una, wnd |-> fl.wnd] :
                                 n \in acklist})
    /\ acklist' = {}
    /\ fl' = [fl EXCEPT !.at = "tell"]
    /\ UNCHANGED <<sndVars, rcv_buf, rcv_queue, rcv_nxt, tell, drain, received, toRcv, frag, inp>>

\* the window if asked,
FlushTell ==
    /\ CsReceives /\ fl.at = "tell"
    /\ toSnd' \in Sent(toSnd, IF tell THEN {[cmd |-> "WINS", una |-> fl.una, wnd |-> fl.wnd]} ELSE {})
    /\ fl' = [fl EXCEPT !.at = "reset", !.wnd = 0, !.una = 0, !.told = tell]
    /\ UNCHANGED <<sndVars, rcvVars, toRcv, frag, inp>>

\* and probe = 0 forgets the question, also one asked since.
FlushReset ==
    /\ CsReceives /\ fl.at = "reset"
    /\ tell' = FALSE
    /\ fl' = [fl EXCEPT !.at = "idle", !.told = FALSE]
    /\ UNCHANGED <<sndVars, rcv_buf, rcv_queue, rcv_nxt, acklist, drain, received, toRcv, toSnd,
                   frag, inp>>
-----------------------------------------------------------------------------
UnityKcpInit ==
    /\ frag = 0
    /\ fl = [at |-> "idle", seg |-> <<>>, win |-> 0, new |-> {}, wnd |-> 0, una |-> 0,
             told |-> FALSE]
    /\ inp = [at |-> "idle", pkt |-> {}]

UnityKcpNext ==
    \/ KcpNext /\ UNCHANGED threadVars
    \/ Send \/ \E due \in BOOLEAN : FlushProbe(due)
    \/ FlushWindow \/ FlushNumber \/ FlushAdd
    \/ \E again \in SUBSET Range(snd_buf) : FlushSend(again)
    \/ \E p \in toSnd : InputUna(p)
    \/ Parse_ack
    \/ \E p \in toRcv : Input(p)
    \/ Parse_data \/ TryRecv
    \/ FlushWnd \/ FlushUna \/ FlushAcklist \/ FlushTell \/ FlushReset

\* The datagram that gets the receiver on: the oldest segment in flight, or
\* the probe; and the one that gets the sender on.
NextReceived ==
    \E p \in toRcv :
       /\ p.cmd = "PUSH" => snd_buf # <<>> /\ p.sn = Head(snd_buf).sn
       /\ \/ InputAtReceiver(p) /\ UNCHANGED threadVars
          \/ Input(p)

NextAnswered ==
    \E p \in toSnd :
       /\ p.una = rcv_nxt /\ p.wnd > 0
       /\ \/ InputAtSender(p) /\ UNCHANGED threadVars
          \/ InputUna(p)

\* The flush of either end, and the loop that takes packages.
SenderUpdates ==
    \/ FlushAll /\ UNCHANGED threadVars
    \/ \E due \in BOOLEAN : FlushProbe(due)
    \/ FlushWindow \/ FlushNumber \/ FlushAdd
    \/ \E again \in SUBSET Range(snd_buf) : FlushSend(again)

ReceiverUpdates ==
    \/ FlushAcks /\ UNCHANGED threadVars
    \/ FlushWnd \/ FlushUna \/ FlushAcklist \/ FlushTell \/ FlushReset

ReceiverTakes ==
    \/ ikcp_recv /\ UNCHANGED threadVars
    \/ Parse_data \/ TryRecv

\* ikcp.c: the update coroutines run every millisecond.  C#: no thread stops in
\* the middle of a call, and Update() flushes in every frame; in the end the
\* timers of what it has sent or of its probe have run out.  FlushReset forgets
\* questions only finitely often: the race for the flag is a few instructions
\* long.
LinkFairness ==
    /\ WF_unityVars(SenderUpdates) /\ WF_unityVars(ReceiverUpdates)
    /\ WF_unityVars(ReceiverTakes) /\ WF_unityVars(Parse_ack)
    /\ WF_unityVars(written > 0 /\ frag < Packages[written] /\ Send)
    /\ SF_unityVars(IF rmt_wnd = 0 THEN FlushProbe(probing) ELSE FlushSend(Range(snd_buf)))
    /\ <>[](fl.at = "reset" /\ tell => fl.told)

\* With the C# library at one end: every segment that was numbered is held by
\* somebody until rcv_nxt has passed it, though counters and lists change apart
\* (snd_nxt before snd_buf, the acknowledgement before the data); and a stale
\* snd_una lets one segment more than the window be under way, never two.
UnityHeld ==
    LET held == Range(snd_buf) \cup Range(fl.seg) \cup rcv_buf
                  \cup (IF inp.at = "parse" THEN inp.pkt ELSE {})
    IN  /\ \A k \in 0 .. Diff(snd_nxt, rcv_nxt) - 1 : \E s \in held : s.sn = Plus(rcv_nxt, k)
        /\ Len(snd_buf) <= SndWnd + 1
        /\ Len(rcv_queue) <= RcvWnd
        /\ \A s \in rcv_buf : Diff(s.sn, rcv_nxt) \in 0 .. RcvWnd - 1
=============================================================================
