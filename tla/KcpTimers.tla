------------------------------ MODULE KcpTimers ------------------------------
(***************************************************************************)
(* The time of a KCP connection: updateRoutine() of corpc_kcp.cpp, a       *)
(* coroutine that calls ikcp_update() and ikcp_check() of ikcp.c with the  *)
(* clock's milliseconds in 32 bits, and goes to sleep only if ikcp_check() *)
(* says that there is nothing to do yet; if it says that there is, the     *)
(* coroutine keeps the thread.                                             *)
(*                                                                         *)
(* Times are taken modulo TsMod (2^32 in the code), so that the clock of   *)
(* the model runs on for ever.  It is the wall clock: somebody may set it. *)
(* The segments are those in snd_buf, and all there is to them is when to  *)
(* send them again; what they are is in module Kcp.                        *)
(***************************************************************************)
EXTENDS Integers, FiniteSets, FiniteSetsExt

CONSTANTS
    TsMod,
    Asked,                      \* the interval that the constructor asks for (20)
    MinInterval, MaxInterval,   \* 10 and 5000
    MaxSlap,                    \* 10000
    MinRto, MaxRto,             \* IKCP_RTO_NDL and IKCP_RTO_MAX
    Rtts,                       \* round trips that are measured
    MaxSegs,                    \* bound on the segments in snd_buf
    MaxLag,                     \* the routine is not kept from running for longer
    Settings                    \* by how much somebody sets the clock

ASSUME KcpTimersAssumption ==
    /\ {TsMod, Asked, MinInterval, MaxInterval, MaxSlap, MinRto, MaxRto, MaxSegs, MaxLag} \subseteq Nat \ {0}
    /\ MinInterval <= MaxInterval /\ MaxInterval <= MaxSlap /\ MinRto <= MaxRto
    /\ Rtts \subseteq Nat /\ Settings \subseteq Int
    /\ 2 * (MaxSlap + MaxLag) < TsMod /\ 2 * MaxRto < TsMod

VARIABLES
    time,                       \* mtime() & 0xffffffff
    current, ts_flush, updated,
    resendts,                   \* of the segments in snd_buf
    rx_srtt, rx_rttval, rx_rto,
    routine,                    \* updateRoutine(): "update", "check", "sleep" or "over"
    flushed,                    \* history: the last ikcp_update() flushed
    wasSet                      \* somebody has set the clock, once: "no", "yes", or "before" the last flush

rttVars == <<rx_srtt, rx_rttval, rx_rto>>
kcpTimerVars == <<time, current, ts_flush, updated, resendts, rttVars, routine, flushed, wasSet>>

\* _itimediff()
TimeDiff(a, b) == LET d == (a - b) % TsMod IN IF 2 * d < TsMod THEN d ELSE d - TsMod

After(t, d) == (t + d) % TsMod

\* _ibound_()
Bound(lower, middle, upper) == IF middle < lower THEN lower ELSE IF middle > upper THEN upper ELSE middle

(***************************************************************************)
(* Settings of a connection.                                               *)
(***************************************************************************)
\* An interval is kept within bounds, which ikcp_interval() does too.
ikcp_interval(kcp, interval) == [kcp EXCEPT !.interval = Bound(MinInterval, interval, MaxInterval)]

\* with nodelay = 1
ikcp_nodelay(kcp, interval) == [ikcp_interval(kcp, interval) EXCEPT !.rx_minrto = MinRto]

\* What the constructor of KcpMessageTerminal::Connection makes of a new connection.
Settled == ikcp_nodelay([interval |-> MaxInterval, rx_minrto |-> MaxRto], Asked)

(***************************************************************************)
(* The routine.                                                            *)
(***************************************************************************)
\* mutant: a clock that was set does not start the interval anew
MutTooFar(slap) == FALSE
TooFar(slap) == slap >= MaxSlap \/ slap < -MaxSlap

\* mutant: a segment that was sent again stays due
MutResent(cur, rto, fast) == resendts

\* ikcp_flush(): segments whose time has come, and those in fast that enough
\* acknowledgements have overtaken, are sent again, and once more after rto (the
\* segment's own, which grows each time; here one of Rtos).
Resent(cur, rto, fast) ==
    {IF TimeDiff(cur, ts) >= 0 \/ ts \in fast THEN After(cur, rto) ELSE ts : ts \in resendts}

Rtos == MinRto .. MaxRto

\* ikcp_update()
ikcp_update ==
    LET begun == IF updated THEN ts_flush ELSE time
        start == IF TooFar(TimeDiff(time, begun)) THEN time ELSE begun
        next == After(start, Settled.interval)
        flush == TimeDiff(time, start) >= 0
    IN  /\ routine = "update" /\ routine' = "check"
        /\ current' = time /\ updated' = TRUE
        /\ ts_flush' = CASE ~flush -> start
                         [] flush /\ TimeDiff(time, next) >= 0 -> After(time, Settled.interval)
                         [] OTHER -> next
        /\ IF flush
           THEN \E rto \in Rtos, fast \in SUBSET resendts : resendts' = Resent(time, rto, fast)
           ELSE UNCHANGED resendts
        /\ flushed' = flush
        /\ wasSet' = IF flush /\ wasSet = "yes" THEN "before" ELSE wasSet
        /\ UNCHANGED <<time, rttVars>>

\* ikcp_check(): the time at which ikcp_update() should be called again.
ikcp_check(cur) ==
    LET start == IF TooFar(TimeDiff(cur, ts_flush)) THEN cur ELSE ts_flush
        waits == {TimeDiff(start, cur), Settled.interval} \cup {TimeDiff(ts, cur) : ts \in resendts}
    IN  IF Min(waits) <= 0 THEN cur ELSE After(cur, Min(waits))

\* The routine compares the two times as they are: next may have wrapped.
Sleeps(next, cur) == next > cur

\* updateRoutine() from ikcp_check() on; it calls it with the time that it gave to
\* ikcp_update().
updateRoutine ==
    /\ routine = "check"
    /\ routine' = IF Sleeps(ikcp_check(current), current) THEN "sleep" ELSE "update"
    /\ UNCHANGED <<time, current, ts_flush, updated, resendts, rttVars, flushed, wasSet>>

\* msleep(1) is over.
Woken ==
    /\ routine = "sleep" /\ time # current
    /\ routine' = "update"
    /\ UNCHANGED <<time, current, ts_flush, updated, resendts, rttVars, flushed, wasSet>>

\* The connection is closing, which the routine finds before an update.
Ends ==
    /\ routine = "update" /\ routine' = "over"
    /\ UNCHANGED <<time, current, ts_flush, updated, resendts, rttVars, flushed, wasSet>>

(***************************************************************************)
(* What happens meanwhile, in other threads too: kcpMtx_ is held for one   *)
(* call.                                                                   *)
(***************************************************************************)
\* write() and kcpFlush(), which takes the time of the last update; it does
\* nothing before the first one.
SendFlush ==
    /\ routine # "over" /\ updated /\ Cardinality(resendts) < MaxSegs
    /\ \E rto \in Rtos, fast \in SUBSET resendts :
          resendts' = Resent(current, rto, fast) \cup {After(current, rx_rto)}
    /\ UNCHANGED <<time, current, ts_flush, updated, rttVars, routine, flushed, wasSet>>

\* ikcp_update_ack(): the estimate from the round trip of an acknowledgement.
ikcp_update_ack(rtt) ==
    /\ IF rx_srtt = 0
       THEN rx_srtt' = rtt /\ rx_rttval' = rtt \div 2
       ELSE LET delta == IF rtt < rx_srtt THEN rx_srtt - rtt ELSE rtt - rx_srtt
                srtt == (7 * rx_srtt + rtt) \div 8
            IN  /\ rx_rttval' = (3 * rx_rttval + delta) \div 4
                /\ rx_srtt' = IF srtt < 1 THEN 1 ELSE srtt
    /\ rx_rto' = Bound(Settled.rx_minrto, rx_srtt' + (IF 4 * rx_rttval' > 1 THEN 4 * rx_rttval' ELSE 1), MaxRto)

\* ikcp_input() of an acknowledgement: the segment leaves snd_buf.
Acknowledged(ts, rtt) ==
    /\ routine # "over" /\ ts \in resendts
    /\ resendts' = resendts \ {ts}
    /\ ikcp_update_ack(rtt)
    /\ UNCHANGED <<time, current, ts_flush, updated, routine, flushed, wasSet>>

TimePasses ==
    /\ routine # "over" /\ TimeDiff(time, current) < MaxLag
    /\ time' = After(time, 1)
    /\ UNCHANGED <<current, ts_flush, updated, resendts, rttVars, routine, flushed, wasSet>>

\* Somebody sets the clock.
SetClock(d) ==
    /\ routine # "over" /\ wasSet = "no" /\ wasSet' = "yes"
    /\ time' = After(time, d)
    /\ UNCHANGED <<current, ts_flush, updated, resendts, rttVars, routine, flushed>>

KcpTimersInit(where) ==
    /\ time = TsMod - 2
    /\ current = 0 /\ ts_flush = Settled.interval /\ updated = FALSE
    /\ resendts = {}
    /\ rx_srtt = 0 /\ rx_rttval = 0 /\ rx_rto = MaxRto
    /\ routine = where /\ flushed = FALSE /\ wasSet = "no"

KcpTimersNext ==
    \/ ikcp_update \/ updateRoutine \/ Woken \/ Ends \/ SendFlush \/ TimePasses
    \/ \E ts \in resendts, rtt \in Rtts : Acknowledged(ts, rtt)
    \/ \E d \in Settings : SetClock(d)

\* The thread goes on, and so does time.
KcpTimersFairness ==
    WF_kcpTimerVars(ikcp_update \/ updateRoutine \/ Woken) /\ WF_kcpTimerVars(TimePasses)

(***************************************************************************)
(* Properties.                                                             *)
(***************************************************************************)
\* The next flush is never further away than the interval, also when the routine was
\* kept from running and when the 32 bits of the clock wrap; after somebody has set
\* the clock back it is MaxSlap away at most.  The routine goes to sleep only when
\* there is nothing to flush and nothing to send again.  The estimate of the round
\* trip stays within what was measured, however the measurements follow each other.
KcpTimersSound ==
    /\ routine \in {"check", "sleep"} =>
         TimeDiff(ts_flush, current) \in 1 .. (IF wasSet = "yes" THEN MaxSlap ELSE Settled.interval)
    /\ routine = "sleep" => \A ts \in resendts : TimeDiff(ts, current) > 0
    /\ LET most == Max(Rtts \cup {1}) IN rx_srtt \in 0 .. most /\ rx_rttval \in 0 .. most

\* The routine flushes again and again, and gives up the thread again and again:
\* it keeps it while a segment is to be sent again before the next flush, and while
\* the next update is on the other side of the clock's wrap, but not for ever.
KcpGoesOn == []<>(routine = "over" \/ (routine = "sleep" /\ flushed))
=============================================================================
