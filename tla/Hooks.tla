------------------------------- MODULE Hooks -------------------------------
(***************************************************************************)
(* co_hook_sys_call.cpp: the library's read(), write(), connect(), ... that *)
(* a thread's coroutines call in place of the system's.  An fd that is in  *)
(* the table g_rpchook_socket_fd is kept non-blocking in the kernel,       *)
(* whatever the user set; a call on it that would block waits in poll(),   *)
(* so that only its coroutine waits and never the thread.                  *)
(*                                                                         *)
(* One fd number, which the kernel gives out again after a close().  One   *)
(* coroutine at a time reads and one writes, and nobody closes an fd on    *)
(* which a call is going on (Connection: FdSafe).  A byte stands for any   *)
(* amount of data.                                                         *)
(***************************************************************************)
EXTENDS Integers, Sequences, FiniteSets

CONSTANTS
    Callers,    \* coroutines
    WriteSize   \* bytes a write() is given

ASSUME HooksAssumption == WriteSize \in Nat \ {0} /\ IsFiniteSet(Callers)

VARIABLES
    file,    \* the kernel's side of the fd
    hook,    \* its entry in the table
    call,    \* what a coroutine is doing, or what its last call returned
    stuck    \* the thread is blocked in a system call

hookVars == <<file, hook, call, stuck>>

Closed == [state |-> "closed", nonblock |-> FALSE, in |-> 0, room |-> 0]
NoHook == [on |-> FALSE, user |-> FALSE, rto |-> 0, wto |-> 0]

\* alloc_by_fd(): user says whether O_NONBLOCK is in user_flag; a timeout is 1
\* for some time, or none, and -1 for ever.
alloc_by_fd(user) == [on |-> TRUE, user |-> user, rto |-> 1, wto |-> 1]

free_by_fd == NoHook

\* at: "poll" while it waits, "ret" when it has returned.
Idle == [fn |-> "none", at |-> "ret", wait |-> 0, left |-> 0, done |-> 0, tries |-> 0,
         slept |-> FALSE, hooked |-> FALSE, ret |-> "none"]

Free(c) == call[c].at = "ret"
Busy(fns) == \E c \in Callers : ~Free(c) /\ call[c].fn \in fns

\* What a call does with the fd: the four that read are told apart by their
\* arguments only, and write() and send() not at all.
Writers == {"write", "sendto", "connect"}

(***************************************************************************)
(* Where fds come from and go, and their flags.                            *)
(***************************************************************************)
\* mutant: the user's flags go to the kernel as they are
MutKernelFlag(h, param) == param

\* fcntl(F_SETFL) gives the kernel O_NONBLOCK in any case if the fd is in the
\* table.
KernelFlag(h, param) == h.on \/ param

Became(state, room, h) ==
    /\ file' = [state |-> state, nonblock |-> KernelFlag(h, h.user), in |-> 0, room |-> room]
    /\ hook' = h
    /\ UNCHANGED <<call, stuck>>

\* socket(), with or without SOCK_NONBLOCK.
socket(nonblock) == file = Closed /\ Became("new", 0, alloc_by_fd(nonblock))

\* accept() gives a blocking fd, also from a non-blocking one.
co_accept == file = Closed /\ Became("up", 1, alloc_by_fd(FALSE))

\* pipe() and what libraries open for themselves is not hooked.
OpenUnhooked(nonblock) ==
    /\ file = Closed
    /\ file' = [state |-> "up", nonblock |-> nonblock, in |-> 0, room |-> 1]
    /\ UNCHANGED <<hook, call, stuck>>

fcntl(param) ==
    /\ file.state # "closed"
    /\ file' = [file EXCEPT !.nonblock = KernelFlag(hook, param)]
    /\ hook' = IF hook.on THEN [hook EXCEPT !.user = param] ELSE hook
    /\ UNCHANGED <<call, stuck>>

\* co_register_fd(): the flags the kernel has become the user's.
co_register_fd ==
    /\ file.state # "closed" /\ ~hook.on
    /\ hook' = alloc_by_fd(file.nonblock)
    /\ file' = [file EXCEPT !.nonblock = KernelFlag(hook', file.nonblock)]
    /\ UNCHANGED <<call, stuck>>

co_set_nonblock == fcntl(TRUE)

co_set_timeout(r, w) ==
    /\ hook.on
    /\ hook' = [hook EXCEPT !.rto = r, !.wto = w]
    /\ UNCHANGED <<file, call, stuck>>

\* SO_RCVTIMEO or SO_SNDTIMEO: only one of the two, and never for ever: the 0 that
\* means that to the kernel makes the hook not wait at all.
setsockopt ==
    /\ hook.on
    /\ hook' \in {[hook EXCEPT !.rto = 1], [hook EXCEPT !.wto = 1]}
    /\ UNCHANGED <<file, call, stuck>>

close ==
    /\ file.state # "closed" /\ \A c \in Callers : Free(c)
    /\ file' = Closed /\ hook' = free_by_fd
    /\ call' = [c \in Callers |-> Idle]
    /\ UNCHANGED stuck

(***************************************************************************)
(* Calls that may wait.                                                    *)
(***************************************************************************)
\* The fd is in the table and the user takes it for a blocking one.
Hooked == hook.on /\ ~hook.user

WaitInPoll(c, fn, timeout, left, done) ==
    call' = [call EXCEPT ![c] = [Idle EXCEPT !.fn = fn, !.at = "poll", !.wait = timeout,
                                             !.left = left, !.done = done]]

Returns(c, fn, ret, done, slept) ==
    call' = [call EXCEPT ![c] = [Idle EXCEPT !.fn = fn, !.ret = ret, !.done = done,
                                             !.slept = slept, !.hooked = Hooked]]

\* The system's read(), at the end of each of the reading calls.
SysRead(c, slept) ==
    IF file.in > 0
    THEN /\ file' = [file EXCEPT !.in = 0]
         /\ Returns(c, "read", "ok", 1, slept) /\ UNCHANGED stuck
    ELSE IF file.nonblock
    THEN Returns(c, "read", "again", 0, slept) /\ UNCHANGED <<file, stuck>>
    ELSE stuck' = TRUE /\ UNCHANGED <<file, call>>

\* An fd that is not hooked is read at once, and must be non-blocking or ready
\* if the thread is not to block: that is the caller's business.
Receive(c, timeout) ==
    /\ Free(c) /\ file.state = "up" /\ ~Busy({"read"})
    /\ IF Hooked
       THEN WaitInPoll(c, "read", timeout, 0, 0) /\ UNCHANGED <<file, stuck>>
       ELSE (file.nonblock \/ file.in > 0) /\ SysRead(c, FALSE)
    /\ UNCHANGED hook

read(c) == Receive(c, hook.rto)
recv(c) == Receive(c, hook.rto)
recvfrom(c) == Receive(c, hook.rto)

\* Its timeout is an argument.
recvmmsg(c, timeout) == Receive(c, timeout)

\* poll() returns because the fd is ready or because its time has run out.
PollReturns(c, ready) ==
    /\ call[c].at = "poll"
    /\ \/ ready
       \/ ~ready /\ call[c].wait >= 0

\* The wait is over and the system's read() is called.
ReceiveEnds(c) ==
    /\ call[c].fn = "read" /\ PollReturns(c, file.in > 0)
    /\ SysRead(c, file.in = 0)
    /\ UNCHANGED hook

\* The system's write() of n bytes takes what there is room for.
Taken(n) == IF file.room < n THEN file.room ELSE n

\* write() and send() try first and wait then.
Transmit(c) ==
    /\ Free(c) /\ file.state = "up" /\ ~Busy(Writers)
    /\ LET n == Taken(WriteSize) IN
       /\ Hooked \/ file.nonblock \/ n = WriteSize
       /\ file' = [file EXCEPT !.room = @ - n]
       /\ IF n = WriteSize \/ ~Hooked
          THEN Returns(c, "write", IF n > 0 THEN "ok" ELSE "again", n, FALSE)
          ELSE WaitInPoll(c, "write", hook.wto, WriteSize - n, n)
    /\ UNCHANGED <<hook, stuck>>

write(c) == Transmit(c)
send(c) == Transmit(c)

\* What write() returns when an attempt fails.
Result(c) == IF call[c].done > 0 THEN "ok" ELSE "again"

\* The loop of write() and send() goes on as long as the kernel takes
\* something.
TransmitGoesOn(c) ==
    /\ call[c].fn = "write" /\ PollReturns(c, file.room > 0)
    /\ LET n == Taken(call[c].left) IN
       /\ file' = [file EXCEPT !.room = @ - n]
       /\ IF n = call[c].left
          THEN Returns(c, "write", "ok", call[c].done + n, FALSE) /\ UNCHANGED stuck
          ELSE IF n > 0
          THEN WaitInPoll(c, "write", call[c].wait, call[c].left - n, call[c].done + n)
               /\ UNCHANGED stuck
          ELSE IF file.nonblock
          THEN Returns(c, "write", Result(c), call[c].done, TRUE) /\ UNCHANGED stuck
          ELSE stuck' = TRUE /\ UNCHANGED call
    /\ UNCHANGED hook

\* sendto(): one datagram, tried a second time after a wait.
sendto(c) ==
    /\ Free(c) /\ file.state = "up" /\ ~Busy(Writers)
    /\ \/ /\ file.room > 0
          /\ file' = [file EXCEPT !.room = @ - 1]
          /\ Returns(c, "sendto", "ok", 1, FALSE)
       \/ /\ file.room = 0 /\ file.nonblock
          /\ IF Hooked THEN WaitInPoll(c, "sendto", hook.wto, 1, 0)
                       ELSE Returns(c, "sendto", "again", 0, FALSE)
          /\ UNCHANGED file
    /\ UNCHANGED <<hook, stuck>>

SendtoEnds(c) ==
    /\ call[c].fn = "sendto" /\ PollReturns(c, file.room > 0)
    /\ LET n == Taken(1) IN
       IF n = 1 \/ file.nonblock
       THEN /\ file' = [file EXCEPT !.room = @ - n]
            /\ Returns(c, "sendto", IF n = 1 THEN "ok" ELSE "again", n, n = 0)
            /\ UNCHANGED stuck
       ELSE stuck' = TRUE /\ UNCHANGED <<file, call>>
    /\ UNCHANGED hook

\* connect(): the system's starts it; the hook waits three times.
connect(c) ==
    /\ Free(c) /\ file.state = "new" /\ ~Busy(Writers)
    /\ file' = [file EXCEPT !.state = "progress"]
    /\ IF hook.user THEN Returns(c, "connect", "again", 0, FALSE)
                    ELSE WaitInPoll(c, "connect", 1, 0, 0)
    /\ UNCHANGED <<hook, stuck>>

\* POLLOUT is taken for success, although it is also there, with POLLERR, when
\* the connection was refused; after three timeouts the error is ETIMEDOUT.
ConnectEnds(c) ==
    /\ call[c].fn = "connect" /\ PollReturns(c, file.state # "progress")
    /\ IF file.state # "progress"
       THEN Returns(c, "connect", "ok", 0, FALSE)
       ELSE IF call[c].tries < 2 THEN call' = [call EXCEPT ![c].tries = @ + 1]
       ELSE Returns(c, "connect", "timeout", 0, TRUE)
    /\ UNCHANGED <<file, hook, stuck>>

\* The kernel: a connection is made or refused, data comes, data goes.
Kernel ==
    /\ \/ /\ file.state = "progress"
          /\ file' \in {[file EXCEPT !.state = "up", !.room = 1],
                        [file EXCEPT !.state = "refused"]}
       \/ file.state = "up" /\ file.in = 0 /\ file' = [file EXCEPT !.in = 1]
       \/ file.state = "up" /\ file.room = 0 /\ file' = [file EXCEPT !.room = 1]
    /\ UNCHANGED <<hook, call, stuck>>

HooksInit == file = Closed /\ hook = NoHook /\ call = [c \in Callers |-> Idle] /\ stuck = FALSE

Ends(c) == ReceiveEnds(c) \/ TransmitGoesOn(c) \/ SendtoEnds(c) \/ ConnectEnds(c)

HooksNext ==
    /\ ~stuck
    /\ \/ co_accept \/ co_register_fd \/ close \/ co_set_nonblock \/ setsockopt \/ Kernel
       \/ \E b \in BOOLEAN : socket(b) \/ OpenUnhooked(b) \/ fcntl(b)
       \/ \E r, w \in {-1, 1} : co_set_timeout(r, w)
       \/ \E c \in Callers :
             \/ read(c) \/ recv(c) \/ recvfrom(c) \/ \E t \in {-1, 1} : recvmmsg(c, t)
             \/ write(c) \/ send(c) \/ sendto(c) \/ connect(c) \/ Ends(c)

(***************************************************************************)
(* poll() and select(): requests are sequences of fds with events; the     *)
(* runtime's co_poll_inner() gives a set of events per entry.              *)
(***************************************************************************)
\* co_poll_inner(): what is ready of what was asked for, and errors always.
Inner(reqs, ready) ==
    [i \in DOMAIN reqs |-> ready[reqs[i].fd] \cap (reqs[i].events \cup {"err"})]

\* The events that the entries of an fd ask for.
Merged(reqs, fd) == UNION {reqs[i].events : i \in {j \in DOMAIN reqs : reqs[j].fd = fd}}

\* poll(): an fd that is asked for twice is merged into one entry, and each of
\* its entries gets its part of the answer, without errors.
poll(reqs, ready) ==
    IF Cardinality({reqs[i].fd : i \in DOMAIN reqs}) = Len(reqs) THEN Inner(reqs, ready)
    ELSE LET asked == [i \in DOMAIN reqs |-> [fd |-> reqs[i].fd,
                                              events |-> Merged(reqs, reqs[i].fd)]]
         IN  [i \in DOMAIN reqs |-> Inner(asked, ready)[i] \cap reqs[i].events]

\* select(): asked is a set of <<fd, event>>.  What is ready before is answered
\* exactly; if it has to wait, all that was asked for is taken for ready as soon
\* as something is, and nothing after a timeout.
select(asked, before, ready) ==
    LET Of(r) == {a \in asked : a[2] \in r[a[1]]}
    IN  IF Of(before) # {} THEN Of(before)
        ELSE IF \E a \in asked : ready[a[1]] \cap {a[2], "err"} # {} THEN asked ELSE {}
-----------------------------------------------------------------------------
\* A call on a hooked fd never blocks the thread, also after the fd's number
\* was used for something else, and whatever the user does to the flags.
NeverBlocks == ~stuck /\ (hook.on /\ file.state # "closed" => file.nonblock)

\* What a call returns is true: it says how much the kernel took or gave, and
\* fails only if that is nothing; to a user who takes the fd for a blocking one
\* it says EAGAIN, or that a part was written, only after its timeout; connect()
\* does not report success before the attempt is over.
ReturnsAreTrue ==
    \A c \in Callers : Free(c) /\ call[c].fn # "none" =>
        /\ call[c].fn # "connect" => (call[c].ret = "ok" <=> call[c].done > 0)
        /\ call[c].hooked /\ call[c].ret = "again" => call[c].slept
        /\ call[c].hooked /\ call[c].fn = "write" /\ ~call[c].slept
              => call[c].done = WriteSize
        /\ call[c].fn = "connect" /\ call[c].ret = "ok" => file.state \notin {"new", "progress"}

Fd2 == {1, 2}
Events == {"in", "out"}
Requests2 == [fd : Fd2, events : SUBSET Events]
Ready2 == [Fd2 -> SUBSET (Events \cup {"err"})]

\* Each entry of a poll() gets exactly the events of its own that are ready, an
\* fd that is there twice or not; select() never leaves out what is ready and
\* never says what was not asked for.
PollAnswers ==
    /\ \A reqs \in {<<a>> : a \in Requests2} \cup {<<a, b>> : a, b \in Requests2},
          ready \in Ready2 : \A i \in DOMAIN reqs :
              poll(reqs, ready)[i] \cap Events = reqs[i].events \cap ready[reqs[i].fd]
    /\ \A asked \in SUBSET (Fd2 \X Events), ready \in Ready2 :
          LET got == select(asked, [fd \in Fd2 |-> {}], ready) IN
          got \subseteq asked /\ \A a \in asked : a[2] \in ready[a[1]] => a \in got

HooksSound == NeverBlocks /\ ReturnsAreTrue /\ PollAnswers

\* A call that waits returns, unless it was told to wait for ever.
CallsReturn == \A c \in Callers : []<>(Free(c) \/ call[c].wait = -1)

HooksFairness == \A c \in Callers : WF_hookVars(Ends(c))
=============================================================================
