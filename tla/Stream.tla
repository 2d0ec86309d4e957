------------------------------- MODULE Stream -------------------------------
(***************************************************************************)
(* One direction of a TCP connection, from the queue of messages to be     *)
(* sent to the tasks handed to the worker.  The sender packs messages into *)
(* a buffer of Space bytes (MessagePipeline::downflow and the encode       *)
(* functions), writes it through the hooked write(); the kernel keeps      *)
(* SockSize bytes and hands them over in pieces of any size; the receiver  *)
(* cuts the stream into messages again (TcpPipeline::upflow, decode).      *)
(*                                                                         *)
(* Byte k of message m is <<m, k>>; the first HeadSize bytes are the head, *)
(* which holds the size of the body.                                       *)
(***************************************************************************)
EXTENDS Integers, Sequences, SequencesExt

CONSTANTS
    BodySizes,   \* the size of the body of each message
    Unknown,     \* messages decode() has no method for
    HeadSize, Space, SockSize, ReadSize,
    MaxBodySize  \* maxBodySize_

ASSUME StreamAssumption ==
    /\ BodySizes \in Seq(Nat) /\ Unknown \subseteq 1 .. Len(BodySizes)
    /\ {HeadSize, Space, SockSize, ReadSize} \subseteq Nat \ {0}
    /\ MaxBodySize \in Nat /\ HeadSize <= Space

VARIABLES
    sent,      \* messages given to send()
    datas,     \* datas_ of the connection
    out,       \* the sender's buffer: what is not yet written
    down,      \* downflowBuf_
    downSent,  \* downflowBufSentNum_
    writer,    \* the sender's routine: "downflow", "encode", "write", "hang" or "end"
    sock,      \* bytes in the kernel
    in,        \* what upflow() has not yet looked at
    head, body, bodySize,  \* headBuf_, bodyBuf_ and bodySize_
    tasks,     \* messages handed to the worker, as the bytes they were made of
    reader     \* the receiver's routine: "run" or "end"

streamVars == <<sent, datas, out, down, downSent, writer, sock, in, head, body, bodySize,
                tasks, reader>>
outVars == <<sent, datas, out, down, downSent, writer>>
inVars == <<in, head, body, bodySize, tasks, reader>>

Smaller(a, b) == IF a < b THEN a ELSE b

HeadOf(m) == [k \in 1 .. HeadSize |-> <<m, k>>]
BodyOf(m) == [k \in 1 .. BodySizes[m] |-> <<m, HeadSize + k>>]

Resumed == IF writer = "hang" THEN "downflow" ELSE writer

\* Connection::send and Sender::taskQueueRoutine: the message is queued and a
\* routine that hangs is resumed.
send ==
    /\ sent < Len(BodySizes)
    /\ sent' = sent + 1
    /\ datas' = IF writer = "end" THEN datas ELSE Append(datas, sent + 1)
    /\ writer' = Resumed
    /\ UNCHANGED <<out, down, downSent, sock, inVars>>

\* downflow() first takes what is left of the message before.
downflow ==
    LET n == Smaller(Space, Len(down) - downSent)
        all == downSent + n = Len(down)
    IN  /\ writer = "downflow"
        /\ out' = SubSeq(down, downSent + 1, downSent + n)
        /\ down' = IF all THEN <<>> ELSE down
        /\ downSent' = IF all THEN 0 ELSE downSent + n
        /\ writer' = IF n = Space THEN "write" ELSE "encode"
        /\ UNCHANGED <<sent, datas, sock, inVars>>

\* downflowBufSentNum_ after a body of which only left bytes fit.
SplitAt(left) == IF left > 0 THEN left ELSE downSent

\* One message encoded; the loop of downflow() ends when the queue is empty or
\* there is no room for a head.
encode ==
    /\ writer = "encode" /\ datas # <<>> /\ HeadSize <= Space - Len(out)
    /\ LET m == Head(datas)
           left == Space - Len(out) - HeadSize
       IN  /\ datas' = Tail(datas)
           /\ out' = out \o HeadOf(m) \o SubSeq(BodyOf(m), 1, Smaller(left, BodySizes[m]))
           /\ IF left >= BodySizes[m]
              THEN UNCHANGED <<down, downSent>>
              ELSE down' = BodyOf(m) /\ downSent' = SplitAt(left)
    /\ UNCHANGED <<sent, writer, sock, inVars>>

\* Sender::connectionRoutine after downflow(): it hangs when there is no data.
EncodeEnds ==
    /\ writer = "encode" /\ (datas = <<>> \/ HeadSize > Space - Len(out))
    /\ writer' = IF out = <<>> THEN "hang" ELSE "write"
    /\ UNCHANGED <<sent, datas, out, down, downSent, sock, inVars>>

\* The hooked write(): it goes on until all is written, Connection::write
\* again after a timeout.
write ==
    /\ writer = "write" /\ reader = "run"
    /\ \E n \in 1 .. Smaller(Len(out), SockSize - Len(sock)) :
          /\ sock' = sock \o SubSeq(out, 1, n)
          /\ out' = SubSeq(out, n + 1, Len(out))
          /\ writer' = IF n = Len(out) THEN "downflow" ELSE "write"
    /\ UNCHANGED <<sent, datas, down, downSent, inVars>>

\* The peer has closed: write() fails and the routine ends.
WriteFails ==
    /\ writer = "write" /\ reader = "end"
    /\ writer' = "end"
    /\ UNCHANGED <<sent, datas, out, down, downSent, sock, inVars>>

\* Receiver::connectionRoutine: the hooked read().
read ==
    /\ reader = "run" /\ in = <<>>
    /\ \E n \in 1 .. Smaller(ReadSize, Len(sock)) :
          /\ in' = SubSeq(sock, 1, n)
          /\ sock' = SubSeq(sock, n + 1, Len(sock))
    /\ UNCHANGED <<outVars, head, body, bodySize, tasks, reader>>

\* mutant: the state is not reset after a message without a body
MutReset(h, b) == /\ head' = IF b = <<>> THEN h ELSE <<>>
                  /\ body' = <<>> /\ bodySize' = 0

\* The state after a message.
Reset(h, b) == head' = <<>> /\ body' = <<>> /\ bodySize' = 0

\* decode(): a task for the worker, unless there is no such method.
decode(h, b) ==
    /\ tasks' = IF h[1][1] \in Unknown THEN tasks ELSE Append(tasks, h \o b)
    /\ Reset(h, b)

HeadMissing == HeadSize - Len(head)

\* One round of the loop of upflow(): the rest of the head, its size, the rest
\* of the body, and the message when all is there.
upflow ==
    LET h == head \o SubSeq(in, 1, HeadMissing)
        rest == SubSeq(in, HeadMissing + 1, Len(in))
        size == IF bodySize = 0 THEN BodySizes[h[1][1]] ELSE bodySize
        missing == size - Len(body)
    IN  /\ reader = "run" /\ in # <<>>
        /\ \/ /\ Len(in) < HeadMissing
              /\ head' = head \o in /\ in' = <<>>
              /\ UNCHANGED <<body, bodySize, tasks, reader>>
           \/ /\ Len(in) >= HeadMissing /\ size > MaxBodySize
              /\ reader' = "end"
              /\ UNCHANGED <<in, head, body, bodySize, tasks>>
           \/ /\ Len(in) >= HeadMissing /\ size <= MaxBodySize /\ Len(rest) < missing
              /\ head' = h /\ bodySize' = size
              /\ body' = body \o rest /\ in' = <<>>
              /\ UNCHANGED <<tasks, reader>>
           \/ /\ Len(in) >= HeadMissing /\ size <= MaxBodySize /\ Len(rest) >= missing
              /\ in' = SubSeq(rest, missing + 1, Len(rest))
              /\ decode(h, body \o SubSeq(rest, 1, missing))
              /\ UNCHANGED reader
        /\ UNCHANGED <<outVars, sock>>

\* at: "downflow", or "hang" once it has found nothing to send.
StreamInit(at) ==
    /\ sent = 0 /\ datas = <<>> /\ out = <<>> /\ down = <<>> /\ downSent = 0
    /\ writer = at /\ sock = <<>>
    /\ in = <<>> /\ head = <<>> /\ body = <<>> /\ bodySize = 0
    /\ tasks = <<>> /\ reader = "run"

StreamNext ==
    send \/ downflow \/ encode \/ EncodeEnds \/ write \/ WriteFails \/ read \/ upflow

\* Both routines are resumed when their fd is ready; nobody has to send.
StreamFairness == WF_streamVars(downflow \/ encode \/ EncodeEnds \/ write \/ WriteFails)
                  /\ WF_streamVars(read \/ upflow)
-----------------------------------------------------------------------------
\* The messages that reach the worker: up to the first one that is too large.
Accepted ==
    LET ok == SelectInSeq(BodySizes, LAMBDA size : size > MaxBodySize)
        n == IF ok = 0 THEN Len(BodySizes) ELSE ok - 1
    IN  SelectSeq([m \in 1 .. n |-> m], LAMBDA m : m \notin Unknown)

\* However the bytes are cut, the worker gets the messages that were sent,
\* whole and in order (TcpPipeline::upflow), what is left of a split body is
\* never empty (the assertion of downflow()) and no body overflows bodyBuf_.
StreamIntact ==
    /\ Len(tasks) <= Len(Accepted)
    /\ \A k \in DOMAIN tasks : tasks[k] = HeadOf(Accepted[k]) \o BodyOf(Accepted[k])
    /\ down # <<>> => Len(down) > downSent
    /\ Len(head) <= HeadSize /\ Len(body) <= MaxBodySize
    /\ Len(out) <= Space

\* In the end every message that was sent before one that is too large has been
\* handed to the worker.
AllHanded ==
    []<>(\A k \in DOMAIN Accepted : sent >= Accepted[k] => Len(tasks) >= k)
=============================================================================
