----------------------------- MODULE MpscQueue -----------------------------
(***************************************************************************)
(* Co_MPSC_NoLockQueue (corpc_queue.h) and the loop of its consumer        *)
(* coroutine (RoutineEnvironment::resumeRoutine; the task handlers of the  *)
(* RPC client, the senders and the receivers have the same loop).          *)
(*                                                                         *)
(* Producers push onto a lock-free stack and then write a byte to a pipe;  *)
(* the consumer reads the pipe, then takes the whole stack, turns it       *)
(* around and pops until nothing is left.  Nodes are addresses that are    *)
(* reused as soon as they are freed, so a stale pointer can be equal to a  *)
(* fresh one.                                                              *)
(***************************************************************************)
EXTENDS Integers, Sequences, SequencesExt, FiniteSets

CONSTANTS
    Pusher,    \* threads that push
    Addr,      \* addresses of nodes
    MaxPush,   \* bound: the pushes of each producer
    PipeCap,   \* bytes the pipe holds (65536 on Linux)
    ReadMax,   \* bytes one read takes (1024)
    Null

Value == UNION {{p} \X (1 .. MaxPush[p]) : p \in Pusher}

ASSUME MpscAssumption ==
    /\ IsFiniteSet(Addr) /\ Null \notin Addr /\ Null \notin Value
    /\ MaxPush \in [Pusher -> Nat]
    /\ PipeCap \in Nat \ {0} /\ ReadMax \in Nat \ {0}

VARIABLES
    head,   \* head_
    out,    \* outqueue_, once the stack has been taken and turned around
    taken,  \* outqueue_ while pop() still tries to take the stack
    next,   \* Node::next
    value,  \* Node::value, Null in a free node
    pipe,   \* bytes in the pipe
    ppc,    \* where each producer is
    node,   \* its newNode
    pushes, \* how many pushes it has begun
    cpc,    \* where the consumer is
    got     \* what pop() has returned

heap == <<head, out, taken, next, value>>
mpscVars == <<heap, pipe, ppc, node, pushes, cpc, got>>

MpscInit ==
    /\ head = Null /\ out = Null /\ taken = Null
    /\ next = [a \in Addr |-> Null]
    /\ value = [a \in Addr |-> Null]
    /\ pipe = 0
    /\ ppc = [p \in Pusher |-> "idle"]
    /\ node = [p \in Pusher |-> Null]
    /\ pushes = [p \in Pusher |-> 0]
    /\ cpc = "read"
    /\ got = <<>>

\* The nodes from a on, following links.
Chain(links, a) ==
    LET walk[i \in 1 .. Cardinality(Addr)] ==
          IF i = 1 THEN a
          ELSE IF walk[i - 1] = Null THEN Null ELSE links[walk[i - 1]]
    IN  IF a = Null THEN <<>>
        ELSE SubSeq(walk, 1, Cardinality({i \in DOMAIN walk : walk[i] # Null}))

-----------------------------------------------------------------------------
(* push()                                                                  *)

NewNode(p) ==
    /\ ppc[p] = "idle" /\ pushes[p] < MaxPush[p]
    /\ \E a \in Addr :
          /\ value[a] = Null
          /\ value' = [value EXCEPT ![a] = <<p, pushes[p] + 1>>]
          /\ next' = [next EXCEPT ![a] = head]
          /\ node' = [node EXCEPT ![p] = a]
    /\ pushes' = [pushes EXCEPT ![p] = @ + 1]
    /\ ppc' = [ppc EXCEPT ![p] = "cas"]
    /\ UNCHANGED <<head, out, taken, pipe, cpc, got>>

\* Mutation: head_ is stored without a comparison.
PushCasMutant(p) ==
    /\ ppc[p] = "cas"
    /\ head' = node[p]
    /\ ppc' = [ppc EXCEPT ![p] = "write"]
    /\ UNCHANGED <<out, taken, next, value, pipe, node, pushes, cpc, got>>

PushCas(p) ==
    /\ ppc[p] = "cas" /\ head = next[node[p]]
    /\ head' = node[p]
    /\ ppc' = [ppc EXCEPT ![p] = "write"]
    /\ UNCHANGED <<out, taken, next, value, pipe, node, pushes, cpc, got>>

PushRetry(p) ==
    /\ ppc[p] = "cas" /\ head # next[node[p]]
    /\ next' = [next EXCEPT ![node[p]] = head]
    /\ UNCHANGED <<head, out, taken, value, pipe, ppc, node, pushes, cpc, got>>

\* The pipe is non-blocking: a byte that does not fit is dropped.
WritePipe(p) ==
    /\ ppc[p] = "write"
    /\ pipe' = IF pipe < PipeCap THEN pipe + 1 ELSE pipe
    /\ ppc' = [ppc EXCEPT ![p] = "idle"]
    /\ node' = [node EXCEPT ![p] = Null]
    /\ UNCHANGED <<heap, pushes, cpc, got>>

-----------------------------------------------------------------------------
(* The consumer: read the pipe, then pop() until it returns nullptr.       *)

ReadPipe ==
    /\ cpc = "read" /\ pipe > 0
    /\ pipe' = IF pipe > ReadMax THEN pipe - ReadMax ELSE 0
    /\ cpc' = "pop"
    /\ UNCHANGED <<heap, ppc, node, pushes, got>>

\* The front of outqueue_ is returned and its node freed.
PopNext ==
    /\ cpc = "pop" /\ out # Null
    /\ got' = Append(got, value[out])
    /\ value' = [value EXCEPT ![out] = Null]
    /\ out' = next[out]
    /\ UNCHANGED <<head, taken, next, pipe, ppc, node, pushes, cpc>>

PopEmpty ==
    /\ cpc = "pop" /\ out = Null /\ head = Null
    /\ cpc' = "read"
    /\ UNCHANGED <<heap, pipe, ppc, node, pushes, got>>

PopLoad ==
    /\ cpc = "pop" /\ out = Null /\ head # Null
    /\ taken' = head
    /\ cpc' = "take"
    /\ UNCHANGED <<head, out, next, value, pipe, ppc, node, pushes, got>>

PopRetry ==
    /\ cpc = "take" /\ head # taken
    /\ taken' = head
    /\ UNCHANGED <<head, out, next, value, pipe, ppc, node, pushes, cpc, got>>

\* Mutation: the taken stack is not turned around.
PopTakeMutant ==
    /\ cpc = "take" /\ head = taken
    /\ head' = Null
    /\ taken' = Null
    /\ out' = taken
    /\ cpc' = "pop"
    /\ UNCHANGED <<next, value, pipe, ppc, node, pushes, got>>

\* The CAS takes the stack; the consumer, alone with it, reverses its links.
PopTake ==
    /\ cpc = "take" /\ head = taken
    /\ head' = Null
    /\ taken' = Null
    /\ LET c == Chain(next, taken)
       IN  /\ next' = [a \in Addr |->
                IF a \notin Range(c) THEN next[a]
                ELSE IF a = c[1] THEN Null
                ELSE CHOOSE b \in Range(c) : next[b] = a]
           /\ out' = c[Len(c)]
    /\ cpc' = "pop"
    /\ UNCHANGED <<value, pipe, ppc, node, pushes, got>>

-----------------------------------------------------------------------------

MpscPush(p) == NewNode(p) \/ PushCas(p) \/ PushRetry(p) \/ WritePipe(p)

MpscConsume == ReadPipe \/ PopNext \/ PopEmpty \/ PopLoad \/ PopRetry \/ PopTake

MpscNext == MpscConsume \/ \E p \in Pusher : MpscPush(p)

\* A push that has begun ends, and the consumer's thread goes on.
MpscFairness ==
    /\ WF_mpscVars(MpscConsume)
    /\ \A p \in Pusher : WF_mpscVars(PushCas(p) \/ PushRetry(p) \/ WritePipe(p))

-----------------------------------------------------------------------------
(* What the queue promises.                                                *)

MpscTypeOK ==
    /\ {head, out, taken} \subseteq Addr \cup {Null}
    /\ next \in [Addr -> Addr \cup {Null}]
    /\ value \in [Addr -> Value \cup {Null}]
    /\ pipe \in 0 .. PipeCap
    /\ ppc \in [Pusher -> {"idle", "cas", "write"}]
    /\ node \in [Pusher -> Addr \cup {Null}]
    /\ cpc \in {"read", "pop", "take"}
    /\ got \in Seq(Value)

\* Every node in use is in exactly one place: the stack, outqueue_ or the hands
\* of a producer.  No link leads to a freed node and no node is leaked.
NodesAccounted ==
    /\ MpscTypeOK
    /\ LET stack   == Range(Chain(next, head))
           list    == Range(Chain(next, out))
           private == {node[p] : p \in {r \in Pusher : ppc[r] = "cas"}}
       IN  /\ stack \cup list \cup private = {a \in Addr : value[a] # Null}
           /\ stack \cap list = {} /\ stack \cap private = {} /\ list \cap private = {}

\* In the end everything that was pushed is popped and freed, also when the
\* byte of a push was dropped.
AllPopped == <>[](\A a \in Addr : value[a] = Null)

\* The queue implements FifoQueue; a push takes effect at its CAS.
MpscAbstract == INSTANCE FifoQueue WITH
    q <- LET nodes == Chain(next, out) \o Reverse(Chain(next, head))
         IN  [i \in DOMAIN nodes |-> value[nodes[i]]]

Fifo == MpscAbstract!Spec
=============================================================================
