--------------------------- MODULE ServicesProofs ---------------------------
(***************************************************************************)
(* What the services of MCServices keep, for every number of producers,    *)
(* coroutines, requests, users, threads and topics and whatever their      *)
(* bounds: one inductive invariant for each service, then all of them for  *)
(* the run's own specification.                                            *)
(***************************************************************************)
EXTENDS MCServices, SeqLemmas

-----------------------------------------------------------------------------
(***************************************************************************)
(* SyncQueue.  CoSyncQueue never takes the front of an empty list, tells   *)
(* of everything that is pushed, and implements FifoQueue.                 *)
(***************************************************************************)
\* A producer has the mutex from its lock to its unlock, and has counted the
\* element it is about to push.
PushInv ==
    \A p \in Producers :
        /\ pushPc[p] \in {"append", "unlock"} <=> queueMutex = p
        /\ pushPc[p] # "idle" => pushed[p] \in 1 .. MaxItems

\* What the consumer has seen is there, or will be before the mutex is free.
PopInv ==
    /\ popPc = "read" => outqueue = <<>>
    /\ popPc = "swap" =>
          outqueue = <<>> /\ (inqueue # <<>> \/ \E p \in Producers : pushPc[p] = "append")
    /\ popPc = "front" => outqueue # <<>>

\* A consumer that waits at the pipe will be told of what is in the queue.
TellInv ==
    popPc = "read" /\ inqueue # <<>> =>
        queuePipe > 0 \/ \E p \in Producers : pushPc[p] \in {"unlock", "write"}

SyncInv == SyncTypeOK /\ PushInv /\ PopInv /\ TellInv

LEMMA SyncInvInit == SyncQueueInit => SyncInv
<1> SUFFICES ASSUME SyncQueueInit PROVE SyncInv
  OBVIOUS
<1>1. SyncTypeOK
  BY SyncQueueAssumption DEF SyncQueueInit, SyncTypeOK
<1>2. PushInv
  BY SyncQueueAssumption DEF SyncQueueInit, PushInv
<1> QED  BY <1>1, <1>2 DEF SyncQueueInit, SyncInv, PopInv, TellInv

\* A step of a producer keeps the invariant.
LEMMA SyncPushInv ==
    ASSUME SyncInv, NEW p \in Producers, SyncPush(p)
    PROVE  SyncInv'
<1> USE SyncQueueAssumption DEF SyncInv
<1>1. CASE PushLock(p)
  <2>1. SyncTypeOK'  BY <1>1 DEF PushLock, lists, SyncTypeOK
  <2>2. PushInv'     BY <1>1 DEF PushLock, lists, SyncTypeOK, PushInv
  <2>3. PopInv'      BY <1>1 DEF PushLock, lists, SyncTypeOK, PopInv, PushInv
  <2>4. TellInv'     BY <1>1 DEF PushLock, lists, SyncTypeOK, TellInv, PushInv
  <2> QED  BY <2>1, <2>2, <2>3, <2>4
<1>2. CASE PushBack(p)
  <2>0. <<p, pushed[p]>> \in Items
    BY <1>2 DEF PushBack, PushInv, Items
  <2>a. inqueue' \in Seq(Items) /\ inqueue' # <<>>
    BY <1>2, <2>0 DEF PushBack, SyncTypeOK
  <2>1. SyncTypeOK'  BY <1>2, <2>a DEF PushBack, SyncTypeOK
  <2>2. PushInv'     BY <1>2 DEF PushBack, SyncTypeOK, PushInv
  <2>3. PopInv'      BY <1>2, <2>a DEF PushBack, PopInv
  <2>4. TellInv'     BY <1>2 DEF PushBack, SyncTypeOK, TellInv
  <2> QED  BY <2>1, <2>2, <2>3, <2>4
<1>3. CASE PushUnlock(p)
  <2>1. SyncTypeOK'  BY <1>3 DEF PushUnlock, lists, SyncTypeOK
  <2>2. PushInv'     BY <1>3 DEF PushUnlock, lists, SyncTypeOK, PushInv
  <2>3. PopInv'      BY <1>3 DEF PushUnlock, lists, SyncTypeOK, PopInv
  <2>4. TellInv'     BY <1>3 DEF PushUnlock, lists, SyncTypeOK, TellInv
  <2> QED  BY <2>1, <2>2, <2>3, <2>4
<1>4. CASE PushWrite(p)
  <2>1. SyncTypeOK'  BY <1>4 DEF PushWrite, lists, SyncTypeOK
  <2>2. PushInv'     BY <1>4 DEF PushWrite, lists, SyncTypeOK, PushInv
  <2>3. PopInv'      BY <1>4 DEF PushWrite, lists, SyncTypeOK, PopInv
  <2>4. TellInv'     BY <1>4 DEF PushWrite, lists, SyncTypeOK, TellInv
  <2> QED  BY <2>1, <2>2, <2>3, <2>4
<1> QED  BY <1>1, <1>2, <1>3, <1>4 DEF SyncPush

\* A step of the consumer keeps the invariant.
LEMMA SyncConsumeInv ==
    ASSUME SyncInv, SyncConsume
    PROVE  SyncInv'
<1> USE SyncQueueAssumption DEF SyncInv
<1>1. CASE SyncRead
  <2>1. SyncTypeOK'  BY <1>1 DEF SyncRead, lists, SyncTypeOK
  <2> QED  BY <1>1, <2>1 DEF SyncRead, lists, PushInv, PopInv, TellInv
<1>2. CASE PopNothing
  <2>1. inqueue # <<>> => \E p \in Producers : pushPc[p] \in {"unlock", "write"}
    <3>1. inqueue # <<>> => inqueue[1] \in Items
      BY DEF SyncTypeOK
    <3> QED  BY <1>2, <3>1 DEF PopNothing, SeenEmpty, Items
  <2>2. SyncTypeOK'  BY <1>2 DEF PopNothing, lists, SyncTypeOK
  <2> QED  BY <1>2, <2>1, <2>2 DEF PopNothing, lists, PushInv, PopInv, TellInv
<1>3. CASE PopLook
  <2>1. SyncTypeOK'  BY <1>3 DEF PopLook, lists, SyncTypeOK
  <2> QED  BY <1>3, <2>1 DEF PopLook, SeenFilled, lists, PushInv, PopInv, TellInv
<1>4. CASE PopSwap
  <2>1. \A p \in Producers : pushPc[p] # "append"
    BY <1>4 DEF PopSwap, PushInv
  <2>2. outqueue' # <<>>
    BY <1>4, <2>1 DEF PopSwap, PopInv
  <2>3. SyncTypeOK'  BY <1>4 DEF PopSwap, SyncTypeOK
  <2> QED  BY <1>4, <2>2, <2>3 DEF PopSwap, PushInv, PopInv, TellInv
<1>5. CASE PopFront
  <2>1. outqueue' \in Seq(Items) /\ Head(outqueue) \in Items
    BY <1>5 DEF PopFront, SyncTypeOK
  <2>2. popped' \in Seq(Items)
    BY <1>5, <2>1 DEF PopFront, SyncTypeOK
  <2>3. SyncTypeOK'
    BY <1>5, <2>1, <2>2 DEF PopFront, SyncTypeOK
  <2> QED  BY <1>5, <2>3 DEF PopFront, PushInv, PopInv, TellInv
<1> QED  BY <1>1, <1>2, <1>3, <1>4, <1>5 DEF SyncConsume

\* The inductive invariant holds throughout.
THEOREM SyncInvariant == SyncQueueSpec => []SyncInv
<1>1. SyncInv /\ [SyncQueueNext]_syncVars => SyncInv'
  <2> SUFFICES ASSUME SyncInv, [SyncQueueNext]_syncVars PROVE SyncInv'
    OBVIOUS
  <2>1. CASE UNCHANGED syncVars
    BY <2>1 DEF syncVars, lists, SyncInv, SyncTypeOK, PushInv, PopInv, TellInv
  <2> QED  BY <2>1, SyncPushInv, SyncConsumeInv DEF SyncQueueNext
<1> QED  BY <1>1, SyncInvInit, PTL DEF SyncQueueSpec

\* pop() never takes the front of an empty list, and whatever is in the queue
\* while the consumer waits at the pipe will be told of, for any number of
\* producers and pushes and any size of the pipe.
THEOREM SyncSound == SyncQueueSpec => []SyncQueueSound
<1>1. SyncInv => SyncQueueSound
  BY DEF SyncInv, PopInv, TellInv, SyncQueueSound
<1> QED  BY <1>1, SyncInvariant, PTL

-----------------------------------------------------------------------------
(* The refinement.                                                         *)

\* The abstract queue: what pop() will return, in this order.
Both == outqueue \o inqueue

LEMMA BothPushed ==
    ASSUME NEW s \in Seq(Items), NEW t \in Seq(Items), NEW x \in Items
    PROVE  s \o Append(t, x) = Append(s \o t, x)
  OBVIOUS

LEMMA BothPopped ==
    ASSUME NEW s \in Seq(Items), NEW t \in Seq(Items), s # <<>>
    PROVE  /\ s \o t # <<>>
           /\ Head(s \o t) = Head(s)
           /\ Tail(s \o t) = Tail(s) \o t
<1>1. s \o t # <<>> /\ Head(s \o t) = Head(s)
  OBVIOUS
<1>2. Tail(s \o t) = Tail(s) \o t
  OBVIOUS
<1> QED  BY <1>1, <1>2

LEMMA BothSwapped ==
    ASSUME NEW s \in Seq(Items)
    PROVE  s \o <<>> = s /\ <<>> \o s = s
  OBVIOUS

\* CoSyncQueue implements FifoQueue: values leave in the order in which their
\* push_back() put them into inqueue_, each once, whatever the look without the
\* mutex sees.
THEOREM SyncRefines == SyncQueueSpec => SyncFifo
<1>1. SyncQueueInit => SyncAbstract!Init
  BY BothSwapped DEF SyncQueueInit, SyncAbstract!Init
<1>2. SyncInv /\ [SyncQueueNext]_syncVars => [SyncAbstract!Next]_<<Both, popped>>
  <2> SUFFICES ASSUME SyncInv, [SyncQueueNext]_syncVars
               PROVE  SyncAbstract!Next \/ (Both' = Both /\ popped' = popped)
    OBVIOUS
  <2>t. inqueue \in Seq(Items) /\ outqueue \in Seq(Items)
    BY DEF SyncInv, SyncTypeOK
  <2>1. ASSUME NEW p \in Producers, PushBack(p) PROVE SyncAbstract!Next
    <3> DEFINE x == <<p, pushed[p]>>
    <3>1. x \in Items
      BY <2>1 DEF PushBack, SyncInv, PushInv, Items
    <3>2. Both' = Append(Both, x) /\ popped' = popped
      BY <2>1, <2>t, <3>1, BothPushed DEF PushBack, Both
    <3> QED  BY <3>1, <3>2 DEF SyncAbstract!Next, SyncAbstract!Push, Both
  <2>2. CASE PopFront
    <3>1. Both # <<>> /\ popped' = Append(popped, Head(Both)) /\ Both' = Tail(Both)
      BY <2>2, <2>t, BothPopped DEF PopFront, Both
    <3> QED  BY <3>1 DEF SyncAbstract!Next, SyncAbstract!Pop, Both
  <2>3. CASE PopSwap
    <3>1. outqueue = <<>> /\ inqueue' = <<>> /\ outqueue' = inqueue /\ popped' = popped
      BY <2>3 DEF PopSwap, SyncInv, PopInv
    <3> QED  BY <2>t, <3>1, BothSwapped DEF Both
  <2>4. CASE UNCHANGED <<lists, popped>>
    BY <2>4 DEF lists, Both
  <2> QED
    BY <2>1, <2>2, <2>3, <2>4 DEF SyncQueueNext, SyncPush, SyncConsume, syncVars, lists,
       PushLock, PushUnlock, PushWrite, SyncRead, PopNothing, PopLook
<1> QED  BY <1>1, <1>2, SyncInvariant, PTL
         DEF SyncQueueSpec, SyncFifo, SyncAbstract!Spec, Both

-----------------------------------------------------------------------------
(***************************************************************************)
(* MpscQueue.  The stack and outqueue_ are lists without a common node,    *)
(* and the nodes of producers are in neither; an address may be freed and  *)
(* used again at any time between a load of head_ and its CAS.             *)
(***************************************************************************)
MpscSpec == MpscInit /\ [][MpscNext]_mpscVars

\* The links lead from a through all of s to Null.
Linked(s, a, links) ==
    /\ s \in Seq(Addr) /\ IsInjective(s)
    /\ s = <<>> => a = Null
    /\ s # <<>> => a = s[1] /\ links[s[Len(s)]] = Null
    /\ \A i \in 1 .. Len(s) - 1 : links[s[i]] = s[i + 1]

\* The nodes of producers that have not pushed them yet.
Private == {node[p] : p \in {r \in Pusher : ppc[r] = "cas"}}

HeapInv(stack, list) ==
    /\ Linked(stack, head, next) /\ Linked(list, out, next)
    /\ Range(stack) \cap Range(list) = {}
    /\ Private \cap (Range(stack) \cup Range(list)) = {}
    /\ Range(stack) \cup Range(list) \cup Private = {a \in Addr : value[a] # Null}

NodeInv ==
    /\ \A p \in Pusher : ppc[p] = "cas" => node[p] \in Addr
    /\ \A p, r \in Pusher : ppc[p] = "cas" /\ ppc[r] = "cas" /\ node[p] = node[r] => p = r

\* Only the consumer takes the stack.
TakeInv == cpc = "take" => out = Null /\ head # Null

MpscInv ==
    /\ MpscTypeOK /\ pushes \in [Pusher -> Nat]
    /\ NodeInv /\ TakeInv
    /\ \E stack, list \in Seq(Addr) : HeapInv(stack, list)

\* A list has no more nodes than there are addresses.
LEMMA ShortList ==
    ASSUME NEW s \in Seq(Addr), IsInjective(s)
    PROVE  Len(s) \in Nat /\ Len(s) <= Cardinality(Addr) /\ Cardinality(Addr) \in Nat
<1> DEFINE n == Len(s)
<1>1. n \in Nat /\ DOMAIN s = 1 .. n /\ s \in [1 .. n -> Addr]
  OBVIOUS
<1>2. IsFiniteSet(Addr) /\ Cardinality(Addr) \in Nat
  BY MpscAssumption, FS_CardinalityType
<1> HIDE DEF n
<1>3. IsFiniteSet(1 .. n) /\ Cardinality(1 .. n) = n
  BY <1>1, FS_Interval
<1>4. ASSUME ~(n <= Cardinality(Addr)) PROVE FALSE
  <2>1. Cardinality(Addr) < Cardinality(1 .. n)
    BY <1>1, <1>2, <1>3, <1>4
  <2>2. \E x, y \in 1 .. n : x # y /\ s[x] = s[y]
    BY <1>1, <1>2, <1>3, <2>1, FS_PigeonHole
  <2> QED  BY <1>1, <2>2 DEF IsInjective
<1> QED  BY <1>1, <1>2, <1>4 DEF n

\* Chain finds the list.
LEMMA ChainIs ==
    ASSUME NEW s, NEW a, NEW links, Linked(s, a, links)
    PROVE  Chain(links, a) = s
<1> DEFINE N == Cardinality(Addr)
           n == Len(s)
           walk == CHOOSE walk : walk = [i \in 1 .. N |->
                      IF i = 1 THEN a
                      ELSE IF walk[i - 1] = Null THEN Null ELSE links[walk[i - 1]]]
           g == [i \in 1 .. N |-> IF i <= n THEN s[i] ELSE Null]
<1>1. Chain(links, a) = IF a = Null THEN <<>>
                        ELSE SubSeq(walk, 1, Cardinality({i \in DOMAIN walk : walk[i] # Null}))
  BY DEF Chain
<1>2. s \in Seq(Addr) /\ IsInjective(s)
  BY DEF Linked
<1>3. n \in Nat /\ n <= N /\ N \in Nat
  BY <1>2, ShortList
<1>4. \A i \in 1 .. n : s[i] \in Addr /\ s[i] # Null
  <2>1. \A i \in 1 .. n : s[i] \in Addr
    BY <1>2
  <2> QED  BY <2>1, MpscAssumption
<1>5. /\ n = 0 => a = Null
      /\ n # 0 => a = s[1] /\ links[s[n]] = Null
      /\ \A i \in 1 .. n - 1 : links[s[i]] = s[i + 1]
  <2>1. n = 0 <=> s = <<>>
    BY <1>2, EmptySeq
  <2> QED  BY <2>1 DEF Linked
<1> HIDE DEF N, n
<1>6. \A i \in 1 .. N : g[i] = IF i <= n THEN s[i] ELSE Null
  OBVIOUS
<1>7. ASSUME NEW i \in 1 .. N
      PROVE  g[i] = IF i = 1 THEN a ELSE IF g[i - 1] = Null THEN Null ELSE links[g[i - 1]]
  <2> HIDE DEF g
  <2>1. CASE i = 1
    BY <1>3, <1>5, <1>6, <2>1
  <2>2. CASE i # 1
    <3>1. i - 1 \in 1 .. N /\ i \in 1 .. N /\ (i - 1) + 1 = i
      BY <1>3, <2>2
    <3>2. CASE i <= n
      <4>1. i - 1 \in 1 .. n - 1 /\ i - 1 <= n /\ i - 1 \in 1 .. n
        BY <1>3, <2>2, <3>2
      <4>2. g[i - 1] = s[i - 1] /\ g[i] = s[i] /\ links[s[i - 1]] = s[i] /\ s[i - 1] # Null
        BY <1>4, <1>5, <1>6, <3>1, <3>2, <4>1
      <4> QED  BY <2>2, <4>2
    <3>3. CASE ~(i <= n)
      <4>1. g[i] = Null
        BY <1>6, <3>3
      <4>2. CASE i - 1 <= n
        <5>1. i - 1 = n /\ n # 0 /\ n \in 1 .. n
          BY <1>3, <3>1, <3>3, <4>2
        <5>2. g[i - 1] = s[n] /\ links[s[n]] = Null
          BY <1>5, <1>6, <3>1, <4>2, <5>1
        <5> QED  BY <2>2, <4>1, <5>2
      <4>3. CASE ~(i - 1 <= n)
        <5>1. g[i - 1] = Null
          BY <1>6, <3>1, <4>3
        <5> QED  BY <2>2, <4>1, <5>1
      <4> QED  BY <4>2, <4>3
    <3> QED  BY <3>2, <3>3
  <2> QED  BY <2>1, <2>2
<1>8. g = [i \in 1 .. N |->
                      IF i = 1 THEN a
                      ELSE IF g[i - 1] = Null THEN Null ELSE links[g[i - 1]]]
  <2>1. g = [i \in 1 .. N |-> g[i]]
    OBVIOUS
  <2> HIDE DEF g
  <2> QED  BY <1>7, <2>1
<1> HIDE DEF g
<1>9. walk = [i \in 1 .. N |->
                      IF i = 1 THEN a
                      ELSE IF walk[i - 1] = Null THEN Null ELSE links[walk[i - 1]]]
  BY <1>8
<1> HIDE DEF walk
<1>10. DOMAIN walk = 1 .. N /\ \A i \in 1 .. N :
          walk[i] = IF i = 1 THEN a ELSE IF walk[i - 1] = Null THEN Null ELSE links[walk[i - 1]]
  BY <1>9
<1>11. \A i \in 1 .. N : walk[i] = g[i]
  <2> DEFINE P == {i \in 0 .. N : i = 0 \/ walk[i] = g[i]}
  <2>1. 0 \in P
    BY <1>3
  <2>2. ASSUME NEW i \in 1 .. N, i - 1 \in P PROVE i \in P
    <3>1. CASE i = 1
      BY <1>7, <1>10, <1>3, <3>1
    <3>2. CASE i # 1
      <4>1. walk[i - 1] = g[i - 1]
        BY <2>2, <3>2
      <4>2. walk[i] = g[i]
        BY <1>7, <1>10, <3>2, <4>1
      <4> QED  BY <1>3, <4>2
    <3> QED  BY <3>1, <3>2
  <2> HIDE DEF P
  <2>3. \A i \in 0 .. N : i \in P
    BY <1>3, <2>1, <2>2, UpTo
  <2> QED  BY <1>3, <2>3 DEF P
<1>12. {i \in DOMAIN walk : walk[i] # Null} = 1 .. n
  BY <1>3, <1>4, <1>6, <1>10, <1>11
<1>13. Cardinality(1 .. n) = n
  BY <1>3, FS_Interval
<1>14. SubSeq(walk, 1, n) = s
  <2>1. \A i \in 1 .. n : i \in 1 .. N /\ walk[i] = s[i] /\ walk[i] \in Addr
    BY <1>3, <1>4, <1>6, <1>11
  <2> DEFINE r == SubSeq(walk, 1, n)
  <2>2. r \in Seq(Addr) /\ Len(r) = (IF 1 <= n THEN n - 1 + 1 ELSE 0)
        /\ \A i \in 1 .. n - 1 + 1 : r[i] = walk[1 + i - 1]
    BY <1>3, <2>1, SubSeqProperties
  <2> HIDE DEF r
  <2>3. Len(r) = n /\ n - 1 + 1 = n /\ \A i \in 1 .. n : 1 + i - 1 = i
    BY <1>3, <2>2
  <2>4. \A i \in 1 .. n : r[i] = s[i]
    BY <2>1, <2>2, <2>3
  <2> QED  BY <1>2, <2>2, <2>3, <2>4, SeqEqual DEF r, n
<1>15. CASE a = Null
  <2>1. s = <<>>
    BY <1>2, <1>4, <1>5, <1>3, <1>15, EmptySeq DEF n
  <2> QED  BY <1>1, <1>15, <2>1
<1> QED  BY <1>1, <1>12, <1>13, <1>14, <1>15

(***************************************************************************)
(* Lists that change.                                                      *)
(***************************************************************************)
LEMMA LinkedSame ==
    ASSUME NEW s, NEW a, NEW links, NEW links2, Linked(s, a, links),
           \A x \in Range(s) : links2[x] = links[x]
    PROVE  Linked(s, a, links2)
<1> DEFINE n == Len(s)
<1>1. s \in Seq(Addr) /\ n \in Nat /\ DOMAIN s = 1 .. n
  BY DEF Linked
<1>2. \A i \in 1 .. n : s[i] \in Range(s)
  BY <1>1 DEF Range
<1>3. s # <<>> => n \in 1 .. n
  BY <1>1, EmptySeq
<1>4. \A i \in 1 .. n - 1 : i \in 1 .. n
  BY <1>1
<1> HIDE DEF n
<1> QED  BY <1>2, <1>3, <1>4 DEF Linked, n

OnTop(r, x, s) == r = <<x>> \o s

LEMMA LinkedPush ==
    ASSUME NEW s, NEW a, NEW links, Linked(s, a, links), NEW x \in Addr, x \notin Range(s),
           links[x] = a, NEW r, OnTop(r, x, s)
    PROVE  Linked(r, x, links) /\ Range(r) = {x} \cup Range(s)
<1> DEFINE n == Len(s)
<1>1. s \in Seq(Addr) /\ IsInjective(s) /\ n \in Nat /\ <<x>> \in Seq(Addr) /\ Len(<<x>>) = 1
  BY DEF Linked
<1>2. Range(<<x>>) = {x} /\ IsInjective(<<x>>)
  BY DEF Range, IsInjective
<1>3. r \in Seq(Addr) /\ Range(r) = {x} \cup Range(s) /\ IsInjective(r)
  <2> DEFINE p == <<x>>
  <2>1. Range(p) \cap Range(s) = {} /\ p \in Seq(Addr) /\ IsInjective(p) /\ Range(p) = {x}
    BY <1>1, <1>2
  <2>2. r = p \o s
    BY DEF OnTop
  <2> HIDE DEF p
  <2> QED  BY <1>1, <2>1, <2>2, ConcatLink
<1>4. Len(r) = 1 + n /\ \A i \in 1 .. 1 + n : r[i] = IF i <= 1 THEN <<x>>[i] ELSE s[i - 1]
  BY <1>1, ConcatProperties DEF OnTop
<1>5. /\ s = <<>> <=> n = 0
      /\ n = 0 => a = Null
      /\ n # 0 => a = s[1] /\ links[s[n]] = Null
      /\ \A i \in 1 .. n - 1 : links[s[i]] = s[i + 1]
  BY <1>1, EmptySeq DEF Linked
<1> HIDE DEF n
<1>6. r[1] = x /\ \A i \in 1 .. n : r[i + 1] = s[i]
  <2>1. r[1] = x
    BY <1>1, <1>4
  <2>2. \A i \in 1 .. n : i + 1 \in 1 .. 1 + n /\ ~(i + 1 <= 1) /\ (i + 1) - 1 = i
    BY <1>1
  <2> QED  BY <1>4, <2>1, <2>2
<1>7. r # <<>>
  BY <1>1, <1>4, EmptySeq
<1>8. links[r[1 + n]] = Null
  <2>1. CASE n = 0
    BY <1>5, <1>6, <2>1
  <2>2. CASE n # 0
    <3>1. n \in 1 .. n /\ 1 + n = n + 1
      BY <1>1, <2>2
    <3> QED  BY <1>5, <1>6, <2>2, <3>1
  <2> QED  BY <2>1, <2>2
<1>9. ASSUME NEW i \in 1 .. (1 + n) - 1 PROVE links[r[i]] = r[i + 1]
  <2>i. i \in 1 .. n
    BY <1>1
  <2>1. i \in 1 .. n /\ r[i + 1] = s[i]
    BY <1>6, <2>i
  <2>2. CASE i = 1
    <3>1. n # 0
      BY <1>1, <2>1
    <3> QED  BY <1>5, <1>6, <2>1, <2>2, <3>1
  <2>3. CASE i # 1
    <3>1. i - 1 \in 1 .. n - 1 /\ i - 1 \in 1 .. n /\ (i - 1) + 1 = i
      BY <1>1, <2>1, <2>3
    <3>2. r[i] = s[i - 1]
      BY <1>6, <3>1
    <3> QED  BY <1>5, <2>1, <3>1, <3>2
  <2> QED  BY <2>2, <2>3
<1> QED  BY <1>3, <1>4, <1>6, <1>7, <1>8, <1>9 DEF Linked

LEMMA LinkedPop ==
    ASSUME NEW s, NEW a, NEW links, Linked(s, a, links), a # Null, NEW r, r = Tail(s)
    PROVE  /\ s # <<>> /\ a = Head(s) /\ a \in Range(s) /\ a \in Addr
           /\ Linked(r, links[a], links) /\ Range(r) = Range(s) \ {a}
<1> DEFINE n == Len(s)
<1>1. s \in Seq(Addr) /\ IsInjective(s) /\ s # <<>> /\ a = s[1]
  BY DEF Linked
<1>2. n \in Nat /\ n >= 1 /\ Head(s) = s[1]
  BY <1>1, EmptySeq
<1>3. r \in Seq(Addr) /\ IsInjective(r) /\ Range(r) = Range(s) \ {a} /\ a \in Range(s) /\ a \in Addr
  BY <1>1, <1>2, TailLink
<1>4. Len(r) = n - 1 /\ \A i \in 1 .. n - 1 : r[i] = s[i + 1]
  BY <1>1
<1>5. links[s[n]] = Null /\ \A i \in 1 .. n - 1 : links[s[i]] = s[i + 1]
  BY <1>1 DEF Linked
<1>6. r = <<>> <=> Len(r) = 0
  BY <1>3, EmptySeq
<1> HIDE DEF n
<1>7. CASE n = 1
  <2>1. r = <<>> /\ links[a] = Null
    BY <1>1, <1>4, <1>5, <1>6, <1>7
  <2>2. Len(<<>>) = 0 /\ 1 .. 0 - 1 = {}
    OBVIOUS
  <2> QED  BY <1>1, <1>2, <1>3, <2>1, <2>2 DEF Linked
<1>8. CASE n # 1
  <2>1. 1 \in 1 .. n - 1 /\ n - 1 \in 1 .. n - 1 /\ (n - 1) + 1 = n /\ n - 1 # 0
    BY <1>2, <1>8
  <2>2. links[a] = r[1] /\ links[r[n - 1]] = Null /\ r # <<>>
    BY <1>1, <1>4, <1>5, <1>6, <2>1
  <2>3. \A i \in 1 .. (n - 1) - 1 : i \in 1 .. n - 1 /\ i + 1 \in 1 .. n - 1
    BY <1>2
  <2>4. \A i \in 1 .. (n - 1) - 1 : links[r[i]] = r[i + 1]
    BY <1>4, <1>5, <2>3
  <2> QED  BY <1>1, <1>2, <1>3, <1>4, <2>2, <2>4 DEF Linked
<1> QED  BY <1>7, <1>8

LEMMA ReverseAt ==
    ASSUME NEW s \in Seq(Addr), NEW r, r = Reverse(s)
    PROVE  /\ r \in Seq(Addr) /\ Len(r) = Len(s) /\ Len(s) \in Nat
           /\ \A i \in 1 .. Len(s) : r[i] = s[(Len(s) - i) + 1]
           /\ Range(r) = Range(s) /\ (IsInjective(s) => IsInjective(r))
<1> DEFINE n == Len(s)
<1>1. n \in Nat /\ DOMAIN s = 1 .. n /\ \A i \in 1 .. n : s[i] \in Addr
  OBVIOUS
<1>2. r = [i \in 1 .. n |-> s[(n - i) + 1]]
  BY DEF Reverse
<1> HIDE DEF n
<1>3. \A i \in 1 .. n : (n - i) + 1 \in 1 .. n /\ (n - ((n - i) + 1)) + 1 = i
  BY <1>1
<1>4. r \in [1 .. n -> Addr] /\ \A i \in 1 .. n : r[i] = s[(n - i) + 1]
  BY <1>1, <1>2, <1>3
<1>5. r \in Seq(Addr) /\ Len(r) = n /\ DOMAIN r = 1 .. n
  BY <1>1, <1>4
<1>6. Range(r) = Range(s)
  <2>1. ASSUME NEW x \in Range(r) PROVE x \in Range(s)
    <3>1. PICK i \in 1 .. n : x = r[i]
      BY <1>5 DEF Range
    <3> QED  BY <1>1, <1>3, <1>4, <3>1 DEF Range
  <2>2. ASSUME NEW x \in Range(s) PROVE x \in Range(r)
    <3>1. PICK i \in 1 .. n : x = s[i]
      BY <1>1 DEF Range
    <3>2. r[(n - i) + 1] = s[i]
      BY <1>3, <1>4
    <3> QED  BY <1>3, <1>5, <3>1, <3>2 DEF Range
  <2> QED  BY <2>1, <2>2
<1>7. ASSUME IsInjective(s) PROVE IsInjective(r)
  <2>1. ASSUME NEW i \in 1 .. n, NEW j \in 1 .. n, r[i] = r[j] PROVE i = j
    <3>1. (n - i) + 1 = (n - j) + 1
      BY <1>1, <1>3, <1>4, <1>7, <2>1 DEF IsInjective
    <3> QED  BY <1>1, <3>1
  <2> QED  BY <1>5, <2>1 DEF IsInjective
<1> QED  BY <1>1, <1>4, <1>5, <1>6, <1>7 DEF n

\* What pop() does to the links of a stack that it has taken.
Turned(links2, links, s) ==
    \A x \in Range(s) : links2[x] = IF x = s[1] THEN Null
                                    ELSE CHOOSE b \in Range(s) : links[b] = x

LEMMA LinkedReverse ==
    ASSUME NEW s, NEW a, NEW links, NEW links2, Linked(s, a, links), s # <<>>,
           Turned(links2, links, s), NEW r, r = Reverse(s)
    PROVE  Linked(r, s[Len(s)], links2)
<1> DEFINE n == Len(s)
<1>1. s \in Seq(Addr) /\ IsInjective(s) /\ n \in Nat /\ n >= 1 /\ DOMAIN s = 1 .. n
  BY EmptySeq DEF Linked
<1>2. links[s[n]] = Null /\ \A i \in 1 .. n - 1 : links[s[i]] = s[i + 1]
  BY DEF Linked
<1>3. /\ r \in Seq(Addr) /\ Len(r) = n /\ IsInjective(r)
      /\ \A i \in 1 .. n : r[i] = s[(n - i) + 1]
  BY <1>1, ReverseAt
<1>4. \A i \in 1 .. n : s[i] \in Range(s) /\ s[i] \in Addr /\ s[i] # Null
  <2>1. \A i \in 1 .. n : s[i] \in Range(s) /\ s[i] \in Addr
    BY <1>1 DEF Range
  <2> QED  BY <2>1, MpscAssumption
<1> HIDE DEF n
<1>5. ASSUME NEW i \in 1 .. n - 1 PROVE links2[s[i + 1]] = s[i]
  <2>1. i \in 1 .. n /\ i + 1 \in 1 .. n /\ 1 \in 1 .. n /\ i + 1 # 1
    BY <1>1
  <2>2. s[i + 1] # s[1]
    BY <1>1, <2>1 DEF IsInjective
  <2>3. ASSUME NEW b \in Range(s), links[b] = s[i + 1] PROVE b = s[i]
    <3>1. PICK k \in 1 .. n : b = s[k]
      BY <1>1 DEF Range
    <3>2. k # n
      BY <1>2, <1>4, <2>1, <2>3, <3>1
    <3>3. k \in 1 .. n - 1 /\ k + 1 \in 1 .. n
      BY <1>1, <3>2
    <3>4. s[k + 1] = s[i + 1]
      BY <1>2, <2>3, <3>1, <3>3
    <3>5. k + 1 = i + 1
      BY <1>1, <2>1, <3>3, <3>4 DEF IsInjective
    <3> QED  BY <2>1, <3>1, <3>5
  <2>4. s[i] \in Range(s) /\ links[s[i]] = s[i + 1]
    BY <1>2, <1>4, <2>1
  <2>5. (CHOOSE b \in Range(s) : links[b] = s[i + 1]) = s[i]
    BY <2>3, <2>4
  <2> QED  BY <1>4, <2>1, <2>2, <2>5 DEF Turned
<1>6. r # <<>>
  BY <1>1, <1>3, EmptySeq
<1>7. r[1] = s[n] /\ links2[r[n]] = Null
  <2>1. 1 \in 1 .. n /\ n \in 1 .. n /\ (n - 1) + 1 = n /\ (n - n) + 1 = 1
    BY <1>1
  <2>2. r[1] = s[n] /\ r[n] = s[1]
    BY <1>3, <2>1
  <2> QED  BY <1>4, <2>1, <2>2 DEF Turned
<1>8. ASSUME NEW i \in 1 .. n - 1 PROVE links2[r[i]] = r[i + 1]
  <2>1. i \in 1 .. n /\ i + 1 \in 1 .. n /\ (n - (i + 1)) + 1 \in 1 .. n - 1
        /\ ((n - (i + 1)) + 1) + 1 = (n - i) + 1
    BY <1>1
  <2> QED  BY <1>3, <1>5, <2>1
<1> QED  BY <1>3, <1>6, <1>7, <1>8 DEF Linked, n

(***************************************************************************)
(* The steps.                                                              *)
(***************************************************************************)
LEMMA MpscInitInv ==
    ASSUME MpscInit PROVE MpscInv
<1>1. /\ head = Null /\ out = Null /\ taken = Null
      /\ next = [a \in Addr |-> Null] /\ value = [a \in Addr |-> Null]
      /\ pipe = 0 /\ ppc = [p \in Pusher |-> "idle"] /\ node = [p \in Pusher |-> Null]
      /\ pushes = [p \in Pusher |-> 0] /\ cpc = "read" /\ got = <<>>
  BY DEF MpscInit
<1>2. MpscTypeOK
  BY <1>1, MpscAssumption DEF MpscTypeOK
<1>3. NodeInv /\ TakeInv /\ pushes \in [Pusher -> Nat]
  BY <1>1 DEF NodeInv, TakeInv
<1>4. HeapInv(<<>>, <<>>)
  <2>1. <<>> \in Seq(Addr) /\ Range(<<>>) = {} /\ IsInjective(<<>>)
    BY EmptyLink
  <2>2. Len(<<>>) = 0 /\ 1 .. 0 - 1 = {}
    OBVIOUS
  <2>3. Linked(<<>>, Null, next)
    BY <2>1, <2>2 DEF Linked
  <2>4. Private = {} /\ {a \in Addr : value[a] # Null} = {}
    BY <1>1 DEF Private
  <2> QED  BY <1>1, <2>1, <2>3, <2>4 DEF HeapInv
<1>5. <<>> \in Seq(Addr)
  BY EmptyLink
<1> QED  BY <1>2, <1>3, <1>4, <1>5 DEF MpscInv

\* The addresses of a producer whose node is not pushed yet.
LEMMA PrivateIs ==
    \A x : x \in Private <=> \E p \in Pusher : ppc[p] = "cas" /\ node[p] = x
  BY DEF Private

LEMMA NewNodeKeeps ==
    ASSUME MpscInv, NEW p \in Pusher, NewNode(p),
           NEW stack \in Seq(Addr), NEW list \in Seq(Addr), HeapInv(stack, list)
    PROVE  /\ MpscInv' /\ HeapInv(stack, list)' /\ got' = got
           /\ \A x \in Range(stack) \cup Range(list) : value'[x] = value[x]
<1>t. MpscTypeOK /\ NodeInv /\ TakeInv /\ pushes \in [Pusher -> Nat]
  BY DEF MpscInv
<1>1. PICK a \in Addr : /\ value[a] = Null
                        /\ value' = [value EXCEPT ![a] = <<p, pushes[p] + 1>>]
                        /\ next' = [next EXCEPT ![a] = head]
                        /\ node' = [node EXCEPT ![p] = a]
  BY DEF NewNode
<1>2. /\ ppc[p] = "idle" /\ pushes[p] < MaxPush[p] /\ pushes' = [pushes EXCEPT ![p] = @ + 1]
      /\ ppc' = [ppc EXCEPT ![p] = "cas"]
      /\ UNCHANGED <<head, out, taken, pipe, cpc, got>>
  BY DEF NewNode
<1> DEFINE v == <<p, pushes[p] + 1>>
<1>3. v \in Value /\ v # Null
  <2>1. pushes[p] + 1 \in 1 .. MaxPush[p]
    <3>1. pushes[p] \in Nat /\ MaxPush[p] \in Nat
      BY <1>t, MpscAssumption
    <3> QED  BY <1>2, <3>1
  <2>2. v \in Value
    BY <2>1 DEF Value
  <2> QED  BY <2>2, MpscAssumption
<1> HIDE DEF v
<1>4. /\ value \in [Addr -> Value \cup {Null}] /\ next \in [Addr -> Addr \cup {Null}]
      /\ node \in [Pusher -> Addr \cup {Null}] /\ ppc \in [Pusher -> {"idle", "cas", "write"}]
      /\ head \in Addr \cup {Null}
  BY <1>t DEF MpscTypeOK
<1>5. /\ value' \in [Addr -> Value \cup {Null}] /\ value'[a] = v
      /\ \A b \in Addr : b # a => value'[b] = value[b]
  BY <1>1, <1>3, <1>4 DEF v
<1>6. /\ next' \in [Addr -> Addr \cup {Null}] /\ next'[a] = head
      /\ \A b \in Addr : b # a => next'[b] = next[b]
  BY <1>1, <1>4
<1>7. /\ node' \in [Pusher -> Addr \cup {Null}] /\ node'[p] = a
      /\ \A r \in Pusher : r # p => node'[r] = node[r]
  BY <1>1, <1>4
<1>8. /\ ppc' \in [Pusher -> {"idle", "cas", "write"}] /\ ppc'[p] = "cas"
      /\ \A r \in Pusher : r # p => ppc'[r] = ppc[r]
  BY <1>2, <1>4
<1>9. MpscTypeOK' /\ pushes' \in [Pusher -> Nat]
  BY <1>t, <1>2, <1>5, <1>6, <1>7, <1>8 DEF MpscTypeOK
<1>10. a \notin Private /\ a \notin Range(stack) /\ a \notin Range(list)
  BY <1>1 DEF HeapInv
<1>11. Private' = Private \cup {a}
  <2>1. \A x : x \in Private' <=> \E r \in Pusher : ppc'[r] = "cas" /\ node'[r] = x
    BY DEF Private
  <2>2. \A x : x \in Private <=> \E r \in Pusher : ppc[r] = "cas" /\ node[r] = x
    BY PrivateIs
  <2>3. ASSUME NEW x \in Private' PROVE x \in Private \cup {a}
    BY <1>7, <1>8, <2>1, <2>2, <2>3
  <2>4. ASSUME NEW x \in Private PROVE x \in Private'
    <3>1. PICK r \in Pusher : ppc[r] = "cas" /\ node[r] = x
      BY <2>2, <2>4
    <3>2. r # p
      BY <1>2, <3>1
    <3> QED  BY <1>7, <1>8, <2>1, <3>1, <3>2
  <2>5. a \in Private'
    BY <1>7, <1>8, <2>1
  <2> QED  BY <2>3, <2>4, <2>5
<1>12. NodeInv'
  <2>1. \A r \in Pusher : ppc'[r] = "cas" => node'[r] \in Addr
    BY <1>t, <1>7, <1>8 DEF NodeInv
  <2>2. ASSUME NEW r \in Pusher, r # p, ppc'[r] = "cas" PROVE node'[r] # a
    BY <1>7, <1>8, <1>10, <2>2, PrivateIs
  <2>3. \A r, s \in Pusher : ppc'[r] = "cas" /\ ppc'[s] = "cas" /\ node'[r] = node'[s] => r = s
    BY <1>t, <1>7, <1>8, <2>2 DEF NodeInv
  <2> QED  BY <2>1, <2>3 DEF NodeInv
<1>13. HeapInv(stack, list)'
  <2>1. Linked(stack, head, next) /\ Linked(list, out, next)
    BY DEF HeapInv
  <2>2. Range(stack) \subseteq Addr /\ Range(list) \subseteq Addr
    BY DEF Range
  <2>3. \A x \in Range(stack) : next'[x] = next[x]
    BY <1>6, <1>10, <2>2
  <2>4. \A x \in Range(list) : next'[x] = next[x]
    BY <1>6, <1>10, <2>2
  <2>5. Linked(stack, head', next') /\ Linked(list, out', next')
    BY <1>2, <2>1, <2>3, <2>4, LinkedSame
  <2>6. {b \in Addr : value'[b] # Null} = {b \in Addr : value[b] # Null} \cup {a}
    BY <1>3, <1>5
  <2> QED  BY <1>10, <1>11, <2>5, <2>6 DEF HeapInv
<1>14. TakeInv'
  BY <1>t, <1>2 DEF TakeInv
<1>15. \A x \in Range(stack) \cup Range(list) : value'[x] = value[x]
  <2>1. Range(stack) \subseteq Addr /\ Range(list) \subseteq Addr
    BY DEF Range
  <2> QED  BY <1>5, <1>10, <2>1
<1> QED  BY <1>2, <1>9, <1>12, <1>13, <1>14, <1>15 DEF MpscInv

LEMMA PushCasKeeps ==
    ASSUME MpscInv, NEW p \in Pusher, PushCas(p),
           NEW stack \in Seq(Addr), NEW list \in Seq(Addr), HeapInv(stack, list),
           NEW x, x = node[p], NEW r, OnTop(r, x, stack)
    PROVE  /\ MpscInv' /\ HeapInv(r, list)' /\ got' = got /\ value' = value
           /\ x \in Addr /\ value[x] \in Value
<1>t. MpscTypeOK /\ NodeInv /\ TakeInv /\ pushes \in [Pusher -> Nat]
  BY DEF MpscInv
<1>1. /\ ppc[p] = "cas" /\ head = next[node[p]] /\ head' = node[p]
      /\ ppc' = [ppc EXCEPT ![p] = "write"]
      /\ UNCHANGED <<out, taken, next, value, pipe, node, pushes, cpc, got>>
  BY DEF PushCas
<1>2. x \in Addr /\ x = node[p]
  BY <1>t, <1>1 DEF NodeInv
<1>3. x \in Private /\ x \notin Range(stack) /\ x \notin Range(list) /\ x # Null
  BY <1>1, <1>2, PrivateIs, MpscAssumption DEF HeapInv
<1>4. Linked(stack, head, next) /\ Linked(list, out, next)
  BY DEF HeapInv
<1>5. Linked(r, x, next) /\ Range(r) = {x} \cup Range(stack)
  <2>1. next[x] = head
    BY <1>1, <1>2
  <2>2. x \in Addr /\ x \notin Range(stack) /\ Linked(stack, head, next)
    BY <1>2, <1>3, <1>4
  <2> QED  BY <2>1, <2>2, LinkedPush
<1>6. /\ ppc' \in [Pusher -> {"idle", "cas", "write"}] /\ ppc'[p] = "write"
      /\ \A s \in Pusher : s # p => ppc'[s] = ppc[s]
  BY <1>t, <1>1 DEF MpscTypeOK
<1>7. Private' = Private \ {x}
  <2>1. \A y : y \in Private' <=> \E s \in Pusher : ppc'[s] = "cas" /\ node[s] = y
    BY <1>1 DEF Private
  <2>2. \A y : y \in Private <=> \E s \in Pusher : ppc[s] = "cas" /\ node[s] = y
    BY PrivateIs
  <2>3. ASSUME NEW y \in Private' PROVE y \in Private \ {x}
    <3>1. PICK s \in Pusher : ppc'[s] = "cas" /\ node[s] = y
      BY <2>1, <2>3
    <3>2. s # p /\ ppc[s] = "cas"
      BY <1>6, <3>1
    <3>3. y # x
      BY <1>t, <1>1, <1>2, <3>1, <3>2 DEF NodeInv
    <3> QED  BY <2>2, <3>1, <3>2, <3>3
  <2>4. ASSUME NEW y \in Private, y # x PROVE y \in Private'
    <3>1. PICK s \in Pusher : ppc[s] = "cas" /\ node[s] = y
      BY <2>2, <2>4
    <3>2. s # p
      BY <1>2, <2>4, <3>1
    <3> QED  BY <1>6, <2>1, <3>1, <3>2
  <2> QED  BY <2>3, <2>4
<1>8. MpscTypeOK' /\ pushes' \in [Pusher -> Nat]
  BY <1>t, <1>1, <1>2, <1>6 DEF MpscTypeOK
<1>9. NodeInv'
  <2>1. \A s \in Pusher : ppc'[s] = "cas" => ppc[s] = "cas"
    BY <1>6
  <2> QED  BY <1>t, <1>1, <2>1 DEF NodeInv
<1>10. TakeInv'
  BY <1>t, <1>1, <1>2, <1>3 DEF TakeInv
<1>11. HeapInv(r, list)'
  <2>1. Linked(r, head', next') /\ Linked(list, out', next')
    BY <1>1, <1>2, <1>4, <1>5
  <2>2. {a \in Addr : value'[a] # Null} = {a \in Addr : value[a] # Null}
    BY <1>1
  <2> QED  BY <1>3, <1>5, <1>7, <2>1, <2>2 DEF HeapInv
<1>12. r \in Seq(Addr)
  BY <1>5 DEF Linked
<1>13. MpscInv'
  BY <1>8, <1>9, <1>10, <1>11, <1>12 DEF MpscInv
<1>14. value[x] \in Value
  <2>1. value[x] # Null
    BY <1>2, <1>3 DEF HeapInv
  <2> QED  BY <1>t, <1>2, <2>1 DEF MpscTypeOK
<1> QED  BY <1>1, <1>2, <1>11, <1>13, <1>14

LEMMA PushRetryKeeps ==
    ASSUME MpscInv, NEW p \in Pusher, PushRetry(p),
           NEW stack \in Seq(Addr), NEW list \in Seq(Addr), HeapInv(stack, list)
    PROVE  MpscInv' /\ HeapInv(stack, list)' /\ got' = got /\ value' = value
<1>t. MpscTypeOK /\ NodeInv /\ TakeInv /\ pushes \in [Pusher -> Nat]
  BY DEF MpscInv
<1>1. /\ ppc[p] = "cas" /\ next' = [next EXCEPT ![node[p]] = head]
      /\ UNCHANGED <<head, out, taken, value, pipe, ppc, node, pushes, cpc, got>>
  BY DEF PushRetry
<1>2. PICK x \in Addr : x = node[p]
  BY <1>t, <1>1 DEF NodeInv
<1>3. next \in [Addr -> Addr \cup {Null}] /\ head \in Addr \cup {Null}
  BY <1>t DEF MpscTypeOK
<1>4. /\ next' \in [Addr -> Addr \cup {Null}]
      /\ \A b \in Addr : b # x => next'[b] = next[b]
  BY <1>1, <1>2, <1>3
<1>5. x \notin Range(stack) /\ x \notin Range(list)
  BY <1>1, <1>2, PrivateIs DEF HeapInv
<1>6. Linked(stack, head, next) /\ Linked(list, out, next)
  BY DEF HeapInv
<1>7. Range(stack) \subseteq Addr /\ Range(list) \subseteq Addr
  BY DEF Range
<1>8. \A y \in Range(stack) : next'[y] = next[y]
  BY <1>4, <1>5, <1>7
<1>9. \A y \in Range(list) : next'[y] = next[y]
  BY <1>4, <1>5, <1>7
<1>10. Linked(stack, head', next') /\ Linked(list, out', next')
  BY <1>1, <1>6, <1>8, <1>9, LinkedSame
<1>11. Private' = Private
  BY <1>1 DEF Private
<1>12. HeapInv(stack, list)'
  <2>1. {a \in Addr : value'[a] # Null} = {a \in Addr : value[a] # Null}
    BY <1>1
  <2> QED  BY <1>10, <1>11, <2>1 DEF HeapInv
<1>13. MpscTypeOK' /\ NodeInv' /\ TakeInv' /\ pushes' \in [Pusher -> Nat]
  BY <1>t, <1>1, <1>4 DEF MpscTypeOK, NodeInv, TakeInv
<1> QED  BY <1>1, <1>12, <1>13 DEF MpscInv

\* The lists stay as they are.
LEMMA HeapSame ==
    ASSUME NEW stack, NEW list, HeapInv(stack, list), Private' = Private,
           UNCHANGED <<head, out, next, value>>
    PROVE  HeapInv(stack, list)'
<1>1. {a \in Addr : value'[a] # Null} = {a \in Addr : value[a] # Null}
  OBVIOUS
<1> QED  BY <1>1 DEF HeapInv

LEMMA WritePipeKeeps ==
    ASSUME MpscInv, NEW p \in Pusher, WritePipe(p),
           NEW stack \in Seq(Addr), NEW list \in Seq(Addr), HeapInv(stack, list)
    PROVE  MpscInv' /\ HeapInv(stack, list)' /\ got' = got /\ value' = value
<1>t. MpscTypeOK /\ NodeInv /\ TakeInv /\ pushes \in [Pusher -> Nat]
  BY DEF MpscInv
<1>1. /\ ppc[p] = "write" /\ pipe' = IF pipe < PipeCap THEN pipe + 1 ELSE pipe
      /\ ppc' = [ppc EXCEPT ![p] = "idle"] /\ node' = [node EXCEPT ![p] = Null]
      /\ UNCHANGED <<head, out, taken, next, value, pushes, cpc, got>>
  BY DEF WritePipe, heap
<1>2. /\ ppc \in [Pusher -> {"idle", "cas", "write"}] /\ node \in [Pusher -> Addr \cup {Null}]
      /\ pipe \in 0 .. PipeCap
  BY <1>t DEF MpscTypeOK
<1>3. /\ ppc' \in [Pusher -> {"idle", "cas", "write"}] /\ ppc'[p] = "idle"
      /\ \A r \in Pusher : r # p => ppc'[r] = ppc[r]
  BY <1>1, <1>2
<1>4. /\ node' \in [Pusher -> Addr \cup {Null}]
      /\ \A r \in Pusher : r # p => node'[r] = node[r]
  BY <1>1, <1>2
<1>5. pipe' \in 0 .. PipeCap
  BY <1>1, <1>2, MpscAssumption
<1>6. \A r \in Pusher : /\ ppc'[r] = "cas" <=> ppc[r] = "cas"
                        /\ ppc[r] = "cas" => node'[r] = node[r]
  BY <1>1, <1>3, <1>4
<1>7. Private' = Private
  <2>1. \A x : x \in Private' <=> \E r \in Pusher : ppc'[r] = "cas" /\ node'[r] = x
    BY DEF Private
  <2>2. \A x : x \in Private' <=> x \in Private
    BY <1>6, <2>1, PrivateIs
  <2> QED  BY <2>2
<1>8. HeapInv(stack, list)'
  BY <1>1, <1>7, HeapSame
<1>9. MpscTypeOK' /\ TakeInv' /\ pushes' \in [Pusher -> Nat]
  BY <1>t, <1>1, <1>3, <1>4, <1>5 DEF MpscTypeOK, TakeInv
<1>10. NodeInv'
  BY <1>t, <1>6 DEF NodeInv
<1> QED  BY <1>1, <1>8, <1>9, <1>10 DEF MpscInv

\* Steps of the consumer that leave the lists as they are.
LEMMA LooksKeep ==
    ASSUME MpscInv, ReadPipe \/ PopEmpty \/ PopLoad \/ PopRetry,
           NEW stack \in Seq(Addr), NEW list \in Seq(Addr), HeapInv(stack, list)
    PROVE  MpscInv' /\ HeapInv(stack, list)' /\ got' = got /\ value' = value
<1>t. MpscTypeOK /\ NodeInv /\ TakeInv /\ pushes \in [Pusher -> Nat]
  BY DEF MpscInv
<1>1. UNCHANGED <<head, out, next, value, ppc, node, pushes, got>>
  BY DEF ReadPipe, PopEmpty, PopLoad, PopRetry, heap
<1>2. pipe \in 0 .. PipeCap /\ taken \in Addr \cup {Null} /\ head \in Addr \cup {Null}
  BY <1>t DEF MpscTypeOK
<1>3. pipe' \in 0 .. PipeCap
  <2>1. pipe' = pipe \/ pipe' = 0 \/ (pipe' = pipe - ReadMax /\ pipe > ReadMax)
    BY DEF ReadPipe, PopEmpty, PopLoad, PopRetry
  <2> QED  BY <1>2, <2>1, MpscAssumption
<1>4. taken' \in Addr \cup {Null} /\ cpc' \in {"read", "pop", "take"} /\ TakeInv'
  BY <1>t, <1>2 DEF ReadPipe, PopEmpty, PopLoad, PopRetry, heap, TakeInv
<1>5. MpscTypeOK' /\ NodeInv' /\ pushes' \in [Pusher -> Nat]
  BY <1>t, <1>1, <1>3, <1>4 DEF MpscTypeOK, NodeInv
<1>6. Private' = Private
  BY <1>1 DEF Private
<1>7. HeapInv(stack, list)'
  BY <1>1, <1>6, HeapSame
<1> QED  BY <1>1, <1>4, <1>5, <1>7 DEF MpscInv

LEMMA PopNextKeeps ==
    ASSUME MpscInv, PopNext,
           NEW stack \in Seq(Addr), NEW list \in Seq(Addr), HeapInv(stack, list),
           NEW r, r = Tail(list)
    PROVE  /\ MpscInv' /\ HeapInv(stack, r)' /\ r \in Seq(Addr)
           /\ list # <<>> /\ got' = Append(got, value[Head(list)])
           /\ \A x \in Range(stack) \cup Range(r) : value'[x] = value[x]
<1>t. MpscTypeOK /\ NodeInv /\ TakeInv /\ pushes \in [Pusher -> Nat]
  BY DEF MpscInv
<1>1. /\ cpc = "pop" /\ out # Null /\ got' = Append(got, value[out])
      /\ value' = [value EXCEPT ![out] = Null] /\ out' = next[out]
      /\ UNCHANGED <<head, taken, next, pipe, ppc, node, pushes, cpc>>
  BY DEF PopNext
<1>2. PICK a : a = out
  OBVIOUS
<1>3. Linked(stack, head, next) /\ Linked(list, a, next) /\ a # Null
  BY <1>1, <1>2 DEF HeapInv
<1>4. /\ list # <<>> /\ a = Head(list) /\ a \in Range(list) /\ a \in Addr
      /\ Linked(r, next[a], next) /\ Range(r) = Range(list) \ {a}
  BY <1>3, LinkedPop
<1>5. value \in [Addr -> Value \cup {Null}] /\ next \in [Addr -> Addr \cup {Null}]
  BY <1>t DEF MpscTypeOK
<1>6. /\ value' \in [Addr -> Value \cup {Null}] /\ value'[a] = Null
      /\ \A b \in Addr : b # a => value'[b] = value[b]
  BY <1>1, <1>2, <1>4, <1>5
<1>7. value[a] \in Value
  <2>1. value[a] # Null
    BY <1>4 DEF HeapInv
  <2> QED  BY <1>4, <1>5, <2>1
<1>8. MpscTypeOK'
  <2>1. got' \in Seq(Value)
    BY <1>t, <1>1, <1>2, <1>7 DEF MpscTypeOK
  <2>2. out' \in Addr \cup {Null}
    BY <1>1, <1>2, <1>4, <1>5
  <2> QED  BY <1>t, <1>1, <1>6, <2>1, <2>2 DEF MpscTypeOK
<1>9. NodeInv' /\ TakeInv' /\ pushes' \in [Pusher -> Nat]
  BY <1>t, <1>1 DEF NodeInv, TakeInv
<1>10. Private' = Private
  BY <1>1 DEF Private
<1>11. HeapInv(stack, r)'
  <2>1. Linked(stack, head', next') /\ Linked(r, out', next')
    BY <1>1, <1>2, <1>3, <1>4
  <2>2. {b \in Addr : value'[b] # Null} = {b \in Addr : value[b] # Null} \ {a}
    BY <1>6
  <2>3. a \notin Range(stack) /\ a \notin Private
    BY <1>4 DEF HeapInv
  <2> QED  BY <1>4, <1>10, <2>1, <2>2, <2>3 DEF HeapInv
<1>12. \A x \in Range(stack) \cup Range(r) : value'[x] = value[x]
  <2>1. Range(stack) \subseteq Addr /\ Range(list) \subseteq Addr
    BY DEF Range
  <2>2. a \notin Range(stack)
    BY <1>4 DEF HeapInv
  <2> QED  BY <1>4, <1>6, <2>1, <2>2
<1>13. r \in Seq(Addr)
  BY <1>4 DEF Linked
<1> QED  BY <1>1, <1>2, <1>4, <1>8, <1>9, <1>11, <1>12, <1>13 DEF MpscInv

LEMMA PopTakeKeeps ==
    ASSUME MpscInv, PopTake,
           NEW stack \in Seq(Addr), NEW list \in Seq(Addr), HeapInv(stack, list),
           NEW r, r = Reverse(stack)
    PROVE  /\ MpscInv' /\ HeapInv(<<>>, r)' /\ r \in Seq(Addr) /\ list = <<>>
           /\ got' = got /\ value' = value
<1>t. MpscTypeOK /\ NodeInv /\ TakeInv /\ pushes \in [Pusher -> Nat]
  BY DEF MpscInv
<1>1. /\ cpc = "take" /\ head = taken /\ head' = Null /\ taken' = Null /\ cpc' = "pop"
      /\ UNCHANGED <<value, pipe, ppc, node, pushes, got>>
  BY DEF PopTake
<1>2. out = Null /\ head # Null
  BY <1>t, <1>1 DEF TakeInv
<1>3. Linked(stack, head, next) /\ Linked(list, out, next)
  BY DEF HeapInv
<1>4. Chain(next, taken) = stack
  BY <1>1, <1>3, ChainIs
<1>5. /\ next' = [a \in Addr |-> IF a \notin Range(stack) THEN next[a]
                                 ELSE IF a = stack[1] THEN Null
                                 ELSE CHOOSE b \in Range(stack) : next[b] = a]
      /\ out' = stack[Len(stack)]
  BY <1>4 DEF PopTake
<1>6. stack # <<>>
  BY <1>2, <1>3 DEF Linked
<1>7. list = <<>>
  <2>1. ASSUME list # <<>> PROVE FALSE
    <3>1. list[1] = Null /\ list[1] \in Addr
      BY <1>2, <1>3, <2>1, EmptySeq DEF Linked
    <3> QED  BY <3>1, MpscAssumption
  <2> QED  BY <2>1
<1>8. Range(stack) \subseteq Addr
  BY DEF Range
<1>9. Turned(next', next, stack)
  BY <1>5, <1>8 DEF Turned
<1>10. PICK top : top = stack[Len(stack)]
  OBVIOUS
<1>11. Linked(r, top, next') /\ r \in Seq(Addr) /\ Range(r) = Range(stack)
  <2>1. Linked(r, stack[Len(stack)], next')
    BY <1>3, <1>6, <1>9, LinkedReverse
  <2>2. r \in Seq(Addr) /\ Range(r) = Range(stack)
    BY ReverseAt
  <2> QED  BY <1>10, <2>1, <2>2
<1>12. next' \in [Addr -> Addr \cup {Null}] /\ out' \in Addr
  <2>1. out' \in Addr
    BY <1>5, <1>6, EmptySeq
  <2>2. ASSUME NEW a \in Addr PROVE next'[a] \in Addr \cup {Null}
    <3>1. CASE a \notin Range(stack)
      BY <1>t, <1>5, <3>1 DEF MpscTypeOK
    <3>2. CASE a \in Range(stack)
      <4>1. PICK j \in DOMAIN r : r[j] = a
        BY <1>11, <3>2 DEF Range
      <4>2. Len(r) \in Nat /\ j \in 1 .. Len(r) /\ r # <<>>
        BY <1>11, <4>1, EmptySeq
      <4>3. CASE j = Len(r)
        BY <1>11, <4>1, <4>2, <4>3 DEF Linked
      <4>4. CASE j # Len(r)
        <5>1. j \in 1 .. Len(r) - 1 /\ j + 1 \in 1 .. Len(r)
          BY <4>2, <4>4
        <5>2. next'[a] = r[j + 1]
          BY <1>11, <4>1, <5>1 DEF Linked
        <5> QED  BY <1>11, <5>1, <5>2
      <4> QED  BY <4>3, <4>4
    <3> QED  BY <3>1, <3>2
  <2> QED  BY <1>5, <2>1, <2>2
<1>13. MpscTypeOK' /\ NodeInv' /\ TakeInv' /\ pushes' \in [Pusher -> Nat]
  BY <1>t, <1>1, <1>12 DEF MpscTypeOK, NodeInv, TakeInv
<1>14. Private' = Private
  BY <1>1 DEF Private
<1>15. <<>> \in Seq(Addr) /\ Range(<<>>) = {} /\ Linked(<<>>, Null, next')
  <2>1. <<>> \in Seq(Addr) /\ Range(<<>>) = {} /\ IsInjective(<<>>)
    BY EmptyLink
  <2>2. Len(<<>>) = 0 /\ 1 .. 0 - 1 = {}
    OBVIOUS
  <2> QED  BY <2>1, <2>2 DEF Linked
<1>16. HeapInv(<<>>, r)'
  <2>1. Linked(<<>>, head', next') /\ Linked(r, out', next')
    BY <1>1, <1>5, <1>10, <1>11, <1>15
  <2>2. {a \in Addr : value'[a] # Null} = {a \in Addr : value[a] # Null}
    BY <1>1
  <2>3. Range(list) = {}
    BY <1>7, <1>15
  <2> QED  BY <1>11, <1>14, <1>15, <2>1, <2>2, <2>3 DEF HeapInv
<1> QED  BY <1>1, <1>7, <1>11, <1>13, <1>15, <1>16 DEF MpscInv

\* The invariant after a step, whatever it does.
LEMMA MpscStep ==
    ASSUME MpscInv, MpscNext PROVE MpscInv'
<1>0. PICK stack \in Seq(Addr), list \in Seq(Addr) : HeapInv(stack, list)
  BY DEF MpscInv
<1>1. ASSUME NEW p \in Pusher, MpscPush(p) PROVE MpscInv'
  <2>1. CASE NewNode(p)
    BY <1>0, <2>1, NewNodeKeeps
  <2>2. CASE PushCas(p)
    <3>1. PICK x, r : x = node[p] /\ r = <<x>> \o stack
      OBVIOUS
    <3>2. OnTop(r, x, stack)
      BY <3>1 DEF OnTop
    <3> QED  BY <1>0, <2>2, <3>1, <3>2, PushCasKeeps
  <2>3. CASE PushRetry(p)
    BY <1>0, <2>3, PushRetryKeeps
  <2>4. CASE WritePipe(p)
    BY <1>0, <2>4, WritePipeKeeps
  <2> QED  BY <1>1, <2>1, <2>2, <2>3, <2>4 DEF MpscPush
<1>2. CASE PopNext
  <2>1. PICK r : r = Tail(list)
    OBVIOUS
  <2> QED  BY <1>0, <1>2, <2>1, PopNextKeeps
<1>3. CASE PopTake
  <2>1. PICK r : r = Reverse(stack)
    OBVIOUS
  <2> QED  BY <1>0, <1>3, <2>1, PopTakeKeeps
<1>4. CASE ReadPipe \/ PopEmpty \/ PopLoad \/ PopRetry
  BY <1>0, <1>4, LooksKeep
<1> QED  BY <1>1, <1>2, <1>3, <1>4 DEF MpscNext, MpscConsume

LEMMA MpscSame ==
    ASSUME MpscInv, UNCHANGED mpscVars PROVE MpscInv'
<1>1. UNCHANGED <<head, out, taken, next, value, pipe, ppc, node, pushes, cpc, got>>
  BY DEF mpscVars, heap
<1>2. PICK stack \in Seq(Addr), list \in Seq(Addr) : HeapInv(stack, list)
  BY DEF MpscInv
<1>3. Private' = Private
  BY <1>1 DEF Private
<1>4. HeapInv(stack, list)'
  BY <1>1, <1>2, <1>3, HeapSame
<1>5. MpscTypeOK' /\ pushes' \in [Pusher -> Nat] /\ NodeInv' /\ TakeInv'
  BY <1>1 DEF MpscInv, MpscTypeOK, NodeInv, TakeInv
<1> QED  BY <1>4, <1>5 DEF MpscInv

LEMMA MpscNodes ==
    ASSUME MpscInv PROVE NodesAccounted
<1>1. PICK stack \in Seq(Addr), list \in Seq(Addr) : HeapInv(stack, list)
  BY DEF MpscInv
<1>2. Chain(next, head) = stack /\ Chain(next, out) = list
  BY <1>1, ChainIs DEF HeapInv
<1>3. MpscTypeOK
  BY DEF MpscInv
<1> QED  BY <1>1, <1>2, <1>3 DEF NodesAccounted, HeapInv, Private

\* The inductive invariant of the lock-free queue holds throughout.
THEOREM MpscInvariant == MpscSpec => []MpscInv
<1>1. MpscInit => MpscInv
  BY MpscInitInv
<1>2. MpscInv /\ [MpscNext]_mpscVars => MpscInv'
  BY MpscStep, MpscSame
<1> QED  BY <1>1, <1>2, PTL DEF MpscSpec

-----------------------------------------------------------------------------
(* The refinement.                                                         *)

\* The abstract queue: the values of nodes, in the order of pop().
Values(nodes, v) == [i \in DOMAIN nodes |-> v[nodes[i]]]

Waiting == Values(Chain(next, out) \o Reverse(Chain(next, head)), value)

LEMMA ValuesSame ==
    ASSUME NEW nodes \in Seq(Addr), NEW v, NEW v2, \A x \in Range(nodes) : v2[x] = v[x]
    PROVE  Values(nodes, v2) = Values(nodes, v)
<1>1. \A i \in DOMAIN nodes : nodes[i] \in Range(nodes)
  BY DEF Range
<1> QED  BY <1>1 DEF Values

LEMMA ValuesAppend ==
    ASSUME NEW nodes \in Seq(Addr), NEW v, NEW x \in Addr, NEW W, v[x] \in W,
           \A y \in Range(nodes) : v[y] \in W
    PROVE  Values(Append(nodes, x), v) = Append(Values(nodes, v), v[x])
<1> DEFINE n == Len(nodes)
           a == Append(nodes, x)
           q == Values(nodes, v)
<1>1. /\ a \in Seq(Addr) /\ n \in Nat /\ Len(a) = n + 1 /\ a[n + 1] = x
      /\ \A i \in 1 .. n : a[i] = nodes[i]
  BY AppendAt
<1>2. DOMAIN a = 1 .. n + 1 /\ DOMAIN nodes = 1 .. n
  BY <1>1
<1>3. \A i \in 1 .. n : v[nodes[i]] \in W
  BY <1>2 DEF Range
<1> HIDE DEF a, n
<1>4. q = [i \in 1 .. n |-> v[nodes[i]]]
  BY <1>2 DEF Values
<1>5. q \in Seq(W) /\ Len(q) = n /\ \A i \in 1 .. n : q[i] = v[nodes[i]]
  BY <1>1, <1>3, <1>4
<1> HIDE DEF q
<1> DEFINE l == Append(q, v[x])
           r == Values(a, v)
<1>6. /\ l \in Seq(W) /\ Len(l) = n + 1 /\ l[n + 1] = v[x] /\ \A i \in 1 .. n : l[i] = q[i]
  BY <1>5
<1>7. r = [i \in 1 .. n + 1 |-> v[a[i]]]
  BY <1>2 DEF Values
<1> HIDE DEF l, r
<1>8. \A i \in 1 .. n + 1 : (i \in 1 .. n \/ i = n + 1) /\ n + 1 \in Nat
  BY <1>1
<1>9. \A i \in 1 .. n + 1 : v[a[i]] = l[i]
  BY <1>1, <1>5, <1>6, <1>8
<1>10. l = [i \in 1 .. n + 1 |-> l[i]]
  BY <1>6
<1> QED  BY <1>7, <1>9, <1>10 DEF l, r, a, q

LEMMA ValuesTail ==
    ASSUME NEW nodes \in Seq(Addr), nodes # <<>>, NEW v, NEW W,
           \A y \in Range(nodes) : v[y] \in W
    PROVE  /\ Values(nodes, v) # <<>> /\ Head(Values(nodes, v)) = v[Head(nodes)]
           /\ Values(Tail(nodes), v) = Tail(Values(nodes, v))
<1> DEFINE n == Len(nodes)
           a == Tail(nodes)
           q == Values(nodes, v)
<1>1. /\ n \in Nat /\ n >= 1 /\ DOMAIN nodes = 1 .. n /\ Head(nodes) = nodes[1]
      /\ a \in Seq(Addr) /\ Len(a) = n - 1 /\ \A i \in 1 .. n - 1 : a[i] = nodes[i + 1]
  BY EmptySeq
<1>2. DOMAIN a = 1 .. n - 1
  BY <1>1
<1>3. \A i \in 1 .. n : v[nodes[i]] \in W
  BY <1>1 DEF Range
<1> HIDE DEF a, n
<1>4. q = [i \in 1 .. n |-> v[nodes[i]]]
  BY <1>1 DEF Values
<1>5. q \in Seq(W) /\ Len(q) = n /\ \A i \in 1 .. n : q[i] = v[nodes[i]]
  BY <1>1, <1>3, <1>4
<1> HIDE DEF q
<1>6. q # <<>> /\ Head(q) = v[Head(nodes)]
  BY <1>1, <1>5, EmptySeq
<1> DEFINE l == Tail(q)
           r == Values(a, v)
<1>7. l \in Seq(W) /\ Len(l) = n - 1 /\ \A i \in 1 .. n - 1 : l[i] = q[i + 1]
  BY <1>5, <1>6
<1>8. r = [i \in 1 .. n - 1 |-> v[a[i]]]
  BY <1>2 DEF Values
<1> HIDE DEF l, r
<1>9. \A i \in 1 .. n - 1 : i + 1 \in 1 .. n
  BY <1>1
<1>10. \A i \in 1 .. n - 1 : v[a[i]] = l[i]
  BY <1>1, <1>5, <1>7, <1>9
<1>11. l = [i \in 1 .. n - 1 |-> l[i]]
  BY <1>1, <1>7
<1> QED  BY <1>6, <1>8, <1>10, <1>11 DEF l, r, a, q

LEMMA ReversePush ==
    ASSUME NEW s \in Seq(Addr), NEW x \in Addr, NEW r, OnTop(r, x, s)
    PROVE  Reverse(r) = Append(Reverse(s), x)
<1> DEFINE n == Len(s)
           b == Reverse(s)
           l == Append(b, x)
           c == Reverse(r)
<1>1. r \in Seq(Addr) /\ n \in Nat /\ Len(r) = n + 1
      /\ r[1] = x /\ \A i \in 1 .. n : r[i + 1] = s[i]
  BY DEF OnTop
<1>2. b \in Seq(Addr) /\ Len(b) = n /\ \A i \in 1 .. n : b[i] = s[(n - i) + 1]
  BY ReverseAt
<1>3. c \in Seq(Addr) /\ Len(c) = n + 1 /\ \A i \in 1 .. n + 1 : c[i] = r[((n + 1) - i) + 1]
  BY <1>1, ReverseAt
<1> HIDE DEF b, c, n
<1>4. l \in Seq(Addr) /\ Len(l) = n + 1 /\ l[n + 1] = x /\ \A i \in 1 .. n : l[i] = b[i]
  BY <1>2
<1> HIDE DEF l
<1>5. ASSUME NEW i \in 1 .. n + 1 PROVE c[i] = l[i]
  <2>1. CASE i = n + 1
    <3>1. ((n + 1) - i) + 1 = 1
      BY <1>1, <2>1
    <3> QED  BY <1>1, <1>3, <1>4, <2>1, <3>1
  <2>2. CASE i # n + 1
    <3>1. i \in 1 .. n /\ (n - i) + 1 \in 1 .. n /\ ((n + 1) - i) + 1 = ((n - i) + 1) + 1
      BY <1>1, <2>2
    <3>2. c[i] = s[(n - i) + 1] /\ l[i] = s[(n - i) + 1]
      BY <1>1, <1>2, <1>3, <1>4, <3>1
    <3> QED  BY <3>2
  <2> QED  BY <2>1, <2>2
<1>6. c = l
  BY <1>3, <1>4, <1>5, SeqEqual
<1> QED  BY <1>6 DEF c, l, b

LEMMA WaitingIs ==
    ASSUME NEW stack \in Seq(Addr), NEW list \in Seq(Addr), HeapInv(stack, list)
    PROVE  Waiting = Values(list \o Reverse(stack), value)
<1>1. Chain(next, head) = stack /\ Chain(next, out) = list
  BY ChainIs DEF HeapInv
<1> QED  BY <1>1 DEF Waiting

LEMMA WaitingIsNext ==
    ASSUME NEW stack \in Seq(Addr), NEW list \in Seq(Addr), HeapInv(stack, list)'
    PROVE  Waiting' = Values(list \o Reverse(stack), value')
<1>1. Linked(stack, head', next') /\ Linked(list, out', next')
  BY DEF HeapInv
<1>2. Chain(next', head') = stack /\ Chain(next', out') = list
  BY <1>1, ChainIs
<1> QED  BY <1>2 DEF Waiting

\* The nodes in the queue, and their values.
LEMMA NodesOfQueue ==
    ASSUME MpscInv, NEW stack \in Seq(Addr), NEW list \in Seq(Addr), HeapInv(stack, list)
    PROVE  /\ list \o Reverse(stack) \in Seq(Addr) /\ Reverse(stack) \in Seq(Addr)
           /\ Range(list \o Reverse(stack)) = Range(list) \cup Range(stack)
           /\ \A y \in Range(list) \cup Range(stack) : value[y] \in Value
<1>1. Reverse(stack) \in Seq(Addr) /\ Range(Reverse(stack)) = Range(stack)
  BY ReverseAt
<1>2. /\ list \o Reverse(stack) \in Seq(Addr)
      /\ Range(list \o Reverse(stack)) = Range(list) \cup Range(stack)
  BY <1>1, ConcatLink
<1>3. ASSUME NEW y \in Range(list) \cup Range(stack) PROVE value[y] \in Value
  <2>1. y \in Addr /\ value[y] # Null
    BY DEF HeapInv
  <2> QED  BY <2>1 DEF MpscInv, MpscTypeOK
<1> QED  BY <1>1, <1>2, <1>3

\* A step that changes neither the lists nor the values in them.
LEMMA WaitingSame ==
    ASSUME MpscInv, NEW stack \in Seq(Addr), NEW list \in Seq(Addr), HeapInv(stack, list),
           HeapInv(stack, list)', \A x \in Range(stack) \cup Range(list) : value'[x] = value[x]
    PROVE  Waiting' = Waiting
<1> DEFINE nodes == list \o Reverse(stack)
<1>1. nodes \in Seq(Addr) /\ Range(nodes) = Range(list) \cup Range(stack)
  BY NodesOfQueue
<1>2. Waiting = Values(nodes, value) /\ Waiting' = Values(nodes, value')
  BY WaitingIs, WaitingIsNext
<1> HIDE DEF nodes
<1>3. \A x \in Range(nodes) : value'[x] = value[x]
  BY <1>1
<1>4. Values(nodes, value') = Values(nodes, value)
  BY <1>1, <1>3, ValuesSame
<1> QED  BY <1>2, <1>4

LEMMA CasPushes ==
    ASSUME MpscInv, NEW p \in Pusher, PushCas(p),
           NEW stack \in Seq(Addr), NEW list \in Seq(Addr), HeapInv(stack, list)
    PROVE  \E y \in Value : Waiting' = Append(Waiting, y) /\ got' = got
<1>1. PICK x, r : x = node[p] /\ r = <<x>> \o stack
  OBVIOUS
<1>2. OnTop(r, x, stack)
  BY <1>1 DEF OnTop
<1>3. /\ HeapInv(r, list)' /\ got' = got /\ value' = value
      /\ x \in Addr /\ value[x] \in Value
  BY <1>1, <1>2, PushCasKeeps
<1>4. r \in Seq(Addr)
  BY <1>3 DEF HeapInv, Linked
<1> DEFINE b == Reverse(stack)
           nodes == list \o b
<1>5. Reverse(r) = Append(b, x)
  BY <1>2, <1>3, ReversePush
<1>6. /\ nodes \in Seq(Addr) /\ b \in Seq(Addr)
      /\ \A y \in Range(nodes) : value[y] \in Value
  BY NodesOfQueue
<1>7. Waiting = Values(nodes, value)
  BY WaitingIs
<1>8. Waiting' = Values(list \o Append(b, x), value)
  BY <1>3, <1>4, <1>5, WaitingIsNext
<1> HIDE DEF b
<1>9. list \o Append(b, x) = Append(nodes, x)
  BY <1>3, <1>6
<1> HIDE DEF nodes
<1>10. Values(Append(nodes, x), value) = Append(Values(nodes, value), value[x])
  BY <1>3, <1>6, ValuesAppend
<1> QED  BY <1>3, <1>7, <1>8, <1>9, <1>10

LEMMA NextPops ==
    ASSUME MpscInv, PopNext,
           NEW stack \in Seq(Addr), NEW list \in Seq(Addr), HeapInv(stack, list)
    PROVE  /\ Waiting # <<>> /\ got' = Append(got, Head(Waiting)) /\ Waiting' = Tail(Waiting)
<1>1. PICK r : r = Tail(list)
  OBVIOUS
<1>2. /\ HeapInv(stack, r)' /\ r \in Seq(Addr)
      /\ list # <<>> /\ got' = Append(got, value[Head(list)])
      /\ \A x \in Range(stack) \cup Range(r) : value'[x] = value[x]
  BY <1>1, PopNextKeeps
<1> DEFINE b == Reverse(stack)
           nodes == list \o b
           rest == r \o b
<1>3. /\ nodes \in Seq(Addr) /\ b \in Seq(Addr) /\ Range(b) = Range(stack)
      /\ \A y \in Range(nodes) : value[y] \in Value
  BY NodesOfQueue, ReverseAt
<1>4. Waiting = Values(nodes, value)
  BY WaitingIs
<1>5. Waiting' = Values(rest, value')
  BY <1>2, WaitingIsNext
<1> HIDE DEF b
<1>6. nodes # <<>> /\ Head(nodes) = Head(list) /\ rest = Tail(nodes)
  BY <1>1, <1>2, <1>3
<1>7. rest \in Seq(Addr) /\ Range(rest) = Range(r) \cup Range(stack)
  BY <1>2, <1>3, ConcatLink
<1> HIDE DEF nodes, rest
<1>8. Values(rest, value') = Values(rest, value)
  BY <1>2, <1>7, ValuesSame
<1>9. /\ Values(nodes, value) # <<>> /\ Head(Values(nodes, value)) = value[Head(nodes)]
      /\ Values(Tail(nodes), value) = Tail(Values(nodes, value))
  BY <1>3, <1>6, ValuesTail
<1> QED  BY <1>2, <1>4, <1>5, <1>6, <1>8, <1>9

LEMMA TakeStutters ==
    ASSUME MpscInv, PopTake,
           NEW stack \in Seq(Addr), NEW list \in Seq(Addr), HeapInv(stack, list)
    PROVE  Waiting' = Waiting /\ got' = got
<1>1. PICK r : r = Reverse(stack)
  OBVIOUS
<1>2. /\ HeapInv(<<>>, r)' /\ r \in Seq(Addr) /\ list = <<>> /\ got' = got /\ value' = value
  BY <1>1, PopTakeKeeps
<1>3. Waiting = Values(list \o Reverse(stack), value)
  BY WaitingIs
<1>4. <<>> \in Seq(Addr)
  BY EmptyLink
<1>5. Waiting' = Values(r \o Reverse(<<>>), value')
  BY <1>2, <1>4, WaitingIsNext
<1>6. Reverse(<<>>) = <<>>
  BY DEF Reverse
<1>7. list \o Reverse(stack) = r /\ r \o Reverse(<<>>) = r
  BY <1>1, <1>2, <1>6, ConcatEmptySeq
<1> QED  BY <1>2, <1>3, <1>5, <1>7

\* The lock-free queue implements FifoQueue: whatever producers do between a load
\* of head_ and its CAS, and although addresses of freed nodes are used again,
\* values leave in the order of the CAS that pushed them, each once.
THEOREM MpscRefines == MpscSpec => Fifo
<1>1. MpscInit => MpscAbstract!Init
  <2> SUFFICES ASSUME MpscInit PROVE MpscAbstract!Init
    OBVIOUS
  <2>1. Chain(next, head) = <<>> /\ Chain(next, out) = <<>> /\ got = <<>>
    BY DEF MpscInit, Chain
  <2>2. Reverse(<<>>) = <<>> /\ <<>> \o <<>> = <<>> /\ DOMAIN <<>> = {}
    BY DEF Reverse
  <2>3. Waiting = <<>>
    BY <2>1, <2>2 DEF Waiting, Values
  <2> QED  BY <2>1, <2>3 DEF MpscAbstract!Init, Waiting, Values
<1>2. MpscInv /\ [MpscNext]_mpscVars => [MpscAbstract!Next]_<<Waiting, got>>
  <2> SUFFICES ASSUME MpscInv, [MpscNext]_mpscVars
               PROVE  MpscAbstract!Next \/ (Waiting' = Waiting /\ got' = got)
    OBVIOUS
  <2>0. PICK stack \in Seq(Addr), list \in Seq(Addr) : HeapInv(stack, list)
    BY DEF MpscInv
  <2>1. ASSUME NEW p \in Pusher, PushCas(p) PROVE MpscAbstract!Next
    <3>1. PICK y \in Value : Waiting' = Append(Waiting, y) /\ got' = got
      BY <2>0, <2>1, CasPushes
    <3> QED  BY <3>1 DEF MpscAbstract!Next, MpscAbstract!Push, Waiting, Values
  <2>2. CASE PopNext
    <3>1. Waiting # <<>> /\ got' = Append(got, Head(Waiting)) /\ Waiting' = Tail(Waiting)
      BY <2>0, <2>2, NextPops
    <3> QED  BY <3>1 DEF MpscAbstract!Next, MpscAbstract!Pop, Waiting, Values
  <2>3. CASE PopTake
    BY <2>0, <2>3, TakeStutters
  <2>4. ASSUME NEW p \in Pusher, NewNode(p) \/ PushRetry(p) \/ WritePipe(p)
        PROVE  Waiting' = Waiting /\ got' = got
    <3>1. /\ HeapInv(stack, list)' /\ got' = got
          /\ \A x \in Range(stack) \cup Range(list) : value'[x] = value[x]
      BY <2>0, <2>4, NewNodeKeeps, PushRetryKeeps, WritePipeKeeps
    <3> QED  BY <2>0, <3>1, WaitingSame
  <2>5. CASE ReadPipe \/ PopEmpty \/ PopLoad \/ PopRetry
    <3>1. HeapInv(stack, list)' /\ got' = got /\ value' = value
      BY <2>0, <2>5, LooksKeep
    <3> QED  BY <2>0, <3>1, WaitingSame
  <2>6. CASE UNCHANGED mpscVars
    BY <2>6 DEF mpscVars, heap, Waiting
  <2> QED  BY <2>1, <2>2, <2>3, <2>4, <2>5, <2>6 DEF MpscNext, MpscPush, MpscConsume
<1> QED  BY <1>1, <1>2, MpscInvariant, PTL
         DEF MpscSpec, Fifo, MpscAbstract!Spec, Waiting, Values

\* Every node in use is in one place, no link leads to a freed node and none is
\* leaked, for any number of producers, pushes and addresses.
THEOREM MpscNodesAccounted == MpscSpec => []NodesAccounted
<1>1. MpscInv => NodesAccounted
  BY MpscNodes
<1> QED  BY <1>1, MpscInvariant, PTL

-----------------------------------------------------------------------------
(***************************************************************************)
(* Pool.  A user is busy while it has a connection or one is being opened  *)
(* for it; the pool counts the busy users and the idle connections.        *)
(***************************************************************************)
PoolSpec == PoolInit /\ [][PoolNext]_poolVars

Busy == {u \in Users : user[u] \in {"has", "open", "retry"}}

PoolTypes ==
    /\ user \in [Users -> {"out", "open", "wait", "retry", "has"}]
    /\ held \in [Users -> Handles \cup {0}]
    /\ idle \in Seq(Handles) /\ waiting \in Seq(Users)
    /\ count \in Nat

CountedInv ==
    /\ IsFiniteSet(Busy) /\ count = Len(idle) + Cardinality(Busy)
    /\ count <= MaxConnect

OwnedInv ==
    /\ \A u \in Users : held[u] # 0 <=> user[u] = "has"
    /\ \A u \in Users : held[u] \notin Range(idle)
    /\ \A u, v \in Users : held[u] # 0 /\ held[u] = held[v] => u = v
    /\ IsInjective(idle)

QueuedInv ==
    /\ Range(waiting) = In("wait") /\ IsInjective(waiting)
    /\ waiting # <<>> => idle = <<>> /\ count = MaxConnect

PoolInv == PoolTypes /\ CountedInv /\ OwnedInv /\ QueuedInv

LEMMA PoolInitInv ==
    ASSUME PoolInit PROVE PoolInv
<1>1. /\ user = [u \in Users |-> "out"] /\ held = [u \in Users |-> 0]
      /\ idle = <<>> /\ waiting = <<>> /\ count = 0
  BY DEF PoolInit, RedisInit, MysqlInit, MemcachedInit, MongodbInit, Empty
<1>2. Range(<<>>) = {} /\ IsInjective(<<>>)
  BY EmptyLink
<1>3. PoolTypes
  BY <1>1 DEF PoolTypes
<1>4. CountedInv
  <2>1. Busy = {}
    BY <1>1 DEF Busy
  <2>2. IsFiniteSet(Busy) /\ Cardinality(Busy) = 0
    BY <2>1, FS_EmptySet
  <2> QED  BY <1>1, <2>2, PoolAssumption DEF CountedInv
<1>5. OwnedInv
  BY <1>1, <1>2 DEF OwnedInv
<1>6. QueuedInv
  <2>1. In("wait") = {}
    BY <1>1 DEF In
  <2> QED  BY <1>1, <1>2, <2>1 DEF QueuedInv
<1> QED  BY <1>3, <1>4, <1>5, <1>6 DEF PoolInv

\* The number of busy users after one became busy, or stopped being it.
LEMMA BusyFacts ==
    ASSUME CountedInv, NEW u \in Users
    PROVE  /\ Cardinality(Busy) \in Nat
           /\ u \notin Busy => /\ IsFiniteSet(Busy \cup {u})
                               /\ Cardinality(Busy \cup {u}) = Cardinality(Busy) + 1
           /\ u \in Busy => /\ IsFiniteSet(Busy \ {u})
                            /\ Cardinality(Busy \ {u}) = Cardinality(Busy) - 1
                            /\ Cardinality(Busy) >= 1
<1> DEFINE b == Cardinality(Busy)
<1>1. IsFiniteSet(Busy) /\ b \in Nat
  BY FS_CardinalityType DEF CountedInv
<1>2. u \notin Busy => IsFiniteSet(Busy \cup {u}) /\ Cardinality(Busy \cup {u}) = b + 1
  BY <1>1, FS_AddElement
<1>3. u \in Busy => IsFiniteSet(Busy \ {u}) /\ Cardinality(Busy \ {u}) = b - 1
  BY <1>1, FS_RemoveElement
<1>4. u \in Busy => b # 0
  BY <1>1, FS_EmptySet
<1> HIDE DEF b
<1>5. u \in Busy => b >= 1
  BY <1>1, <1>4
<1> QED  BY <1>1, <1>2, <1>3, <1>5 DEF b

\* malloc() has an address for the connection that is being opened: the others
\* are fewer than MaxConnect.
LEMMA NewFacts ==
    ASSUME PoolInv, NEW n \in Nat, IsFiniteSet(In("has")), Cardinality(In("has")) <= n,
           Len(idle) + n < MaxConnect
    PROVE  /\ New \in Handles /\ New # 0 /\ New \notin Range(idle)
           /\ \A u \in Users : held[u] # New
<1> DEFINE H == In("has")
           A == Range(idle)
           B == {held[u] : u \in H}
           l == Len(idle)
<1>1. idle \in Seq(Handles) /\ IsInjective(idle) /\ l \in Nat /\ DOMAIN idle = 1 .. l
  BY DEF PoolInv, PoolTypes, OwnedInv
<1>2. IsFiniteSet(A) /\ Cardinality(A) <= l
  <2>1. idle \in Surjection(1 .. l, A)
    BY <1>1 DEF Surjection, Range
  <2>2. IsFiniteSet(1 .. l) /\ Cardinality(1 .. l) = l
    <3> HIDE DEF l
    <3>1. Cardinality(1 .. l) = IF 1 > l THEN 0 ELSE l - 1 + 1
      BY <1>1, FS_Interval
    <3>2. IsFiniteSet(1 .. l)
      BY <1>1, FS_Interval
    <3> QED  BY <1>1, <3>1, <3>2
  <2> HIDE DEF l, A
  <2>3. IsFiniteSet(A) /\ Cardinality(A) <= Cardinality(1 .. l)
    BY <2>1, <2>2, FS_Surjection
  <2> QED  BY <2>2, <2>3
<1>3. IsFiniteSet(B) /\ Cardinality(B) <= n /\ Cardinality(B) \in Nat /\ Cardinality(A) \in Nat
  <2> DEFINE f == [u \in H |-> held[u]]
  <2>1. f \in Surjection(H, B)
    BY DEF Surjection
  <2> HIDE DEF f, B, H
  <2>2. IsFiniteSet(B) /\ Cardinality(B) <= Cardinality(H)
    BY <2>1, FS_Surjection DEF H
  <2>3. Cardinality(B) \in Nat /\ Cardinality(H) \in Nat /\ Cardinality(A) \in Nat
    BY <1>2, <2>2, FS_CardinalityType DEF H
  <2> QED  BY <2>2, <2>3 DEF H
<1>4. IsFiniteSet(A \cup B) /\ Cardinality(A \cup B) < MaxConnect
  <2> HIDE DEF A, B
  <2> DEFINE x == Cardinality(A)
             y == Cardinality(B)
             z == Cardinality(A \cap B)
             w == Cardinality(A \cup B)
  <2>1. IsFiniteSet(A \cup B) /\ w = x + y - z
    BY <1>2, <1>3, FS_Union
  <2>2. z \in Nat
    <3>1. IsFiniteSet(A \cap B)
      BY <1>2, FS_Subset
    <3> QED  BY <3>1, FS_CardinalityType
  <2>3. x \in Nat /\ y \in Nat /\ x <= l /\ y <= n /\ l + n < MaxConnect
    BY <1>2, <1>3
  <2>4. MaxConnect \in Nat
    BY PoolAssumption
  <2> HIDE DEF x, y, z, w, l
  <2>5. w < MaxConnect
    BY <1>1, <2>1, <2>2, <2>3, <2>4
  <2> QED  BY <2>1, <2>5 DEF w
<1>5. \E h \in Handles : h \notin A \cup B
  <2> SUFFICES ASSUME Handles \subseteq A \cup B PROVE FALSE
    OBVIOUS
  <2> DEFINE w == Cardinality(A \cup B)
             c == Cardinality(Handles)
  <2>1. c = MaxConnect
    <3>1. MaxConnect \in Int /\ 1 \in Int /\ 1 <= MaxConnect
      BY PoolAssumption
    <3>2. c = MaxConnect - 1 + 1
      BY <3>1, FS_Interval DEF Handles
    <3> QED  BY <3>1, <3>2
  <2> HIDE DEF A, B
  <2>2. c <= w
    BY <1>4, FS_Subset
  <2>3. w < MaxConnect /\ w \in Nat
    BY <1>4, FS_CardinalityType
  <2> HIDE DEF w, c
  <2> QED  BY <2>1, <2>2, <2>3, PoolAssumption
<1>6. \E h \in Handles : h \notin Range(idle) /\ \A u \in Users : held[u] # h
  <2>1. PICK h \in Handles : h \notin A /\ h \notin B
    BY <1>5
  <2>2. h # 0
    BY PoolAssumption DEF Handles
  <2>3. ASSUME NEW u \in Users, held[u] = h PROVE FALSE
    <3>1. u \in H
      BY <2>2, <2>3 DEF PoolInv, OwnedInv, In
    <3> QED  BY <2>1, <2>3, <3>1
  <2> QED  BY <2>1, <2>3
<1>7. New \in Handles /\ New \notin Range(idle) /\ \A u \in Users : held[u] # New
  BY <1>6 DEF New
<1>8. 0 \notin Handles
  BY PoolAssumption DEF Handles
<1> QED  BY <1>7, <1>8

LEMMA HasFacts ==
    ASSUME PoolInv, NEW u \in Users
    PROVE  /\ IsFiniteSet(In("has"))
           /\ Cardinality(Busy) \in Nat /\ Len(idle) \in Nat
           /\ Cardinality(In("has")) <= Cardinality(Busy)
           /\ u \in Busy /\ user[u] # "has" =>
                 Cardinality(In("has")) <= Cardinality(Busy) - 1 /\ Cardinality(Busy) - 1 \in Nat
<1>i. CountedInv /\ PoolTypes
  BY DEF PoolInv
<1>1. In("has") \subseteq Busy /\ (u \in Busy /\ user[u] # "has" => In("has") \subseteq Busy \ {u})
  BY DEF In, Busy
<1>2. /\ IsFiniteSet(Busy) /\ Cardinality(Busy) \in Nat
      /\ u \in Busy => /\ IsFiniteSet(Busy \ {u}) /\ Cardinality(Busy \ {u}) = Cardinality(Busy) - 1
                       /\ Cardinality(Busy) >= 1
  BY <1>i, BusyFacts DEF CountedInv
<1>3. IsFiniteSet(In("has")) /\ Cardinality(In("has")) <= Cardinality(Busy)
  BY <1>1, <1>2, FS_Subset
<1>4. u \in Busy /\ user[u] # "has" => Cardinality(In("has")) <= Cardinality(Busy) - 1
  <2> SUFFICES ASSUME u \in Busy, user[u] # "has"
               PROVE  Cardinality(In("has")) <= Cardinality(Busy) - 1
    OBVIOUS
  <2> DEFINE R == Busy \ {u}
  <2>1. In("has") \subseteq R /\ IsFiniteSet(R) /\ Cardinality(R) = Cardinality(Busy) - 1
    BY <1>1, <1>2
  <2> HIDE DEF R
  <2>2. Cardinality(In("has")) <= Cardinality(R)
    BY <2>1, FS_Subset
  <2> QED  BY <2>1, <2>2
<1>5. Len(idle) \in Nat
  BY <1>i DEF PoolTypes
<1> DEFINE b == Cardinality(Busy)
<1>6. b \in Nat /\ (u \in Busy => b >= 1)
  BY <1>2
<1> HIDE DEF b
<1>7. u \in Busy => b - 1 \in Nat
  BY <1>6
<1> QED  BY <1>2, <1>3, <1>4, <1>5, <1>7 DEF b

LEMMA NewOpening ==
    ASSUME PoolInv, NEW u \in Users, user[u] \in {"open", "retry"} \/ count < MaxConnect
    PROVE  /\ New \in Handles /\ New # 0 /\ New \notin Range(idle)
           /\ \A v \in Users : held[v] # New
<1> DEFINE b == Cardinality(Busy)
           l == Len(idle)
<1>1. /\ IsFiniteSet(In("has")) /\ b \in Nat /\ l \in Nat /\ Cardinality(In("has")) <= b
      /\ user[u] \in {"open", "retry"} => Cardinality(In("has")) <= b - 1 /\ b - 1 \in Nat
  BY HasFacts DEF Busy
<1>2. count = l + b /\ count <= MaxConnect /\ MaxConnect \in Nat
  BY PoolAssumption DEF PoolInv, CountedInv
<1>3. CASE count < MaxConnect
  <2> HIDE DEF b, l
  <2>1. l + b < MaxConnect
    BY <1>1, <1>2, <1>3
  <2> QED  BY <1>1, <2>1, NewFacts DEF l
<1>4. CASE user[u] \in {"open", "retry"}
  <2> DEFINE m == b - 1
  <2>1. m \in Nat /\ Cardinality(In("has")) <= m
    BY <1>1, <1>4
  <2> HIDE DEF b, l
  <2>2. l + m < MaxConnect
    BY <1>1, <1>2, <2>1
  <2> HIDE DEF m
  <2> QED  BY <1>1, <2>1, <2>2, NewFacts DEF l
<1> QED  BY <1>3, <1>4

\* One coroutine is resumed with the idle connections q: it takes the newest.
LEMMA ResumeOne ==
    ASSUME PoolTypes, NEW q \in Seq(Handles), NEW u \in Users, Resume(<<u>>, q)
    PROVE  /\ idle' \in Seq(Handles)
           /\ \A v \in Users : v # u => held'[v] = held[v] /\ user'[v] = user[v]
           /\ user' \in [Users -> {"out", "open", "wait", "retry", "has"}]
           /\ held' \in [Users -> Handles \cup {0}]
           /\ q = <<>> => idle' = <<>> /\ held'[u] = 0 /\ user'[u] = "out"
           /\ q # <<>> => /\ idle' = SubSeq(q, 1, Len(q) - 1) /\ Len(idle') = Len(q) - 1
                          /\ held'[u] = q[Len(q)] /\ user'[u] = "has" /\ held'[u] # 0
<1> DEFINE ws == <<u>>
           Place(v) == CHOOSE k \in DOMAIN ws : ws[k] = v
           Given(v) == IF Place(v) <= Len(q) THEN q[Len(q) + 1 - Place(v)] ELSE 0
           n == IF Len(ws) < Len(q) THEN Len(ws) ELSE Len(q)
           m == Len(q)
<1>1. /\ idle' = SubSeq(q, 1, Len(q) - n)
      /\ held' = [v \in Users |-> IF v \in Range(ws) THEN Given(v) ELSE held[v]]
      /\ user' = [v \in Users |-> IF v \notin Range(ws) THEN user[v]
                                  ELSE IF Given(v) = 0 THEN "out" ELSE "has"]
  BY DEF Resume
<1>2. DOMAIN ws = {1} /\ ws[1] = u /\ Len(ws) = 1 /\ Range(ws) = {u}
  BY DEF Range
<1>3. Place(u) = 1
  BY <1>2
<1>4. m \in Nat /\ 0 \notin Handles /\ (q = <<>> <=> m = 0) /\ \A k \in 1 .. m : q[k] \in Handles
  BY PoolAssumption DEF Handles
<1> HIDE DEF ws, Place
<1>5. Given(u) = (IF 1 <= m THEN q[m + 1 - 1] ELSE 0) /\ n = IF 1 < m THEN 1 ELSE m
  BY <1>2, <1>3
<1>6. /\ held' = [v \in Users |-> IF v = u THEN Given(u) ELSE held[v]]
      /\ user' = [v \in Users |-> IF v # u THEN user[v] ELSE IF Given(u) = 0 THEN "out" ELSE "has"]
  BY <1>1, <1>2
<1> DEFINE g == Given(u)
<1> HIDE DEF Given, n
<1>7. CASE q = <<>>
  <2>1. m = 0 /\ g = 0 /\ n = 0
    <3>1. m = 0
      BY <1>4, <1>7
    <3> HIDE DEF m
    <3> QED  BY <1>5, <3>1
  <2>2. idle' = <<>>
    BY <1>1, <1>7, <2>1
  <2> HIDE DEF m, g
  <2>3. held' = [v \in Users |-> IF v = u THEN 0 ELSE held[v]]
        /\ user' = [v \in Users |-> IF v # u THEN user[v] ELSE "out"]
    BY <1>6, <2>1 DEF g
  <2> QED  BY <1>7, <2>2, <2>3 DEF PoolTypes
<1>8. CASE q # <<>>
  <2>1. m >= 1 /\ g = q[m] /\ n = 1 /\ g \in Handles /\ g # 0
    <3>1. m # 0
      BY <1>4, <1>8
    <3> HIDE DEF m
    <3>2. m >= 1 /\ g = q[m] /\ n = 1
      BY <1>4, <1>5, <3>1
    <3> QED  BY <1>4, <3>2
  <2>2. idle' = SubSeq(q, 1, m - 1)
    BY <1>1, <2>1
  <2>3. idle' \in Seq(Handles) /\ Len(idle') = m - 1
    BY <1>4, <2>1, <2>2
  <2> HIDE DEF m, g
  <2>4. held' = [v \in Users |-> IF v = u THEN g ELSE held[v]]
        /\ user' = [v \in Users |-> IF v # u THEN user[v] ELSE "has"]
    BY <1>6, <2>1 DEF g
  <2> QED  BY <1>8, <2>1, <2>2, <2>3, <2>4 DEF PoolTypes, m
<1> QED  BY <1>7, <1>8

(***************************************************************************)
(* The counter after a step.                                               *)
(***************************************************************************)
LEMMA CountSame ==
    ASSUME CountedInv, Busy' = Busy, Len(idle') = Len(idle), count' = count
    PROVE  CountedInv'
  BY DEF CountedInv

Gains ==
    \/ Len(idle') = Len(idle) - 1 /\ count' = count
    \/ Len(idle') = Len(idle) /\ count' = count + 1 /\ count < MaxConnect

Loses ==
    \/ Len(idle') = Len(idle) + 1 /\ count' = count
    \/ Len(idle') = Len(idle) /\ count' = count - 1

\* u became busy: for a connection that was idle, or for one that is counted now.
LEMMA CountGain ==
    ASSUME CountedInv, NEW u \in Users, u \notin Busy, Busy' = Busy \cup {u},
           idle \in Seq(Handles), idle' \in Seq(Handles), count \in Nat, Gains
    PROVE  CountedInv'
<1> DEFINE b == Cardinality(Busy)
           c == Cardinality(Busy')
           l == Len(idle)
           m == Len(idle')
<1>a. l \in Nat /\ m \in Nat
  OBVIOUS
<1>b. \/ m = l - 1 /\ count' = count
      \/ m = l /\ count' = count + 1 /\ count < MaxConnect
  BY DEF Gains
<1>0. /\ l \in Nat /\ m \in Nat
      /\ \/ m = l - 1 /\ count' = count
         \/ m = l /\ count' = count + 1 /\ count < MaxConnect
  BY <1>a, <1>b
<1>1. b \in Nat /\ IsFiniteSet(Busy') /\ c = b + 1
  BY BusyFacts
<1>2. count = l + b /\ count <= MaxConnect /\ MaxConnect \in Nat
  BY PoolAssumption DEF CountedInv
<1> HIDE DEF b, c, l, m
<1>3. count' = m + c /\ count' <= MaxConnect
  BY <1>0, <1>1, <1>2
<1> QED  BY <1>1, <1>3 DEF CountedInv, c, m

\* u is not busy any more: its connection is idle, or not counted.
LEMMA CountLoss ==
    ASSUME CountedInv, NEW u \in Users, u \in Busy, Busy' = Busy \ {u},
           idle \in Seq(Handles), idle' \in Seq(Handles), count \in Nat, Loses
    PROVE  CountedInv' /\ count' \in Nat
<1> DEFINE b == Cardinality(Busy)
           c == Cardinality(Busy')
           l == Len(idle)
           m == Len(idle')
<1>a. l \in Nat /\ m \in Nat
  OBVIOUS
<1>b. \/ m = l + 1 /\ count' = count
      \/ m = l /\ count' = count - 1
  BY DEF Loses
<1>0. /\ l \in Nat /\ m \in Nat
      /\ \/ m = l + 1 /\ count' = count
         \/ m = l /\ count' = count - 1
  BY <1>a, <1>b
<1>1. b \in Nat /\ b >= 1 /\ IsFiniteSet(Busy') /\ c = b - 1
  BY BusyFacts
<1>2. count = l + b /\ count <= MaxConnect /\ MaxConnect \in Nat
  BY PoolAssumption DEF CountedInv
<1> HIDE DEF b, c, l, m
<1>3. count' = m + c /\ count' <= MaxConnect /\ count' \in Nat
  BY <1>0, <1>1, <1>2
<1> QED  BY <1>1, <1>3 DEF CountedInv, c, m

\* h is busy in the place of u.
LEMMA CountPass ==
    ASSUME CountedInv, NEW u \in Users, NEW h \in Users, u \in Busy, h \notin Busy,
           Busy' = (Busy \ {u}) \cup {h}, idle' = idle, count' = count
    PROVE  CountedInv'
<1> DEFINE b == Cardinality(Busy)
           R == Busy \ {u}
<1>1. b \in Nat /\ b >= 1 /\ IsFiniteSet(R) /\ Cardinality(R) = b - 1
  BY BusyFacts
<1>2. h \notin R /\ Busy' = R \cup {h}
  OBVIOUS
<1> HIDE DEF R
<1>3. IsFiniteSet(R \cup {h}) /\ Cardinality(R \cup {h}) = Cardinality(R) + 1
  BY <1>1, <1>2, FS_AddElement
<1> DEFINE c == Cardinality(Busy')
           r == Cardinality(R)
<1>4. IsFiniteSet(Busy') /\ c = r + 1 /\ r = b - 1
  BY <1>1, <1>2, <1>3
<1>5. b \in Nat /\ b >= 1
  BY <1>1
<1> HIDE DEF b, c, r
<1>6. c = b
  BY <1>4, <1>5
<1> QED  BY <1>4, <1>6 DEF CountedInv, b, c

(***************************************************************************)
(* take()                                                                  *)
(***************************************************************************)
LEMMA TakeIdleStep ==
    ASSUME PoolInv, NEW u \in Users, TakeIdle(u) PROVE PoolInv'
<1>i. PoolTypes /\ CountedInv /\ OwnedInv /\ QueuedInv
  BY DEF PoolInv
<1> DEFINE n == Len(idle)
           c == idle[n]
<1>1. user[u] = "out" /\ idle # <<>> /\ idle \in Seq(Handles) /\ Resume(<<u>>, idle)
      /\ waiting' = waiting /\ count' = count /\ IsInjective(idle)
  BY <1>i DEF TakeIdle, PoolTypes, OwnedInv
<1>2. /\ idle' \in Seq(Handles)
      /\ \A v \in Users : v # u => held'[v] = held[v] /\ user'[v] = user[v]
      /\ user' \in [Users -> {"out", "open", "wait", "retry", "has"}]
      /\ held' \in [Users -> Handles \cup {0}]
      /\ idle' = SubSeq(idle, 1, Len(idle) - 1) /\ Len(idle') = n - 1
      /\ held'[u] = c /\ user'[u] = "has" /\ held'[u] # 0
  BY <1>i, <1>1, ResumeOne
<1>3. IsInjective(idle') /\ c \in Range(idle) /\ Range(idle') = Range(idle) \ {c}
  BY <1>1, <1>2, LastOut
<1>4. n \in Nat /\ n >= 1
  BY <1>1, EmptySeq
<1>5. PoolTypes'
  BY <1>i, <1>1, <1>2 DEF PoolTypes
<1>6. CountedInv'
  <2>1. u \notin Busy /\ Busy' = Busy \cup {u}
    BY <1>1, <1>2 DEF Busy
  <2>2. count \in Nat
    BY <1>i DEF PoolTypes
  <2>3. Gains
    BY <1>1, <1>2 DEF Gains
  <2> QED  BY <1>i, <1>1, <1>2, <2>1, <2>2, <2>3, CountGain
<1>7. OwnedInv'
  <2> HIDE DEF c, n
  <2>1. \A v \in Users : held[v] # c
    BY <1>i, <1>3 DEF OwnedInv
  <2>2. \A v \in Users : held'[v] # 0 <=> user'[v] = "has"
    BY <1>i, <1>2 DEF OwnedInv
  <2>3. \A v \in Users : held'[v] \notin Range(idle')
    BY <1>i, <1>2, <1>3 DEF OwnedInv
  <2>4. \A v, w \in Users : held'[v] # 0 /\ held'[v] = held'[w] => v = w
    BY <1>i, <1>2, <2>1 DEF OwnedInv
  <2> QED  BY <1>3, <2>2, <2>3, <2>4 DEF OwnedInv
<1>8. QueuedInv'
  <2>1. In("wait")' = In("wait")
    BY <1>1, <1>2 DEF In
  <2>2. waiting = <<>>
    BY <1>i, <1>1 DEF QueuedInv
  <2> QED  BY <1>i, <1>1, <2>1, <2>2 DEF QueuedInv
<1> QED  BY <1>5, <1>6, <1>7, <1>8 DEF PoolInv

States == {"out", "open", "wait", "retry", "has"}

\* u has the connection x, 0 for none, and the state s now.
Now(u, s, x) ==
    /\ \A v \in Users : v # u => held'[v] = held[v] /\ user'[v] = user[v]
    /\ held'[u] = x /\ user'[u] = s
    /\ user' \in [Users -> States] /\ held' \in [Users -> Handles \cup {0}]

Sets(u, s, x) ==
    /\ user' = [user EXCEPT ![u] = s]
    /\ held' = [held EXCEPT ![u] = x] \/ (held' = held /\ held[u] = x)

LEMMA OneUser ==
    ASSUME PoolInv, NEW u \in Users, NEW s \in States, NEW x \in Handles \cup {0}, Sets(u, s, x)
    PROVE  Now(u, s, x)
<1>1. user \in [Users -> States] /\ held \in [Users -> Handles \cup {0}]
  BY DEF PoolInv, PoolTypes, States
<1>2. user' \in [Users -> States] /\ user'[u] = s /\ \A v \in Users : v # u => user'[v] = user[v]
  BY <1>1 DEF Sets
<1> HIDE DEF States
<1> DEFINE T == Handles \cup {0}
<1> HIDE DEF T
<1>3. held' \in [Users -> T] /\ held'[u] = x /\ \A v \in Users : v # u => held'[v] = held[v]
  <2>1. held \in [Users -> T] /\ x \in T
    BY <1>1 DEF T
  <2>2. CASE held' = [held EXCEPT ![u] = x]
    BY <2>1, <2>2
  <2>3. CASE held' = held /\ held[u] = x
    BY <2>1, <2>3
  <2> QED  BY <2>2, <2>3 DEF Sets
<1> QED  BY <1>2, <1>3 DEF Now, T

\* A user in the state s may own x.
Owns(u, s, x) ==
    /\ x # 0 <=> s = "has"
    /\ x = 0 \/ (x \notin Range(idle) /\ \A v \in Users \ {u} : held[v] # x)

LEMMA OwnedStep ==
    ASSUME PoolInv, NEW u \in Users, NEW s, NEW x, Now(u, s, x), idle' = idle, Owns(u, s, x)
    PROVE  OwnedInv'
<1>1. /\ \A v \in Users : v # u => held'[v] = held[v] /\ user'[v] = user[v]
      /\ held'[u] = x /\ user'[u] = s
  BY DEF Now
<1>2. OwnedInv /\ idle \in Seq(Handles)
  BY DEF PoolInv, PoolTypes
<1>z. 0 \notin Range(idle)
  <2>1. 0 \notin Handles
    BY PoolAssumption DEF Handles
  <2>2. \A k \in DOMAIN idle : idle[k] \in Handles
    BY <1>2
  <2> QED  BY <2>1, <2>2 DEF Range
<1>o. /\ x # 0 <=> s = "has"
      /\ x = 0 \/ (x \notin Range(idle) /\ \A v \in Users \ {u} : held[v] # x)
  BY DEF Owns
<1>3. \A v \in Users : held'[v] # 0 <=> user'[v] = "has"
  BY <1>1, <1>2, <1>o DEF OwnedInv
<1>4. \A v \in Users : held'[v] \notin Range(idle')
  BY <1>1, <1>2, <1>o, <1>z DEF OwnedInv
<1>5. \A v, w \in Users : held'[v] # 0 /\ held'[v] = held'[w] => v = w
  BY <1>1, <1>2, <1>o DEF OwnedInv
<1> QED  BY <1>2, <1>3, <1>4, <1>5 DEF OwnedInv

LEMMA TakeOpensStep ==
    ASSUME PoolInv, NEW u \in Users, TakeOpens(u) PROVE PoolInv'
<1>i. PoolTypes /\ CountedInv /\ OwnedInv /\ QueuedInv
  BY DEF PoolInv
<1>1. user[u] = "out" /\ idle = <<>> /\ count < MaxConnect /\ count' = count + 1
      /\ user' = [user EXCEPT ![u] = "open"] /\ held' = held /\ idle' = idle /\ waiting' = waiting
  BY DEF TakeOpens, MayOpen
<1>2. held[u] = 0 /\ count \in Nat
  BY <1>i, <1>1 DEF OwnedInv, PoolTypes
<1>3. Now(u, "open", 0)
  <2>1. Sets(u, "open", 0) /\ "open" \in States
    BY <1>1, <1>2 DEF States, Sets
  <2> QED  BY <2>1, OneUser
<1>4. PoolTypes'
  BY <1>i, <1>1, <1>2, <1>3 DEF PoolTypes, Now, States
<1>5. CountedInv'
  <2>1. u \notin Busy /\ Busy' = Busy \cup {u}
    BY <1>1, <1>3 DEF Busy, Now
  <2>2. idle \in Seq(Handles) /\ idle' \in Seq(Handles) /\ Gains
    BY <1>i, <1>1 DEF PoolTypes, Gains
  <2> QED  BY <1>i, <1>2, <2>1, <2>2, CountGain
<1>6. OwnedInv'
  <2>0. "open" # "has"
    OBVIOUS
  <2>1. Owns(u, "open", 0)
    BY <2>0, Zenon DEF Owns
  <2> QED  BY <1>1, <1>3, <2>1, OwnedStep
<1>7. QueuedInv'
  <2>1. In("wait")' = In("wait")
    BY <1>1, <1>3 DEF In, Now
  <2>2. waiting = <<>>
    BY <1>i, <1>1, PoolAssumption DEF QueuedInv
  <2> QED  BY <1>i, <1>1, <2>1, <2>2 DEF QueuedInv
<1> QED  BY <1>4, <1>5, <1>6, <1>7 DEF PoolInv

LEMMA TakeWaitsStep ==
    ASSUME PoolInv, NEW u \in Users, TakeWaits(u) PROVE PoolInv'
<1>i. PoolTypes /\ CountedInv /\ OwnedInv /\ QueuedInv
  BY DEF PoolInv
<1>1. user[u] = "out" /\ idle = <<>> /\ count >= MaxConnect /\ count' = count
      /\ user' = [user EXCEPT ![u] = "wait"] /\ held' = held /\ idle' = idle
      /\ waiting' = Append(waiting, u)
  BY DEF TakeWaits
<1>2. held[u] = 0 /\ count \in Nat /\ waiting \in Seq(Users)
  BY <1>i, <1>1 DEF OwnedInv, PoolTypes
<1>3. Now(u, "wait", 0)
  <2>1. Sets(u, "wait", 0) /\ "wait" \in States
    BY <1>1, <1>2 DEF States, Sets
  <2> QED  BY <2>1, OneUser
<1>a. u \notin Range(waiting) /\ IsInjective(waiting) /\ Range(waiting) = In("wait")
  BY <1>i, <1>1 DEF QueuedInv, In
<1>b. waiting' \in Seq(Users) /\ Range(waiting') = Range(waiting) \cup {u} /\ IsInjective(waiting')
  BY <1>1, <1>2, <1>a, AppendLink
<1>4. PoolTypes'
  BY <1>i, <1>1, <1>2, <1>3, <1>b DEF PoolTypes, Now, States
<1>5. CountedInv'
  <2>1. Busy' = Busy
    BY <1>1, <1>3 DEF Busy, Now
  <2> QED  BY <1>i, <1>1, <2>1, CountSame
<1>6. OwnedInv'
  <2>0. "wait" # "has"
    OBVIOUS
  <2>1. Owns(u, "wait", 0)
    BY <2>0, Zenon DEF Owns
  <2> QED  BY <1>1, <1>3, <2>1, OwnedStep
<1>7. QueuedInv'
  <2>1. In("wait")' = In("wait") \cup {u}
    BY <1>1, <1>3 DEF In, Now
  <2>2. count = MaxConnect
    BY <1>i, <1>1, <1>2, PoolAssumption DEF CountedInv
  <2> QED  BY <1>1, <1>a, <1>b, <2>1, <2>2 DEF QueuedInv
<1> QED  BY <1>4, <1>5, <1>6, <1>7 DEF PoolInv

\* A connection is there: it is new, and counted by now.
LEMMA TakeOpenedStep ==
    ASSUME PoolInv, NEW u \in Users,
           TakeOpened(u) \/
           (/\ MayOpen(u) /\ count' = count + 1
            /\ held' = [held EXCEPT ![u] = New] /\ user' = [user EXCEPT ![u] = "has"]
            /\ UNCHANGED <<idle, waiting>>)
    PROVE PoolInv'
<1>i. PoolTypes /\ CountedInv /\ OwnedInv /\ QueuedInv
  BY DEF PoolInv
<1>1. /\ \/ user[u] = "open" /\ count' = count
         \/ user[u] = "out" /\ idle = <<>> /\ count < MaxConnect /\ count' = count + 1
      /\ user' = [user EXCEPT ![u] = "has"] /\ held' = [held EXCEPT ![u] = New]
      /\ idle' = idle /\ waiting' = waiting
  BY Zenon DEF TakeOpened, MayOpen
<1> DEFINE x == New
<1>2. x \in Handles /\ x # 0 /\ x \notin Range(idle) /\ \A v \in Users : held[v] # x
  BY <1>1, NewOpening
<1>c. count \in Nat
  BY <1>i DEF PoolTypes
<1> HIDE DEF x
<1>3. Now(u, "has", x)
  <2>1. Sets(u, "has", x) /\ x \in Handles \cup {0} /\ "has" \in States
    BY <1>1, <1>2 DEF States, x, Sets
  <2> QED  BY <2>1, OneUser
<1>4. PoolTypes'
  BY <1>i, <1>1, <1>c, <1>3 DEF PoolTypes, Now, States
<1>5. CountedInv'
  <2>1. CASE user[u] = "open" /\ count' = count
    <3>1. Busy' = Busy
      BY <1>3, <2>1 DEF Busy, Now
    <3> QED  BY <1>i, <1>1, <2>1, <3>1, CountSame
  <2>2. CASE user[u] = "out" /\ count < MaxConnect /\ count' = count + 1
    <3>1. u \notin Busy /\ Busy' = Busy \cup {u}
      BY <2>2, <1>3 DEF Busy, Now
    <3>2. idle \in Seq(Handles) /\ idle' \in Seq(Handles) /\ Gains
      BY <1>i, <1>1, <2>2 DEF PoolTypes, Gains
    <3> QED  BY <1>i, <1>c, <3>1, <3>2, CountGain
  <2> QED  BY <1>1, <2>1, <2>2
<1>6. OwnedInv'
  <2>1. Owns(u, "has", x)
    BY <1>2 DEF Owns
  <2> QED  BY <1>1, <1>3, <2>1, OwnedStep
<1>7. QueuedInv'
  <2>1. In("wait")' = In("wait")
    BY <1>1, <1>3 DEF In, Now
  <2>2. waiting = <<>> \/ count' = count
    BY <1>i, <1>1, <1>c, PoolAssumption DEF QueuedInv
  <2> QED  BY <1>i, <1>1, <2>1, <2>2 DEF QueuedInv
<1> QED  BY <1>4, <1>5, <1>6, <1>7 DEF PoolInv

\* u and all that wait are resumed with nothing.
AllFailed(u) ==
    /\ user' \in [Users -> States] /\ held' \in [Users -> Handles \cup {0}]
    /\ \A v \in Users : /\ user'[v] = IF v = u \/ v \in Range(waiting) THEN "out" ELSE user[v]
                        /\ held'[v] = IF v = u THEN 0 ELSE held[v]
    /\ waiting' = <<>> /\ idle' = idle

LEMMA FailStep ==
    ASSUME PoolInv, NEW u \in Users, AllFailed(u),
           \/ u \in Busy /\ count' = count - 1
           \/ user[u] = "out" /\ count' = count
    PROVE  PoolInv'
<1>i. PoolTypes /\ CountedInv /\ OwnedInv /\ QueuedInv
  BY DEF PoolInv
<1>1. /\ user' \in [Users -> States] /\ held' \in [Users -> Handles \cup {0}]
      /\ \A v \in Users : /\ user'[v] = IF v = u \/ v \in Range(waiting) THEN "out" ELSE user[v]
                          /\ held'[v] = IF v = u THEN 0 ELSE held[v]
      /\ waiting' = <<>> /\ idle' = idle
  BY DEF AllFailed
<1>2. \A v \in Users : v \in Range(waiting) <=> user[v] = "wait"
  BY <1>i DEF QueuedInv, In
<1>3. idle \in Seq(Handles) /\ idle' \in Seq(Handles) /\ count \in Nat
  BY <1>i, <1>1 DEF PoolTypes
<1>4. CountedInv' /\ count' \in Nat
  <2>1. CASE u \in Busy /\ count' = count - 1
    <3>1. Busy' = Busy \ {u}
      BY <1>1, <1>2 DEF Busy
    <3>2. Loses
      BY <1>1, <2>1 DEF Loses
    <3> QED  BY <1>i, <1>3, <2>1, <3>1, <3>2, CountLoss
  <2>2. CASE user[u] = "out" /\ count' = count
    <3>1. Busy' = Busy
      BY <1>1, <1>2, <2>2 DEF Busy
    <3>2. Len(idle') = Len(idle)
      BY <1>1
    <3> QED  BY <1>i, <1>3, <2>2, <3>1, <3>2, CountSame
  <2> QED  BY <2>1, <2>2
<1>5. PoolTypes'
  BY <1>1, <1>3, <1>4 DEF PoolTypes, States
<1>6. OwnedInv'
  <2>z. 0 \notin Range(idle)
    <3>1. 0 \notin Handles
      BY PoolAssumption DEF Handles
    <3>2. \A k \in DOMAIN idle : idle[k] \in Handles
      BY <1>3
    <3> QED  BY <3>1, <3>2 DEF Range
  <2>1. ASSUME NEW v \in Users PROVE held'[v] # 0 <=> user'[v] = "has"
    BY <1>i, <1>1, <1>2 DEF OwnedInv
  <2>2. \A v \in Users : held'[v] \notin Range(idle')
    BY <1>i, <1>1, <2>z DEF OwnedInv
  <2>3. \A v, w \in Users : held'[v] # 0 /\ held'[v] = held'[w] => v = w
    BY <1>i, <1>1 DEF OwnedInv
  <2> QED  BY <1>i, <1>1, <2>1, <2>2, <2>3 DEF OwnedInv
<1>7. QueuedInv'
  <2>1. In("wait")' = {}
    BY <1>1, <1>2 DEF In
  <2> QED  BY <1>1, <2>1, EmptyLink DEF QueuedInv
<1> QED  BY <1>4, <1>5, <1>6, <1>7 DEF PoolInv

LEMMA TakeFailsStep ==
    ASSUME PoolInv, NEW u \in Users,
           \/ TakeFails(u)
           \/ MayOpen(u) /\ Fails(u) /\ UNCHANGED count
    PROVE  PoolInv'
<1>i. PoolTypes /\ OwnedInv
  BY DEF PoolInv
<1>1. /\ waiting' = <<>> /\ held' = held /\ idle' = idle
      /\ user' = [v \in Users |-> IF v = u \/ v \in Range(waiting) THEN "out" ELSE user[v]]
      /\ \/ user[u] = "open" /\ count' = count - 1
         \/ user[u] = "out" /\ count' = count
  BY Zenon DEF TakeFails, Fails, MayOpen
<1>2. held[u] = 0
  BY <1>i, <1>1 DEF OwnedInv
<1>3. AllFailed(u)
  BY <1>i, <1>1, <1>2 DEF AllFailed, PoolTypes, States
<1>4. user[u] = "open" => u \in Busy
  BY DEF Busy
<1> QED  BY <1>1, <1>3, <1>4, FailStep

(***************************************************************************)
(* put()                                                                   *)
(***************************************************************************)
\* The connection, or the room for a new one, goes from u to the first that waits.
Passed(u, s) ==
    /\ user' = [user EXCEPT ![u] = "out", ![Head(waiting)] = s]
    /\ \/ s = "has" /\ held' = [held EXCEPT ![u] = 0, ![Head(waiting)] = held[u]]
       \/ s = "retry" /\ held' = [held EXCEPT ![u] = 0]
    /\ waiting' = Tail(waiting) /\ idle' = idle /\ count' = count

LEMMA PassStep ==
    ASSUME PoolInv, NEW u \in Users, user[u] = "has", waiting # <<>>,
           NEW s \in {"has", "retry"}, Passed(u, s)
    PROVE  PoolInv'
<1>i. PoolTypes /\ CountedInv /\ OwnedInv /\ QueuedInv
  BY DEF PoolInv
<1> DEFINE h == Head(waiting)
           x == held[u]
<1>1. /\ user' = [user EXCEPT ![u] = "out", ![h] = s]
      /\ \/ s = "has" /\ held' = [held EXCEPT ![u] = 0, ![h] = x]
         \/ s = "retry" /\ held' = [held EXCEPT ![u] = 0]
      /\ waiting' = Tail(waiting) /\ idle' = idle /\ count' = count
  BY DEF Passed
<1>2. /\ h \in Range(waiting) /\ h \in Users /\ waiting' \in Seq(Users)
      /\ Range(waiting') = Range(waiting) \ {h} /\ IsInjective(waiting')
  BY <1>i, <1>1, TailLink DEF QueuedInv, PoolTypes
<1>3. user[h] = "wait" /\ h # u /\ held[h] = 0 /\ x \in Handles /\ x # 0 /\ x \notin Range(idle)
      /\ \A v \in Users \ {u} : held[v] # x
  BY <1>i, <1>2 DEF QueuedInv, In, OwnedInv, PoolTypes
<1> HIDE DEF h, x
<1>4. /\ user' \in [Users -> States] /\ user'[u] = "out" /\ user'[h] = s
      /\ \A v \in Users : v # u /\ v # h => user'[v] = user[v]
  <2>1. user \in [Users -> States] /\ s \in States /\ "out" \in States
    BY <1>i DEF PoolTypes, States
  <2> HIDE DEF States
  <2> QED  BY <1>1, <1>2, <1>3, <2>1
<1>5. /\ held' \in [Users -> Handles \cup {0}] /\ held'[u] = 0
      /\ held'[h] = IF s = "has" THEN x ELSE 0
      /\ \A v \in Users : v # u /\ v # h => held'[v] = held[v]
  <2> DEFINE T == Handles \cup {0}
  <2>1. held \in [Users -> T] /\ x \in T /\ 0 \in T
    BY <1>i, <1>3 DEF PoolTypes
  <2> HIDE DEF T
  <2>2. CASE s = "has" /\ held' = [held EXCEPT ![u] = 0, ![h] = x]
    <3>1. held' \in [Users -> T] /\ held'[u] = 0 /\ held'[h] = x
          /\ \A v \in Users : v # u /\ v # h => held'[v] = held[v]
      BY <1>2, <1>3, <2>1, <2>2
    <3> QED  BY <2>2, <3>1 DEF T
  <2>3. CASE s = "retry" /\ held' = [held EXCEPT ![u] = 0]
    <3>1. held' \in [Users -> T] /\ held'[u] = 0 /\ held'[h] = 0
          /\ \A v \in Users : v # u /\ v # h => held'[v] = held[v]
      BY <1>2, <1>3, <2>1, <2>3
    <3> QED  BY <2>3, <3>1 DEF T
  <2> QED  BY <1>1, <2>2, <2>3
<1>6. PoolTypes'
  BY <1>i, <1>1, <1>2, <1>4, <1>5 DEF PoolTypes, States
<1>7. CountedInv'
  <2>1. u \in Busy /\ h \notin Busy /\ Busy' = (Busy \ {u}) \cup {h}
    BY <1>2, <1>3, <1>4 DEF Busy
  <2> QED  BY <1>i, <1>1, <1>2, <2>1, CountPass
<1>8. OwnedInv'
  <2>z. 0 \notin Range(idle)
    <3>1. 0 \notin Handles
      BY PoolAssumption DEF Handles
    <3>2. \A k \in DOMAIN idle : idle[k] \in Handles
      BY <1>i DEF PoolTypes
    <3> QED  BY <3>1, <3>2 DEF Range
  <2>1. ASSUME NEW v \in Users PROVE held'[v] # 0 <=> user'[v] = "has"
    BY <1>i, <1>3, <1>4, <1>5 DEF OwnedInv
  <2>2. ASSUME NEW v \in Users PROVE held'[v] \notin Range(idle')
    BY <1>i, <1>1, <1>3, <1>5, <2>z DEF OwnedInv
  <2>3. ASSUME NEW v \in Users, NEW w \in Users, held'[v] # 0, held'[v] = held'[w] PROVE v = w
    <3>1. v # u /\ w # u
      BY <1>5, <2>3
    <3>2. v = h => w = h
      BY <1>3, <1>5, <2>3, <3>1
    <3>3. w = h => v = h
      BY <1>3, <1>5, <2>3, <3>1
    <3> QED  BY <1>i, <1>5, <2>3, <3>1, <3>2, <3>3 DEF OwnedInv
  <2> QED  BY <1>i, <1>1, <2>1, <2>2, <2>3 DEF OwnedInv
<1>9. QueuedInv'
  <2>1. In("wait")' = In("wait") \ {h}
    BY <1>2, <1>4 DEF In
  <2> QED  BY <1>i, <1>1, <1>2, <2>1 DEF QueuedInv
<1> QED  BY <1>6, <1>7, <1>8, <1>9 DEF PoolInv

\* u gives its connection up while nobody waits.
LEMMA PutStep ==
    ASSUME PoolInv, NEW u \in Users, user[u] = "has", waiting = <<>>, waiting' = waiting,
           user' = [user EXCEPT ![u] = "out"], held' = [held EXCEPT ![u] = 0],
           \/ idle' = Append(idle, held[u]) /\ count' = count
           \/ idle' = idle /\ count' = count - 1
    PROVE  PoolInv'
<1>i. PoolTypes /\ CountedInv /\ OwnedInv /\ QueuedInv
  BY DEF PoolInv
<1> DEFINE x == held[u]
<1>1. x \in Handles /\ x # 0 /\ x \notin Range(idle) /\ \A v \in Users \ {u} : held[v] # x
  BY <1>i DEF OwnedInv, PoolTypes
<1>2. Now(u, "out", 0)
  <2>1. Sets(u, "out", 0) /\ "out" \in States
    BY DEF Sets, States
  <2> QED  BY <2>1, OneUser
<1>3. /\ \A v \in Users : v # u => held'[v] = held[v] /\ user'[v] = user[v]
      /\ held'[u] = 0 /\ user'[u] = "out"
      /\ user' \in [Users -> States] /\ held' \in [Users -> Handles \cup {0}]
  BY <1>2 DEF Now
<1> HIDE DEF x
<1>4. /\ idle' \in Seq(Handles) /\ IsInjective(idle') /\ Range(idle') \subseteq Range(idle) \cup {x}
      /\ idle \in Seq(Handles) /\ IsInjective(idle) /\ count \in Nat
  <2>1. idle \in Seq(Handles) /\ IsInjective(idle) /\ count \in Nat
    BY <1>i DEF PoolTypes, OwnedInv
  <2>2. CASE idle' = Append(idle, x)
    BY <1>1, <2>1, <2>2, AppendLink
  <2>3. CASE idle' = idle
    BY <2>1, <2>3
  <2> QED  BY <2>1, <2>2, <2>3 DEF x
<1>5. CountedInv' /\ count' \in Nat
  <2>1. u \in Busy /\ Busy' = Busy \ {u}
    BY <1>3 DEF Busy
  <2>2. Loses
    <3>1. CASE idle' = Append(idle, x) /\ count' = count
      <4>1. Len(idle') = Len(idle) + 1
        BY <1>1, <1>4, <3>1, AppendAt
      <4> QED  BY <3>1, <4>1 DEF Loses
    <3>2. CASE idle' = idle /\ count' = count - 1
      BY <3>2 DEF Loses
    <3> QED  BY <3>1, <3>2 DEF x
  <2> QED  BY <1>i, <1>4, <2>1, <2>2, CountLoss
<1>6. PoolTypes'
  BY <1>i, <1>3, <1>4, <1>5 DEF PoolTypes, States
<1>7. OwnedInv'
  <2>z. 0 \notin Range(idle')
    <3>1. 0 \notin Handles
      BY PoolAssumption DEF Handles
    <3>2. \A k \in DOMAIN idle' : idle'[k] \in Handles
      BY <1>4
    <3> QED  BY <3>1, <3>2 DEF Range
  <2>1. \A v \in Users : held'[v] # 0 <=> user'[v] = "has"
    BY <1>i, <1>3 DEF OwnedInv
  <2>2. \A v \in Users : held'[v] \notin Range(idle')
    BY <1>i, <1>1, <1>3, <1>4, <2>z DEF OwnedInv
  <2>3. \A v, w \in Users : held'[v] # 0 /\ held'[v] = held'[w] => v = w
    BY <1>i, <1>3 DEF OwnedInv
  <2> QED  BY <1>4, <2>1, <2>2, <2>3 DEF OwnedInv
<1>8. QueuedInv'
  <2>1. In("wait")' = In("wait")
    BY <1>3 DEF In
  <2> QED  BY <1>i, <2>1 DEF QueuedInv
<1> QED  BY <1>5, <1>6, <1>7, <1>8 DEF PoolInv

LEMMA PutSoundStep ==
    ASSUME PoolInv, NEW u \in Users, PutSound(u) PROVE PoolInv'
<1>i. PoolTypes /\ CountedInv
  BY DEF PoolInv
<1>1. user[u] = "has"
  BY DEF PutSound
<1>2. CASE Len(idle) < MaxConnect
  <2>1. PutBack(u) /\ count' = count
    BY <1>2 DEF PutSound
  <2>2. CASE waiting = <<>>
    BY <1>1, <2>1, <2>2, PutStep DEF PutBack
  <2>3. CASE waiting # <<>>
    <3>1. Passed(u, "has")
      BY <2>1, <2>3 DEF PutBack, Passed
    <3> QED  BY <1>1, <2>3, <3>1, PassStep
  <2> QED  BY <2>2, <2>3
<1>3. CASE ~ (Len(idle) < MaxConnect)
  <2> DEFINE l == Len(idle)
             b == Cardinality(Busy)
  <2>1. u \in Busy
    BY <1>1 DEF Busy
  <2>2. b \in Nat /\ b >= 1
    BY <1>i, <2>1, BusyFacts
  <2>3. l \in Nat /\ count = l + b /\ count <= MaxConnect /\ MaxConnect \in Nat /\ ~ (l < MaxConnect)
    BY <1>i, <1>3, PoolAssumption DEF CountedInv, PoolTypes
  <2> HIDE DEF l, b
  <2>4. FALSE
    BY <2>2, <2>3
  <2> QED  BY <2>4
<1> QED  BY <1>2, <1>3

\* Nobody waits while there is room for another connection.
LEMMA RoomFacts ==
    ASSUME PoolInv PROVE count - 1 < MaxConnect /\ count \in Nat /\ (Reopens <=> waiting # <<>>)
<1>1. count \in Nat /\ count <= MaxConnect /\ MaxConnect \in Nat
  BY PoolAssumption DEF PoolInv, PoolTypes, CountedInv
<1>2. count - 1 < MaxConnect
  BY <1>1
<1> QED  BY <1>1, <1>2 DEF Reopens, Dropped

LEMMA PutDropsStep ==
    ASSUME PoolInv, NEW u \in Users, PutDrops(u) PROVE PoolInv'
<1>1. waiting = <<>>
  BY RoomFacts DEF PutDrops
<1>2. /\ user[u] = "has" /\ idle' = idle /\ waiting' = waiting /\ count' = count - 1
      /\ user' = [user EXCEPT ![u] = "out"] /\ held' = [held EXCEPT ![u] = 0]
  BY DEF PutDrops, Dropped
<1> QED  BY <1>1, <1>2, PutStep

LEMMA PutReopensStep ==
    ASSUME PoolInv, NEW u \in Users, PutReopens(u) PROVE PoolInv'
<1>1. waiting # <<>> /\ count - 1 + 1 = count
  BY RoomFacts DEF PutReopens
<1>2. user[u] = "has" /\ Passed(u, "retry")
  BY <1>1 DEF PutReopens, Passed, Dropped
<1> QED  BY <1>1, <1>2, PassStep

LEMMA PutRemakesStep ==
    ASSUME PoolInv, NEW u \in Users, PutRemakes(u) PROVE PoolInv'
<1>i. PoolTypes /\ OwnedInv
  BY DEF PoolInv
<1>1. waiting # <<>> /\ count - 1 + 1 = count /\ user[u] = "has" /\ idle' = idle
  BY RoomFacts DEF PutRemakes
<1>2. \/ /\ count' = count - 1 + 1 /\ waiting' = Tail(waiting)
         /\ user' = [user EXCEPT ![u] = "out", ![Head(waiting)] = "has"]
         /\ held' = [held EXCEPT ![u] = 0, ![Head(waiting)] = held[u]]
      \/ /\ count' = count - 1 /\ waiting' = <<>>
         /\ user' = [v \in Users |-> IF v = u \/ v \in Range(waiting) THEN "out" ELSE user[v]]
         /\ held' = [held EXCEPT ![u] = 0]
  BY Zenon DEF PutRemakes, Dropped
<1>3. CASE /\ count' = count - 1 + 1 /\ waiting' = Tail(waiting)
           /\ user' = [user EXCEPT ![u] = "out", ![Head(waiting)] = "has"]
           /\ held' = [held EXCEPT ![u] = 0, ![Head(waiting)] = held[u]]
  <2>1. Passed(u, "has")
    BY <1>1, <1>3 DEF Passed
  <2> QED  BY <1>1, <2>1, PassStep
<1>4. CASE /\ count' = count - 1 /\ waiting' = <<>>
           /\ user' = [v \in Users |-> IF v = u \/ v \in Range(waiting) THEN "out" ELSE user[v]]
           /\ held' = [held EXCEPT ![u] = 0]
  <2>1. AllFailed(u)
    <3> DEFINE T == Handles \cup {0}
    <3>1. held \in [Users -> T] /\ 0 \in T /\ user \in [Users -> States] /\ "out" \in States
      BY <1>i DEF PoolTypes, States
    <3> HIDE DEF T, States
    <3>2. held' \in [Users -> T] /\ \A v \in Users : held'[v] = IF v = u THEN 0 ELSE held[v]
      BY <1>4, <3>1
    <3>3. /\ user' \in [Users -> States]
          /\ \A v \in Users : user'[v] = IF v = u \/ v \in Range(waiting) THEN "out" ELSE user[v]
      BY <1>4, <3>1
    <3> QED  BY <1>1, <1>4, <3>2, <3>3 DEF AllFailed, T
  <2>2. u \in Busy
    BY <1>1 DEF Busy
  <2> QED  BY <1>4, <2>1, <2>2, FailStep
<1> QED  BY <1>2, <1>3, <1>4

LEMMA PutOpenedStep ==
    ASSUME PoolInv, NEW u \in Users, PutOpened(u) PROVE PoolInv'
<1>i. PoolTypes /\ CountedInv /\ OwnedInv /\ QueuedInv
  BY DEF PoolInv
<1> DEFINE x == New
           q == Append(idle, x)
<1>1. user[u] = "retry" /\ Resume(<<u>>, q) /\ waiting' = waiting /\ count' = count
      /\ idle \in Seq(Handles) /\ IsInjective(idle) /\ count \in Nat
  BY <1>i DEF PutOpened, PoolTypes, OwnedInv
<1>2. x \in Handles /\ x # 0 /\ x \notin Range(idle) /\ \A v \in Users : held[v] # x
  BY <1>1, NewOpening
<1> HIDE DEF x
<1>3. /\ q \in Seq(Handles) /\ Len(q) = Len(idle) + 1 /\ Len(idle) \in Nat /\ q # <<>>
      /\ q[Len(idle) + 1] = x
      /\ SubSeq(q, 1, Len(q) - 1) = idle
  <2> DEFINE n == Len(idle)
  <2>1. q \in Seq(Handles) /\ n \in Nat /\ Len(q) = n + 1 /\ q[n + 1] = x
        /\ \A k \in 1 .. n : q[k] = idle[k]
    BY <1>1, <1>2, AppendAt
  <2>2. q # <<>>
    <3>1. Len(q) # 0
      <4> HIDE DEF n, q
      <4> QED  BY <2>1
    <3> HIDE DEF q
    <3> QED  BY <2>1, <3>1, EmptySeq
  <2>3. Len(q) - 1 = n
    <3> HIDE DEF n
    <3> QED  BY <2>1
  <2>4. SubSeq(q, 1, n) = idle
    BY <1>1, <1>2, <2>1
  <2> QED  BY <2>1, <2>2, <2>3, <2>4
<1> HIDE DEF q
<1>4. /\ idle' = SubSeq(q, 1, Len(q) - 1)
      /\ \A v \in Users : v # u => held'[v] = held[v] /\ user'[v] = user[v]
      /\ user' \in [Users -> States] /\ held' \in [Users -> Handles \cup {0}]
      /\ held'[u] = q[Len(q)] /\ user'[u] = "has"
  BY <1>i, <1>1, <1>3, ResumeOne DEF States
<1>5. idle' = idle /\ Now(u, "has", x)
  BY <1>3, <1>4 DEF Now
<1>6. PoolTypes'
  BY <1>i, <1>1, <1>5 DEF PoolTypes, Now, States
<1>7. CountedInv'
  <2>1. Busy' = Busy
    BY <1>1, <1>5 DEF Busy, Now
  <2> QED  BY <1>i, <1>1, <1>5, <2>1, CountSame
<1>8. OwnedInv'
  <2>1. Owns(u, "has", x)
    BY <1>2 DEF Owns
  <2> QED  BY <1>5, <2>1, OwnedStep
<1>9. QueuedInv'
  <2>1. In("wait")' = In("wait")
    BY <1>1, <1>5 DEF In, Now
  <2> QED  BY <1>i, <1>1, <1>5, <2>1 DEF QueuedInv
<1> QED  BY <1>6, <1>7, <1>8, <1>9 DEF PoolInv

LEMMA PutFailsStep ==
    ASSUME PoolInv, NEW u \in Users, PutFails(u) PROVE PoolInv'
<1>i. PoolTypes /\ CountedInv /\ OwnedInv /\ QueuedInv
  BY DEF PoolInv
<1>1. user[u] = "retry" /\ count' = count - 1 /\ waiting' = <<>> /\ u \in Busy /\ held[u] = 0
      /\ Resume(<<u>> \o waiting, idle) /\ idle \in Seq(Handles) /\ waiting \in Seq(Users)
      /\ user \in [Users -> States] /\ held \in [Users -> Handles \cup {0}]
  BY <1>i DEF PutFails, Busy, OwnedInv, PoolTypes, States
<1>2. CASE waiting # <<>>
  <2>1. idle = <<>>
    BY <1>i, <1>2 DEF QueuedInv
  <2> DEFINE ws == <<u>> \o waiting
             Place(v) == CHOOSE k \in DOMAIN ws : ws[k] = v
             Given(v) == IF Place(v) <= Len(idle) THEN idle[Len(idle) + 1 - Place(v)] ELSE 0
             n == IF Len(ws) < Len(idle) THEN Len(ws) ELSE Len(idle)
  <2>2. /\ idle' = SubSeq(idle, 1, Len(idle) - n)
        /\ held' = [v \in Users |-> IF v \in Range(ws) THEN Given(v) ELSE held[v]]
        /\ user' = [v \in Users |-> IF v \notin Range(ws) THEN user[v]
                                    ELSE IF Given(v) = 0 THEN "out" ELSE "has"]
    BY <1>1 DEF Resume
  <2>3. Range(ws) = {u} \cup Range(waiting) /\ ws \in Seq(Users) /\ Len(ws) \in Nat
    <3>1. <<u>> \in Seq(Users) /\ Range(<<u>>) = {u}
      BY DEF Range
    <3> DEFINE one == <<u>>
    <3>2. one \in Seq(Users) /\ Range(one) = {u} /\ ws = one \o waiting
      BY <3>1
    <3> HIDE DEF one, ws
    <3>3. Range(ws) = Range(one) \cup Range(waiting) /\ ws \in Seq(Users)
      BY <1>1, <3>2, ConcatLink
    <3> QED  BY <3>2, <3>3
  <2>4. ASSUME NEW v \in Range(ws) PROVE Given(v) = 0
    <3>1. \E k \in DOMAIN ws : ws[k] = v
      BY DEF Range
    <3>2. DOMAIN ws = 1 .. Len(ws)
      BY <2>3
    <3> HIDE DEF ws
    <3>3. Place(v) \in Nat /\ Place(v) >= 1
      BY <2>3, <3>1, <3>2
    <3> HIDE DEF Place
    <3> QED  BY <2>1, <3>3
  <2> HIDE DEF ws
  <2>5. n = 0
    BY <2>1, <2>3
  <2> HIDE DEF n, Given
  <2>6. idle' = <<>>
    BY <2>1, <2>2, <2>5
  <2>7. /\ held' = [v \in Users |-> IF v \in Range(ws) THEN 0 ELSE held[v]]
        /\ user' = [v \in Users |-> IF v \notin Range(ws) THEN user[v] ELSE "out"]
    BY <2>2, <2>4
  <2>8. \A v \in Users : v \in Range(ws) <=> v = u \/ v \in Range(waiting)
    BY <2>3
  <2>9. \A v \in Range(waiting) : held[v] = 0
    BY <1>i DEF QueuedInv, In, OwnedInv
  <2>10. AllFailed(u)
    <3> DEFINE T == Handles \cup {0}
    <3>1. held \in [Users -> T] /\ 0 \in T /\ "out" \in States
      BY <1>1 DEF States
    <3> HIDE DEF T, States
    <3>2. held' \in [Users -> T] /\ \A v \in Users : held'[v] = IF v = u THEN 0 ELSE held[v]
      BY <1>1, <2>7, <2>8, <2>9, <3>1
    <3>3. /\ user' \in [Users -> States]
          /\ \A v \in Users : user'[v] = IF v = u \/ v \in Range(waiting) THEN "out" ELSE user[v]
      BY <1>1, <2>7, <2>8, <3>1
    <3> QED  BY <1>1, <2>1, <2>6, <3>2, <3>3 DEF AllFailed, T
  <2> QED  BY <1>1, <2>10, FailStep
<1>3. CASE waiting = <<>>
  <2>1. <<u>> \o waiting = <<u>> /\ Resume(<<u>>, idle)
    BY <1>1, <1>3
  <2>2. /\ idle' \in Seq(Handles)
        /\ \A v \in Users : v # u => held'[v] = held[v] /\ user'[v] = user[v]
        /\ user' \in [Users -> States]
        /\ held' \in [Users -> Handles \cup {0}]
        /\ idle = <<>> => idle' = <<>> /\ held'[u] = 0 /\ user'[u] = "out"
        /\ idle # <<>> => /\ idle' = SubSeq(idle, 1, Len(idle) - 1) /\ Len(idle') = Len(idle) - 1
                          /\ held'[u] = idle[Len(idle)] /\ user'[u] = "has" /\ held'[u] # 0
    BY <1>i, <1>1, <2>1, ResumeOne DEF States
  <2>3. CASE idle = <<>>
    <3>1. Range(waiting) = {}
      BY <1>3, EmptyLink
    <3>2. AllFailed(u)
      BY <1>1, <2>2, <2>3, <3>1 DEF AllFailed
    <3> QED  BY <1>1, <3>2, FailStep
  <2>4. CASE idle # <<>>
    <3> DEFINE n == Len(idle)
               c == idle[n]
               b == Cardinality(Busy)
               m == Len(idle')
    <3>1. IsInjective(idle') /\ c \in Range(idle) /\ Range(idle') = Range(idle) \ {c}
      BY <1>i, <1>1, <2>2, <2>4, LastOut DEF OwnedInv
    <3>2. Busy' = Busy
      BY <1>1, <2>2, <2>4 DEF Busy
    <3>3. n \in Nat /\ n >= 1 /\ m = n - 1 /\ b \in Nat /\ count = n + b /\ count <= MaxConnect
          /\ MaxConnect \in Nat
      <4>1. n \in Nat /\ n # 0
        BY <1>1, <2>4, EmptySeq
      <4>2. n >= 1
        <5> HIDE DEF n
        <5> QED  BY <4>1
      <4>3. m = n - 1
        BY <2>2, <2>4
      <4>4. b \in Nat
        BY <1>i, BusyFacts
      <4> QED  BY <1>i, <4>1, <4>2, <4>3, <4>4, PoolAssumption DEF CountedInv
    <3>4. count' \in Nat /\ count' = m + b /\ count' <= MaxConnect
      <4> HIDE DEF n, b, m
      <4> QED  BY <1>1, <3>3
    <3>5. CountedInv'
      BY <1>i, <3>2, <3>4 DEF CountedInv
    <3>6. PoolTypes'
      <4>1. waiting' \in Seq(Users)
        BY <1>1
      <4> QED  BY <2>2, <3>4, <4>1 DEF PoolTypes, States
    <3>7. OwnedInv'
      <4>a. held'[u] = c /\ c # 0 /\ user'[u] = "has"
            /\ \A v \in Users : v # u => held'[v] = held[v] /\ user'[v] = user[v]
        BY <2>2, <2>4
      <4> HIDE DEF c, n, b, m
      <4>1. \A v \in Users : held[v] # c
        BY <1>i, <3>1 DEF OwnedInv
      <4>2. \A v \in Users : held'[v] # 0 <=> user'[v] = "has"
        BY <1>i, <4>a DEF OwnedInv
      <4>3. \A v \in Users : held'[v] \notin Range(idle')
        BY <1>i, <4>a, <3>1 DEF OwnedInv
      <4>4. \A v, w \in Users : held'[v] # 0 /\ held'[v] = held'[w] => v = w
        BY <1>i, <4>a, <4>1 DEF OwnedInv
      <4> QED  BY <3>1, <4>2, <4>3, <4>4 DEF OwnedInv
    <3>8. QueuedInv'
      <4>1. In("wait")' = In("wait")
        BY <1>1, <2>2, <2>4 DEF In
      <4> QED  BY <1>i, <1>1, <1>3, <4>1 DEF QueuedInv
    <3> QED  BY <3>5, <3>6, <3>7, <3>8 DEF PoolInv
  <2> QED  BY <2>3, <2>4
<1> QED  BY <1>2, <1>3

LEMMA ClearIdleStep ==
    ASSUME PoolInv, ClearIdle PROVE PoolInv'
<1>i. PoolTypes /\ CountedInv /\ OwnedInv /\ QueuedInv
  BY DEF PoolInv
<1> DEFINE n == Len(idle)
           b == Cardinality(Busy)
           m == Len(idle')
<1>1. PICK k \in 1 .. n : /\ idle' = SubSeq(idle, k + 1, Len(idle)) /\ count' = count - k
                          /\ user' = user /\ held' = held /\ waiting' = waiting
  BY DEF ClearIdle
<1>2. idle \in Seq(Handles) /\ n \in Nat /\ k \in 0 .. n /\ IsInjective(idle)
  BY <1>i DEF PoolTypes, OwnedInv
<1>3. /\ idle' \in Seq(Handles) /\ IsInjective(idle')
      /\ Range(SubSeq(idle, 1, k)) \cup Range(idle') = Range(idle)
  BY <1>1, <1>2, SubSeqLink
<1>4. m = n - k
  BY <1>1, <1>2
<1>5. Busy' = Busy /\ In("wait")' = In("wait")
  BY <1>1 DEF Busy, In
<1>6. count = n + b /\ b \in Nat /\ count <= MaxConnect /\ MaxConnect \in Nat
  BY <1>i, FS_CardinalityType, PoolAssumption DEF CountedInv
<1>7. count' \in Nat /\ count' = m + b /\ count' <= MaxConnect
  <2> HIDE DEF n, b, m
  <2> QED  BY <1>1, <1>2, <1>4, <1>6
<1>8. PoolTypes'
  BY <1>i, <1>1, <1>3, <1>7 DEF PoolTypes
<1>9. CountedInv'
  BY <1>i, <1>5, <1>7 DEF CountedInv
<1>10. OwnedInv'
  BY <1>i, <1>1, <1>3 DEF OwnedInv
<1>11. QueuedInv'
  <2>1. waiting = <<>>
    <3>1. idle # <<>>
      BY <1>1, <1>2
    <3> QED  BY <1>i, <3>1 DEF QueuedInv
  <2> QED  BY <1>i, <1>1, <1>5, <2>1 DEF QueuedInv
<1> QED  BY <1>8, <1>9, <1>10, <1>11 DEF PoolInv

LEMMA PoolStep ==
    ASSUME PoolInv, PoolNext PROVE PoolInv'
<1>1. ASSUME NEW u \in Users, TakeIdle(u) \/ TakeMakes(u) \/ TakeWaits(u) \/ TakeOpens(u)
      PROVE  PoolInv'
  BY <1>1, TakeIdleStep, TakeWaitsStep, TakeOpensStep, TakeOpenedStep, TakeFailsStep, Zenon
     DEF TakeMakes
<1>2. ASSUME NEW u \in Users, PutSound(u) \/ PutDrops(u) \/ PutReopens(u) \/ PutRemakes(u)
      PROVE  PoolInv'
  BY <1>2, PutSoundStep, PutDropsStep, PutReopensStep, PutRemakesStep
<1>3. ASSUME NEW u \in Users, PoolCall(u) PROVE PoolInv'
  BY <1>1, <1>2, <1>3, Zenon
     DEF PoolCall, RedisProxy, MysqlProxy, MemcachedProxy, MongodbProxy, RedisTake, MysqlTake,
         MemcachedTake, MongodbTake, RedisPut, MysqlPut, MemcachedPut, MongodbPut, TakeYielding,
         TakeAtOnce, PutYielding, PutAtOnce
<1>4. ClearIdle => PoolInv'
  BY ClearIdleStep
<1>5. ASSUME NEW u \in Users, TakeOpened(u) \/ TakeFails(u) \/ PutOpened(u) \/ PutFails(u)
      PROVE  PoolInv'
  BY <1>5, TakeOpenedStep, TakeFailsStep, PutOpenedStep, PutFailsStep
<1> QED
  BY <1>3, <1>4, <1>5
     DEF PoolNext, RedisClearIdle, MysqlClearIdle, MemcachedClearIdle, MongodbClearIdle

\* The busy users have a connection, or one is opened by take() or by put().
LEMMA PoolSoundHolds ==
    ASSUME PoolInv PROVE PoolSound
<1>i. PoolTypes /\ CountedInv /\ OwnedInv /\ QueuedInv
  BY DEF PoolInv
<1> DEFINE A == In("has")
           B == In("open")
           C == In("retry")
           a == Cardinality(A)
           b == Cardinality(B)
           c == Cardinality(C)
           d == Cardinality(A \cup B)
           e == Cardinality((A \cup B) \cup C)
<1>1. Busy = (A \cup B) \cup C /\ A \cap B = {} /\ (A \cup B) \cap C = {}
  BY DEF Busy, In
<1> HIDE DEF A, B, C
<1>2. IsFiniteSet(A) /\ IsFiniteSet(B) /\ IsFiniteSet(C)
  BY <1>i, <1>1, FS_Subset DEF CountedInv
<1>3. a \in Nat /\ b \in Nat /\ c \in Nat
  BY <1>2, FS_CardinalityType
<1>4. IsFiniteSet(A \cup B) /\ d = a + b - Cardinality({})
  BY <1>1, <1>2, FS_Union
<1>5. e = d + c - Cardinality({})
  BY <1>1, <1>2, <1>4, FS_Union
<1>6. Cardinality({}) = 0
  BY FS_EmptySet
<1> DEFINE l == Len(idle)
<1>7. l \in Nat /\ count = l + e /\ count \in Nat /\ count <= MaxConnect /\ MaxConnect \in Nat
  BY <1>i, <1>1, PoolAssumption DEF CountedInv, PoolTypes
<1> HIDE DEF a, b, c, d, e, l
<1>8. d = a + b
  BY <1>3, <1>4, <1>6
<1>9. count = l + a + b + c /\ count \in 0 .. MaxConnect
  BY <1>3, <1>5, <1>6, <1>7, <1>8
<1>10. count = Len(idle) + Cardinality(In("has")) + Cardinality(In("open")) + Cardinality(In("retry"))
  BY <1>9 DEF a, b, c, l, A, B, C
<1>11. \A u \in Users : /\ held[u] # 0 <=> user[u] = "has"
                        /\ held[u] \notin Range(idle)
                        /\ \A v \in Users \ {u} : held[u] # 0 => held[u] # held[v]
  BY <1>i DEF OwnedInv
<1>12. IsInjective(idle)
  BY <1>i DEF OwnedInv
<1> QED  BY <1>i, <1>9, <1>10, <1>11, <1>12 DEF PoolSound, QueuedInv

-----------------------------------------------------------------------------
(***************************************************************************)
(* RpcServer.  What is deleted of a request follows from who holds its     *)
(* task and how far its closure is; a request is in at most one queue of   *)
(* each thread, and what was answered is not with the sender any more.     *)
(***************************************************************************)
Message == [callId : Requests, serviceId : Services, methodId : Nat, parses : BOOLEAN]
Errors == [text : BOOLEAN, code : Int]

RpcTypes ==
    /\ RpcServerTypeOK
    /\ wire \in Seq(Message) /\ controller \in [Requests -> Errors]
    /\ replies \in Seq([callId : Requests, error : Errors])

\* decode() makes the objects of a request, the worker has its task until the
\* method has returned, and the sender may have it from then on.
StageInv(r) ==
    /\ stage[r] \in {"none", "sent"} => method[r] = "none"
    /\ stage[r] \in {"queued", "called", "returned"} => method[r] # "none"
    /\ "task" \in holders[r] <=> stage[r] \in {"queued", "called", "returned"}
    /\ "sender" \in holders[r] => HasResponse(method[r]) /\ stage[r] \in {"returned", "over"}
    /\ done[r] # "none" <=> method[r] = "deleteInDone"

\* Nothing has the objects of r any more.
Finished(r) == IF done[r] = "none" THEN holders[r] = {} ELSE done[r] = "run"

DeleteInv(r) ==
    \A o \in Objects : deletes[r][o] = IF o \in Made(r) /\ Finished(r) THEN 1 ELSE 0

RequestInv == \A r \in Requests : StageInv(r) /\ DeleteInv(r)

WireInv ==
    /\ \A i \in DOMAIN wire : stage[wire[i].callId] = "sent"
    /\ \A i, j \in DOMAIN wire : wire[i].callId = wire[j].callId => i = j

WorkInv ==
    /\ IsInjective(workQueue)
    /\ \A r \in Requests : r \in Range(workQueue) <=> stage[r] = "queued"
    /\ \A r \in Requests, h \in Handlers : r \in busy[h] => stage[r] \in {"called", "returned"}

SendInv ==
    /\ IsInjective(sendQueue)
    /\ \A r \in Requests : r \in Range(sendQueue) <=> "sender" \in holders[r]

ReplyInv ==
    /\ \A i, j \in DOMAIN replies : replies[i].callId = replies[j].callId => i = j
    /\ \A i \in DOMAIN replies, r \in Requests :
          r = replies[i].callId =>
              /\ HasResponse(method[r]) /\ stage[r] \in {"returned", "over"}
              /\ "sender" \notin holders[r]
              /\ replies[i].error.code = controller[r].code

RpcInv == RpcTypes /\ RequestInv /\ WireInv /\ WorkInv /\ SendInv /\ ReplyInv

LEMMA RpcInitInv ==
    ASSUME RpcServerInit PROVE RpcInv
<1>1. /\ services = <<>> /\ server = "new" /\ handlers = IoHandlers /\ peer = "none" /\ wire = <<>>
      /\ method = [r \in Requests |-> "none"]
      /\ workQueue = <<>> /\ busy = [h \in Handlers |-> {}]
      /\ stage = [r \in Requests |-> "none"]
      /\ deletes = [r \in Requests |-> [o \in Objects |-> 0]]
      /\ holders = [r \in Requests |-> {}]
      /\ done = [r \in Requests |-> "none"]
      /\ controller = [r \in Requests |-> NoError]
      /\ sendQueue = <<>> /\ replies = <<>>
  BY DEF RpcServerInit
<1>2. Range(<<>>) = {} /\ IsInjective(<<>>) /\ DOMAIN <<>> = {}
  BY EmptyLink
<1>3. RpcServerTypeOK
  <2>1. \A s \in DOMAIN services : services[s] \in Seq(Options)
    BY <1>1, <1>2
  <2>2. deletes \in [Requests -> [Objects -> Nat]]
    BY <1>1
  <2> QED  BY <1>1, <2>1, <2>2, RpcServerAssumption DEF RpcServerTypeOK
<1>4. RpcTypes
  BY <1>1, <1>3 DEF RpcTypes, Errors, NoError
<1>5. RequestInv
  BY <1>1 DEF RequestInv, StageInv, DeleteInv, Made, HasResponse
<1>6. WireInv /\ ReplyInv
  BY <1>1, <1>2 DEF WireInv, ReplyInv
<1>7. WorkInv /\ SendInv
  BY <1>1, <1>2 DEF WorkInv, SendInv
<1> QED  BY <1>4, <1>5, <1>6, <1>7 DEF RpcInv

\* The queues and requests a step leaves alone keep their invariants.
LEMMA RpcIdle ==
    ASSUME RpcInv, UNCHANGED <<queueVars, taskVars>>, RpcServerTypeOK'
    PROVE  RpcInv'
<1>1. UNCHANGED <<wire, workQueue, busy, sendQueue, replies, method, stage, deletes, holders, done,
                  controller>>
  BY DEF queueVars, taskVars
<1>2. RpcTypes'
  BY <1>1 DEF RpcInv, RpcTypes
<1>3. RequestInv'
  BY <1>1 DEF RpcInv, RequestInv, StageInv, DeleteInv, Made, Finished
<1>4. WireInv' /\ ReplyInv'
  BY <1>1 DEF RpcInv, WireInv, ReplyInv
<1>5. WorkInv' /\ SendInv'
  BY <1>1 DEF RpcInv, WorkInv, SendInv
<1> QED  BY <1>2, <1>3, <1>4, <1>5 DEF RpcInv

\* What is in getMethod(): the options of a method.
LEMMA MethodFacts ==
    ASSUME RpcServerTypeOK, NEW s, NEW m \in Nat
    PROVE  getMethod(s, m) \in Options \cup {"none"}
<1>1. CASE s \in DOMAIN services /\ m < Len(services[s])
  <2> DEFINE q == services[s]
  <2>1. q \in Seq(Options)
    BY <1>1 DEF RpcServerTypeOK
  <2> HIDE DEF q
  <2>2. m + 1 \in 1 .. Len(q)
    <3>1. Len(q) \in Nat /\ m < Len(q)
      BY <1>1, <2>1 DEF q
    <3> DEFINE n == Len(q)
    <3> HIDE DEF n
    <3> QED  BY <3>1 DEF n
  <2>3. q[m + 1] \in Options
    BY <2>1, <2>2
  <2> QED  BY <1>1, <2>3 DEF getMethod, q
<1>2. CASE ~ (s \in DOMAIN services /\ m < Len(services[s]))
  BY <1>2 DEF getMethod
<1> QED  BY <1>1, <1>2

\* Starting the server, and the connection.
LEMMA RpcServerStarts ==
    ASSUME RpcInv,
           \/ \E bound \in BOOLEAN : start(bound)
           \/ \E s \in DOMAIN Offered : registerService(s)
           \/ acceptRoutine \/ PeerCloses
    PROVE  RpcInv'
<1>i. RpcServerTypeOK
  BY DEF RpcInv, RpcTypes
<1>1. ASSUME NEW bound \in BOOLEAN, start(bound) PROVE RpcInv'
  <2>1. /\ UNCHANGED <<services, peer, wire, workQueue, busy, sendQueue, replies, method, stage,
                       deletes, holders, done, controller>>
        /\ server' \in {"listening", "failed"} /\ handlers' \in {handlers, Handlers}
    BY <1>1 DEF start, AcceptorStart, WorkerStart, queueVars, taskVars
  <2>2. RpcServerTypeOK'
    BY <1>i, <2>1 DEF RpcServerTypeOK
  <2>3. UNCHANGED <<queueVars, taskVars>>
    BY <1>1 DEF start
  <2> QED  BY <2>2, <2>3, RpcIdle
<1>2. ASSUME NEW s \in DOMAIN Offered, registerService(s) PROVE RpcInv'
  <2>1. /\ UNCHANGED <<server, handlers, peer, wire, workQueue, busy, sendQueue, replies, method,
                       stage, deletes, holders, done, controller>>
        /\ services' = [x \in DOMAIN services \cup {s} |-> IF x = s THEN Offered[s] ELSE services[x]]
    BY <1>2 DEF registerService, queueVars, taskVars
  <2>2. \A x \in DOMAIN services' : services'[x] \in Seq(Options)
    <3>1. Offered[s] \in Seq(Options)
      BY RpcServerAssumption
    <3> DEFINE Q == Seq(Options)
    <3>2. Offered[s] \in Q /\ \A x \in DOMAIN services : services[x] \in Q
      BY <1>i, <3>1 DEF RpcServerTypeOK
    <3> HIDE DEF Q
    <3> QED  BY <2>1, <3>2 DEF Q
  <2>3. RpcServerTypeOK'
    BY <1>i, <2>1, <2>2 DEF RpcServerTypeOK
  <2>4. UNCHANGED <<queueVars, taskVars>>
    BY <1>2 DEF registerService
  <2> QED  BY <2>3, <2>4, RpcIdle
<1>3. ASSUME acceptRoutine \/ PeerCloses PROVE RpcInv'
  <2>1. /\ UNCHANGED <<services, server, handlers, wire, workQueue, busy, sendQueue, replies, method,
                       stage, deletes, holders, done, controller>>
        /\ peer' \in {"open", "closed"}
    BY <1>3 DEF acceptRoutine, PeerCloses, queueVars, taskVars
  <2>2. RpcServerTypeOK'
    BY <1>i, <2>1 DEF RpcServerTypeOK
  <2>3. UNCHANGED <<queueVars, taskVars>>
    BY <2>1 DEF queueVars, taskVars
  <2> QED  BY <2>2, <2>3, RpcIdle
<1> QED  BY <1>1, <1>2, <1>3

\* Requests that a step is not about.
Same(x) ==
    /\ stage'[x] = stage[x] /\ method'[x] = method[x] /\ deletes'[x] = deletes[x]
    /\ holders'[x] = holders[x] /\ done'[x] = done[x]

LEMMA OtherRequests ==
    ASSUME RequestInv, NEW r \in Requests, \A x \in Requests \ {r} : Same(x),
           StageInv(r)', DeleteInv(r)'
    PROVE  RequestInv'
<1> SUFFICES ASSUME NEW x \in Requests PROVE StageInv(x)' /\ DeleteInv(x)'
  BY DEF RequestInv
<1>1. CASE x = r
  BY <1>1
<1>2. CASE x # r
  <2>1. Same(x) /\ StageInv(x) /\ DeleteInv(x)
    BY <1>2 DEF RequestInv
  <2> QED  BY <2>1 DEF Same, StageInv, DeleteInv, Made, Finished
<1> QED  BY <1>1, <1>2

\* The stage of r changes, and nothing else about it.
StageSet(r, s) ==
    /\ stage' \in [Requests -> {"none", "sent", "queued", "called", "returned", "over"}]
    /\ stage'[r] = s /\ \A x \in Requests : x # r => stage'[x] = stage[x]

LEMMA StageSetFacts ==
    ASSUME RpcServerTypeOK, NEW r \in Requests,
           NEW s \in {"none", "sent", "queued", "called", "returned", "over"},
           stage' = [stage EXCEPT ![r] = s]
    PROVE  StageSet(r, s)
  BY DEF StageSet, RpcServerTypeOK

LEMMA ClientSendsStep ==
    ASSUME RpcInv, NEW r \in Requests, NEW s \in Services, NEW m \in Nat, NEW parses \in BOOLEAN,
           ClientSends(r, s, m, parses)
    PROVE  RpcInv'
<1>i. RpcTypes /\ RequestInv /\ WireInv /\ WorkInv /\ SendInv /\ ReplyInv /\ RpcServerTypeOK
  BY DEF RpcInv, RpcTypes
<1> DEFINE msg == [callId |-> r, serviceId |-> s, methodId |-> m, parses |-> parses]
           n == Len(wire)
<1>1. /\ stage[r] = "none" /\ wire' = Append(wire, msg) /\ stage' = [stage EXCEPT ![r] = "sent"]
      /\ UNCHANGED <<services, server, handlers, peer, workQueue, busy, sendQueue, replies, method,
                   deletes, holders, done, controller>>
  BY DEF ClientSends
<1>2. StageSet(r, "sent")
  BY <1>i, <1>1, StageSetFacts
<1>3. /\ stage' \in [Requests -> {"none", "sent", "queued", "called", "returned", "over"}]
      /\ stage'[r] = "sent" /\ \A x \in Requests : x # r => stage'[x] = stage[x]
  BY <1>2 DEF StageSet
<1>4. msg \in Message /\ msg.callId = r /\ wire \in Seq(Message)
  BY <1>i DEF Message, RpcTypes
<1> HIDE DEF msg
<1>5. /\ wire' \in Seq(Message) /\ n \in Nat /\ Len(wire') = n + 1 /\ wire'[n + 1] = msg
      /\ \A k \in 1 .. n : wire'[k] = wire[k]
  BY <1>1, <1>4, AppendAt
<1>6. RpcServerTypeOK'
  BY <1>i, <1>1, <1>3 DEF RpcServerTypeOK
<1>7. RpcTypes'
  BY <1>i, <1>1, <1>5, <1>6 DEF RpcTypes
<1>8. RequestInv'
  <2>1. \A x \in Requests \ {r} : Same(x)
    BY <1>1, <1>3 DEF Same
  <2>2. StageInv(r) /\ DeleteInv(r)
    BY <1>i DEF RequestInv
  <2>3. StageInv(r)' /\ DeleteInv(r)'
    BY <1>1, <1>3, <2>2 DEF StageInv, DeleteInv, Made, Finished
  <2> QED  BY <1>i, <2>1, <2>3, OtherRequests
<1>9. WireInv'
  <2>0. \A g \in Message : g.callId \in Requests
    BY DEF Message
  <2>1. DOMAIN wire' = 1 .. n + 1 /\ DOMAIN wire = 1 .. n /\ \A i \in 1 .. n : wire[i].callId \in Requests
    BY <1>4, <1>5, <2>0
  <2> HIDE DEF n
  <2>2. \A i \in 1 .. n : wire[i].callId # r
    BY <1>i, <1>1, <2>1 DEF WireInv
  <2>3. \A i \in 1 .. n + 1 : i \in 1 .. n \/ i = n + 1
    BY <1>5
  <2>4. \A i \in DOMAIN wire' : stage'[wire'[i].callId] = "sent"
    BY <1>i, <1>3, <1>4, <1>5, <2>1, <2>2, <2>3 DEF WireInv
  <2>5. \A i, j \in DOMAIN wire' : wire'[i].callId = wire'[j].callId => i = j
    BY <1>i, <1>4, <1>5, <2>1, <2>2, <2>3 DEF WireInv
  <2> QED  BY <2>4, <2>5 DEF WireInv
<1>10. WorkInv' /\ SendInv'
  BY <1>i, <1>1, <1>3 DEF WorkInv, SendInv
<1>11. ReplyInv'
  BY <1>i, <1>1, <1>3 DEF ReplyInv
<1> QED  BY <1>7, <1>8, <1>9, <1>10, <1>11 DEF RpcInv

\* The first message leaves the wire and its request has another stage.
LEMMA WireTail ==
    ASSUME RpcInv, wire # <<>>, wire' = Tail(wire), NEW r, r = Head(wire).callId,
           \A x \in Requests : x # r => stage'[x] = stage[x]
    PROVE  wire' \in Seq(Message) /\ WireInv' /\ r \in Requests /\ stage[r] = "sent"
           /\ Head(wire) \in Message
<1> DEFINE n == Len(wire)
<1>1. wire \in Seq(Message) /\ n \in Nat /\ n >= 1 /\ WireInv
  BY EmptySeq DEF RpcInv, RpcTypes
<1>2. /\ wire' \in Seq(Message) /\ Len(wire') = n - 1 /\ Head(wire) = wire[1]
      /\ \A i \in 1 .. n - 1 : wire'[i] = wire[i + 1]
  BY <1>1
<1>3. DOMAIN wire = 1 .. n /\ DOMAIN wire' = 1 .. n - 1
      /\ \A i \in 1 .. n : wire[i] \in Message /\ wire[i].callId \in Requests
  <2>1. \A g \in Message : g.callId \in Requests
    BY DEF Message
  <2> QED  BY <1>1, <1>2, <2>1
<1> HIDE DEF n
<1>4. 1 \in 1 .. n /\ \A i \in 1 .. n - 1 : i + 1 \in 1 .. n /\ i + 1 # 1
  BY <1>1
<1>5. \A i \in DOMAIN wire' : wire'[i].callId # r /\ wire'[i].callId \in Requests
                              /\ stage[wire'[i].callId] = "sent"
  BY <1>1, <1>2, <1>3, <1>4 DEF WireInv
<1>6. ASSUME NEW i \in DOMAIN wire', NEW j \in DOMAIN wire', wire'[i].callId = wire'[j].callId
      PROVE  i = j
  <2>1. i + 1 \in 1 .. n /\ j + 1 \in 1 .. n /\ wire[i + 1].callId = wire[j + 1].callId
    BY <1>2, <1>3, <1>4, <1>6
  <2>2. i + 1 = j + 1
    BY <1>1, <1>3, <2>1 DEF WireInv
  <2> QED  BY <1>3, <2>2
<1>7. WireInv'
  BY <1>5, <1>6 DEF WireInv
<1>8. r \in Requests /\ stage[r] = "sent" /\ Head(wire) \in Message
  BY <1>1, <1>2, <1>3, <1>4 DEF WireInv
<1> QED  BY <1>2, <1>7, <1>8

LEMMA DecodeStep ==
    ASSUME RpcInv, decode PROVE RpcInv'
<1>i. RpcTypes /\ RequestInv /\ WireInv /\ WorkInv /\ SendInv /\ ReplyInv /\ RpcServerTypeOK
  BY DEF RpcInv, RpcTypes
<1> DEFINE h == Head(wire)
<1>a. h \in Message /\ wire # <<>>
  BY <1>i DEF RpcTypes, decode
<1>2. PICK r \in Requests : r = h.callId
  BY <1>a DEF Message
<1>3. PICK opt \in Options \cup {"none"} : opt = getMethod(h.serviceId, h.methodId)
  <2>1. h.methodId \in Nat
    BY <1>a DEF Message
  <2> QED  BY <1>i, <2>1, MethodFacts
<1>b. PICK made \in BOOLEAN : made <=> opt # "none" /\ h.parses
  OBVIOUS
<1>1. /\ wire # <<>> /\ wire' = Tail(wire)
      /\ UNCHANGED <<services, server, handlers, peer, busy, sendQueue, replies, deletes, controller>>
      /\ ~made => /\ stage' = [stage EXCEPT ![r] = "over"]
                  /\ UNCHANGED <<workQueue, method, holders, done>>
      /\ made => /\ stage' = [stage EXCEPT ![r] = "queued"]
                 /\ method' = [method EXCEPT ![r] = opt]
                 /\ holders' = [holders EXCEPT ![r] = {"task"}]
                 /\ done' = [done EXCEPT ![r] = IF opt = "deleteInDone" THEN "pending" ELSE "none"]
                 /\ workQueue' = Append(workQueue, r)
  BY <1>2, <1>3, <1>b, Zenon DEF decode
<1>r. Head(wire).callId = r
  BY <1>2
<1> HIDE DEF h
<1>s. StageSet(r, IF made THEN "queued" ELSE "over")
  BY <1>i, <1>1, <1>2, StageSetFacts
<1>4. /\ stage' \in [Requests -> {"none", "sent", "queued", "called", "returned", "over"}]
      /\ stage'[r] = (IF made THEN "queued" ELSE "over")
      /\ \A x \in Requests : x # r => stage'[x] = stage[x]
  BY <1>s DEF StageSet
<1>5. wire' \in Seq(Message) /\ WireInv' /\ stage[r] = "sent"
  BY <1>1, <1>4, <1>r, WireTail
<1>6. StageInv(r) /\ DeleteInv(r)
  BY <1>i, <1>2 DEF RequestInv
<1>7. /\ method[r] = "none" /\ done[r] = "none" /\ holders[r] = {} /\ r \notin Range(workQueue)
      /\ \A o \in Objects : deletes[r][o] = 0
  <2>1. method[r] = "none" /\ "task" \notin holders[r] /\ "sender" \notin holders[r]
    BY <1>5, <1>6 DEF StageInv
  <2>2. holders[r] = {}
    BY <1>i, <1>2, <2>1 DEF RpcServerTypeOK
  <2>3. done[r] = "none"
    BY <1>6, <2>1 DEF StageInv
  <2> QED  BY <1>i, <1>2, <1>5, <1>6, <2>1, <2>2, <2>3 DEF DeleteInv, Made, WorkInv
<1>8. CASE ~made
  <2>1. RpcServerTypeOK'
    BY <1>i, <1>1, <1>4, <1>8 DEF RpcServerTypeOK
  <2>2. RpcTypes'
    BY <1>i, <1>1, <1>5, <2>1 DEF RpcTypes
  <2>3. RequestInv'
    <3>1. \A x \in Requests \ {r} : Same(x)
      BY <1>1, <1>4, <1>8 DEF Same
    <3>2. StageInv(r)' /\ DeleteInv(r)'
      BY <1>1, <1>4, <1>6, <1>7, <1>8 DEF StageInv, DeleteInv, Made, Finished
    <3> QED  BY <1>i, <1>2, <3>1, <3>2, OtherRequests
  <2>4. WorkInv' /\ SendInv'
    BY <1>i, <1>1, <1>4, <1>5, <1>8 DEF WorkInv, SendInv
  <2>5. ReplyInv'
    BY <1>i, <1>1, <1>4, <1>8 DEF ReplyInv
  <2> QED  BY <1>5, <2>2, <2>3, <2>4, <2>5 DEF RpcInv
<1>9. CASE made
  <2>1. opt \in Options /\ opt # "none"
    BY <1>3, <1>9, <1>b
  <2>2. /\ method' \in [Requests -> Options \cup {"none"}] /\ method'[r] = opt
        /\ \A x \in Requests : x # r => method'[x] = method[x]
    <3> DEFINE T == Options \cup {"none"}
    <3>1. method \in [Requests -> T] /\ opt \in T
      BY <1>i, <1>3 DEF RpcServerTypeOK
    <3> HIDE DEF T
    <3>2. method' \in [Requests -> T] /\ method'[r] = opt
          /\ \A x \in Requests : x # r => method'[x] = method[x]
      BY <1>1, <1>2, <1>9, <3>1
    <3> QED  BY <3>2 DEF T
  <2>3. /\ holders' \in [Requests -> SUBSET {"task", "sender"}] /\ holders'[r] = {"task"}
        /\ \A x \in Requests : x # r => holders'[x] = holders[x]
    <3> DEFINE T == SUBSET {"task", "sender"}
    <3>1. holders \in [Requests -> T] /\ {"task"} \in T
      BY <1>i DEF RpcServerTypeOK
    <3> HIDE DEF T
    <3>2. holders' \in [Requests -> T] /\ holders'[r] = {"task"}
          /\ \A x \in Requests : x # r => holders'[x] = holders[x]
      BY <1>1, <1>2, <1>9, <3>1
    <3> QED  BY <3>2 DEF T
  <2>4. /\ done' \in [Requests -> {"none", "pending", "run"}]
        /\ done'[r] = IF opt = "deleteInDone" THEN "pending" ELSE "none"
        /\ \A x \in Requests : x # r => done'[x] = done[x]
    BY <1>i, <1>1, <1>2, <1>9 DEF RpcServerTypeOK
  <2>5. /\ workQueue' \in Seq(Requests) /\ Range(workQueue') = Range(workQueue) \cup {r}
        /\ IsInjective(workQueue')
    <3>1. workQueue \in Seq(Requests) /\ IsInjective(workQueue) /\ workQueue' = Append(workQueue, r)
      BY <1>i, <1>1, <1>9 DEF RpcServerTypeOK, WorkInv
    <3> QED  BY <1>7, <3>1, AppendLink
  <2>6. RpcServerTypeOK'
    BY <1>i, <1>1, <1>4, <2>2, <2>3, <2>4, <2>5 DEF RpcServerTypeOK
  <2>7. RpcTypes'
    BY <1>i, <1>1, <1>5, <2>6 DEF RpcTypes
  <2>8. RequestInv'
    <3>1. \A x \in Requests \ {r} : Same(x)
      BY <1>1, <1>4, <2>2, <2>3, <2>4 DEF Same
    <3>2. StageInv(r)'
      BY <1>4, <1>9, <2>1, <2>2, <2>3, <2>4 DEF StageInv
    <3>3. DeleteInv(r)'
      BY <1>1, <1>7, <2>1, <2>3, <2>4 DEF DeleteInv, Finished
    <3> QED  BY <1>i, <1>2, <3>1, <3>2, <3>3, OtherRequests
  <2>9. WorkInv'
    BY <1>i, <1>1, <1>4, <1>5, <1>9, <2>5 DEF WorkInv
  <2>10. SendInv'
    <3>1. \A x \in Requests : "sender" \in holders'[x] <=> "sender" \in holders[x]
      BY <1>7, <2>3
    <3> QED  BY <1>i, <1>1, <3>1 DEF SendInv
  <2>11. ReplyInv'
    BY <1>i, <1>1, <1>4, <1>5, <2>2, <2>3 DEF ReplyInv
  <2> QED  BY <1>5, <2>7, <2>8, <2>9, <2>10, <2>11 DEF RpcInv
<1> QED  BY <1>8, <1>9

LEMMA HandlerStep ==
    ASSUME RpcInv, NEW h \in Handlers, taskHandleRoutine(h) PROVE RpcInv'
<1>i. RpcTypes /\ RequestInv /\ WireInv /\ WorkInv /\ SendInv /\ ReplyInv /\ RpcServerTypeOK
  BY DEF RpcInv, RpcTypes
<1>a. workQueue # <<>> /\ workQueue \in Seq(Requests) /\ IsInjective(workQueue)
  BY <1>i DEF taskHandleRoutine, RpcServerTypeOK, WorkInv
<1>b. PICK r \in Requests : r = Head(workQueue) /\ r \in Range(workQueue)
  BY <1>a, TailLink
<1>1. /\ workQueue' = Tail(workQueue)
      /\ busy' = [busy EXCEPT ![h] = IF method[r] = "coroutine" THEN {} ELSE {r}]
      /\ stage' = [stage EXCEPT ![r] = "called"]
      /\ UNCHANGED <<services, server, handlers, peer, wire, sendQueue, replies, method, deletes,
                   holders, done, controller>>
  BY <1>b DEF taskHandleRoutine, doTask
<1>2. stage[r] = "queued"
  BY <1>i, <1>b DEF WorkInv
<1>s. StageSet(r, "called")
  BY <1>i, <1>1, StageSetFacts
<1>3. /\ stage' \in [Requests -> {"none", "sent", "queued", "called", "returned", "over"}]
      /\ stage'[r] = "called" /\ \A x \in Requests : x # r => stage'[x] = stage[x]
  BY <1>s DEF StageSet
<1>4. /\ workQueue' \in Seq(Requests) /\ Range(workQueue') = Range(workQueue) \ {r}
      /\ IsInjective(workQueue')
  BY <1>1, <1>a, <1>b, TailLink
<1>5. /\ busy' \in [Handlers -> SUBSET Requests] /\ busy'[h] \subseteq {r}
      /\ \A g \in Handlers : g # h => busy'[g] = busy[g]
  <2> DEFINE T == SUBSET Requests
             v == IF method[r] = "coroutine" THEN {} ELSE {r}
  <2>1. busy \in [Handlers -> T] /\ v \in T /\ v \subseteq {r}
    BY <1>i DEF RpcServerTypeOK
  <2> HIDE DEF T, v
  <2>2. busy' = [busy EXCEPT ![h] = v]
    BY <1>1 DEF v
  <2>3. busy' \in [Handlers -> T] /\ busy'[h] = v /\ \A g \in Handlers : g # h => busy'[g] = busy[g]
    BY <2>1, <2>2
  <2> QED  BY <2>1, <2>3 DEF T
<1>6. RpcTypes'
  <2>1. RpcServerTypeOK'
    BY <1>i, <1>1, <1>3, <1>4, <1>5 DEF RpcServerTypeOK
  <2> QED  BY <1>i, <1>1, <2>1 DEF RpcTypes
<1>7. RequestInv'
  <2>1. \A x \in Requests \ {r} : Same(x)
    BY <1>1, <1>3 DEF Same
  <2>2. StageInv(r) /\ DeleteInv(r)
    BY <1>i DEF RequestInv
  <2>3. StageInv(r)'
    BY <1>1, <1>2, <1>3, <2>2 DEF StageInv
  <2>4. DeleteInv(r)'
    BY <1>1, <2>2 DEF DeleteInv, Made, Finished
  <2> QED  BY <1>i, <2>1, <2>3, <2>4, OtherRequests
<1>8. WireInv'
  <2>1. \A g \in Message : g.callId \in Requests
    BY DEF Message
  <2>2. wire \in Seq(Message)
    BY <1>i DEF RpcTypes
  <2>3. \A i \in DOMAIN wire : wire[i].callId \in Requests
    BY <2>1, <2>2
  <2> QED  BY <1>i, <1>1, <1>2, <1>3, <2>3 DEF WireInv
<1>9. WorkInv'
  <2>1. \A x \in Requests : x \in Range(workQueue') <=> stage'[x] = "queued"
    BY <1>i, <1>3, <1>4 DEF WorkInv
  <2>2. ASSUME NEW x \in Requests, NEW g \in Handlers, x \in busy'[g]
        PROVE  stage'[x] \in {"called", "returned"}
    <3>1. CASE g = h
      BY <1>3, <1>5, <2>2, <3>1
    <3>2. CASE g # h
      BY <1>i, <1>3, <1>5, <2>2, <3>2 DEF WorkInv
    <3> QED  BY <3>1, <3>2
  <2> QED  BY <1>4, <2>1, <2>2 DEF WorkInv
<1>10. SendInv'
  BY <1>i, <1>1 DEF SendInv
<1>11. ReplyInv'
  BY <1>i, <1>1, <1>2, <1>3 DEF ReplyInv
<1> QED  BY <1>6, <1>7, <1>8, <1>9, <1>10, <1>11 DEF RpcInv

\* The service says that the call failed, in its method.
LEMMA ErrorStep ==
    ASSUME RpcInv, NEW r \in Requests,
           SetFailed(r) \/ \E code \in ErrorCodes : SetErrorCode(r, code)
    PROVE  RpcInv'
<1>i. RpcTypes /\ RequestInv /\ WireInv /\ WorkInv /\ SendInv /\ ReplyInv /\ RpcServerTypeOK
  BY DEF RpcInv, RpcTypes
<1>1. /\ stage[r] = "called"
      /\ UNCHANGED <<services, server, handlers, peer, wire, workQueue, busy, sendQueue, replies,
                     method, stage, deletes, holders, done>>
      /\ \/ controller' = [controller EXCEPT ![r] =
                              [text |-> TRUE, code |-> IF @.code = 0 THEN -1 ELSE @.code]]
         \/ \E code \in ErrorCodes : controller' = [controller EXCEPT ![r].code = code]
  BY DEF SetFailed, SetErrorCode, queueVars
<1>2. controller' \in [Requests -> Errors] /\ \A x \in Requests : x # r => controller'[x] = controller[x]
  <2>1. controller \in [Requests -> Errors]
    BY <1>i DEF RpcTypes
  <2>2. CASE controller' = [controller EXCEPT ![r] =
                              [text |-> TRUE, code |-> IF @.code = 0 THEN -1 ELSE @.code]]
    <3> DEFINE v == [text |-> TRUE, code |-> IF controller[r].code = 0 THEN -1 ELSE controller[r].code]
    <3>1. v \in Errors /\ controller' = [controller EXCEPT ![r] = v]
      BY <2>1, <2>2 DEF Errors
    <3> HIDE DEF v
    <3> QED  BY <2>1, <3>1
  <2>3. ASSUME NEW code \in ErrorCodes, controller' = [controller EXCEPT ![r].code = code]
        PROVE  controller' \in [Requests -> Errors] /\ \A x \in Requests : x # r => controller'[x] = controller[x]
    <3> DEFINE v == [controller[r] EXCEPT !.code = code]
    <3>1. v \in Errors /\ controller' = [controller EXCEPT ![r] = v]
      BY <2>1, <2>3, RpcServerAssumption DEF Errors
    <3> HIDE DEF v
    <3> QED  BY <2>1, <3>1
  <2> QED  BY <1>1, <2>2, <2>3
<1>3. RpcTypes'
  <2>1. RpcServerTypeOK'
    BY <1>i, <1>1 DEF RpcServerTypeOK
  <2> QED  BY <1>i, <1>1, <1>2, <2>1 DEF RpcTypes
<1>4. RequestInv'
  BY <1>i, <1>1 DEF RequestInv, StageInv, DeleteInv, Made, Finished
<1>5. WireInv'
  BY <1>i, <1>1 DEF WireInv
<1>6. WorkInv' /\ SendInv'
  BY <1>i, <1>1 DEF WorkInv, SendInv
<1>7. ReplyInv'
  BY <1>i, <1>1, <1>2 DEF ReplyInv
<1> QED  BY <1>3, <1>4, <1>5, <1>6, <1>7 DEF RpcInv

LEMMA DoneStep ==
    ASSUME RpcInv, NEW r \in Requests, callDoneHandle(r) PROVE RpcInv'
<1>i. RpcTypes /\ RequestInv /\ WireInv /\ WorkInv /\ SendInv /\ ReplyInv /\ RpcServerTypeOK
  BY DEF RpcInv, RpcTypes
<1>1. /\ done[r] = "pending" /\ done' = [done EXCEPT ![r] = "run"]
      /\ deletes' = [deletes EXCEPT ![r]["request"] = @ + 1]
      /\ UNCHANGED <<services, server, handlers, peer, wire, workQueue, busy, sendQueue, replies,
                     method, stage, holders, controller>>
  BY DEF callDoneHandle, queueVars
<1>2. /\ done' \in [Requests -> {"none", "pending", "run"}] /\ done'[r] = "run"
      /\ \A x \in Requests : x # r => done'[x] = done[x]
  BY <1>i, <1>1 DEF RpcServerTypeOK
<1>3. /\ deletes' \in [Requests -> [Objects -> Nat]]
      /\ deletes'[r]["request"] = deletes[r]["request"] + 1
      /\ \A o \in Objects : o # "request" => deletes'[r][o] = deletes[r][o]
      /\ \A x \in Requests : x # r => deletes'[x] = deletes[x]
  <2> DEFINE T == [Objects -> Nat]
             v == [deletes[r] EXCEPT !["request"] = @ + 1]
  <2>1. deletes \in [Requests -> T]
    BY <1>i DEF RpcServerTypeOK
  <2>2. deletes[r] \in [Objects -> Nat] /\ "request" \in Objects
    BY <2>1 DEF Objects
  <2>3. /\ v \in T /\ v["request"] = deletes[r]["request"] + 1
        /\ \A o \in Objects : o # "request" => v[o] = deletes[r][o]
    BY <2>2
  <2>4. deletes' = [deletes EXCEPT ![r] = v]
    BY <1>1
  <2> HIDE DEF T, v
  <2>5. deletes' \in [Requests -> T] /\ deletes'[r] = v /\ \A x \in Requests : x # r => deletes'[x] = deletes[x]
    BY <2>1, <2>3, <2>4
  <2> QED  BY <2>3, <2>5 DEF T
<1>4. RpcTypes'
  <2>1. RpcServerTypeOK'
    BY <1>i, <1>1, <1>2, <1>3 DEF RpcServerTypeOK
  <2> QED  BY <1>i, <1>1, <2>1 DEF RpcTypes
<1>5. RequestInv'
  <2>1. \A x \in Requests \ {r} : Same(x)
    BY <1>1, <1>2, <1>3 DEF Same
  <2>2. StageInv(r) /\ DeleteInv(r)
    BY <1>i DEF RequestInv
  <2>3. StageInv(r)'
    BY <1>1, <1>2, <2>2 DEF StageInv
  <2>4. method[r] = "deleteInDone" /\ method' = method
    BY <1>1, <2>2 DEF StageInv
  <2>5. Made(r) = {"request"} /\ Made(r)' = {"request"} /\ ~Finished(r) /\ Finished(r)'
    BY <1>1, <1>2, <2>4 DEF Made, Parts, HasResponse, Finished
  <2>6. "request" \in Objects
    BY DEF Objects
  <2>7. \A o \in Objects : deletes[r][o] = 0
    BY <2>2, <2>5 DEF DeleteInv
  <2>8. DeleteInv(r)'
    <3>1. deletes'[r]["request"] = 1
      BY <1>3, <2>6, <2>7
    <3>2. \A o \in Objects : deletes'[r][o] = IF o = "request" THEN 1 ELSE 0
      BY <1>3, <2>7, <3>1
    <3> QED  BY <2>5, <3>2 DEF DeleteInv
  <2> QED  BY <1>i, <2>1, <2>3, <2>8, OtherRequests
<1>6. WireInv'
  BY <1>i, <1>1 DEF WireInv
<1>7. WorkInv' /\ SendInv'
  BY <1>i, <1>1 DEF WorkInv, SendInv
<1>8. ReplyInv'
  BY <1>i, <1>1 DEF ReplyInv
<1> QED  BY <1>4, <1>5, <1>6, <1>7, <1>8 DEF RpcInv

LEMMA WireCallIds ==
    ASSUME RpcTypes PROVE \A i \in DOMAIN wire : wire[i].callId \in Requests
<1>1. \A g \in Message : g.callId \in Requests
  BY DEF Message
<1>2. wire \in Seq(Message)
  BY DEF RpcTypes
<1> QED  BY <1>1, <1>2

LEMMA SendsStep ==
    ASSUME RpcInv, NEW r \in Requests, Sends(r) PROVE RpcInv'
<1>i. RpcTypes /\ RequestInv /\ WireInv /\ WorkInv /\ SendInv /\ ReplyInv /\ RpcServerTypeOK
  BY DEF RpcInv, RpcTypes
<1>1. /\ stage[r] = "called" /\ stage' = [stage EXCEPT ![r] = "returned"]
      /\ HasResponse(method[r]) => /\ sendQueue' = Append(sendQueue, r)
                                   /\ holders' = [holders EXCEPT ![r] = @ \cup {"sender"}]
      /\ ~HasResponse(method[r]) => sendQueue' = sendQueue /\ holders' = holders
      /\ UNCHANGED <<services, server, handlers, peer, wire, workQueue, busy, replies, method, deletes,
                   done, controller>>
  BY DEF Sends
<1>s. StageSet(r, "returned")
  BY <1>i, <1>1, StageSetFacts
<1>2. /\ stage' \in [Requests -> {"none", "sent", "queued", "called", "returned", "over"}]
      /\ stage'[r] = "returned" /\ \A x \in Requests : x # r => stage'[x] = stage[x]
  BY <1>s DEF StageSet
<1>3. StageInv(r) /\ DeleteInv(r)
  BY <1>i DEF RequestInv
<1>4. "sender" \notin holders[r] /\ "task" \in holders[r] /\ r \notin Range(sendQueue)
  BY <1>i, <1>1, <1>3 DEF StageInv, SendInv
<1>5. /\ holders' \in [Requests -> SUBSET {"task", "sender"}]
      /\ holders'[r] = IF HasResponse(method[r]) THEN holders[r] \cup {"sender"} ELSE holders[r]
      /\ \A x \in Requests : x # r => holders'[x] = holders[x]
  <2> DEFINE T == SUBSET {"task", "sender"}
             v == holders[r] \cup {"sender"}
  <2>1. holders \in [Requests -> T]
    BY <1>i DEF RpcServerTypeOK
  <2>2. v \in T
    BY <2>1
  <2> HIDE DEF T
  <2>3. CASE HasResponse(method[r])
    <3>1. holders' = [holders EXCEPT ![r] = v]
      BY <1>1, <2>3
    <3> HIDE DEF v
    <3>2. holders' \in [Requests -> T] /\ holders'[r] = v /\ \A x \in Requests : x # r => holders'[x] = holders[x]
      BY <2>1, <2>2, <3>1
    <3> QED  BY <2>3, <3>2 DEF T, v
  <2>4. CASE ~HasResponse(method[r])
    BY <1>1, <2>1, <2>4 DEF T
  <2> QED  BY <2>3, <2>4
<1>6. /\ sendQueue' \in Seq(Requests) /\ IsInjective(sendQueue')
      /\ Range(sendQueue') = IF HasResponse(method[r]) THEN Range(sendQueue) \cup {r} ELSE Range(sendQueue)
  <2>1. sendQueue \in Seq(Requests) /\ IsInjective(sendQueue)
    BY <1>i DEF RpcServerTypeOK, SendInv
  <2>2. CASE HasResponse(method[r])
    <3> DEFINE q == sendQueue'
    <3>1. q = Append(sendQueue, r)
      BY <1>1, <2>2
    <3> HIDE DEF q
    <3>2. q \in Seq(Requests) /\ IsInjective(q) /\ Range(q) = Range(sendQueue) \cup {r}
      BY <1>4, <2>1, <3>1, AppendLink
    <3> QED  BY <2>2, <3>2 DEF q
  <2>3. CASE ~HasResponse(method[r])
    BY <1>1, <2>1, <2>3
  <2> QED  BY <2>2, <2>3
<1>7. RpcTypes'
  <2>1. RpcServerTypeOK'
    BY <1>i, <1>1, <1>2, <1>5, <1>6 DEF RpcServerTypeOK
  <2> QED  BY <1>i, <1>1, <2>1 DEF RpcTypes
<1>8. RequestInv'
  <2>1. \A x \in Requests \ {r} : Same(x)
    BY <1>1, <1>2, <1>5 DEF Same
  <2>2. StageInv(r)'
    BY <1>1, <1>2, <1>3, <1>4, <1>5 DEF StageInv
  <2>3. holders[r] # {} /\ holders'[r] # {}
    BY <1>4, <1>5
  <2>4. DeleteInv(r)'
    BY <1>1, <1>3, <2>3 DEF DeleteInv, Made, Finished
  <2> QED  BY <1>i, <2>1, <2>2, <2>4, OtherRequests
<1>9. WireInv'
  BY <1>i, <1>1, <1>2, WireCallIds DEF WireInv
<1>10. WorkInv'
  BY <1>i, <1>1, <1>2 DEF WorkInv
<1>11. SendInv'
  <2>1. \A x \in Requests : x \in Range(sendQueue') <=> "sender" \in holders'[x]
    BY <1>i, <1>4, <1>5, <1>6 DEF SendInv
  <2> QED  BY <1>6, <2>1 DEF SendInv
<1>12. ReplyInv'
  BY <1>i, <1>1, <1>2, <1>5 DEF ReplyInv
<1> QED  BY <1>7, <1>8, <1>9, <1>10, <1>11, <1>12 DEF RpcInv

\* One lets go of the task of r, which is deleted if nobody else holds it.
LEMMA LetGoFacts ==
    ASSUME RpcInv, NEW r \in Requests, NEW who \in {"task", "sender"}, who \in holders[r],
           LetGo(r, who), method' = method, done' = done
    PROVE  /\ holders' \in [Requests -> SUBSET {"task", "sender"}]
           /\ holders'[r] = holders[r] \ {who}
           /\ \A x \in Requests : x # r => holders'[x] = holders[x]
           /\ deletes' \in [Requests -> [Objects -> Nat]]
           /\ \A x \in Requests : x # r => deletes'[x] = deletes[x]
           /\ DeleteInv(r)'
<1>i. RpcServerTypeOK /\ StageInv(r) /\ DeleteInv(r)
  BY DEF RpcInv, RpcTypes, RequestInv
<1>1. /\ holders' \in [Requests -> SUBSET {"task", "sender"}]
      /\ holders'[r] = holders[r] \ {who}
      /\ \A x \in Requests : x # r => holders'[x] = holders[x]
  <2> DEFINE T == SUBSET {"task", "sender"}
             v == holders[r] \ {who}
  <2>1. holders \in [Requests -> T]
    BY <1>i DEF RpcServerTypeOK
  <2>2. v \in T /\ holders' = [holders EXCEPT ![r] = v]
    BY <2>1 DEF LetGo
  <2> HIDE DEF T, v
  <2>3. holders' \in [Requests -> T] /\ holders'[r] = v /\ \A x \in Requests : x # r => holders'[x] = holders[x]
    BY <2>1, <2>2
  <2> QED  BY <2>3 DEF T, v
<1>2. /\ deletes' \in [Requests -> [Objects -> Nat]]
      /\ \A x \in Requests : x # r => deletes'[x] = deletes[x]
      /\ \A o \in Objects : deletes'[r][o] =
            deletes[r][o] + (IF holders[r] = {who} /\ o \in Destroyed(r) THEN 1 ELSE 0)
  <2> DEFINE T == [Objects -> Nat]
             v == [o \in Objects |-> deletes[r][o] + (IF o \in Destroyed(r) THEN 1 ELSE 0)]
  <2>1. deletes \in [Requests -> T] /\ deletes[r] \in [Objects -> Nat]
    BY <1>i DEF RpcServerTypeOK
  <2>2. CASE holders[r] # {who}
    <3>1. deletes' = deletes
      BY <2>2 DEF LetGo
    <3>2. \A o \in Objects : deletes[r][o] = deletes[r][o] + 0
      BY <2>1
    <3> QED  BY <2>1, <2>2, <3>1, <3>2
  <2>3. CASE holders[r] = {who}
    <3>1. deletes' = [deletes EXCEPT ![r] = v]
      BY <2>3 DEF LetGo
    <3>2. v \in T /\ \A o \in Objects : v[o] = deletes[r][o] + (IF o \in Destroyed(r) THEN 1 ELSE 0)
      BY <2>1
    <3> HIDE DEF T, v
    <3>3. deletes' \in [Requests -> T] /\ deletes'[r] = v /\ \A x \in Requests : x # r => deletes'[x] = deletes[x]
      BY <2>1, <3>1, <3>2
    <3> QED  BY <2>3, <3>2, <3>3 DEF T
  <2> QED  BY <2>2, <2>3
<1>3. method[r] # "none"
  BY <1>i DEF StageInv, HasResponse
<1>4. Made(r) = Parts(method[r]) /\ Made(r)' = Parts(method[r]) /\ holders[r] # {}
      /\ (holders'[r] = {} <=> holders[r] = {who})
  BY <1>1, <1>3 DEF Made
<1>5. CASE done[r] = "none"
  <2>1. Destroyed(r) = Made(r) /\ ~Finished(r) /\ (Finished(r)' <=> holders[r] = {who})
    BY <1>4, <1>5 DEF Destroyed, Finished
  <2>2. \A o \in Objects : deletes[r][o] = 0
    BY <1>i, <2>1 DEF DeleteInv
  <2>3. \A o \in Objects : deletes'[r][o] = IF o \in Made(r) /\ holders[r] = {who} THEN 1 ELSE 0
    BY <1>2, <2>1, <2>2
  <2>4. DeleteInv(r)'
    BY <1>4, <2>1, <2>3 DEF DeleteInv
  <2> QED  BY <1>1, <1>2, <2>4
<1>6. CASE done[r] # "none"
  <2>1. method[r] = "deleteInDone"
    BY <1>i, <1>6 DEF StageInv
  <2>2. Destroyed(r) = {} /\ (Finished(r)' <=> Finished(r))
    BY <1>6, <2>1 DEF Destroyed, Finished, Parts, HasResponse
  <2>3. \A o \in Objects : deletes'[r][o] = deletes[r][o] + 0
    BY <1>2, <2>2
  <2>4. \A o \in Objects : deletes'[r][o] = deletes[r][o]
    <3>1. deletes[r] \in [Objects -> Nat]
      BY <1>i DEF RpcServerTypeOK
    <3>2. \A o \in Objects : deletes[r][o] \in Nat
      BY <3>1
    <3> QED  BY <2>3, <3>2
  <2>5. DeleteInv(r)'
    BY <1>i, <1>4, <2>2, <2>4 DEF DeleteInv
  <2> QED  BY <1>1, <1>2, <2>5
<1> QED  BY <1>5, <1>6

LEMMA DestoryStep ==
    ASSUME RpcInv, NEW r \in Requests, destory(r) PROVE RpcInv'
<1>i. RpcTypes /\ RequestInv /\ WireInv /\ WorkInv /\ SendInv /\ ReplyInv /\ RpcServerTypeOK
  BY DEF RpcInv, RpcTypes
<1>1. /\ stage[r] = "returned" /\ stage' = [stage EXCEPT ![r] = "over"]
      /\ LetGo(r, "task") /\ busy' = [h \in Handlers |-> busy[h] \ {r}]
      /\ UNCHANGED <<services, server, handlers, peer, wire, workQueue, sendQueue, replies, method,
                     done, controller>>
  BY DEF destory
<1>s. StageSet(r, "over")
  BY <1>i, <1>1, StageSetFacts
<1>2. /\ stage' \in [Requests -> {"none", "sent", "queued", "called", "returned", "over"}]
      /\ stage'[r] = "over" /\ \A x \in Requests : x # r => stage'[x] = stage[x]
  BY <1>s DEF StageSet
<1>3. StageInv(r) /\ "task" \in holders[r] /\ method[r] # "none"
  BY <1>i, <1>1 DEF RequestInv, StageInv
<1>4. /\ holders' \in [Requests -> SUBSET {"task", "sender"}]
      /\ holders'[r] = holders[r] \ {"task"}
      /\ \A x \in Requests : x # r => holders'[x] = holders[x]
      /\ deletes' \in [Requests -> [Objects -> Nat]]
      /\ \A x \in Requests : x # r => deletes'[x] = deletes[x]
      /\ DeleteInv(r)'
  BY <1>1, <1>3, LetGoFacts
<1>5. busy' \in [Handlers -> SUBSET Requests] /\ \A h \in Handlers : busy'[h] = busy[h] \ {r}
  BY <1>i, <1>1 DEF RpcServerTypeOK
<1>6. RpcTypes'
  <2>1. RpcServerTypeOK'
    BY <1>i, <1>1, <1>2, <1>4, <1>5 DEF RpcServerTypeOK
  <2> QED  BY <1>i, <1>1, <2>1 DEF RpcTypes
<1>7. RequestInv'
  <2>1. \A x \in Requests \ {r} : Same(x)
    BY <1>1, <1>2, <1>4 DEF Same
  <2>2. StageInv(r)'
    BY <1>1, <1>2, <1>3, <1>4 DEF StageInv
  <2> QED  BY <1>i, <1>4, <2>1, <2>2, OtherRequests
<1>8. WireInv'
  BY <1>i, <1>1, <1>2, WireCallIds DEF WireInv
<1>9. WorkInv'
  BY <1>i, <1>1, <1>2, <1>5 DEF WorkInv
<1>10. SendInv'
  <2>1. \A x \in Requests : "sender" \in holders'[x] <=> "sender" \in holders[x]
    BY <1>4
  <2> QED  BY <1>i, <1>1, <2>1 DEF SendInv
<1>11. ReplyInv'
  BY <1>i, <1>1, <1>2, <1>4 DEF ReplyInv
<1> QED  BY <1>6, <1>7, <1>8, <1>9, <1>10, <1>11 DEF RpcInv

LEMMA EncodeStep ==
    ASSUME RpcInv, encode PROVE RpcInv'
<1>i. RpcTypes /\ RequestInv /\ WireInv /\ WorkInv /\ SendInv /\ ReplyInv /\ RpcServerTypeOK
  BY DEF RpcInv, RpcTypes
<1>a. sendQueue # <<>> /\ sendQueue \in Seq(Requests) /\ IsInjective(sendQueue)
  BY <1>i DEF encode, RpcServerTypeOK, SendInv
<1>b. PICK r \in Requests : r = Head(sendQueue) /\ r \in Range(sendQueue)
  BY <1>a, TailLink
<1> DEFINE err == IF Failed(r) THEN controller[r] ELSE NoError
           reply == [callId |-> r, error |-> err]
           n == Len(replies)
           RT == [callId : Requests, error : Errors]
<1>1. /\ replies' = IF peer = "open" THEN Append(replies, reply) ELSE replies
      /\ LetGo(r, "sender") /\ sendQueue' = Tail(sendQueue)
      /\ UNCHANGED <<services, server, handlers, peer, wire, workQueue, busy, method, stage, done,
                     controller>>
  BY <1>b DEF encode
<1>2. "sender" \in holders[r] /\ StageInv(r)
  BY <1>i, <1>b DEF SendInv, RequestInv
<1>3. HasResponse(method[r]) /\ stage[r] \in {"returned", "over"}
  BY <1>2 DEF StageInv
<1>4. /\ holders' \in [Requests -> SUBSET {"task", "sender"}]
      /\ holders'[r] = holders[r] \ {"sender"}
      /\ \A x \in Requests : x # r => holders'[x] = holders[x]
      /\ deletes' \in [Requests -> [Objects -> Nat]]
      /\ \A x \in Requests : x # r => deletes'[x] = deletes[x]
      /\ DeleteInv(r)'
  BY <1>1, <1>2, LetGoFacts
<1>5. /\ sendQueue' \in Seq(Requests) /\ Range(sendQueue') = Range(sendQueue) \ {r}
      /\ IsInjective(sendQueue')
  BY <1>1, <1>a, <1>b, TailLink
<1>6. err \in Errors /\ err.code = controller[r].code
  <2>1. controller[r] \in Errors /\ controller[r].code \in Int
    BY <1>i DEF RpcTypes, Errors
  <2>2. NoError \in Errors /\ NoError.code = 0
    BY DEF NoError, Errors
  <2> QED  BY <2>1, <2>2 DEF Failed
<1> HIDE DEF err
<1>7. reply \in RT /\ reply.callId = r /\ reply.error.code = controller[r].code
  BY <1>6
<1>8. replies \in Seq(RT) /\ n \in Nat
  BY <1>i DEF RpcTypes
<1> HIDE DEF reply, RT
<1>9. /\ replies' \in Seq(RT)
      /\ replies' = replies \/ (/\ Len(replies') = n + 1 /\ replies'[n + 1] = reply
                                /\ \A k \in 1 .. n : replies'[k] = replies[k])
  BY <1>1, <1>7, <1>8, AppendAt
<1>10. RpcTypes'
  <2>1. RpcServerTypeOK'
    BY <1>i, <1>1, <1>4, <1>5 DEF RpcServerTypeOK
  <2> QED  BY <1>i, <1>1, <1>9, <2>1 DEF RpcTypes, RT
<1>11. RequestInv'
  <2>1. \A x \in Requests \ {r} : Same(x)
    BY <1>1, <1>4 DEF Same
  <2>2. StageInv(r)'
    BY <1>1, <1>2, <1>4 DEF StageInv
  <2> QED  BY <1>i, <1>4, <2>1, <2>2, OtherRequests
<1>12. WireInv'
  BY <1>i, <1>1 DEF WireInv
<1>13. WorkInv'
  BY <1>i, <1>1 DEF WorkInv
<1>14. SendInv'
  <2>1. \A x \in Requests : "sender" \in holders'[x] <=> "sender" \in holders[x] /\ x # r
    BY <1>4
  <2> QED  BY <1>i, <1>5, <2>1 DEF SendInv
<1>15. ReplyInv'
  <2>1. \A i \in DOMAIN replies : replies[i].callId # r
    BY <1>i, <1>2 DEF ReplyInv
  <2>2. \A x \in Requests : "sender" \notin holders[x] => "sender" \notin holders'[x]
    BY <1>4
  <2>3. CASE replies' = replies
    BY <1>i, <1>1, <2>2, <2>3 DEF ReplyInv
  <2>4. CASE /\ Len(replies') = n + 1 /\ replies'[n + 1] = reply
             /\ \A k \in 1 .. n : replies'[k] = replies[k]
    <3>1. DOMAIN replies = 1 .. n /\ DOMAIN replies' = 1 .. n + 1
      BY <1>8, <1>9, <2>4
    <3> HIDE DEF n
    <3>2. \A i \in 1 .. n + 1 : i \in 1 .. n \/ i = n + 1
      BY <1>8
    <3>3. \A i, j \in DOMAIN replies' : replies'[i].callId = replies'[j].callId => i = j
      BY <1>i, <1>7, <2>1, <2>4, <3>1, <3>2 DEF ReplyInv
    <3>4. ASSUME NEW i \in DOMAIN replies', NEW x \in Requests, x = replies'[i].callId
          PROVE  /\ HasResponse(method'[x]) /\ stage'[x] \in {"returned", "over"}
                 /\ "sender" \notin holders'[x]
                 /\ replies'[i].error.code = controller'[x].code
      <4>1. CASE i \in 1 .. n
        BY <1>i, <1>1, <2>2, <2>4, <3>1, <3>4, <4>1 DEF ReplyInv
      <4>2. CASE i = n + 1
        BY <1>1, <1>3, <1>4, <1>7, <2>4, <3>4, <4>2
      <4> QED  BY <3>1, <3>2, <4>1, <4>2
    <3> QED  BY <3>3, <3>4 DEF ReplyInv
  <2> QED  BY <1>9, <2>3, <2>4
<1> QED  BY <1>10, <1>11, <1>12, <1>13, <1>14, <1>15 DEF RpcInv

LEMMA RpcStep ==
    ASSUME RpcInv, RpcServerNext PROVE RpcInv'
<1>1. ASSUME NEW r \in Requests, TaskStep(r) PROVE RpcInv'
  BY <1>1, ErrorStep, DoneStep, SendsStep, DestoryStep DEF TaskStep
<1>2. ASSUME NEW r \in Requests, NEW s \in Services, NEW m \in 0 .. Cardinality(Options),
             NEW parses \in BOOLEAN, ClientSends(r, s, m, parses)
      PROVE  RpcInv'
  <2>1. m \in Nat
    OBVIOUS
  <2> QED  BY <1>2, <2>1, ClientSendsStep
<1> QED
  BY <1>1, <1>2, RpcServerStarts, DecodeStep, EncodeStep, HandlerStep, Zenon DEF RpcServerNext

LEMMA RpcServerSoundHolds ==
    ASSUME RpcInv PROVE RpcServerSound
<1>i. RpcTypes /\ RequestInv /\ WireInv /\ WorkInv /\ SendInv /\ ReplyInv /\ RpcServerTypeOK
  BY DEF RpcInv, RpcTypes
<1>1. DeletedOnce
  <2> SUFFICES ASSUME NEW r \in Requests, NEW o \in Objects
               PROVE  /\ deletes[r][o] <= IF o \in Made(r) THEN 1 ELSE 0
                      /\ deletes[r][o] = 1 => holders[r] = {} \/ (o = "request" /\ done[r] = "run")
                      /\ o \in Made(r) /\ holders[r] = {} /\ done[r] # "pending" => deletes[r][o] = 1
    BY DEF DeletedOnce
  <2>1. StageInv(r) /\ deletes[r][o] = IF o \in Made(r) /\ Finished(r) THEN 1 ELSE 0
    BY <1>i DEF RequestInv, DeleteInv
  <2>2. done[r] # "none" => Made(r) = {"request"}
    BY <2>1 DEF StageInv, Made, Parts, HasResponse
  <2>3. done[r] \in {"none", "pending", "run"}
    BY <1>i DEF RpcServerTypeOK
  <2> QED  BY <2>1, <2>2, <2>3 DEF Finished
<1>2. TasksHeld
  <2>1. ToSet(workQueue) = Range(workQueue) /\ ToSet(sendQueue) = Range(sendQueue)
    BY DEF ToSet, Range
  <2> QED  BY <1>i, <2>1 DEF TasksHeld, WorkInv, SendInv, RequestInv, StageInv
<1>3. RepliesRight
  <2>1. \A i \in DOMAIN replies : replies[i].callId \in Requests
    <3> DEFINE RT == [callId : Requests, error : Errors]
    <3>1. replies \in Seq(RT)
      BY <1>i DEF RpcTypes
    <3>2. \A g \in RT : g.callId \in Requests
      OBVIOUS
    <3> HIDE DEF RT
    <3> QED  BY <3>1, <3>2
  <2> QED  BY <1>i, <2>1 DEF RepliesRight, ReplyInv
<1> QED  BY <1>i, <1>1, <1>2, <1>3 DEF RpcServerSound

-----------------------------------------------------------------------------
(***************************************************************************)
(* RoutineEnv.  The three lists of a thread hold the coroutines of that    *)
(* thread that are at certain points of their lives, each once.            *)
(***************************************************************************)

\* The lists q hold, each once, the coroutines whose life is in S.
Listed(q, hm, lf, S) ==
    /\ q \in [Threads -> Seq(Routines)]
    /\ \A t \in Threads : IsInjective(q[t])
    /\ \A c \in Routines, t \in Threads : c \in Range(q[t]) <=> hm[c] = t /\ lf[c] \in S

\* The coroutines other than c are as they were.
Others(c, hm, lf, hm2, lf2) == \A d \in Routines \ {c} : hm2[d] = hm[d] /\ lf2[d] = lf[d]

LEMMA ListedSame ==
    ASSUME NEW q, NEW S, NEW hm, NEW lf, NEW hm2, NEW lf2, NEW c \in Routines,
           Listed(q, hm, lf, S), Others(c, hm, lf, hm2, lf2),
           lf[c] \in S <=> lf2[c] \in S, lf[c] \in S => hm2[c] = hm[c]
    PROVE  Listed(q, hm2, lf2, S)
  BY DEF Listed, Others

\* One list changes: c comes into it, or leaves it.
LEMMA ListedChange ==
    ASSUME NEW q, NEW S, NEW hm, NEW lf, NEW hm2, NEW lf2, NEW c \in Routines,
           NEW t \in Threads, NEW l \in Seq(Routines), NEW q2,
           Listed(q, hm, lf, S), Others(c, hm, lf, hm2, lf2), q2 = [q EXCEPT ![t] = l],
           IsInjective(l), hm2[c] = t, lf[c] \in S => hm[c] = t,
           Range(l) = IF lf2[c] \in S THEN Range(q[t]) \cup {c} ELSE Range(q[t]) \ {c}
    PROVE  Listed(q2, hm2, lf2, S)
<1>1. q \in [Threads -> Seq(Routines)]
  BY DEF Listed
<1> DEFINE R == Seq(Routines)
<1>2. q \in [Threads -> R] /\ l \in R
  BY <1>1
<1> HIDE DEF R
<1>3. q2 \in [Threads -> R] /\ q2[t] = l /\ \A u \in Threads : u # t => q2[u] = q[u]
  BY <1>2
<1>4. \A u \in Threads : IsInjective(q2[u])
  BY <1>3 DEF Listed
<1>5. ASSUME NEW d \in Routines, NEW u \in Threads
      PROVE  d \in Range(q2[u]) <=> hm2[d] = u /\ lf2[d] \in S
  <2>0. \A e \in Routines, v \in Threads : e \in Range(q[v]) <=> hm[e] = v /\ lf[e] \in S
    BY DEF Listed
  <2>1. CASE d # c
    <3>1. hm2[d] = hm[d] /\ lf2[d] = lf[d]
      BY <2>1 DEF Others
    <3>2. d \in Range(q2[u]) <=> d \in Range(q[u])
      BY <1>3, <2>1
    <3> QED  BY <2>0, <3>1, <3>2
  <2>2. CASE d = c
    <3>1. CASE u = t
      BY <1>3, <2>2, <3>1
    <3>2. CASE u # t
      BY <1>3, <2>0, <2>2, <3>2
    <3> QED  BY <3>1, <3>2
  <2> QED  BY <2>1, <2>2
<1> QED  BY <1>3, <1>4, <1>5 DEF Listed, R

\* The list of t changes in one of three ways.
Appends(q2, q, t, c) == q2 = [q EXCEPT ![t] = Append(q[t], c)]
Tails(q2, q, t, c) == q2 = [q EXCEPT ![t] = Tail(q[t])] /\ q[t] # <<>> /\ c = Head(q[t])
Fronts(q2, q, t, c) == q2 = [q EXCEPT ![t] = Front(q[t])] /\ q[t] # <<>> /\ c = Last(q[t])

LEMMA ListedAppend ==
    ASSUME NEW q, NEW S, NEW hm, NEW lf, NEW hm2, NEW lf2, NEW c \in Routines,
           NEW t \in Threads, NEW q2,
           Listed(q, hm, lf, S), Others(c, hm, lf, hm2, lf2),
           Appends(q2, q, t, c), lf[c] \notin S, lf2[c] \in S, hm2[c] = t
    PROVE  Listed(q2, hm2, lf2, S)
<1> DEFINE l == Append(q[t], c)
<1>1. q[t] \in Seq(Routines) /\ IsInjective(q[t]) /\ c \notin Range(q[t])
  BY DEF Listed
<1>2. l \in Seq(Routines) /\ Range(l) = Range(q[t]) \cup {c} /\ IsInjective(l)
  BY <1>1, AppendLink
<1>3. q2 = [q EXCEPT ![t] = l]
  BY DEF Appends
<1> HIDE DEF l
<1> QED  BY <1>2, <1>3, ListedChange

LEMMA ListedTail ==
    ASSUME NEW q, NEW S, NEW hm, NEW lf, NEW hm2, NEW lf2, NEW c \in Routines,
           NEW t \in Threads, NEW q2,
           Listed(q, hm, lf, S), Others(c, hm, lf, hm2, lf2),
           Tails(q2, q, t, c), lf2[c] \notin S, hm2[c] = hm[c]
    PROVE  Listed(q2, hm2, lf2, S)
<1> DEFINE l == Tail(q[t])
<1>1. q[t] \in Seq(Routines) /\ IsInjective(q[t])
  BY DEF Listed
<1>2. l \in Seq(Routines) /\ Range(l) = Range(q[t]) \ {c} /\ IsInjective(l) /\ c \in Range(q[t])
  BY <1>1, TailLink DEF Tails
<1>3. q2 = [q EXCEPT ![t] = l] /\ hm[c] = t
  BY <1>2 DEF Listed, Tails
<1> HIDE DEF l
<1> QED  BY <1>2, <1>3, ListedChange

LEMMA ListedFront ==
    ASSUME NEW q, NEW S, NEW hm, NEW lf, NEW hm2, NEW lf2, NEW c \in Routines,
           NEW t \in Threads, NEW q2,
           Listed(q, hm, lf, S), Others(c, hm, lf, hm2, lf2),
           Fronts(q2, q, t, c), lf2[c] \notin S, hm2[c] = hm[c]
    PROVE  Listed(q2, hm2, lf2, S)
<1> DEFINE l == Front(q[t])
<1>1. q[t] \in Seq(Routines) /\ IsInjective(q[t])
  BY DEF Listed
<1>2. l = SubSeq(q[t], 1, Len(q[t]) - 1) /\ c = q[t][Len(q[t])] /\ q[t] # <<>>
  BY DEF Front, Last, Fronts
<1>3. l \in Seq(Routines) /\ Range(l) = Range(q[t]) \ {c} /\ IsInjective(l) /\ c \in Range(q[t])
  <2> HIDE DEF l
  <2> QED  BY <1>1, <1>2, LastOut
<1>4. q2 = [q EXCEPT ![t] = l] /\ hm[c] = t
  BY <1>3 DEF Listed, Fronts
<1> HIDE DEF l
<1> QED  BY <1>3, <1>4, ListedChange

Ended == {"ended", "dead"}
Paused == {"paused"}
Stacked == {"entry", "run", "ended"}

ListsInv ==
    /\ Listed(endedCoroutines, home, life, Ended)
    /\ Listed(waitResumeQueue, home, life, Paused)
    /\ Listed(pCallStack, home, life, Stacked)

\* cleanRoutine runs while no coroutine of its thread does.
CleanInv ==
    \A t \in Threads :
        /\ cleaning[t] => pCallStack[t] = <<>>
        /\ endedCoroutines[t] # <<>> => cleaning[t] \/ endPipe[t] > 0
        /\ ~hasEnv[t] => /\ endedCoroutines[t] = <<>> /\ waitResumeQueue[t] = <<>>
                         /\ pCallStack[t] = <<>>

Inside == {c \in Routines : isKey[c] /\ life[c] \in {"run", "paused", "ended"}}

KeyInv ==
    /\ keyRoutineNum = Cardinality(Inside)
    /\ quit = "exit" => Inside = {}

EnvInv == EnvTypeOK /\ ListsInv /\ CleanInv /\ KeyInv

LEMMA EnvInitInv ==
    ASSUME RoutineEnvInit PROVE EnvInv
<1>1. /\ hasEnv = [t \in Threads |-> FALSE] /\ life = [c \in Routines |-> "free"]
      /\ home \in [Routines -> Threads]
      /\ isKey = [c \in Routines |-> FALSE]
      /\ pCallStack = [t \in Threads |-> <<>>]
      /\ waitResumeQueue = [t \in Threads |-> <<>>]
      /\ endedCoroutines = [t \in Threads |-> <<>>]
      /\ endPipe = [t \in Threads |-> 0]
      /\ cleaning = [t \in Threads |-> FALSE]
      /\ keyRoutineNum = 0 /\ quit = "no"
  BY RoutineEnvAssumption DEF RoutineEnvInit
<1>2. Range(<<>>) = {} /\ IsInjective(<<>>) /\ <<>> \in Seq(Routines)
  BY EmptyLink
<1>3. EnvTypeOK
  <2>1. endPipe \in [Threads -> 0 .. EndPipeCap]
    BY <1>1, RoutineEnvAssumption
  <2> QED  BY <1>1, <2>1 DEF EnvTypeOK
<1>4. ListsInv
  <2>1. \A t \in Threads : endedCoroutines[t] = <<>> /\ waitResumeQueue[t] = <<>> /\ pCallStack[t] = <<>>
    BY <1>1
  <2>2. \A c \in Routines : life[c] = "free"
    BY <1>1
  <2> QED  BY <1>2, <1>3, <2>1, <2>2 DEF ListsInv, Listed, Ended, Paused, Stacked, EnvTypeOK
<1>5. CleanInv
  BY <1>1 DEF CleanInv
<1>6. KeyInv
  <2>1. Inside = {}
    BY <1>1 DEF Inside
  <2> QED  BY <1>1, <2>1, FS_EmptySet DEF KeyInv
<1> QED  BY <1>3, <1>4, <1>5, <1>6 DEF EnvInv

Lives == {"free", "entry", "run", "paused", "ended", "dead"}

\* The life of c goes on.
LifeSet(c, s) ==
    /\ life' \in [Routines -> Lives] /\ life'[c] = s
    /\ \A d \in Routines \ {c} : life'[d] = life[d]

LEMMA LifeSetFacts ==
    ASSUME EnvTypeOK, NEW c \in Routines, NEW s \in Lives, Becomes(c, s) PROVE LifeSet(c, s)
<1>1. life \in [Routines -> Lives] /\ life' = [life EXCEPT ![c] = s]
  BY DEF EnvTypeOK, Becomes, Lives
<1> HIDE DEF Lives
<1> QED  BY <1>1 DEF LifeSet

LEMMA OthersHome ==
    ASSUME NEW c \in Routines, NEW s, LifeSet(c, s), home' = home
    PROVE  Others(c, home, life, home', life')
  BY DEF LifeSet, Others

\* A coroutine that runs is on the call stack of its thread, which is not cleaning.
LEMMA AtFacts ==
    ASSUME EnvInv, NEW c \in Routines, NEW s, At(c, s)
    PROVE  /\ home[c] \in Threads /\ life[c] = s
           /\ pCallStack[home[c]] # <<>> /\ c = Last(pCallStack[home[c]])
           /\ ~cleaning[home[c]] /\ hasEnv[home[c]]
<1>1. home[c] \in Threads
  BY DEF EnvInv, EnvTypeOK
<1>2. pCallStack[home[c]] # <<>> /\ c = Last(pCallStack[home[c]]) /\ life[c] = s
  BY DEF At
<1> QED  BY <1>1, <1>2 DEF EnvInv, CleanInv

(***************************************************************************)
(* The key coroutines after a step.                                        *)
(***************************************************************************)
LEMMA KeySame ==
    ASSUME KeyInv, Inside' = Inside, keyRoutineNum' = keyRoutineNum, quit' = quit PROVE KeyInv'
  BY DEF KeyInv

LEMMA InsideFinite ==
    IsFiniteSet(Inside) /\ Cardinality(Inside) \in Nat
<1>1. Inside \subseteq Routines
  BY DEF Inside
<1>2. IsFiniteSet(Inside)
  BY <1>1, RoutineEnvAssumption, FS_Subset
<1> QED  BY <1>2, FS_CardinalityType

LEMMA KeyEnters ==
    ASSUME KeyInv, NEW c \in Routines, c \notin Inside, quit # "exit", quit' = quit,
           Guard(c, 1), Inside' = IF isKey[c] THEN Inside \cup {c} ELSE Inside
    PROVE  KeyInv' /\ keyRoutineNum' \in Nat
<1> DEFINE n == Cardinality(Inside)
<1>1. n \in Nat /\ keyRoutineNum = n
  BY InsideFinite DEF KeyInv
<1>2. CASE isKey[c]
  <2>1. Cardinality(Inside \cup {c}) = n + 1
    BY InsideFinite, FS_AddElement
  <2>2. keyRoutineNum' = keyRoutineNum + 1
    BY <1>2 DEF Guard
  <2> HIDE DEF n
  <2>3. keyRoutineNum' = n + 1 /\ keyRoutineNum' \in Nat
    BY <1>1, <2>2
  <2> QED  BY <1>2, <2>1, <2>3 DEF KeyInv
<1>3. CASE ~isKey[c]
  BY <1>1, <1>3 DEF Guard, KeyInv
<1> QED  BY <1>2, <1>3

LEMMA KeyLeaves ==
    ASSUME KeyInv, NEW c \in Routines, isKey[c] => c \in Inside, quit # "exit", quit' = quit,
           Guard(c, -1), Inside' = IF isKey[c] THEN Inside \ {c} ELSE Inside
    PROVE  KeyInv' /\ keyRoutineNum' \in Nat
<1> DEFINE n == Cardinality(Inside)
<1>1. n \in Nat /\ keyRoutineNum = n
  BY InsideFinite DEF KeyInv
<1>2. CASE isKey[c]
  <2>1. Cardinality(Inside \ {c}) = n - 1 /\ n # 0
    <3>1. c \in Inside /\ IsFiniteSet(Inside)
      BY <1>2, InsideFinite
    <3>2. Cardinality(Inside \ {c}) = n - 1
      BY <3>1, FS_RemoveElement
    <3>3. n # 0
      BY <3>1, FS_EmptySet
    <3> QED  BY <3>2, <3>3
  <2>2. keyRoutineNum' = keyRoutineNum + (-1)
    BY <1>2 DEF Guard
  <2>3. n # 0
    BY <2>1
  <2>4. keyRoutineNum' = n - 1 /\ keyRoutineNum' \in Nat
    <3> HIDE DEF n
    <3> QED  BY <1>1, <2>2, <2>3
  <2> QED  BY <1>2, <2>1, <2>4 DEF KeyInv
<1>3. CASE ~isKey[c]
  BY <1>1, <1>3 DEF Guard, KeyInv
<1> QED  BY <1>2, <1>3

(***************************************************************************)
(* Coroutines                                                              *)
(***************************************************************************)
LEMMA StartStep ==
    ASSUME EnvInv, NEW t \in Threads, NEW c \in Routines, NEW key \in BOOLEAN,
           startCoroutine(t, c, key)
    PROVE  EnvInv'
<1>i. EnvTypeOK /\ ListsInv /\ CleanInv /\ KeyInv
  BY DEF EnvInv
<1>1. /\ hasEnv' = [hasEnv EXCEPT ![t] = TRUE] /\ life[c] = "free" /\ Becomes(c, "entry")
      /\ home' = [home EXCEPT ![c] = t] /\ isKey' = [isKey EXCEPT ![c] = key]
      /\ pCallStack' = [pCallStack EXCEPT ![t] = Append(@, c)]
      /\ UNCHANGED <<waitResumeQueue, endedCoroutines, endPipe, cleaning, keyRoutineNum, quit>>
  BY DEF startCoroutine, getEnv, co_create
<1>2. LifeSet(c, "entry")
  BY <1>i, <1>1, LifeSetFacts DEF Lives
<1>3. /\ life' \in [Routines -> Lives] /\ life'[c] = "entry"
      /\ \A d \in Routines \ {c} : life'[d] = life[d]
  BY <1>2 DEF LifeSet
<1>4. home' \in [Routines -> Threads] /\ home'[c] = t /\ \A d \in Routines \ {c} : home'[d] = home[d]
  BY <1>i, <1>1 DEF EnvTypeOK
<1>5. isKey' \in [Routines -> BOOLEAN] /\ \A d \in Routines \ {c} : isKey'[d] = isKey[d]
  BY <1>i, <1>1 DEF EnvTypeOK
<1>6. hasEnv' \in [Threads -> BOOLEAN] /\ hasEnv'[t] /\ \A u \in Threads \ {t} : hasEnv'[u] = hasEnv[u]
  BY <1>i, <1>1 DEF EnvTypeOK
<1>7. Others(c, home, life, home', life')
  BY <1>3, <1>4 DEF Others
<1>8. Listed(endedCoroutines', home', life', Ended)
  BY <1>i, <1>1, <1>3, <1>7, ListedSame DEF ListsInv, Ended
<1>9. Listed(waitResumeQueue', home', life', Paused)
  BY <1>i, <1>1, <1>3, <1>7, ListedSame DEF ListsInv, Paused
<1>10. Listed(pCallStack', home', life', Stacked)
  <2>1. life[c] \notin Stacked /\ life'[c] \in Stacked
    BY <1>1, <1>3 DEF Stacked
  <2>2. Listed(pCallStack, home, life, Stacked)
    BY <1>i DEF ListsInv
  <2>3. Appends(pCallStack', pCallStack, t, c)
    BY <1>1 DEF Appends
  <2> QED  BY <1>4, <1>7, <2>1, <2>2, <2>3, ListedAppend
<1>11. EnvTypeOK'
  BY <1>i, <1>1, <1>3, <1>4, <1>5, <1>6, <1>8, <1>9, <1>10 DEF EnvTypeOK, Listed, Lives
<1>12. CleanInv'
  <2>1. ~cleaning[t]
    <3>1. CASE InLoop(t)
      BY <3>1 DEF InLoop
    <3>2. ASSUME NEW d \in Routines, home[d] = t, At(d, "run") PROVE ~cleaning[t]
      BY <3>2, AtFacts
    <3> QED  BY <3>1, <3>2 DEF startCoroutine
  <2>2. \A u \in Threads : u # t => pCallStack'[u] = pCallStack[u]
    BY <1>i, <1>1 DEF EnvTypeOK
  <2> QED  BY <1>i, <1>1, <1>6, <2>1, <2>2 DEF CleanInv
<1>13. KeyInv'
  <2>1. Inside' = Inside
    BY <1>1, <1>3, <1>5 DEF Inside
  <2> QED  BY <1>i, <1>1, <2>1, KeySame
<1> QED  BY <1>8, <1>9, <1>10, <1>11, <1>12, <1>13 DEF EnvInv, ListsInv

LEMMA EntryStep ==
    ASSUME EnvInv, NEW c \in Routines, routineEntry(c) PROVE EnvInv'
<1>i. EnvTypeOK /\ ListsInv /\ CleanInv /\ KeyInv
  BY DEF EnvInv
<1>1. /\ quit # "exit" /\ life[c] = "entry" /\ Becomes(c, "run") /\ Guard(c, 1)
      /\ UNCHANGED <<hasEnv, pCallStack, waitResumeQueue, endedCoroutines, endPipe, cleaning, home,
                     isKey, quit>>
  BY DEF routineEntry, Alive, At, threadVars
<1>2. LifeSet(c, "run")
  BY <1>i, <1>1, LifeSetFacts DEF Lives
<1>3. /\ life' \in [Routines -> Lives] /\ life'[c] = "run"
      /\ \A d \in Routines \ {c} : life'[d] = life[d]
  BY <1>2 DEF LifeSet
<1>4. Others(c, home, life, home', life')
  BY <1>1, <1>2, OthersHome
<1>5. Listed(endedCoroutines', home', life', Ended)
  BY <1>i, <1>1, <1>3, <1>4, ListedSame DEF ListsInv, Ended
<1>6. Listed(waitResumeQueue', home', life', Paused)
  BY <1>i, <1>1, <1>3, <1>4, ListedSame DEF ListsInv, Paused
<1>7. Listed(pCallStack', home', life', Stacked)
  BY <1>i, <1>1, <1>3, <1>4, ListedSame DEF ListsInv, Stacked
<1>8. KeyInv' /\ keyRoutineNum' \in Nat
  <2>1. c \notin Inside /\ Inside' = IF isKey[c] THEN Inside \cup {c} ELSE Inside
    BY <1>1, <1>3 DEF Inside
  <2> QED  BY <1>i, <1>1, <2>1, KeyEnters
<1>9. EnvTypeOK'
  BY <1>i, <1>1, <1>3, <1>8 DEF EnvTypeOK, Lives
<1>10. CleanInv'
  BY <1>i, <1>1 DEF CleanInv
<1> QED  BY <1>5, <1>6, <1>7, <1>8, <1>9, <1>10 DEF EnvInv, ListsInv

LEMMA PauseStep ==
    ASSUME EnvInv, NEW c \in Routines, pause(c) PROVE EnvInv'
<1>i. EnvTypeOK /\ ListsInv /\ CleanInv /\ KeyInv
  BY DEF EnvInv
<1>a. PICK t \in Threads : t = home[c]
  BY <1>i DEF EnvTypeOK
<1>1. /\ Becomes(c, "paused") /\ At(c, "run")
      /\ waitResumeQueue' = [waitResumeQueue EXCEPT ![t] = Append(@, c)]
      /\ pCallStack' = [pCallStack EXCEPT ![t] = Front(@)]
      /\ UNCHANGED <<hasEnv, endedCoroutines, endPipe, cleaning, home, isKey, keyRoutineNum, quit>>
  BY <1>a DEF pause, SwitchOut
<1>2. /\ life[c] = "run" /\ pCallStack[t] # <<>> /\ c = Last(pCallStack[t])
      /\ ~cleaning[t] /\ hasEnv[t]
  BY <1>1, <1>a, AtFacts
<1>3. LifeSet(c, "paused")
  BY <1>i, <1>1, LifeSetFacts DEF Lives
<1>4. /\ life' \in [Routines -> Lives] /\ life'[c] = "paused"
      /\ \A d \in Routines \ {c} : life'[d] = life[d]
  BY <1>3 DEF LifeSet
<1>5. Others(c, home, life, home', life')
  BY <1>1, <1>3, OthersHome
<1>6. Listed(endedCoroutines', home', life', Ended)
  BY <1>i, <1>1, <1>2, <1>4, <1>5, ListedSame DEF ListsInv, Ended
<1>7. Listed(waitResumeQueue', home', life', Paused)
  <2>1. life[c] \notin Paused /\ life'[c] \in Paused /\ home'[c] = t
    BY <1>1, <1>2, <1>4, <1>a DEF Paused
  <2>2. Listed(waitResumeQueue, home, life, Paused)
    BY <1>i DEF ListsInv
  <2>3. Appends(waitResumeQueue', waitResumeQueue, t, c)
    BY <1>1 DEF Appends
  <2> QED  BY <1>5, <2>1, <2>2, <2>3, ListedAppend
<1>8. Listed(pCallStack', home', life', Stacked)
  <2>1. life'[c] \notin Stacked /\ home'[c] = home[c]
    BY <1>1, <1>4 DEF Stacked
  <2>2. Listed(pCallStack, home, life, Stacked)
    BY <1>i DEF ListsInv
  <2>3. Fronts(pCallStack', pCallStack, t, c)
    BY <1>1, <1>2 DEF Fronts
  <2> QED  BY <1>5, <2>1, <2>2, <2>3, ListedFront
<1>9. EnvTypeOK'
  BY <1>i, <1>1, <1>4, <1>7, <1>8 DEF EnvTypeOK, Lives, Listed
<1>10. CleanInv'
  <2>1. \A u \in Threads : u # t => pCallStack'[u] = pCallStack[u] /\ waitResumeQueue'[u] = waitResumeQueue[u]
    BY <1>i, <1>1 DEF EnvTypeOK
  <2> QED  BY <1>i, <1>1, <1>2, <2>1 DEF CleanInv
<1>11. KeyInv'
  <2>1. Inside' = Inside
    BY <1>1, <1>2, <1>4 DEF Inside
  <2> QED  BY <1>i, <1>1, <2>1, KeySame
<1> QED  BY <1>6, <1>7, <1>8, <1>9, <1>10, <1>11 DEF EnvInv, ListsInv

LEMMA ResumeStep ==
    ASSUME EnvInv, NEW t \in Threads, resumeRoutine(t) PROVE EnvInv'
<1>i. EnvTypeOK /\ ListsInv /\ CleanInv /\ KeyInv
  BY DEF EnvInv
<1>q. /\ waitResumeQueue[t] # <<>> /\ waitResumeQueue[t] \in Seq(Routines)
      /\ Listed(waitResumeQueue, home, life, Paused) /\ IsInjective(waitResumeQueue[t])
  BY <1>i DEF resumeRoutine, EnvTypeOK, ListsInv, Listed
<1>a. PICK c \in Routines : c = Head(waitResumeQueue[t]) /\ c \in Range(waitResumeQueue[t])
  BY <1>q, TailLink
<1>1. /\ Becomes(c, "run") /\ InLoop(t)
      /\ pCallStack' = [pCallStack EXCEPT ![t] = Append(@, c)]
      /\ waitResumeQueue' = [waitResumeQueue EXCEPT ![t] = Tail(@)]
      /\ UNCHANGED <<hasEnv, endedCoroutines, endPipe, cleaning, home, isKey, keyRoutineNum, quit>>
  BY <1>a DEF resumeRoutine
<1>2. life[c] = "paused" /\ home[c] = t /\ ~cleaning[t] /\ hasEnv[t]
  BY <1>i, <1>q, <1>a, <1>1 DEF Listed, Paused, InLoop, CleanInv
<1>3. LifeSet(c, "run")
  BY <1>i, <1>1, LifeSetFacts DEF Lives
<1>4. /\ life' \in [Routines -> Lives] /\ life'[c] = "run"
      /\ \A d \in Routines \ {c} : life'[d] = life[d]
  BY <1>3 DEF LifeSet
<1>5. Others(c, home, life, home', life')
  BY <1>1, <1>3, OthersHome
<1>6. Listed(endedCoroutines', home', life', Ended)
  BY <1>i, <1>1, <1>2, <1>4, <1>5, ListedSame DEF ListsInv, Ended
<1>7. Listed(waitResumeQueue', home', life', Paused)
  <2>1. life'[c] \notin Paused /\ home'[c] = home[c]
    BY <1>1, <1>4 DEF Paused
  <2>2. Tails(waitResumeQueue', waitResumeQueue, t, c)
    BY <1>1, <1>q, <1>a DEF Tails
  <2> QED  BY <1>5, <1>q, <2>1, <2>2, ListedTail
<1>8. Listed(pCallStack', home', life', Stacked)
  <2>1. life[c] \notin Stacked /\ life'[c] \in Stacked /\ home'[c] = t
    BY <1>1, <1>2, <1>4 DEF Stacked
  <2>2. Listed(pCallStack, home, life, Stacked)
    BY <1>i DEF ListsInv
  <2>3. Appends(pCallStack', pCallStack, t, c)
    BY <1>1 DEF Appends
  <2> QED  BY <1>5, <2>1, <2>2, <2>3, ListedAppend
<1>9. EnvTypeOK'
  BY <1>i, <1>1, <1>4, <1>7, <1>8 DEF EnvTypeOK, Lives, Listed
<1>10. CleanInv'
  <2>1. \A u \in Threads : u # t => pCallStack'[u] = pCallStack[u] /\ waitResumeQueue'[u] = waitResumeQueue[u]
    BY <1>i, <1>1 DEF EnvTypeOK
  <2> QED  BY <1>i, <1>1, <1>2, <2>1 DEF CleanInv
<1>11. KeyInv'
  <2>1. Inside' = Inside
    BY <1>1, <1>2, <1>4 DEF Inside
  <2> QED  BY <1>i, <1>1, <2>1, KeySame
<1> QED  BY <1>6, <1>7, <1>8, <1>9, <1>10, <1>11 DEF EnvInv, ListsInv

LEMMA EndStep ==
    ASSUME EnvInv, NEW c \in Routines, addEndedCoroutine(c) PROVE EnvInv'
<1>i. EnvTypeOK /\ ListsInv /\ CleanInv /\ KeyInv
  BY DEF EnvInv
<1>a. PICK t \in Threads : t = home[c]
  BY <1>i DEF EnvTypeOK
<1>1. /\ Becomes(c, "ended") /\ At(c, "run")
      /\ endedCoroutines' = [endedCoroutines EXCEPT ![t] = Append(@, c)]
      /\ endPipe' = [endPipe EXCEPT ![t] = IF @ < EndPipeCap THEN @ + 1 ELSE @]
      /\ UNCHANGED <<hasEnv, pCallStack, waitResumeQueue, cleaning, home, isKey, keyRoutineNum, quit>>
  BY <1>a DEF addEndedCoroutine
<1>2. life[c] = "run" /\ ~cleaning[t] /\ hasEnv[t]
  BY <1>1, <1>a, AtFacts
<1>3. LifeSet(c, "ended")
  BY <1>i, <1>1, LifeSetFacts DEF Lives
<1>4. /\ life' \in [Routines -> Lives] /\ life'[c] = "ended"
      /\ \A d \in Routines \ {c} : life'[d] = life[d]
  BY <1>3 DEF LifeSet
<1>5. Others(c, home, life, home', life')
  BY <1>1, <1>3, OthersHome
<1>6. Listed(endedCoroutines', home', life', Ended)
  <2>1. life[c] \notin Ended /\ life'[c] \in Ended /\ home'[c] = t
    BY <1>1, <1>2, <1>4, <1>a DEF Ended
  <2>2. Listed(endedCoroutines, home, life, Ended)
    BY <1>i DEF ListsInv
  <2>3. Appends(endedCoroutines', endedCoroutines, t, c)
    BY <1>1 DEF Appends
  <2> QED  BY <1>5, <2>1, <2>2, <2>3, ListedAppend
<1>7. Listed(waitResumeQueue', home', life', Paused)
  BY <1>i, <1>1, <1>2, <1>4, <1>5, ListedSame DEF ListsInv, Paused
<1>8. Listed(pCallStack', home', life', Stacked)
  BY <1>i, <1>1, <1>2, <1>4, <1>5, ListedSame DEF ListsInv, Stacked
<1>p. /\ endPipe' \in [Threads -> 0 .. EndPipeCap] /\ endPipe'[t] > 0
      /\ \A u \in Threads : u # t => endPipe'[u] = endPipe[u]
  <2> DEFINE P == 0 .. EndPipeCap
             v == IF endPipe[t] < EndPipeCap THEN endPipe[t] + 1 ELSE endPipe[t]
  <2>1. endPipe \in [Threads -> P] /\ endPipe[t] \in 0 .. EndPipeCap
    BY <1>i DEF EnvTypeOK
  <2>2. v \in P /\ v > 0
    BY <2>1, RoutineEnvAssumption
  <2>3. endPipe' = [endPipe EXCEPT ![t] = v]
    BY <1>1
  <2> HIDE DEF P, v
  <2>4. endPipe' \in [Threads -> P] /\ endPipe'[t] = v /\ \A u \in Threads : u # t => endPipe'[u] = endPipe[u]
    BY <2>1, <2>2, <2>3
  <2> QED  BY <2>2, <2>4 DEF P
<1>9. EnvTypeOK'
  BY <1>i, <1>1, <1>4, <1>6, <1>p DEF EnvTypeOK, Lives, Listed
<1>10. CleanInv'
  <2>1. \A u \in Threads : u # t => endedCoroutines'[u] = endedCoroutines[u]
    BY <1>i, <1>1 DEF EnvTypeOK
  <2> QED  BY <1>i, <1>1, <1>2, <1>p, <2>1 DEF CleanInv
<1>11. KeyInv'
  <2>1. Inside' = Inside
    BY <1>1, <1>2, <1>4 DEF Inside
  <2> QED  BY <1>i, <1>1, <2>1, KeySame
<1> QED  BY <1>6, <1>7, <1>8, <1>9, <1>10, <1>11 DEF EnvInv, ListsInv

LEMMA LeaveStep ==
    ASSUME EnvInv, NEW c \in Routines, Leave(c) PROVE EnvInv'
<1>i. EnvTypeOK /\ ListsInv /\ CleanInv /\ KeyInv
  BY DEF EnvInv
<1>a. PICK t \in Threads : t = home[c]
  BY <1>i DEF EnvTypeOK
<1>1. /\ Becomes(c, "dead") /\ At(c, "ended") /\ quit # "exit" /\ Guard(c, -1)
      /\ pCallStack' = [pCallStack EXCEPT ![t] = Front(@)]
      /\ UNCHANGED <<hasEnv, waitResumeQueue, endedCoroutines, endPipe, cleaning, home, isKey, quit>>
  BY <1>a DEF Leave, SwitchOut, Alive
<1>2. /\ life[c] = "ended" /\ pCallStack[t] # <<>> /\ c = Last(pCallStack[t])
      /\ ~cleaning[t] /\ hasEnv[t]
  BY <1>1, <1>a, AtFacts
<1>3. LifeSet(c, "dead")
  BY <1>i, <1>1, LifeSetFacts DEF Lives
<1>4. /\ life' \in [Routines -> Lives] /\ life'[c] = "dead"
      /\ \A d \in Routines \ {c} : life'[d] = life[d]
  BY <1>3 DEF LifeSet
<1>5. Others(c, home, life, home', life')
  BY <1>1, <1>3, OthersHome
<1>6. Listed(endedCoroutines', home', life', Ended)
  BY <1>i, <1>1, <1>2, <1>4, <1>5, ListedSame DEF ListsInv, Ended
<1>7. Listed(waitResumeQueue', home', life', Paused)
  BY <1>i, <1>1, <1>2, <1>4, <1>5, ListedSame DEF ListsInv, Paused
<1>8. Listed(pCallStack', home', life', Stacked)
  <2>1. life'[c] \notin Stacked /\ home'[c] = home[c]
    BY <1>1, <1>4 DEF Stacked
  <2>2. Listed(pCallStack, home, life, Stacked)
    BY <1>i DEF ListsInv
  <2>3. Fronts(pCallStack', pCallStack, t, c)
    BY <1>1, <1>2 DEF Fronts
  <2> QED  BY <1>5, <2>1, <2>2, <2>3, ListedFront
<1>9. KeyInv' /\ keyRoutineNum' \in Nat
  <2>1. (isKey[c] => c \in Inside) /\ Inside' = IF isKey[c] THEN Inside \ {c} ELSE Inside
    BY <1>1, <1>2, <1>4 DEF Inside
  <2> QED  BY <1>i, <1>1, <2>1, KeyLeaves
<1>10. EnvTypeOK'
  BY <1>i, <1>1, <1>4, <1>8, <1>9 DEF EnvTypeOK, Lives, Listed
<1>11. CleanInv'
  <2>1. \A u \in Threads : u # t => pCallStack'[u] = pCallStack[u]
    BY <1>i, <1>1 DEF EnvTypeOK
  <2> QED  BY <1>i, <1>1, <1>2, <2>1 DEF CleanInv
<1> QED  BY <1>6, <1>7, <1>8, <1>9, <1>10, <1>11 DEF EnvInv, ListsInv

(***************************************************************************)
(* cleanRoutine and quit()                                                 *)
(***************************************************************************)
LEMMA ReleaseStep ==
    ASSUME EnvInv, NEW t \in Threads, CleanRelease(t) PROVE EnvInv'
<1>i. EnvTypeOK /\ ListsInv /\ CleanInv /\ KeyInv
  BY DEF EnvInv
<1>q. /\ endedCoroutines[t] # <<>> /\ endedCoroutines[t] \in Seq(Routines) /\ cleaning[t]
      /\ Listed(endedCoroutines, home, life, Ended) /\ IsInjective(endedCoroutines[t])
  BY <1>i DEF CleanRelease, EnvTypeOK, ListsInv, Listed
<1>a. PICK c \in Routines : c = Head(endedCoroutines[t]) /\ c \in Range(endedCoroutines[t])
  BY <1>q, TailLink
<1>1. /\ Becomes(c, "free")
      /\ endedCoroutines' = [endedCoroutines EXCEPT ![t] = Tail(@)]
      /\ UNCHANGED <<hasEnv, pCallStack, waitResumeQueue, endPipe, cleaning, home, isKey,
                     keyRoutineNum, quit>>
  BY <1>a DEF CleanRelease, co_release
<1>2. life[c] = "dead" /\ home[c] = t
  <2>1. life[c] \in Ended /\ home[c] = t
    BY <1>q, <1>a DEF Listed
  <2>2. c \notin Range(pCallStack[t])
    <3>1. pCallStack[t] = <<>>
      BY <1>i, <1>q DEF CleanInv
    <3> QED  BY <3>1, EmptyLink
  <2>3. life[c] \notin Stacked
    BY <1>i, <2>1, <2>2 DEF ListsInv, Listed
  <2> QED  BY <2>1, <2>3 DEF Ended, Stacked
<1>3. LifeSet(c, "free")
  BY <1>i, <1>1, LifeSetFacts DEF Lives
<1>4. /\ life' \in [Routines -> Lives] /\ life'[c] = "free"
      /\ \A d \in Routines \ {c} : life'[d] = life[d]
  BY <1>3 DEF LifeSet
<1>5. Others(c, home, life, home', life')
  BY <1>1, <1>3, OthersHome
<1>6. Listed(endedCoroutines', home', life', Ended)
  <2>1. life'[c] \notin Ended /\ home'[c] = home[c]
    BY <1>1, <1>4 DEF Ended
  <2>2. Tails(endedCoroutines', endedCoroutines, t, c)
    BY <1>1, <1>q, <1>a DEF Tails
  <2> QED  BY <1>5, <1>q, <2>1, <2>2, ListedTail
<1>7. Listed(waitResumeQueue', home', life', Paused)
  BY <1>i, <1>1, <1>2, <1>4, <1>5, ListedSame DEF ListsInv, Paused
<1>8. Listed(pCallStack', home', life', Stacked)
  BY <1>i, <1>1, <1>2, <1>4, <1>5, ListedSame DEF ListsInv, Stacked
<1>9. EnvTypeOK'
  BY <1>i, <1>1, <1>4, <1>6 DEF EnvTypeOK, Lives, Listed
<1>10. CleanInv'
  <2>1. \A u \in Threads : u # t => endedCoroutines'[u] = endedCoroutines[u]
    BY <1>i, <1>1 DEF EnvTypeOK
  <2>2. hasEnv[t]
    BY <1>i, <1>q DEF CleanInv
  <2> QED  BY <1>i, <1>1, <1>q, <2>1, <2>2 DEF CleanInv
<1>11. KeyInv'
  <2>1. Inside' = Inside
    BY <1>1, <1>2, <1>4 DEF Inside
  <2> QED  BY <1>i, <1>1, <2>1, KeySame
<1> QED  BY <1>6, <1>7, <1>8, <1>9, <1>10, <1>11 DEF EnvInv, ListsInv

LEMMA CleanStep ==
    ASSUME EnvInv, NEW t \in Threads, CleanRead(t) \/ CleanDone(t) PROVE EnvInv'
<1>i. EnvTypeOK /\ ListsInv /\ CleanInv /\ KeyInv
  BY DEF EnvInv
<1>1. /\ UNCHANGED <<hasEnv, pCallStack, waitResumeQueue, endedCoroutines, life, home, isKey,
                     keyRoutineNum, quit>>
      /\ \/ /\ pCallStack[t] = <<>> /\ cleaning' = [cleaning EXCEPT ![t] = TRUE]
            /\ endPipe' = [endPipe EXCEPT ![t] = IF @ > EndReadMax THEN @ - EndReadMax ELSE 0]
         \/ /\ endedCoroutines[t] = <<>> /\ cleaning' = [cleaning EXCEPT ![t] = FALSE]
            /\ endPipe' = endPipe
  BY Zenon DEF CleanRead, CleanDone, InLoop
<1>2. ListsInv'
  BY <1>i, <1>1 DEF ListsInv
<1>3. KeyInv'
  <2>1. Inside' = Inside
    BY <1>1 DEF Inside
  <2> QED  BY <1>i, <1>1, <2>1, KeySame
<1>4. /\ cleaning' \in [Threads -> BOOLEAN] /\ \A u \in Threads : u # t => cleaning'[u] = cleaning[u]
      /\ cleaning'[t] \/ endedCoroutines[t] = <<>>
      /\ cleaning'[t] => pCallStack[t] = <<>>
  <2>1. CASE pCallStack[t] = <<>> /\ cleaning' = [cleaning EXCEPT ![t] = TRUE]
    BY <1>i, <2>1 DEF EnvTypeOK
  <2>2. CASE endedCoroutines[t] = <<>> /\ cleaning' = [cleaning EXCEPT ![t] = FALSE]
    BY <1>i, <2>2 DEF EnvTypeOK
  <2> QED  BY <1>1, <2>1, <2>2
<1>5. /\ endPipe' \in [Threads -> 0 .. EndPipeCap]
      /\ \A u \in Threads : u # t => endPipe'[u] = endPipe[u]
  <2> DEFINE P == 0 .. EndPipeCap
             v == IF endPipe[t] > EndReadMax THEN endPipe[t] - EndReadMax ELSE 0
  <2>1. endPipe \in [Threads -> P] /\ endPipe[t] \in 0 .. EndPipeCap
    BY <1>i DEF EnvTypeOK
  <2>2. v \in P
    BY <2>1, RoutineEnvAssumption
  <2>3. endPipe' = [endPipe EXCEPT ![t] = v] \/ endPipe' = endPipe
    BY <1>1
  <2> HIDE DEF P, v
  <2>4. endPipe' \in [Threads -> P] /\ \A u \in Threads : u # t => endPipe'[u] = endPipe[u]
    BY <2>1, <2>2, <2>3
  <2> QED  BY <2>4 DEF P
<1>6. EnvTypeOK'
  BY <1>i, <1>1, <1>4, <1>5 DEF EnvTypeOK
<1>7. CleanInv'
  BY <1>i, <1>1, <1>4, <1>5 DEF CleanInv
<1> QED  BY <1>2, <1>3, <1>6, <1>7 DEF EnvInv

LEMMA QuitStepInv ==
    ASSUME EnvInv, QuitStart \/ QuitStep PROVE EnvInv'
<1>i. EnvTypeOK /\ ListsInv /\ CleanInv /\ KeyInv
  BY DEF EnvInv
<1>1. /\ UNCHANGED <<hasEnv, pCallStack, waitResumeQueue, endedCoroutines, endPipe, cleaning, life,
                     home, isKey, keyRoutineNum>>
      /\ quit' \in {"check", "sleep"} \/ (quit' = "exit" /\ keyRoutineNum = 0)
  BY DEF QuitStart, QuitStep, safeQuitRoutine, QuitWakes, threadVars
<1>2. EnvTypeOK' /\ ListsInv'
  BY <1>i, <1>1 DEF EnvTypeOK, ListsInv
<1>3. CleanInv'
  BY <1>i, <1>1 DEF CleanInv
<1>4. KeyInv'
  <2>1. Inside' = Inside
    BY <1>1 DEF Inside
  <2>2. Cardinality(Inside) = 0 => Inside = {}
    BY InsideFinite, FS_EmptySet
  <2> QED  BY <1>i, <1>1, <2>1, <2>2 DEF KeyInv
<1> QED  BY <1>2, <1>3, <1>4 DEF EnvInv

LEMMA EnvStepInv ==
    ASSUME EnvInv, RoutineEnvNext PROVE EnvInv'
<1>1. ASSUME NEW c \in Routines, RoutineStep(c) PROVE EnvInv'
  BY <1>1, EntryStep, PauseStep, EndStep, LeaveStep DEF RoutineStep
<1>2. ASSUME NEW t \in Threads, EnvStep(t) PROVE EnvInv'
  BY <1>2, ResumeStep, ReleaseStep, CleanStep DEF EnvStep
<1> QED  BY <1>1, <1>2, StartStep, QuitStepInv DEF RoutineEnvNext

\* How often something is in a list without repetitions.
LEMMA OccursOnce ==
    ASSUME NEW s \in Seq(Routines), IsInjective(s), NEW c
    PROVE  Occurs(c, s) = IF c \in Range(s) THEN 1 ELSE 0
<1> DEFINE X == {i \in DOMAIN s : s[i] = c}
<1>1. CASE c \in Range(s)
  <2>1. PICK i \in DOMAIN s : s[i] = c
    BY <1>1 DEF Range
  <2>2. X = {i}
    BY <2>1 DEF IsInjective
  <2>3. Cardinality(X) = 1
    <3> HIDE DEF X
    <3> QED  BY <2>2, FS_Singleton
  <2> QED  BY <1>1, <2>3 DEF Occurs
<1>2. CASE c \notin Range(s)
  <2>1. X = {}
    BY <1>2 DEF Range
  <2>2. Cardinality(X) = 0
    <3> HIDE DEF X
    <3> QED  BY <2>1, FS_EmptySet
  <2> QED  BY <1>2, <2>2 DEF Occurs
<1> QED  BY <1>1, <1>2

LEMMA OccursListed ==
    ASSUME NEW q, NEW S, Listed(q, home, life, S), NEW c \in Routines, NEW t \in Threads
    PROVE  Occurs(c, q[t]) = IF home[c] = t /\ life[c] \in S THEN 1 ELSE 0
<1>1. q[t] \in Seq(Routines) /\ IsInjective(q[t]) /\ (c \in Range(q[t]) <=> home[c] = t /\ life[c] \in S)
  BY DEF Listed
<1>2. Occurs(c, q[t]) = IF c \in Range(q[t]) THEN 1 ELSE 0
  BY <1>1, OccursOnce
<1> QED  BY <1>1, <1>2

LEMMA EnvSoundHolds ==
    ASSUME EnvInv PROVE EnvSound
<1>i. EnvTypeOK /\ ListsInv /\ CleanInv /\ KeyInv
  BY DEF EnvInv
<1>1. ASSUME NEW c \in Routines, NEW t \in Threads
      PROVE  /\ Occurs(c, endedCoroutines[t]) =
                   IF home[c] = t /\ life[c] \in {"ended", "dead"} THEN 1 ELSE 0
             /\ Occurs(c, waitResumeQueue[t]) =
                   IF home[c] = t /\ life[c] = "paused" THEN 1 ELSE 0
             /\ Occurs(c, pCallStack[t]) =
                   IF home[c] = t /\ life[c] \in {"entry", "run", "ended"} THEN 1 ELSE 0
  <2>1. Occurs(c, endedCoroutines[t]) = IF home[c] = t /\ life[c] \in Ended THEN 1 ELSE 0
    BY <1>i, OccursListed DEF ListsInv
  <2>2. Occurs(c, waitResumeQueue[t]) = IF home[c] = t /\ life[c] \in Paused THEN 1 ELSE 0
    BY <1>i, OccursListed DEF ListsInv
  <2>3. Occurs(c, pCallStack[t]) = IF home[c] = t /\ life[c] \in Stacked THEN 1 ELSE 0
    BY <1>i, OccursListed DEF ListsInv
  <2> QED  BY <2>1, <2>2, <2>3 DEF Ended, Paused, Stacked
<1>2. ASSUME NEW t \in Threads, cleaning[t], NEW i \in DOMAIN endedCoroutines[t]
      PROVE  life[endedCoroutines[t][i]] = "dead"
  <2>1. PICK c \in Routines : c = endedCoroutines[t][i] /\ c \in Range(endedCoroutines[t])
    <3>1. endedCoroutines[t] \in Seq(Routines)
      BY <1>i DEF EnvTypeOK
    <3>2. endedCoroutines[t][i] \in Routines
      BY <1>2, <3>1
    <3> QED  BY <3>2 DEF Range
  <2>2. life[c] \in Ended /\ home[c] = t
    BY <1>i, <2>1 DEF ListsInv, Listed
  <2>3. c \notin Range(pCallStack[t])
    <3>1. pCallStack[t] = <<>>
      BY <1>i, <1>2 DEF CleanInv
    <3> QED  BY <3>1, EmptyLink
  <2>4. life[c] \notin Stacked
    BY <1>i, <2>2, <2>3 DEF ListsInv, Listed
  <2> QED  BY <2>1, <2>2, <2>4 DEF Ended, Stacked
<1>3. LivesSound
  BY <1>i, <1>1, <1>2 DEF LivesSound, CleanInv
<1>4. KeysCounted
  BY <1>i DEF KeysCounted, KeyInv, Inside
<1> QED  BY <1>i, <1>3, <1>4 DEF EnvSound

-----------------------------------------------------------------------------
(***************************************************************************)
(* PubSub.  Messages are numbered as they are published and stay in that   *)
(* order in the socket, in the library's reader, in the queues of threads  *)
(* and in what the callbacks got; a thread is registered once for a topic. *)
(***************************************************************************)
Published == Topics \X (1 .. MaxPublish)

\* What the library has not handed out yet: acknowledgements, and messages.
Line == unread \o socket

Below(x, m) == m[2] > 0 => x < m[2]

PubTypes ==
    /\ callbacks \in [Envs -> [Topics -> Nat]]
    /\ registering \in Seq(Topics \X Envs) /\ envs \in [Topics -> Seq(Envs)]
    /\ command \subseteq Topics /\ subscribed \subseteq Topics
    /\ unread \in Seq(Replies) /\ socket \in Seq(Replies)
    /\ queue \in [Envs -> Seq(Published)] /\ last \in [Envs -> Nat]
    /\ published \in 0 .. MaxPublish

RegisterInv ==
    /\ IsInjective(registering) /\ \A t \in Topics : IsInjective(envs[t])
    /\ \A e \in Envs, t \in Topics :
          /\ <<t, e>> \in Range(registering) => e \notin Range(envs[t]) /\ callbacks[e][t] > 0
          /\ e \in Range(envs[t]) => callbacks[e][t] > 0

\* The messages in the line, in order and later than all that was handed out.
LineOrder(l, pu) ==
    /\ l \in Seq(Replies)
    /\ \A i \in DOMAIN l : l[i][2] <= pu
    /\ \A i, j \in DOMAIN l : i < j /\ l[i][2] > 0 => Below(l[i][2], l[j])

\* A thread that got la last and has q in its queue.
QueueOrder(l, q, la, pu, cb) ==
    /\ la <= pu /\ \A i \in DOMAIN l : Below(la, l[i])
    /\ \A k \in DOMAIN q :
          /\ la < q[k][2] /\ q[k][2] <= pu /\ cb[q[k][1]] > 0
          /\ \A i \in DOMAIN l : Below(q[k][2], l[i])
          /\ \A j \in 1 .. k - 1 : q[j][2] < q[k][2]

OrderInv ==
    /\ LineOrder(Line, published)
    /\ \A e \in Envs : QueueOrder(Line, queue[e], last[e], published, callbacks[e])

PubInv == PubTypes /\ RegisterInv /\ OrderInv

LEMMA ReplyFacts ==
    \A m \in Replies : m[2] \in Nat /\ (m # Ack <=> m[2] > 0) /\ (m # Ack => m \in Published)
  BY PubSubAssumption DEF Replies, Ack, Published

LEMMA PublishedFacts ==
    \A m \in Published : m[1] \in Topics /\ m[2] \in Nat /\ m[2] > 0 /\ m \in Replies
  BY PubSubAssumption DEF Replies, Published

LEMMA PubInitInv ==
    ASSUME NEW at, PubSubInit(at) PROVE PubInv
<1>1. /\ callbacks = [e \in Envs |-> [t \in Topics |-> 0]] /\ registering = <<>>
      /\ envs = [t \in Topics |-> <<>>] /\ command = {} /\ subscribed = {}
      /\ socket = <<>> /\ unread = <<>> /\ queue = [e \in Envs |-> <<>>] /\ last = [e \in Envs |-> 0]
      /\ published = 0
  BY DEF PubSubInit
<1>2. PubTypes
  <2>1. published \in 0 .. MaxPublish
    BY <1>1, PubSubAssumption
  <2> QED  BY <1>1, <2>1 DEF PubTypes
<1>3. RegisterInv
  <2>1. Range(<<>>) = {} /\ IsInjective(<<>>)
    BY EmptyLink
  <2>2. \A t \in Topics : envs[t] = <<>>
    BY <1>1
  <2> QED  BY <1>1, <2>1, <2>2 DEF RegisterInv
<1>4. OrderInv
  <2>1. Line = <<>>
    BY <1>1 DEF Line
  <2>2. DOMAIN <<>> = {} /\ <<>> \in Seq(Replies)
    BY EmptySeq
  <2>3. \A e \in Envs : queue[e] = <<>> /\ last[e] = 0
    BY <1>1
  <2>4. LineOrder(<<>>, 0)
    BY <2>2 DEF LineOrder
  <2>5. \A e \in Envs : QueueOrder(<<>>, <<>>, 0, 0, callbacks[e])
    BY <2>2 DEF QueueOrder
  <2> QED  BY <1>1, <2>1, <2>3, <2>4, <2>5 DEF OrderInv
<1> QED  BY <1>2, <1>3, <1>4 DEF PubInv

(***************************************************************************)
(* The line gets shorter or longer.                                        *)
(***************************************************************************)
\* m comes out of the line.
Taken(l2, l, m) == l \in Seq(Replies) /\ l # <<>> /\ m = Head(l) /\ l2 = Tail(l)

LEMMA TakenFacts ==
    ASSUME NEW l, NEW l2, NEW m, Taken(l2, l, m)
    PROVE  /\ m \in Replies /\ m = l[1] /\ l2 \in Seq(Replies) /\ 1 \in DOMAIN l
           /\ \A i \in DOMAIN l2 : i \in Nat /\ i + 1 \in DOMAIN l /\ l2[i] = l[i + 1] /\ 1 < i + 1
<1> DEFINE n == Len(l)
<1>1. l \in Seq(Replies) /\ l # <<>> /\ m = Head(l) /\ l2 = Tail(l)
  BY DEF Taken
<1>2. n \in Nat /\ n >= 1 /\ DOMAIN l = 1 .. n
  BY <1>1, EmptySeq
<1>3. l2 \in Seq(Replies) /\ Len(l2) = n - 1 /\ m = l[1] /\ \A i \in 1 .. n - 1 : l2[i] = l[i + 1]
  BY <1>1
<1>4. DOMAIN l2 = 1 .. n - 1
  BY <1>3
<1>5. m \in Replies
  BY <1>1, <1>2, <1>3
<1> HIDE DEF n
<1>6. 1 \in 1 .. n /\ \A i \in 1 .. n - 1 : i \in Nat /\ i + 1 \in 1 .. n /\ 1 < i + 1
  BY <1>2
<1> QED  BY <1>2, <1>3, <1>4, <1>5, <1>6

LEMMA LineTaken ==
    ASSUME NEW l, NEW l2, NEW m, Taken(l2, l, m), NEW pu, LineOrder(l, pu)
    PROVE  LineOrder(l2, pu)
<1>1. /\ l2 \in Seq(Replies)
      /\ \A i \in DOMAIN l2 : i \in Nat /\ i + 1 \in DOMAIN l /\ l2[i] = l[i + 1]
  BY TakenFacts
<1>2. \A i, j \in DOMAIN l2 : i < j => i + 1 < j + 1
  BY <1>1
<1> QED  BY <1>1, <1>2 DEF LineOrder

LEMMA QueueTaken ==
    ASSUME NEW l, NEW l2, NEW m, Taken(l2, l, m), NEW pu, NEW q, NEW la, NEW cb,
           QueueOrder(l, q, la, pu, cb)
    PROVE  QueueOrder(l2, q, la, pu, cb)
<1>1. \A i \in DOMAIN l2 : i + 1 \in DOMAIN l /\ l2[i] = l[i + 1]
  BY TakenFacts
<1> QED  BY <1>1 DEF QueueOrder

\* m, a message, goes to the end of the queue.
LEMMA QueueGets ==
    ASSUME NEW l, NEW l2, NEW m, Taken(l2, l, m), NEW pu, LineOrder(l, pu),
           NEW q \in Seq(Published), NEW la, NEW cb, NEW q2,
           QueueOrder(l, q, la, pu, cb), m # Ack, cb[m[1]] > 0,
           q2 = Append(q, m)
    PROVE  QueueOrder(l2, q2, la, pu, cb) /\ q2 \in Seq(Published)
<1> DEFINE n == Len(q)
<1>1. /\ m \in Replies /\ m = l[1] /\ 1 \in DOMAIN l
      /\ \A i \in DOMAIN l2 : i + 1 \in DOMAIN l /\ l2[i] = l[i + 1] /\ 1 < i + 1
  BY TakenFacts
<1>2. m \in Published /\ m[2] > 0 /\ m[2] \in Nat
  BY <1>1, ReplyFacts
<1>3. /\ q2 \in Seq(Published) /\ n \in Nat /\ Len(q2) = n + 1 /\ q2[n + 1] = m
      /\ \A k \in 1 .. n : q2[k] = q[k]
  BY <1>2, AppendAt
<1>4. DOMAIN q = 1 .. n /\ DOMAIN q2 = 1 .. n + 1
  BY <1>3
<1> HIDE DEF n
<1>5. \A k \in 1 .. n + 1 : k \in 1 .. n \/ k = n + 1
  BY <1>3
<1>6. \A i \in DOMAIN l2 : Below(m[2], l2[i])
  BY <1>1, <1>2 DEF LineOrder
<1>7. la < m[2] /\ m[2] <= pu /\ \A k \in 1 .. n : q[k][2] < m[2]
  BY <1>1, <1>2, <1>4 DEF LineOrder, QueueOrder, Below
<1>8. QueueOrder(l2, q, la, pu, cb)
  BY QueueTaken
<1>9. ASSUME NEW k \in DOMAIN q2
      PROVE  /\ la < q2[k][2] /\ q2[k][2] <= pu /\ cb[q2[k][1]] > 0
             /\ \A i \in DOMAIN l2 : Below(q2[k][2], l2[i])
             /\ \A j \in 1 .. k - 1 : q2[j][2] < q2[k][2]
  <2>1. CASE k \in 1 .. n
    <3>1. q2[k] = q[k] /\ \A j \in 1 .. k - 1 : q2[j] = q[j]
      BY <1>3, <2>1
    <3> QED  BY <1>4, <1>8, <2>1, <3>1 DEF QueueOrder
  <2>2. CASE k = n + 1
    <3>1. q2[k] = m /\ \A j \in 1 .. k - 1 : j \in 1 .. n /\ q2[j] = q[j]
      BY <1>3, <2>2
    <3> QED  BY <1>6, <1>7, <3>1
  <2> QED  BY <1>4, <1>5, <2>1, <2>2
<1>10. la <= pu /\ \A i \in DOMAIN l2 : Below(la, l2[i])
  BY <1>8 DEF QueueOrder
<1> QED  BY <1>3, <1>9, <1>10 DEF QueueOrder

\* The first of the queue is given to the callbacks.
LEMMA QueueNext ==
    ASSUME NEW l, NEW pu \in Nat, NEW q \in Seq(Published), q # <<>>, NEW la \in Nat, NEW cb,
           QueueOrder(l, q, la, pu, cb), NEW q2, q2 = Tail(q), NEW la2, la2 = Head(q)[2]
    PROVE  QueueOrder(l, q2, la2, pu, cb) /\ la2 \in Nat /\ q2 \in Seq(Published)
<1> DEFINE n == Len(q)
<1>1. n \in Nat /\ n >= 1 /\ DOMAIN q = 1 .. n /\ Head(q) = q[1]
  BY EmptySeq
<1>2. q2 \in Seq(Published) /\ Len(q2) = n - 1 /\ \A k \in 1 .. n - 1 : q2[k] = q[k + 1]
  OBVIOUS
<1>3. DOMAIN q2 = 1 .. n - 1
  BY <1>2
<1>4. \A k \in 1 .. n : q[k] \in Published /\ q[k][2] \in Nat
  BY PublishedFacts
<1> HIDE DEF n
<1>5. 1 \in 1 .. n /\ \A k \in 1 .. n - 1 : k + 1 \in 1 .. n /\ 1 \in 1 .. (k + 1) - 1
  BY <1>1
<1>6. la2 \in Nat /\ la2 <= pu /\ \A i \in DOMAIN l : Below(la2, l[i])
  BY <1>1, <1>4, <1>5 DEF QueueOrder
<1>7. ASSUME NEW k \in DOMAIN q2
      PROVE  /\ la2 < q2[k][2] /\ q2[k][2] <= pu /\ cb[q2[k][1]] > 0
             /\ \A i \in DOMAIN l : Below(q2[k][2], l[i])
             /\ \A j \in 1 .. k - 1 : q2[j][2] < q2[k][2]
  <2>1. q2[k] = q[k + 1] /\ k + 1 \in DOMAIN q /\ k \in 1 .. n - 1
    BY <1>1, <1>2, <1>3, <1>5
  <2>2. \A j \in 1 .. k - 1 : q2[j] = q[j + 1] /\ j + 1 \in 1 .. (k + 1) - 1
    BY <1>1, <1>2, <2>1
  <2>3. q[1][2] < q[k + 1][2]
    BY <1>5, <2>1 DEF QueueOrder
  <2> QED  BY <1>1, <2>1, <2>2, <2>3 DEF QueueOrder
<1> QED  BY <1>2, <1>6, <1>7 DEF QueueOrder

\* Acknowledgements, or the message with the number hi, come to the end.
Grown(l2, l, lo, hi) ==
    /\ l \in Seq(Replies) /\ l2 \in Seq(Replies) /\ Len(l) <= Len(l2)
    /\ \A i \in 1 .. Len(l) : l2[i] = l[i]
    /\ \A i \in Len(l) + 1 .. Len(l2) :
          l2[i] = Ack \/ (l2[i][2] = hi /\ lo < hi /\ Len(l2) = Len(l) + 1)

LEMMA GrownFacts ==
    ASSUME NEW l, NEW l2, NEW lo \in Nat, NEW hi \in Nat, lo <= hi, Grown(l2, l, lo, hi),
           LineOrder(l, lo)
    PROVE  /\ LineOrder(l2, hi)
           /\ \A q, la, cb : (/\ la \in Nat /\ q \in Seq(Published)
                              /\ QueueOrder(l, q, la, lo, cb)) => QueueOrder(l2, q, la, hi, cb)
<1> DEFINE m == Len(l)
           n == Len(l2)
<1>1. /\ l \in Seq(Replies) /\ l2 \in Seq(Replies) /\ m \in Nat /\ n \in Nat /\ m <= n
      /\ DOMAIN l = 1 .. m /\ DOMAIN l2 = 1 .. n /\ \A i \in 1 .. m : l2[i] = l[i]
      /\ \A i \in m + 1 .. n : l2[i] = Ack \/ (l2[i][2] = hi /\ lo < hi /\ n = m + 1)
  BY DEF Grown
<1>2. Ack[2] = 0 /\ \A i \in 1 .. n : l2[i][2] \in Nat
  <2>1. l2 \in Seq(Replies)
    BY <1>1
  <2>11. \A i \in 1 .. n : l2[i] \in Replies
    BY ONLY <2>1
  <2>2. Ack[2] = 0
    BY DEF Ack
  <2> QED  BY <2>11, <2>2, ReplyFacts
<1> HIDE DEF m, n
<1>3. \A i \in 1 .. n : i \in 1 .. m \/ i \in m + 1 .. n
  BY <1>1
<1>4. \A i \in 1 .. m : l2[i][2] <= lo
  BY <1>1 DEF LineOrder
<1>5. \A i \in m + 1 .. n : l2[i][2] = 0 \/ (l2[i][2] = hi /\ lo < hi /\ n = m + 1)
  BY <1>1, <1>2
<1>6. ASSUME NEW i \in DOMAIN l2 PROVE l2[i][2] <= hi
  BY <1>1, <1>2, <1>3, <1>4, <1>5
<1>7. ASSUME NEW i \in DOMAIN l2, NEW j \in DOMAIN l2, i < j, l2[i][2] > 0
      PROVE  Below(l2[i][2], l2[j])
  <2>1. CASE j \in 1 .. m
    <3>1. i \in 1 .. m
      BY <1>1, <1>7, <2>1
    <3> QED  BY <1>1, <1>7, <2>1, <3>1 DEF LineOrder
  <2>2. CASE j \in m + 1 .. n
    <3>1. CASE l2[j][2] = 0
      BY <3>1 DEF Below
    <3>2. CASE l2[j][2] = hi /\ lo < hi /\ n = m + 1
      <4>1. i \in 1 .. m
        BY <1>1, <1>7, <2>2, <3>2
      <4> QED  BY <1>1, <1>2, <1>4, <3>2, <4>1 DEF Below
    <3> QED  BY <1>5, <2>2, <3>1, <3>2
  <2> QED  BY <1>1, <1>3, <2>1, <2>2
<1>8. LineOrder(l2, hi)
  BY <1>1, <1>6, <1>7 DEF LineOrder
<1>9. ASSUME NEW x \in Nat, x <= lo, \A i \in DOMAIN l : Below(x, l[i])
      PROVE  \A i \in DOMAIN l2 : Below(x, l2[i])
  BY <1>1, <1>3, <1>5, <1>9 DEF Below
<1>10. ASSUME NEW q, NEW la, NEW cb, la \in Nat, q \in Seq(Published), QueueOrder(l, q, la, lo, cb)
       PROVE  QueueOrder(l2, q, la, hi, cb)
  <2>1. la <= lo /\ la <= hi /\ \A i \in DOMAIN l2 : Below(la, l2[i])
    BY <1>9, <1>10 DEF QueueOrder
  <2>2. ASSUME NEW k \in DOMAIN q
        PROVE  /\ la < q[k][2] /\ q[k][2] <= hi /\ cb[q[k][1]] > 0
               /\ \A i \in DOMAIN l2 : Below(q[k][2], l2[i])
               /\ \A j \in 1 .. k - 1 : q[j][2] < q[k][2]
    <3>1. q[k][2] \in Nat
      BY <1>10, PublishedFacts
    <3>2. /\ la < q[k][2] /\ q[k][2] <= lo /\ cb[q[k][1]] > 0
          /\ \A i \in DOMAIN l : Below(q[k][2], l[i])
          /\ \A j \in 1 .. k - 1 : q[j][2] < q[k][2]
      BY <1>10 DEF QueueOrder
    <3> QED  BY <1>9, <3>1, <3>2
  <2> QED  BY <2>1, <2>2 DEF QueueOrder
<1> QED  BY <1>8, <1>10

(***************************************************************************)
(* What the library and the server do to the line.                         *)
(***************************************************************************)
LEMMA GetReplyTakes ==
    ASSUME PubTypes, NEW reply, GetReply(reply)
    PROVE  Taken(Line', Line, reply) /\ unread' \in Seq(Replies) /\ socket' \in Seq(Replies)
<1>1. unread \in Seq(Replies) /\ socket \in Seq(Replies)
  BY DEF PubTypes
<1>2. CASE unread # <<>> /\ reply = Head(unread) /\ unread' = Tail(unread) /\ socket' = socket
  <2>1. unread' \in Seq(Replies) /\ socket' \in Seq(Replies)
    BY <1>1, <1>2
  <2>2. unread \o socket # <<>> /\ Head(unread \o socket) = reply
    BY <1>1, <1>2
  <2>3. Tail(unread) \o socket = Tail(unread \o socket)
    BY <1>1, <1>2
  <2> QED  BY <1>1, <1>2, <2>1, <2>2, <2>3 DEF Taken, Line
<1>3. ASSUME unread = <<>>, NEW n \in 1 .. Len(socket), reply = socket[1],
             unread' = SubSeq(socket, 2, n), socket' = SubSeq(socket, n + 1, Len(socket))
      PROVE  Taken(Line', Line, reply) /\ unread' \in Seq(Replies) /\ socket' \in Seq(Replies)
  <2>1. unread' \in Seq(Replies) /\ socket' \in Seq(Replies)
    BY <1>1, <1>3
  <2>2. unread \o socket = socket /\ socket # <<>> /\ Head(socket) = socket[1]
    BY <1>1, <1>3
  <2>3. SubSeq(socket, 2, n) \o SubSeq(socket, n + 1, Len(socket)) = Tail(socket)
    <3> DEFINE k == Len(socket)
    <3>1. k \in Nat /\ n \in 1 .. k
      BY <1>1, EmptySeq
    <3> HIDE DEF k
    <3>2. 2 \in 1 .. k + 1 /\ n \in 2 - 1 .. k /\ k \in n .. k
      BY <3>1
    <3>3. SubSeq(socket, 2, n) \o SubSeq(socket, n + 1, k) = SubSeq(socket, 2, k)
      BY <1>1, <3>2, ConcatAdjacentSubSeq DEF k
    <3> QED  BY <1>1, <2>2, <3>3, TailIsSubSeq DEF k
  <2> QED  BY <1>1, <1>3, <2>1, <2>2, <2>3 DEF Taken, Line
<1> QED  BY <1>2, <1>3 DEF GetReply

LEMMA AcksGrow ==
    ASSUME PubTypes, NEW n \in Nat, NEW lo, unread' = unread, socket' = socket \o Acks(n)
    PROVE  Grown(Line', Line, lo, lo) /\ socket' \in Seq(Replies)
<1> DEFINE a == Acks(n)
<1>1. unread \in Seq(Replies) /\ socket \in Seq(Replies)
  BY DEF PubTypes
<1>2. a \in Seq(Replies) /\ Len(a) = n /\ \A i \in 1 .. n : a[i] = Ack
  <2>1. Ack \in Replies
    BY DEF Replies
  <2> HIDE DEF Replies
  <2> QED  BY <2>1 DEF Acks
<1> HIDE DEF a
<1>3. socket' = socket \o a
  BY DEF a
<1> DEFINE l == unread \o socket
           l2 == l \o a
           m == Len(l)
<1>4. l \in Seq(Replies) /\ socket \o a \in Seq(Replies)
  BY <1>1, <1>2, ConcatProperties
<1>5. l2 = unread \o (socket \o a)
  BY <1>1, <1>2, ConcatAssociative
<1> HIDE DEF l
<1>6. /\ l2 \in Seq(Replies) /\ m \in Nat /\ Len(l2) = m + n
      /\ \A i \in 1 .. m + n : l2[i] = IF i <= m THEN l[i] ELSE a[i - m]
  <2>1. /\ l2 \in Seq(Replies) /\ Len(l2) = m + Len(a)
        /\ \A i \in 1 .. m + Len(a) : l2[i] = IF i <= m THEN l[i] ELSE a[i - m]
    <3> HIDE DEF Replies
    <3> QED  BY <1>2, <1>4, ConcatProperties
  <2>2. m \in Nat
    BY <1>4
  <2> QED  BY <1>2, <2>1, <2>2
<1> HIDE DEF l2, m
<1>7. m <= m + n /\ \A i \in 1 .. m : i \in 1 .. m + n /\ i <= m
  BY <1>6
<1>8. \A i \in m + 1 .. m + n : i \in 1 .. m + n /\ ~(i <= m) /\ i - m \in 1 .. n
  BY <1>6
<1>9. Grown(l2, l, lo, lo)
  BY <1>2, <1>4, <1>6, <1>7, <1>8 DEF Grown, m
<1> QED  BY <1>3, <1>4, <1>5, <1>9 DEF Line, l

LEMMA MessageGrows ==
    ASSUME PubTypes, NEW m \in Replies, NEW lo, m[2] > lo, unread' = unread,
           socket' = Append(socket, m)
    PROVE  Grown(Line', Line, lo, m[2]) /\ socket' \in Seq(Replies)
<1>1. unread \in Seq(Replies) /\ socket \in Seq(Replies)
  BY DEF PubTypes
<1> DEFINE l == unread \o socket
           n == Len(l)
<1>2. l \in Seq(Replies) /\ unread \o Append(socket, m) = Append(l, m)
      /\ Append(socket, m) \in Seq(Replies)
  BY <1>1
<1> DEFINE l2 == Append(l, m)
<1> HIDE DEF l
<1>3. /\ l2 \in Seq(Replies) /\ n \in Nat /\ Len(l2) = n + 1 /\ l2[n + 1] = m
      /\ \A k \in 1 .. n : l2[k] = l[k]
  BY <1>2, AppendAt
<1> HIDE DEF l2, n
<1>4. n <= n + 1 /\ \A i \in n + 1 .. n + 1 : i = n + 1
  BY <1>3
<1>5. Grown(l2, l, lo, m[2])
  BY <1>2, <1>3, <1>4 DEF Grown, n
<1> QED  BY <1>2, <1>5 DEF Line, l, l2

(***************************************************************************)
(* Subscriptions.                                                          *)
(***************************************************************************)
LEMMA RegisterSame ==
    ASSUME RegisterInv, UNCHANGED <<callbacks, registering, envs>>
    PROVE  RegisterInv'
  BY DEF RegisterInv

LEMMA OrderSame ==
    ASSUME OrderInv, UNCHANGED <<unread, socket, queue, last, published, callbacks>>
    PROVE  OrderInv'
<1>1. Line' = Line
  BY DEF Line
<1> QED  BY <1>1 DEF OrderInv

\* Callbacks are only added.
LEMMA QueueMore ==
    ASSUME NEW l, NEW q \in Seq(Published), NEW la, NEW pu,
           NEW cb, NEW cb2, \A t \in Topics : cb[t] > 0 => cb2[t] > 0,
           QueueOrder(l, q, la, pu, cb)
    PROVE  QueueOrder(l, q, la, pu, cb2)
<1>1. \A k \in DOMAIN q : q[k] \in Published
  OBVIOUS
<1>2. \A k \in DOMAIN q : q[k][1] \in Topics
  BY <1>1, PublishedFacts
<1> QED  BY <1>2 DEF QueueOrder

LEMMA SubscribeKeeps ==
    ASSUME PubInv, NEW e \in Envs, NEW t \in Topics, Subscribe(e, t)
    PROVE  PubInv'
<1>1. /\ callbacks \in [Envs -> [Topics -> Nat]]
      /\ callbacks' = [callbacks EXCEPT ![e][t] = @ + 1]
  BY DEF PubInv, PubTypes, Subscribe
<1>2. /\ callbacks' \in [Envs -> [Topics -> Nat]]
      /\ callbacks'[e][t] = callbacks[e][t] + 1 /\ callbacks[e][t] \in Nat
      /\ \A f \in Envs, u \in Topics : f # e \/ u # t => callbacks'[f][u] = callbacks[f][u]
  BY <1>1
<1>3. \A f \in Envs, u \in Topics : callbacks[f][u] > 0 => callbacks'[f][u] > 0
  BY <1>1, <1>2
<1>4. /\ registering \in Seq(Topics \X Envs) /\ IsInjective(registering)
      /\ \A u \in Topics : IsInjective(envs[u])
      /\ envs' = envs /\ command' = command /\ subscribed' = subscribed /\ unread' = unread
      /\ socket' = socket /\ queue' = queue /\ last' = last /\ published' = published
  BY DEF PubInv, PubTypes, RegisterInv, Subscribe, linkVars
<1>5. \A f \in Envs, u \in Topics :
         /\ <<u, f>> \in Range(registering) => f \notin Range(envs[u]) /\ callbacks'[f][u] > 0
         /\ f \in Range(envs[u]) => callbacks'[f][u] > 0
  BY <1>3 DEF PubInv, RegisterInv
<1>6. registering' \in Seq(Topics \X Envs) /\ RegisterInv'
  <2>1. CASE callbacks[e][t] = 0
    <3>1. registering' = Append(registering, <<t, e>>)
      BY <2>1 DEF Subscribe, First
    <3>2. <<t, e>> \notin Range(registering) /\ e \notin Range(envs[t])
      BY <2>1 DEF PubInv, RegisterInv
    <3>3. /\ registering' \in Seq(Topics \X Envs) /\ IsInjective(registering')
          /\ Range(registering') = Range(registering) \cup {<<t, e>>}
      BY <1>4, <3>1, <3>2, AppendLink
    <3>4. ASSUME NEW f \in Envs, NEW u \in Topics, <<u, f>> \in Range(registering')
          PROVE  f \notin Range(envs[u]) /\ callbacks'[f][u] > 0
      <4>1. CASE <<u, f>> \in Range(registering)
        BY <1>5, <4>1
      <4>2. CASE u = t /\ f = e
        <5>1. callbacks'[e][t] > 0
          BY <1>2
        <5> QED  BY <3>2, <4>2, <5>1
      <4> QED  BY <3>3, <3>4, <4>1, <4>2
    <3> QED  BY <1>4, <1>5, <3>3, <3>4 DEF RegisterInv
  <2>2. CASE callbacks[e][t] # 0
    <3>1. registering' = registering
      BY <1>2, <2>2 DEF Subscribe, First
    <3> QED  BY <1>4, <1>5, <3>1 DEF RegisterInv
  <2> QED  BY <2>1, <2>2
<1>7. OrderInv'
  <2>1. Line' = Line
    BY <1>4 DEF Line
  <2>2. ASSUME NEW f \in Envs
        PROVE  QueueOrder(Line', queue'[f], last'[f], published', callbacks'[f])
    <3>1. QueueOrder(Line, queue[f], last[f], published, callbacks[f])
      BY DEF PubInv, OrderInv
    <3>2. queue[f] \in Seq(Published)
      BY DEF PubInv, PubTypes
    <3>3. \A u \in Topics : callbacks[f][u] > 0 => callbacks'[f][u] > 0
      BY <1>3
    <3> QED  BY <1>4, <2>1, <3>1, <3>2, <3>3, QueueMore
  <2> QED  BY <1>4, <2>1, <2>2 DEF PubInv, OrderInv
<1>8. PubTypes'
  BY <1>2, <1>4, <1>6 DEF PubInv, PubTypes
<1> QED  BY <1>6, <1>7, <1>8 DEF PubInv

LEMMA registerKeeps ==
    ASSUME PubInv, register
    PROVE  PubInv'
<1>1. /\ registering \in Seq(Topics \X Envs) /\ IsInjective(registering) /\ registering # <<>>
      /\ registering' = Tail(registering) /\ envs \in [Topics -> Seq(Envs)]
      /\ \A u \in Topics : IsInjective(envs[u])
  BY DEF PubInv, PubTypes, RegisterInv, register
<1>2. PICK m \in Topics \X Envs : m = Head(registering)
  BY <1>1, TailLink
<1>3. PICK t \in Topics, e \in Envs : m = <<t, e>>
  OBVIOUS
<1>4. /\ registering' \in Seq(Topics \X Envs) /\ IsInjective(registering')
      /\ <<t, e>> \in Range(registering) /\ Range(registering') = Range(registering) \ {<<t, e>>}
  BY <1>1, <1>2, <1>3, TailLink
<1>5. envs' = [envs EXCEPT ![t] = Append(@, e)]
  <2>1. Head(registering)[1] = t /\ Head(registering)[2] = e
    BY <1>2, <1>3
  <2>2. envs' = [envs EXCEPT ![Head(registering)[1]] = Append(@, Head(registering)[2])]
    BY DEF register
  <2> QED  BY <2>1, <2>2
<1>6. e \notin Range(envs[t]) /\ callbacks[e][t] > 0
  BY <1>4 DEF PubInv, RegisterInv
<1>7. /\ Append(envs[t], e) \in Seq(Envs) /\ IsInjective(Append(envs[t], e))
      /\ Range(Append(envs[t], e)) = Range(envs[t]) \cup {e}
  BY <1>1, <1>6, AppendLink
<1>8. /\ envs' \in [Topics -> Seq(Envs)] /\ envs'[t] = Append(envs[t], e)
      /\ \A u \in Topics : u # t => envs'[u] = envs[u]
  BY <1>1, <1>5, <1>7
<1>9. /\ callbacks' = callbacks /\ command' = command /\ subscribed' = subscribed
      /\ unread' = unread /\ socket' = socket /\ queue' = queue /\ last' = last
      /\ published' = published
  BY DEF register, linkVars
<1>10. RegisterInv'
  <2>1. \A u \in Topics : IsInjective(envs'[u])
    BY <1>1, <1>7, <1>8
  <2>2. ASSUME NEW f \in Envs, NEW u \in Topics, <<u, f>> \in Range(registering')
        PROVE  f \notin Range(envs'[u]) /\ callbacks'[f][u] > 0
    <3>1. <<u, f>> \in Range(registering) /\ <<u, f>> # <<t, e>>
      BY <1>4, <2>2
    <3>2. f \notin Range(envs[u]) /\ callbacks[f][u] > 0
      BY <3>1 DEF PubInv, RegisterInv
    <3> QED  BY <1>7, <1>8, <1>9, <3>1, <3>2
  <2>3. ASSUME NEW f \in Envs, NEW u \in Topics, f \in Range(envs'[u])
        PROVE  callbacks'[f][u] > 0
    <3>1. f \in Range(envs[u]) \/ (f = e /\ u = t)
      BY <1>7, <1>8, <2>3
    <3> QED  BY <1>6, <1>9, <3>1 DEF PubInv, RegisterInv
  <2> QED  BY <1>4, <2>1, <2>2, <2>3 DEF RegisterInv
<1>11. PubTypes'
  BY <1>4, <1>8, <1>9 DEF PubInv, PubTypes
<1>12. OrderInv'
  BY <1>9, OrderSame DEF PubInv
<1> QED  BY <1>10, <1>11, <1>12 DEF PubInv

(***************************************************************************)
(* The steps of subscribeRoutine.                                          *)
(***************************************************************************)
LEMMA PrepareKeeps ==
    ASSUME PubInv, Prepare
    PROVE  PubInv'
<1>1. /\ command' \subseteq Topics
      /\ UNCHANGED <<callbacks, registering, envs, subscribed, unread, socket, queue, last, published>>
  BY DEF Prepare, Known, linkVars
<1>2. PubTypes'
  BY <1>1 DEF PubInv, PubTypes
<1> QED  BY <1>1, <1>2, RegisterSame, OrderSame DEF PubInv

LEMMA EmptyLineOrder ==
    ASSUME NEW pu, NEW l, LineOrder(l, pu)
    PROVE  /\ LineOrder(<<>>, pu)
           /\ \A q, la, cb : QueueOrder(l, q, la, pu, cb) => QueueOrder(<<>>, q, la, pu, cb)
<1>1. DOMAIN <<>> = {} /\ <<>> \in Seq(Replies)
  BY EmptySeq
<1> QED  BY <1>1 DEF LineOrder, QueueOrder

LEMMA TakeRedisKeeps ==
    ASSUME PubInv, TakeRedis
    PROVE  PubInv'
<1>1. UNCHANGED <<callbacks, registering, envs, command, queue, last, published>>
  BY DEF TakeRedis
<1>2. CASE subscribed' = {} /\ socket' = <<>> /\ unread' = <<>>
  <2>1. PubTypes'
    <3>1. <<>> \in Seq(Replies)
      BY EmptySeq
    <3> QED  BY <1>1, <1>2, <3>1 DEF PubInv, PubTypes
  <2>2. Line' = <<>>
    BY <1>2 DEF Line
  <2>3. OrderInv'
    <3>1. LineOrder(Line, published) /\ LineOrder(<<>>, published)
      BY EmptyLineOrder DEF PubInv, OrderInv
    <3>2. \A e \in Envs : QueueOrder(<<>>, queue[e], last[e], published, callbacks[e])
      BY <3>1, EmptyLineOrder DEF PubInv, OrderInv
    <3> QED  BY <1>1, <2>2, <3>1, <3>2 DEF OrderInv
  <2> QED  BY <1>1, <2>1, <2>3, RegisterSame DEF PubInv
<1>3. CASE UNCHANGED linkVars
  <2>1. UNCHANGED <<subscribed, socket, unread>>
    BY <1>3 DEF linkVars
  <2>2. PubTypes'
    BY <1>1, <2>1 DEF PubInv, PubTypes
  <2> QED  BY <1>1, <2>1, <2>2, RegisterSame, OrderSame DEF PubInv
<1> QED  BY <1>2, <1>3 DEF TakeRedis

\* The line grows and the queues stay.
LEMMA GrownKeeps ==
    ASSUME PubInv, Grown(Line', Line, published, published'), published' \in 0 .. MaxPublish,
           published <= published', UNCHANGED <<callbacks, registering, envs, queue, last>>
    PROVE  OrderInv'
<1>1. published \in Nat /\ published' \in Nat
  BY PubSubAssumption DEF PubInv, PubTypes
<1>2. LineOrder(Line, published)
  BY DEF PubInv, OrderInv
<1>3. LineOrder(Line', published')
  BY <1>1, <1>2, GrownFacts
<1>4. ASSUME NEW e \in Envs
      PROVE  QueueOrder(Line', queue'[e], last'[e], published', callbacks'[e])
  <2>1. last[e] \in Nat /\ queue[e] \in Seq(Published)
    BY DEF PubInv, PubTypes
  <2>2. QueueOrder(Line, queue[e], last[e], published, callbacks[e])
    BY DEF PubInv, OrderInv
  <2>3. QueueOrder(Line', queue[e], last[e], published', callbacks[e])
    BY <1>1, <1>2, <2>1, <2>2, GrownFacts
  <2> QED  BY <2>3
<1> QED  BY <1>3, <1>4 DEF OrderInv

\* The line gets shorter and the queues stay.
LEMMA TakenKeeps ==
    ASSUME PubInv, NEW m, Taken(Line', Line, m),
           UNCHANGED <<callbacks, registering, envs, queue, last, published>>
    PROVE  OrderInv'
<1>1. LineOrder(Line', published)
  BY LineTaken DEF PubInv, OrderInv
<1>2. ASSUME NEW e \in Envs
      PROVE  QueueOrder(Line', queue'[e], last'[e], published', callbacks'[e])
  <2>1. QueueOrder(Line, queue[e], last[e], published, callbacks[e])
    BY DEF PubInv, OrderInv
  <2>2. QueueOrder(Line', queue[e], last[e], published, callbacks[e])
    BY <2>1, QueueTaken
  <2> QED  BY <2>2
<1> QED  BY <1>1, <1>2 DEF OrderInv

LEMMA CommandKeeps ==
    ASSUME PubInv, Command
    PROVE  PubInv'
<1>1. UNCHANGED <<callbacks, registering, envs, command, unread, queue, last, published>>
  BY DEF Command
<1>2. /\ command \subseteq Topics /\ subscribed \subseteq Topics /\ subscribed' \subseteq Topics
      /\ PubTypes /\ published \in Nat /\ published \in 0 .. MaxPublish
  <2>1. PubTypes
    BY DEF PubInv
  <2>2. command \subseteq Topics /\ subscribed \subseteq Topics /\ published \in 0 .. MaxPublish
    BY <2>1 DEF PubTypes
  <2>3. \/ subscribed' = subscribed \cup command
        \/ subscribed' = subscribed
        \/ subscribed' = {}
    BY DEF Command
  <2>4. subscribed' \subseteq Topics
    BY <2>2, <2>3
  <2>5. published \in Nat
    BY <2>2, PubSubAssumption
  <2> QED  BY <2>1, <2>2, <2>4, <2>5
<1>3. Cardinality(command) \in Nat /\ Cardinality(subscribed) \in Nat
  BY <1>2, PubSubAssumption, FS_Subset, FS_CardinalityType
<1>4. \/ socket' = socket \o Acks(Cardinality(command))
      \/ socket' = socket \o Acks(1)
      \/ socket' = socket \o Acks(Cardinality(subscribed))
      \/ socket' = socket
  BY DEF Command
<1>5. CASE socket' = socket
  <2>1. PubTypes'
    BY <1>1, <1>2, <1>5 DEF PubTypes
  <2> QED  BY <1>1, <1>5, <2>1, RegisterSame, OrderSame DEF PubInv
<1>6. ASSUME NEW n \in Nat, socket' = socket \o Acks(n)
      PROVE  PubInv'
  <2>1. Grown(Line', Line, published, published) /\ socket' \in Seq(Replies)
    BY <1>1, <1>2, <1>6, AcksGrow
  <2>2. PubTypes'
    BY <1>1, <1>2, <2>1 DEF PubTypes
  <2>3. published <= published
    BY <1>2
  <2>4. OrderInv'
    BY <1>1, <1>2, <2>1, <2>3, GrownKeeps
  <2> QED  BY <1>1, <2>2, <2>4, RegisterSame DEF PubInv
<1> QED  BY <1>3, <1>4, <1>5, <1>6

LEMMA CommandRepliedKeeps ==
    ASSUME PubInv, CommandReplied
    PROVE  PubInv'
<1>1. UNCHANGED <<callbacks, registering, envs, command, subscribed, queue, last, published>>
  BY DEF CommandReplied
<1>2. CASE UNCHANGED <<socket, unread>>
  <2>1. PubTypes'
    BY <1>1, <1>2 DEF PubInv, PubTypes
  <2> QED  BY <1>1, <1>2, <2>1, RegisterSame, OrderSame DEF PubInv
<1>3. ASSUME NEW m \in Replies, GetReply(m)
      PROVE  PubInv'
  <2>1. Taken(Line', Line, m) /\ unread' \in Seq(Replies) /\ socket' \in Seq(Replies)
    BY <1>3, GetReplyTakes DEF PubInv
  <2>2. PubTypes'
    BY <1>1, <2>1 DEF PubInv, PubTypes
  <2>3. OrderInv'
    BY <1>1, <2>1, TakenKeeps
  <2> QED  BY <1>1, <2>2, <2>3, RegisterSame DEF PubInv
<1> QED  BY <1>2, <1>3 DEF CommandReplied

\* A thread is registered once at most for a topic.
LEMMA CopiesOnce ==
    ASSUME PubInv, NEW m \in Published, NEW e \in Envs, NEW q \in Seq(Published)
    PROVE  \/ q \o Copies(m, e) = q
           \/ q \o Copies(m, e) = Append(q, m) /\ callbacks[e][m[1]] > 0
<1> DEFINE r == envs[m[1]]
           at == {i \in DOMAIN r : r[i] = e}
           c == [k \in 1 .. Cardinality(at) |-> m]
<1>1. c = Copies(m, e)
  BY DEF Copies
<1>2. m[1] \in Topics
  BY PublishedFacts
<1>3. IsInjective(r) /\ (e \in Range(r) => callbacks[e][m[1]] > 0)
  BY <1>2 DEF PubInv, RegisterInv
<1> HIDE DEF r
<1>4. CASE e \in Range(r)
  <2>1. PICK i \in DOMAIN r : r[i] = e
    BY <1>4 DEF Range
  <2>2. at = {i}
    BY <1>3, <2>1 DEF IsInjective
  <2>3. Cardinality(at) = 1
    BY <2>2, FS_Singleton
  <2> HIDE DEF at
  <2>4. c = <<m>>
    BY <2>3
  <2> HIDE DEF c
  <2>5. q \o <<m>> = Append(q, m)
    OBVIOUS
  <2> QED  BY <1>1, <1>3, <1>4, <2>4, <2>5
<1>5. CASE e \notin Range(r)
  <2>1. at = {}
    BY <1>5 DEF Range
  <2>2. Cardinality(at) = 0
    BY <2>1, FS_EmptySet
  <2> HIDE DEF at
  <2>3. c = <<>>
    BY <2>2
  <2> HIDE DEF c
  <2> QED  BY <1>1, <2>3, ConcatEmptySeq
<1> QED  BY <1>4, <1>5

LEMMA ReceiveKeeps ==
    ASSUME PubInv, Receive
    PROVE  PubInv'
<1>1. UNCHANGED <<callbacks, registering, envs, command, subscribed, last, published>>
  BY DEF Receive
<1>2. PICK m \in Replies : /\ GetReply(m)
                           /\ queue' = IF m = Ack THEN queue
                                       ELSE [e \in Envs |-> queue[e] \o Copies(m, e)]
  BY DEF Receive
<1>3. Taken(Line', Line, m) /\ unread' \in Seq(Replies) /\ socket' \in Seq(Replies)
  BY <1>2, GetReplyTakes DEF PubInv
<1>4. CASE m = Ack
  <2>1. queue' = queue
    BY <1>2, <1>4
  <2>2. PubTypes'
    BY <1>1, <1>3, <2>1 DEF PubInv, PubTypes
  <2>3. OrderInv'
    BY <1>1, <1>3, <2>1, TakenKeeps
  <2> QED  BY <1>1, <2>2, <2>3, RegisterSame DEF PubInv
<1>5. CASE m # Ack
  <2>1. queue' = [e \in Envs |-> queue[e] \o Copies(m, e)] /\ m \in Published
    BY <1>2, <1>5, ReplyFacts
  <2>2. LineOrder(Line, published) /\ LineOrder(Line', published)
    BY <1>3, LineTaken DEF PubInv, OrderInv
  <2>3. ASSUME NEW e \in Envs
        PROVE  /\ queue'[e] \in Seq(Published)
               /\ QueueOrder(Line', queue'[e], last[e], published, callbacks[e])
    <3>1. QueueOrder(Line, queue[e], last[e], published, callbacks[e])
      BY DEF PubInv, OrderInv
    <3>2. queue[e] \in Seq(Published) /\ queue'[e] = queue[e] \o Copies(m, e)
      BY <2>1 DEF PubInv, PubTypes
    <3>3. CASE queue'[e] = queue[e]
      <4>1. QueueOrder(Line', queue[e], last[e], published, callbacks[e])
        BY <1>3, <3>1, QueueTaken
      <4> QED  BY <3>2, <3>3, <4>1
    <3>4. CASE queue'[e] = Append(queue[e], m) /\ callbacks[e][m[1]] > 0
      BY <1>3, <1>5, <2>2, <3>1, <3>2, <3>4, QueueGets
    <3> QED  BY <2>1, <3>2, <3>3, <3>4, CopiesOnce
  <2>4. PubTypes'
    <3>1. queue' \in [Envs -> Seq(Published)]
      BY <2>1, <2>3
    <3> QED  BY <1>1, <1>3, <3>1 DEF PubInv, PubTypes
  <2>5. OrderInv'
    BY <1>1, <2>2, <2>3 DEF OrderInv
  <2> QED  BY <1>1, <2>4, <2>5, RegisterSame DEF PubInv
<1> QED  BY <1>4, <1>5

LEMMA callbackKeeps ==
    ASSUME PubInv, NEW e \in Envs, callback(e)
    PROVE  PubInv'
<1>1. /\ UNCHANGED <<callbacks, registering, envs, command, subscribed, socket, unread, published>>
      /\ queue[e] # <<>> /\ queue' = [queue EXCEPT ![e] = Tail(@)]
      /\ last' = [last EXCEPT ![e] = Head(queue[e])[2]]
  BY DEF callback, linkVars
<1>2. /\ queue \in [Envs -> Seq(Published)] /\ last \in [Envs -> Nat] /\ published \in Nat
      /\ QueueOrder(Line, queue[e], last[e], published, callbacks[e])
  BY PubSubAssumption DEF PubInv, PubTypes, OrderInv
<1> DEFINE q2 == Tail(queue[e])
           la2 == Head(queue[e])[2]
<1>3. QueueOrder(Line, q2, la2, published, callbacks[e]) /\ la2 \in Nat /\ q2 \in Seq(Published)
  BY <1>1, <1>2, QueueNext
<1>4. queue' = [queue EXCEPT ![e] = q2] /\ last' = [last EXCEPT ![e] = la2]
  BY <1>1
<1> HIDE DEF q2, la2
<1> DEFINE T == Seq(Published)
<1>5. queue \in [Envs -> T] /\ q2 \in T
  BY <1>2, <1>3
<1> HIDE DEF T
<1>6. /\ queue' \in [Envs -> T] /\ queue'[e] = q2
      /\ \A f \in Envs : f # e => queue'[f] = queue[f]
  BY <1>4, <1>5
<1>7. /\ last' \in [Envs -> Nat] /\ last'[e] = la2
      /\ \A f \in Envs : f # e => last'[f] = last[f]
  BY <1>2, <1>3, <1>4
<1>8. PubTypes'
  BY <1>1, <1>6, <1>7 DEF PubInv, PubTypes, T
<1>9. OrderInv'
  <2>1. Line' = Line
    BY <1>1 DEF Line
  <2>2. LineOrder(Line', published')
    BY <1>1, <2>1 DEF PubInv, OrderInv
  <2>3. ASSUME NEW f \in Envs
        PROVE  QueueOrder(Line', queue'[f], last'[f], published', callbacks'[f])
    <3>1. CASE f = e
      BY <1>1, <1>3, <1>6, <1>7, <2>1, <3>1
    <3>2. CASE f # e
      <4>1. QueueOrder(Line, queue[f], last[f], published, callbacks[f])
        BY DEF PubInv, OrderInv
      <4> QED  BY <1>1, <1>6, <1>7, <2>1, <3>2, <4>1
    <3> QED  BY <3>1, <3>2
  <2> QED  BY <2>2, <2>3 DEF OrderInv
<1> QED  BY <1>1, <1>8, <1>9, RegisterSame DEF PubInv

LEMMA PublishKeeps ==
    ASSUME PubInv, NEW t \in Topics, Publish(t)
    PROVE  PubInv'
<1>1. /\ UNCHANGED <<callbacks, registering, envs, command, subscribed, unread, queue, last>>
      /\ published' = published + 1 /\ published < MaxPublish
  BY DEF Publish
<1>2. /\ published \in Nat /\ published' \in 0 .. MaxPublish /\ published <= published'
      /\ published' > published /\ published' \in 1 .. MaxPublish
  BY <1>1, PubSubAssumption DEF PubInv, PubTypes
<1> DEFINE m == <<t, published + 1>>
<1>3. m \in Replies /\ m[2] = published'
  BY <1>1, <1>2 DEF Replies
<1>4. socket' = socket \/ socket' = Append(socket, m)
  BY DEF Publish
<1> HIDE DEF m
<1>5. Grown(Line', Line, published, published') /\ socket' \in Seq(Replies)
  <2>1. CASE socket' = Append(socket, m)
    BY <1>1, <1>2, <1>3, <2>1, MessageGrows DEF PubInv
  <2>2. CASE socket' = socket
    <3>1. Line' = Line
      BY <1>1, <2>2 DEF Line
    <3>2. Line \in Seq(Replies)
      BY DEF PubInv, OrderInv, LineOrder
    <3>3. Len(Line) \in Nat /\ Len(Line) <= Len(Line) /\ Len(Line) + 1 .. Len(Line) = {}
      BY <3>2
    <3> QED  BY <2>2, <3>1, <3>2, <3>3 DEF Grown, PubInv, PubTypes
  <2> QED  BY <1>4, <2>1, <2>2
<1>6. PubTypes'
  BY <1>1, <1>2, <1>5 DEF PubInv, PubTypes
<1>7. OrderInv'
  BY <1>1, <1>2, <1>5, GrownKeeps
<1> QED  BY <1>1, <1>6, <1>7, RegisterSame DEF PubInv

\* Steps that lose a connection or empty the pipe.
LEMMA LinkKeeps ==
    ASSUME PubInv, ReceiveFails \/ ReadWakeups \/ Break
    PROVE  PubInv'
<1>1. /\ UNCHANGED <<callbacks, registering, envs, command, unread, socket, queue, last, published>>
      /\ subscribed' \subseteq Topics
  BY DEF ReceiveFails, ReadWakeups, Break, linkVars, PubInv, PubTypes
<1>2. PubTypes'
  BY <1>1 DEF PubInv, PubTypes
<1> QED  BY <1>1, <1>2, RegisterSame, OrderSame DEF PubInv

LEMMA PubStep ==
    ASSUME PubInv, PubSubNext
    PROVE  PubInv'
<1>1. CASE \E e \in Envs, t \in Topics : Subscribe(e, t)
  BY <1>1, SubscribeKeeps
<1>2. CASE register
  BY <1>2, registerKeeps
<1>3. CASE subscribeRoutine
  BY <1>3, PrepareKeeps, TakeRedisKeeps, CommandKeeps, CommandRepliedKeeps, ReceiveKeeps,
     LinkKeeps DEF subscribeRoutine
<1>4. CASE \E e \in Envs : callback(e)
  BY <1>4, callbackKeeps
<1>5. CASE \E t \in Topics : Publish(t)
  BY <1>5, PublishKeeps
<1>6. CASE Break
  BY <1>6, LinkKeeps
<1> QED  BY <1>1, <1>2, <1>3, <1>4, <1>5, <1>6 DEF PubSubNext

LEMMA PubSubOrderHolds ==
    ASSUME PubInv
    PROVE  PubSubOrder
<1>1. ASSUME NEW e \in Envs, NEW k \in DOMAIN queue[e]
      PROVE  /\ queue[e][k][2] > last[e]
             /\ \A j \in 1 .. k - 1 : queue[e][j][2] < queue[e][k][2]
             /\ callbacks[e][queue[e][k][1]] > 0
  <2>1. QueueOrder(Line, queue[e], last[e], published, callbacks[e])
    BY DEF PubInv, OrderInv
  <2> QED  BY <2>1 DEF QueueOrder
<1> QED  BY <1>1 DEF PubSubOrder

-----------------------------------------------------------------------------
(***************************************************************************)
(* Together.  A step of one service leaves the state of the others alone.  *)
(***************************************************************************)
PubSubSpec == PubSubInit("top") /\ [][PubSubNext]_pubsubVars

LEMMA SyncSame ==
    ASSUME SyncInv, UNCHANGED syncVars PROVE SyncInv'
  BY DEF SyncInv, SyncTypeOK, PushInv, PopInv, TellInv, syncVars, lists

LEMMA PoolSame ==
    ASSUME PoolInv, UNCHANGED poolVars PROVE PoolInv'
<1>1. UNCHANGED <<kindOfPool, user, held, idle, waiting, count>>
  BY DEF poolVars
<1>2. Busy' = Busy /\ In("wait")' = In("wait")
  BY <1>1 DEF Busy, In
<1> QED  BY <1>1, <1>2 DEF PoolInv, PoolTypes, CountedInv, OwnedInv, QueuedInv

LEMMA RpcSame ==
    ASSUME RpcInv, UNCHANGED rpcServerVars PROVE RpcInv'
<1>1. UNCHANGED <<services, server, handlers, peer, wire, workQueue, busy, sendQueue, replies,
                  method, stage, deletes, holders, done, controller>>
  BY DEF rpcServerVars, queueVars, taskVars
<1>2. RpcTypes'
  BY <1>1 DEF RpcInv, RpcTypes, RpcServerTypeOK
<1>3. RequestInv'
  <2>1. \A r \in Requests : StageInv(r)' /\ DeleteInv(r)'
    BY <1>1 DEF RpcInv, RequestInv, StageInv, DeleteInv, Finished, Made
  <2> QED  BY <2>1 DEF RequestInv
<1> QED  BY <1>1, <1>2, <1>3 DEF RpcInv, WireInv, WorkInv, SendInv, ReplyInv

LEMMA EnvSame ==
    ASSUME EnvInv, UNCHANGED envVars PROVE EnvInv'
<1>1. UNCHANGED <<hasEnv, pCallStack, waitResumeQueue, endedCoroutines, endPipe, cleaning, life,
                  home, isKey, keyRoutineNum, quit, startsLeft, pausesLeft>>
  BY DEF envVars, threadVars
<1>2. Inside' = Inside
  BY <1>1 DEF Inside
<1>3. EnvTypeOK'
  BY <1>1 DEF EnvInv, EnvTypeOK
<1> QED  BY <1>1, <1>2, <1>3 DEF EnvInv, ListsInv, CleanInv, KeyInv

LEMMA PubSame ==
    ASSUME PubInv, UNCHANGED pubsubVars PROVE PubInv'
<1>1. UNCHANGED <<callbacks, registering, envs, command, subscribed, socket, unread, queue, last,
                  published>>
  BY DEF pubsubVars
<1>2. PubTypes'
  BY <1>1 DEF PubInv, PubTypes
<1> QED  BY <1>1, <1>2, RegisterSame, OrderSame DEF PubInv

\* A connection of a pool has one owner and is counted once, a coroutine waits only
\* while there is no connection to give it, and the pool never opens more than
\* MaxConnect, for any number of coroutines and connections.
THEOREM PoolHolds == PoolSpec => []PoolSound
<1>1. PoolInit => PoolInv
  BY PoolInitInv
<1>2. PoolInv /\ [PoolNext]_poolVars => PoolInv'
  BY PoolStep, PoolSame
<1>3. PoolInv => PoolSound
  BY PoolSoundHolds
<1> QED  BY <1>1, <1>2, <1>3, PTL DEF PoolSpec

\* The RPC server deletes what it made for a request once and not while the worker
\* or the sender has it, and answers a request once at most and with the error of
\* its controller, for any number of requests, services and handlers.
THEOREM RpcServerHolds == RpcServerSpec => []RpcServerSound
<1>1. RpcServerInit => RpcInv
  BY RpcInitInv
<1>2. RpcInv /\ [RpcServerNext]_rpcServerVars => RpcInv'
  BY RpcStep, RpcSame
<1>3. RpcInv => RpcServerSound
  BY RpcServerSoundHolds
<1> QED  BY <1>1, <1>2, <1>3, PTL DEF RpcServerSpec

\* A coroutine that ended is released once and after it has left the call stack,
\* and the key coroutines are counted, for any number of threads and coroutines.
THEOREM RoutineEnvHolds == RoutineEnvSpec => []EnvSound
<1>1. RoutineEnvInit => EnvInv
  BY EnvInitInv
<1>2. EnvInv /\ [RoutineEnvNext]_envVars => EnvInv'
  BY EnvStepInv, EnvSame
<1>3. EnvInv => EnvSound
  BY EnvSoundHolds
<1> QED  BY <1>1, <1>2, <1>3, PTL DEF RoutineEnvSpec

\* A thread gets the messages of its topics once and in the order in which they
\* were published, whatever breaks and whenever topics are added, for any number
\* of threads, topics and messages.
THEOREM PubSubHolds == PubSubSpec => []PubSubOrder
<1>1. PubSubInit("top") => PubInv
  BY PubInitInv
<1>2. PubInv /\ [PubSubNext]_pubsubVars => PubInv'
  BY PubStep, PubSame
<1>3. PubInv => PubSubOrder
  BY PubSubOrderHolds
<1> QED  BY <1>1, <1>2, <1>3, PTL DEF PubSubSpec

\* CoSyncQueue, the lives of coroutines, the RPC server, the connection pools and
\* the publish/subscribe service, each with its inductive invariant.
ServicesInv == SyncInv /\ EnvInv /\ RpcInv /\ PoolInv /\ PubInv

LEMMA ServicesInit == Init => ServicesInv
<1> SUFFICES ASSUME Init PROVE ServicesInv
  OBVIOUS
<1>1. SyncQueueInit /\ RoutineEnvInit /\ RpcServerInit /\ PoolInit
  BY DEF Init
<1>2. PubSubInit("top") \/ PubSubInit("poll")
  BY DEF Init
<1>3. PubInv
  BY <1>2, PubInitInv
<1> QED  BY <1>1, <1>3, SyncInvInit, EnvInitInv, RpcInitInv, PoolInitInv DEF ServicesInv

LEMMA ServicesStep ==
    ASSUME ServicesInv, [Next]_vars PROVE ServicesInv'
<1>i. SyncInv /\ EnvInv /\ RpcInv /\ PoolInv /\ PubInv
  BY DEF ServicesInv
<1>1. SyncInv'
  <2>1. UNCHANGED syncVars \/ SyncQueueNext
    BY DEF Next, vars, queues
  <2>2. ASSUME SyncQueueNext PROVE SyncInv'
    BY <1>i, <2>2, SyncPushInv, SyncConsumeInv DEF SyncQueueNext
  <2> QED  BY <1>i, <2>1, <2>2, SyncSame
<1>2. EnvInv'
  <2>1. UNCHANGED envVars \/ RoutineEnvNext
    BY DEF Next, vars
  <2> QED  BY <1>i, <2>1, EnvSame, EnvStepInv
<1>3. RpcInv'
  <2>1. UNCHANGED rpcServerVars \/ RpcServerNext
    BY DEF Next, vars
  <2> QED  BY <1>i, <2>1, RpcSame, RpcStep
<1>4. PoolInv'
  <2>1. UNCHANGED poolVars \/ PoolNext
    BY DEF Next, vars
  <2> QED  BY <1>i, <2>1, PoolSame, PoolStep
<1>5. PubInv'
  <2>1. UNCHANGED pubsubVars \/ PubSubNext
    BY DEF Next, vars
  <2> QED  BY <1>i, <2>1, PubSame, PubStep
<1> QED  BY <1>1, <1>2, <1>3, <1>4, <1>5 DEF ServicesInv

\* What the run Services checks of the services holds for every value of the
\* constants: the locked queue, the lives of coroutines, the RPC server, the
\* connection pools and the publish/subscribe service keep what users rely on.
THEOREM ServicesHold == Spec => []ServicesSound
<1>1. ServicesInv /\ [Next]_vars => ServicesInv'
  BY ServicesStep
<1>2. ServicesInv => ServicesSound
  <2>1. SyncInv => SyncQueueSound
    BY DEF SyncInv, PopInv, TellInv, SyncQueueSound
  <2> QED  BY <2>1, EnvSoundHolds, RpcServerSoundHolds, PoolSoundHolds, PubSubOrderHolds
           DEF ServicesInv, ServicesSound
<1> QED  BY <1>1, <1>2, ServicesInit, PTL DEF Spec

LEMMA QueuesRun == Spec => MpscSpec /\ SyncQueueSpec
<1>1. Init => MpscInit /\ SyncQueueInit
  BY DEF Init
<1>2. [Next]_vars => [MpscNext]_mpscVars
  BY DEF Next, vars, queues
<1>3. [Next]_vars => [SyncQueueNext]_syncVars
  BY DEF Next, vars, queues
<1> QED  BY <1>1, <1>2, <1>3, PTL DEF Spec, MpscSpec, SyncQueueSpec

\* What the run Services checks of the nodes of the lock-free queue holds for every
\* value of the constants.
THEOREM QueueNodesHold == Spec => []NodesAccounted
  BY QueuesRun, MpscNodesAccounted, PTL

\* Both queues between threads implement FifoQueue in the specification of the run
\* Services, for every value of the constants.
THEOREM QueuesHold == Spec => QueuesFifo
<1>1. Spec => Fifo /\ SyncFifo
  BY QueuesRun, MpscRefines, SyncRefines, PTL
<1> QED  BY <1>1 DEF QueuesFifo
=============================================================================
