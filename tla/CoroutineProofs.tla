-------------------------- MODULE CoroutineProofs --------------------------
(***************************************************************************)
(* The scheduler of libco keeps the stacks and the links of coroutines,    *)
(* for any number of coroutines, shared stacks, slots of the wheel and     *)
(* descriptors, and from any time on.                                      *)
(*                                                                         *)
(* StackInv says where the frames of a coroutine are: on its stack if it   *)
(* occupies it, else in its save_buffer.  LinkInv says which links it can  *)
(* be in.  TimeInv ties a slot of the wheel to the time at which it comes  *)
(* up, so that nothing in the wheel is overdue and what is in the active   *)
(* list is there for a reason.                                             *)
(***************************************************************************)
EXTENDS Coroutine, SeqLemmas

\* The scheduler alone, started at any time.
CoSpec == (\E t \in Nat : CoroutineInit(t)) /\ [][CoroutineNext]_coVars

StackIds == 0 .. Stacks - 1
SlotIds == 0 .. Size - 1
States == {"free", "run", "poll", "cond", "parked", "ended"}

StackTypes ==
    /\ st \in [Co -> States]
    /\ callStack \in Seq(Co \cup {Main})
    /\ mem \in [StackIds -> Co \cup {NoCo, Stale}]
    /\ occupy \in [StackIds -> Co \cup {NoCo}]
    /\ stackOf \in [Co \cup {Main} -> StackIds]
    /\ saved \in [Co -> Co \cup {NoCo, Stale}]
    /\ allocIdx \in StackIds

\* Above main() on the call stack are different coroutines that run.
CallInv ==
    /\ Len(callStack) >= 1 /\ callStack[1] = Main
    /\ \A i \in 2 .. Len(callStack) : callStack[i] \in Co /\ st[callStack[i]] = "run"
    /\ \A i, j \in 1 .. Len(callStack) : callStack[i] = callStack[j] => i = j

Live(c) == st[c] \notin {"free", "ended"}

\* The frames of a coroutine are on its stack if it occupies it, and in its
\* save_buffer if not.
FramesInv ==
    \A c \in Co : Live(c) =>
        IF occupy[stackOf[c]] = c THEN mem[stackOf[c]] = c ELSE saved[c] = c

OccupyInv ==
    \A s \in StackIds : occupy[s] # NoCo => st[occupy[s]] # "free" /\ stackOf[occupy[s]] = s

RunningInv == Running # Main => occupy[stackOf[Running]] = Running

StackInv == StackTypes /\ CallInv /\ FramesInv /\ OccupyInv /\ RunningInv

LinkTypes ==
    /\ wheel \in [SlotIds -> Seq(Co)]
    /\ active \in Seq(Co) /\ condq \in Seq(Co) /\ toResume \in Seq(Co)
    /\ epoll \in [Fds -> Co \cup {NoCo}]
    /\ polls \in [Co -> Fds \cup {0}]
    /\ noTimeout \subseteq Co

TimeTypes ==
    /\ expire \in [Co -> Nat]
    /\ bTimeout \in [Co -> BOOLEAN] /\ raised \in [Co -> BOOLEAN]
    /\ clock \in Nat /\ ullStart \in Nat /\ now \in Nat /\ startIdx \in SlotIds

\* No link has a coroutine twice, and no two have the same.
WheelInv ==
    /\ \A i \in SlotIds : IsInjective(wheel[i])
    /\ \A i, j \in SlotIds, c \in Co : c \in Range(wheel[i]) /\ c \in Range(wheel[j]) => i = j
    /\ \A i \in SlotIds, c \in Co : c \in Range(wheel[i]) =>
          st[c] \in {"poll", "cond"} /\ c \notin Range(active) /\ c \notin noTimeout

ActiveInv ==
    /\ IsInjective(active)
    /\ \A c \in Range(active) :
          st[c] \in {"poll", "cond", "parked"} /\ c \notin Range(toResume) /\ c \notin noTimeout

QueueInv ==
    /\ IsInjective(toResume) /\ \A c \in Range(toResume) : st[c] = "parked"
    /\ IsInjective(condq) /\ \A c \in Range(condq) : st[c] = "cond"

PollInv ==
    /\ \A fd \in Fds : epoll[fd] # NoCo => st[epoll[fd]] = "poll" /\ polls[epoll[fd]] = fd
    /\ \A c \in Co : st[c] = "poll" /\ polls[c] # 0 => epoll[polls[c]] = c
    /\ \A c \in noTimeout : st[c] = "poll" /\ polls[c] # 0

LinkInv == LinkTypes /\ WheelInv /\ ActiveInv /\ QueueInv /\ PollInv

InWheel(c) == \E i \in SlotIds : c \in Range(wheel[i])

\* Whatever can be woken is in a link.
LinkedInv ==
    \A c \in Co :
        /\ st[c] = "poll" => c \in noTimeout \/ InWheel(c) \/ c \in Range(active)
        /\ st[c] = "cond" /\ (expire[c] # 0 \/ c \notin Range(condq)) =>
               InWheel(c) \/ c \in Range(active)

\* How far slot i is from the first one.
Ahead(i) == IF i >= startIdx THEN i - startIdx ELSE i - startIdx + Size

DueInv ==
    \A i \in SlotIds, c \in Co : c \in Range(wheel[i]) =>
        expire[c] # 0 /\ ullStart + Ahead(i) <= expire[c]

\* Why a coroutine is in the active list.
ReasonInv ==
    /\ \A c \in Range(active) :
        /\ st[c] = "poll" => raised[c] \/ bTimeout[c]
        /\ st[c] = "cond" => c \notin Range(condq) \/ bTimeout[c]
    /\ \A c \in Co : bTimeout[c] =>
          /\ now >= ullStart /\ expire[c] # 0 /\ c \in Range(active)
          /\ st[c] \in {"poll", "cond"}

TimeInv == TimeTypes /\ LinkedInv /\ DueInv /\ ReasonInv

CoInv == StackInv /\ LinkInv /\ TimeInv

\* What JoinAll() puts into the link.
LEMMA JoinAllLink ==
    ASSUME NEW S, NEW n \in Nat, NEW seqs \in [1 .. n -> Seq(S)], NEW links, NEW slots,
           Len(slots) = n, \A i \in 1 .. n : seqs[i] = links[slots[i]]
    PROVE  Flattened(JoinAll(links, slots), seqs, n, S)
<1> DEFINE joined == CHOOSE joined : joined = [i \in 0 .. n |->
                        IF i = 0 THEN <<>> ELSE joined[i - 1] \o links[slots[i]]]
           Step == [i \in 1 .. n |-> [q \in Seq(S) |-> q \o seqs[i]]]
           X == Seq(S)
           base == <<>>
<1>1. JoinAll(links, slots) = joined[n]
  BY DEF JoinAll, Join
<1>2. \E f : f = [i \in 0 .. n |-> IF i = 0 THEN <<>> ELSE f[i - 1] \o links[slots[i]]]
  <2>1. Step \in [1 .. n -> [X -> X]] /\ base \in X
    OBVIOUS
  <2>2. \A i \in 1 .. n : \A q \in X : Step[i][q] = q \o seqs[i]
    OBVIOUS
  <2> HIDE DEF X, base, Step
  <2>3. PICK f \in [0 .. n -> X] : Follows(f, n, base, Step)
    BY <2>1, RecursiveFunction
  <2>4. \A i \in 1 .. n : i # 0 /\ i - 1 \in 0 .. n /\ f[i - 1] \in X /\ f[i] = Step[i][f[i - 1]]
    BY <2>3 DEF Follows
  <2>5. \A i \in 1 .. n : f[i] = f[i - 1] \o seqs[i]
    BY <2>2, <2>4
  <2>6. f[0] = <<>> /\ \A i \in 0 .. n : i = 0 \/ i \in 1 .. n
    BY <2>3 DEF Follows, base
  <2>7. f = [i \in 0 .. n |-> f[i]]
    BY <2>3
  <2>8. \A i \in 0 .. n : f[i] = IF i = 0 THEN <<>> ELSE f[i - 1] \o links[slots[i]]
    BY <2>4, <2>5, <2>6
  <2>9. f = [i \in 0 .. n |-> IF i = 0 THEN <<>> ELSE f[i - 1] \o links[slots[i]]]
    BY <2>7, <2>8
  <2> QED  BY <2>9
<1>3. joined = [i \in 0 .. n |-> IF i = 0 THEN <<>> ELSE joined[i - 1] \o links[slots[i]]]
  BY <1>2
<1> HIDE DEF joined
<1>4. joined[0] = <<>> /\ \A i \in 1 .. n : joined[i] = joined[i - 1] \o seqs[i]
  <2>1. 0 \in 0 .. n /\ \A i \in 1 .. n : i \in 0 .. n /\ i # 0
    OBVIOUS
  <2>2. \A i \in 0 .. n : joined[i] = IF i = 0 THEN <<>> ELSE joined[i - 1] \o links[slots[i]]
    BY <1>3
  <2> QED  BY <2>1, <2>2
<1> DEFINE P == {i \in 0 .. n : Flattened(joined[i], seqs, i, S)}
<1>5. 0 \in P
  <2>1. Flattened(<<>>, seqs, 0, S)
    BY EmptyLink DEF Flattened
  <2> QED  BY <1>4, <2>1
<1>6. ASSUME NEW i \in 1 .. n, i - 1 \in P
      PROVE  i \in P
  <2>1. seqs[i] \in Seq(S) /\ i \in Nat \ {0} /\ Flattened(joined[i - 1], seqs, i - 1, S)
    BY <1>6
  <2>2. Flattened(joined[i - 1] \o seqs[i], seqs, i, S)
    BY <2>1, FlattenedStep
  <2>3. Flattened(joined[i], seqs, i, S)
    BY <1>4, <2>2
  <2> QED  BY <2>3
<1>7. n \in P
  <2> HIDE DEF P
  <2>1. \A i \in 0 .. n : i \in P
    BY <1>5, <1>6, UpTo
  <2> QED  BY <2>1
<1> QED  BY <1>1, <1>7

\* What RemoveFromLink() leaves is what was there and not removed, in a link
\* without repetitions if it was one.
LEMMA WithoutLink ==
    ASSUME NEW S, NEW link \in Seq(S), NEW gone
    PROVE  /\ Without(link, gone) \in Seq(S)
           /\ Range(Without(link, gone)) = Range(link) \ gone
           /\ IsInjective(link) => IsInjective(Without(link, gone))
<1>1. Without(link, gone) = Purged(link, gone)
  BY DEF Without, AddTail, Purged
<1> QED  BY <1>1, PurgedLink

LEMMA ModFacts ==
    ASSUME NEW n \in Nat \ {0}
    PROVE  /\ \A a \in Int : a % n \in 0 .. n - 1
           /\ \A a \in 0 .. n - 1 : a % n = a
           /\ \A a \in n .. 2 * n - 1 : a % n = a - n
           /\ \A a \in -n .. -1 : a % n = a + n
  OBVIOUS

\* The slot that is e slots after slot i.
LEMMA SlotAfter ==
    ASSUME NEW n \in Nat \ {0}, NEW i \in 0 .. n - 1, NEW e \in 0 .. n - 1
    PROVE  (i + e) % n = IF i + e < n THEN i + e ELSE i + e - n
<1>1. \/ i + e \in 0 .. n - 1 /\ i + e < n
      \/ i + e \in n .. 2 * n - 1 /\ ~(i + e < n)
  <2>1. CASE i + e < n
    BY <2>1
  <2>2. CASE ~(i + e < n)
    BY <2>2
  <2> QED  BY <2>1, <2>2
<1>2. i + e \in 0 .. n - 1 => (i + e) % n = i + e
  BY ModFacts
<1>3. i + e \in n .. 2 * n - 1 => (i + e) % n = i + e - n
  <2>1. \A a \in n .. 2 * n - 1 : a % n = a - n
    BY ModFacts
  <2> QED  BY <2>1
<1> QED  BY <1>1, <1>2, <1>3

-----------------------------------------------------------------------------
(* The stacks.                                                             *)

LEMMA RunningFacts ==
    ASSUME StackTypes, CallInv
    PROVE  /\ Len(callStack) \in Nat \ {0}
           /\ Running = callStack[Len(callStack)]
           /\ Running # Main => Len(callStack) > 1 /\ Running \in Co /\ st[Running] = "run"
           /\ Running = Main => Len(callStack) = 1
<1>1. Len(callStack) \in Nat \ {0}
  BY DEF StackTypes, CallInv
<1>2. Running = callStack[Len(callStack)]
  BY DEF Running, Last
<1>3. Len(callStack) = 1 => Running = Main
  BY <1>2 DEF CallInv
<1>4. Len(callStack) > 1 => Running \in Co /\ st[Running] = "run"
  BY <1>1, <1>2 DEF CallInv
<1>5. Len(callStack) = 1 \/ Len(callStack) > 1
  <2> DEFINE n == Len(callStack)
  <2>1. n \in Nat \ {0}
    BY <1>1
  <2> HIDE DEF n
  <2>2. n = 1 \/ n > 1
    BY <2>1
  <2> QED  BY <2>2 DEF n
<1>6. Main \notin Co
  BY CoroutineAssumption
<1> QED  BY <1>1, <1>2, <1>3, <1>4, <1>5, <1>6

\* co_swap() puts the frames of co on its stack, whoever was there before, and
\* loses nobody's.
LEMMA SwapInv ==
    ASSUME StackTypes, FramesInv, OccupyInv,
           NEW co \in Co, NEW fresh \in BOOLEAN, co_swap(co, fresh),
           st' \in [Co -> States], stackOf' \in [Co \cup {Main} -> StackIds],
           \A c \in Co : c # co => stackOf'[c] = stackOf[c]
                                   /\ (st'[c] \notin {"free", "ended"} => Live(c))
                                   /\ (st[c] # "free" => st'[c] # "free"),
           st'[co] \notin {"free", "ended"},
           fresh => st[co] = "free",
           ~fresh => Live(co) /\ stackOf'[co] = stackOf[co]
    PROVE  /\ mem' \in [StackIds -> Co \cup {NoCo, Stale}]
           /\ occupy' \in [StackIds -> Co \cup {NoCo}]
           /\ saved' \in [Co -> Co \cup {NoCo, Stale}]
           /\ FramesInv' /\ OccupyInv'
           /\ occupy'[stackOf'[co]] = co
<1> DEFINE s == stackOf'[co]
           occ == occupy[s]
           kept == IF occ \in {NoCo, co} THEN saved
                   ELSE [saved EXCEPT ![occ] = IF st'[occ] = "ended" THEN NoCo ELSE mem[s]]
<1>c. NoCo \notin Co /\ Main \notin Co /\ Stale \notin Co
  BY CoroutineAssumption
<1>s. s \in StackIds /\ occ \in Co \cup {NoCo} /\ mem[s] \in Co \cup {NoCo, Stale}
  BY DEF StackTypes
<1>1. /\ occupy' = [occupy EXCEPT ![s] = co]
      /\ saved' = [kept EXCEPT ![co] = IF @ = co THEN Stale ELSE @]
      /\ mem' = IF fresh THEN [mem EXCEPT ![s] = co]
                ELSE IF Restores(occ, co) /\ kept[co] # NoCo
                THEN [mem EXCEPT ![s] = kept[co]] ELSE mem
  BY <1>c DEF co_swap
<1>2. kept \in [Co -> Co \cup {NoCo, Stale}] /\ kept[co] = saved[co]
      /\ \A c \in Co : kept[c] = IF c # co /\ c = occ
                                 THEN IF st'[c] = "ended" THEN NoCo ELSE mem[s] ELSE saved[c]
  BY <1>c, <1>s DEF StackTypes
<1> HIDE DEF kept
<1>3. /\ occupy' \in [StackIds -> Co \cup {NoCo}]
      /\ \A x \in StackIds : occupy'[x] = IF x = s THEN co ELSE occupy[x]
  BY <1>1, <1>s DEF StackTypes
<1>4. /\ saved' \in [Co -> Co \cup {NoCo, Stale}]
      /\ \A c \in Co : c # co => saved'[c] = kept[c]
  BY <1>1, <1>2
<1>5. mem' \in [StackIds -> Co \cup {NoCo, Stale}] /\ \A x \in StackIds : x # s => mem'[x] = mem[x]
  BY <1>1, <1>2, <1>s DEF StackTypes
<1>6. mem'[s] = co
  <2>1. CASE fresh
    BY <1>1, <1>s, <2>1 DEF StackTypes
  <2>2. CASE ~fresh /\ occ = co
    <3>1. mem' = mem
      BY <1>1, <2>2 DEF Restores
    <3> QED  BY <2>2, <3>1 DEF FramesInv
  <2>3. CASE ~fresh /\ occ # co
    <3>1. saved[co] = co
      BY <2>3 DEF FramesInv
    <3>2. mem' = [mem EXCEPT ![s] = co]
      BY <1>1, <1>2, <1>c, <2>3, <3>1 DEF Restores
    <3> QED  BY <1>s, <3>2 DEF StackTypes
  <2> QED  BY <2>1, <2>2, <2>3
<1>o. \A x \in StackIds : occupy[x] # NoCo => occupy[x] \in Co /\ st[occupy[x]] # "free" /\ stackOf[occupy[x]] = x
  BY DEF OccupyInv, StackTypes
<1> HIDE DEF s
<1>7. FramesInv'
  <2> SUFFICES ASSUME NEW c \in Co, st'[c] \notin {"free", "ended"}
               PROVE  IF occupy'[stackOf'[c]] = c THEN mem'[stackOf'[c]] = c ELSE saved'[c] = c
    BY DEF FramesInv, Live
  <2>1. CASE c = co
    BY <1>3, <1>6, <1>s, <2>1 DEF s
  <2>2. CASE c # co
    <3>1. Live(c) /\ stackOf'[c] = stackOf[c] /\ stackOf[c] \in StackIds
      BY <2>2 DEF StackTypes
    <3>2. IF occupy[stackOf[c]] = c THEN mem[stackOf[c]] = c ELSE saved[c] = c
      BY <3>1 DEF FramesInv
    <3>3. saved'[c] = IF c = occ THEN mem[s] ELSE saved[c]
      BY <1>2, <1>4, <2>2
    <3>4. CASE stackOf[c] = s
      <4>1. occupy'[stackOf'[c]] # c
        BY <1>3, <1>s, <2>2, <3>1, <3>4
      <4> QED  BY <3>2, <3>3, <3>4, <4>1
    <3>5. CASE stackOf[c] # s
      <4>1. occ # c
        BY <1>o, <1>c, <1>s, <3>5
      <4> QED  BY <1>3, <1>5, <3>1, <3>2, <3>3, <3>5, <4>1
    <3> QED  BY <3>4, <3>5
  <2> QED  BY <2>1, <2>2
<1>8. OccupyInv'
  <2> SUFFICES ASSUME NEW x \in StackIds, occupy'[x] # NoCo
               PROVE  st'[occupy'[x]] # "free" /\ stackOf'[occupy'[x]] = x
    BY DEF OccupyInv
  <2>1. CASE x = s
    BY <1>3, <2>1 DEF s
  <2>2. CASE x # s
    <3> DEFINE d == occupy[x]
    <3>1. occupy'[x] = d /\ d \in Co /\ st[d] # "free" /\ stackOf[d] = x
      BY <1>3, <1>o, <2>2
    <3>2. d # co
      BY <2>2, <3>1 DEF s
    <3> HIDE DEF d
    <3> QED  BY <3>1, <3>2
  <2> QED  BY <2>1, <2>2
<1> QED  BY <1>3, <1>4, <1>5, <1>7, <1>8, <1>s DEF s

\* The running coroutine is switched out and will not be run again at once: it
\* waits or has ended.
LEMMA YieldInv ==
    ASSUME StackInv, Running # Main, NEW how \in States \ {"free", "run"},
           st' = [st EXCEPT ![Running] = how], co_yield_env
    PROVE  StackInv'
<1> DEFINE n == Len(callStack)
           r == Running
<1>t. StackTypes /\ CallInv /\ FramesInv /\ OccupyInv
  BY DEF StackInv
<1>c. NoCo \notin Co /\ Main \notin Co
  BY CoroutineAssumption
<1>1. n \in Nat \ {0} /\ n > 1 /\ r = callStack[n] /\ r \in Co /\ st[r] = "run"
  BY <1>t, RunningFacts
<1>2. callStack' \in Seq(Co \cup {Main}) /\ Len(callStack') = n - 1
      /\ \A i \in 1 .. n - 1 : callStack'[i] = callStack[i]
  <2>1. callStack' = SubSeq(callStack, 1, n - 1) /\ callStack \in Seq(Co \cup {Main})
    BY <1>t DEF co_yield_env, Front, StackTypes
  <2>2. n - 1 \in 0 .. n
    BY <1>1
  <2> QED  BY <1>1, <2>1, <2>2
<1>3. stackOf' = stackOf /\ allocIdx' = allocIdx
  BY DEF co_yield_env
<1>4. st' \in [Co -> States] /\ st'[r] = how /\ \A c \in Co : c # r => st'[c] = st[c]
  BY <1>1, <1>t DEF StackTypes
<1> DEFINE co == callStack[n - 1]
<1>5. Last(callStack') = co /\ co_swap(co, FALSE)
  <2>1. Last(callStack') = callStack'[n - 1] /\ n - 1 \in 1 .. n - 1
    BY <1>1, <1>2 DEF Last
  <2>2. Last(callStack') = co
    BY <1>2, <2>1
  <2>3. co_swap(Last(callStack'), FALSE)
    BY DEF co_yield_env
  <2> QED  BY <2>2, <2>3
<1>6. CallInv'
  <2>1. \A i \in 1 .. n - 1 : i \in 1 .. n /\ i # n /\ n \in 1 .. n
    BY <1>1
  <2>2. \A i \in 2 .. n - 1 : callStack[i] \in Co /\ st[callStack[i]] = "run" /\ callStack[i] # r
    BY <1>1, <1>t, <2>1 DEF CallInv
  <2>3. 1 \in 1 .. n - 1 /\ \A i \in 2 .. n - 1 : i \in 1 .. n - 1
    BY <1>1
  <2>4. \A i \in 2 .. n - 1 : callStack'[i] \in Co /\ st'[callStack'[i]] = "run"
    BY <1>2, <1>4, <2>2, <2>3
  <2>5. \A i, j \in 1 .. n - 1 : callStack'[i] = callStack'[j] => i = j
    BY <1>2, <1>t, <2>1 DEF CallInv
  <2>6. callStack'[1] = Main /\ Len(callStack') >= 1
    BY <1>1, <1>2, <1>t, <2>3 DEF CallInv
  <2> QED  BY <1>2, <2>4, <2>5, <2>6 DEF CallInv
<1>7. Running' = co
  BY <1>5 DEF Running
<1>8. CASE co = Main
  <2>1. mem' = mem /\ occupy' = occupy /\ saved' = saved
    BY <1>5, <1>8 DEF co_swap
  <2>2. StackTypes'
    BY <1>2, <1>3, <1>4, <1>t, <2>1 DEF StackTypes
  <2>3. FramesInv'
    BY <1>3, <1>4, <1>1, <1>t, <2>1 DEF FramesInv, Live
  <2>4. OccupyInv'
    <3> SUFFICES ASSUME NEW x \in StackIds, occupy[x] # NoCo
                 PROVE  st'[occupy[x]] # "free" /\ stackOf[occupy[x]] = x
      BY <1>3, <2>1 DEF OccupyInv
    <3>1. occupy[x] \in Co
      BY <1>t DEF StackTypes
    <3> QED  BY <1>4, <1>t, <3>1 DEF OccupyInv
  <2> QED  BY <1>6, <1>7, <1>8, <2>2, <2>3, <2>4 DEF StackInv, RunningInv
<1>9. CASE co # Main
  <2>1. n - 1 \in 2 .. n
    <3> HIDE DEF n
    <3>1. n - 1 \in 1 .. n /\ (n - 1 = 1 \/ n - 1 \in 2 .. n)
      BY <1>1
    <3> QED  BY <1>9, <1>t, <3>1 DEF CallInv
  <2>2. co \in Co /\ st[co] = "run" /\ co # r
    <3>1. n - 1 # n /\ n - 1 \in 1 .. n /\ n \in 1 .. n
      BY <1>1
    <3> QED  BY <1>1, <1>t, <2>1, <3>1 DEF CallInv
  <2> HIDE DEF co
  <2>3. stackOf' \in [Co \cup {Main} -> StackIds]
    BY <1>3, <1>t DEF StackTypes
  <2>4. \A c \in Co : c # co => /\ stackOf'[c] = stackOf[c]
                                /\ (st'[c] \notin {"free", "ended"} => Live(c))
                                /\ (st[c] # "free" => st'[c] # "free")
    BY <1>1, <1>3, <1>4 DEF Live
  <2>5. st'[co] \notin {"free", "ended"} /\ Live(co) /\ stackOf'[co] = stackOf[co]
    BY <1>3, <1>4, <2>2 DEF Live
  <2>6. /\ mem' \in [StackIds -> Co \cup {NoCo, Stale}]
        /\ occupy' \in [StackIds -> Co \cup {NoCo}]
        /\ saved' \in [Co -> Co \cup {NoCo, Stale}]
        /\ FramesInv' /\ OccupyInv'
        /\ occupy'[stackOf'[co]] = co
    BY <1>4, <1>5, <1>t, <2>2, <2>3, <2>4, <2>5, SwapInv
  <2>7. StackTypes'
    BY <1>2, <1>3, <1>4, <1>t, <2>3, <2>6 DEF StackTypes
  <2>8. RunningInv'
    BY <1>7, <2>6 DEF RunningInv
  <2> QED  BY <1>6, <2>6, <2>7, <2>8 DEF StackInv
<1> QED  BY <1>8, <1>9

\* A coroutine is put on the call stack and switched to.
LEMMA EnterInv ==
    ASSUME StackInv, NEW co \in Co, NEW fresh \in BOOLEAN,
           callStack' = Append(callStack, co), st' = [st EXCEPT ![co] = "run"],
           co_swap(co, fresh), st[co] # "run",
           stackOf' \in [Co \cup {Main} -> StackIds], allocIdx' \in StackIds,
           \A c \in Co : c # co => stackOf'[c] = stackOf[c],
           fresh => st[co] = "free",
           ~fresh => Live(co) /\ stackOf'[co] = stackOf[co]
    PROVE  StackInv'
<1> DEFINE n == Len(callStack)
<1>t. StackTypes /\ CallInv /\ FramesInv /\ OccupyInv
  BY DEF StackInv
<1>1. n \in Nat \ {0}
  BY <1>t, RunningFacts
<1>2. /\ callStack' \in Seq(Co \cup {Main}) /\ Len(callStack') = n + 1
      /\ callStack'[n + 1] = co
      /\ \A i \in 1 .. n : callStack'[i] = callStack[i]
  BY <1>t, AppendAt DEF StackTypes
<1>3. st' \in [Co -> States] /\ st'[co] = "run" /\ \A c \in Co : c # co => st'[c] = st[c]
  BY <1>t DEF StackTypes, States
<1>4. Running' = co
  BY <1>2 DEF Running, Last
<1>5. CallInv'
  <2>1. \A i \in 1 .. n + 1 : i = n + 1 \/ i \in 1 .. n
    BY <1>1
  <2>2. \A i \in 2 .. n + 1 : i = n + 1 \/ (i \in 2 .. n /\ i \in 1 .. n)
    BY <1>1
  <2>3. \A i \in 2 .. n : callStack[i] \in Co /\ st[callStack[i]] = "run" /\ callStack[i] # co
    BY <1>t DEF CallInv
  <2>4. \A i \in 1 .. n : callStack[i] # co
    <3>1. \A i \in 1 .. n : i = 1 \/ i \in 2 .. n
      BY <1>1
    <3> QED  BY <1>t, <2>3, <3>1, CoroutineAssumption DEF CallInv
  <2>5. \A i \in 2 .. n + 1 : callStack'[i] \in Co /\ st'[callStack'[i]] = "run"
    BY <1>2, <1>3, <2>2, <2>3
  <2>6. \A i, j \in 1 .. n : callStack[i] = callStack[j] => i = j
    BY <1>t DEF CallInv
  <2>7. \A i, j \in 1 .. n + 1 : callStack'[i] = callStack'[j] => i = j
    BY <1>2, <2>1, <2>4, <2>6
  <2>8. 1 \in 1 .. n /\ n + 1 >= 1
    BY <1>1
  <2>9. callStack'[1] = Main
    BY <1>2, <1>t, <2>8 DEF CallInv
  <2> QED  BY <1>2, <2>5, <2>7, <2>8, <2>9 DEF CallInv
<1>6. /\ mem' \in [StackIds -> Co \cup {NoCo, Stale}]
      /\ occupy' \in [StackIds -> Co \cup {NoCo}]
      /\ saved' \in [Co -> Co \cup {NoCo, Stale}]
      /\ FramesInv' /\ OccupyInv'
      /\ occupy'[stackOf'[co]] = co
  <2>1. \A c \in Co : c # co => /\ stackOf'[c] = stackOf[c]
                                /\ (st'[c] \notin {"free", "ended"} => Live(c))
                                /\ (st[c] # "free" => st'[c] # "free")
    BY <1>3 DEF Live
  <2>2. st'[co] \notin {"free", "ended"}
    BY <1>3
  <2> QED  BY <1>3, <1>t, <2>1, <2>2, SwapInv
<1>7. StackTypes'
  BY <1>2, <1>3, <1>6 DEF StackTypes
<1>8. RunningInv'
  BY <1>4, <1>6 DEF RunningInv
<1> QED  BY <1>5, <1>6, <1>7, <1>8 DEF StackInv

LEMMA FreeInv ==
    ASSUME StackInv, NEW co \in Co, co_free(co)
    PROVE  StackInv'
<1>t. StackTypes /\ CallInv /\ FramesInv /\ OccupyInv /\ RunningInv
  BY DEF StackInv
<1>c. NoCo \notin Co
  BY CoroutineAssumption
<1>1. /\ st[co] = "ended" /\ st' \in [Co -> States] /\ st'[co] = "free"
      /\ \A c \in Co : c # co => st'[c] = st[c]
  BY <1>t DEF co_free, StackTypes, States
<1>2. /\ saved' \in [Co -> Co \cup {NoCo, Stale}]
      /\ \A c \in Co : c # co => saved'[c] = saved[c]
  BY <1>t DEF co_free, StackTypes
<1>3. /\ callStack' = callStack /\ mem' = mem /\ stackOf' = stackOf /\ allocIdx' = allocIdx
      /\ Running' = Running
  BY DEF co_free, Running
<1>4. stackOf[co] \in StackIds /\ \A x \in StackIds : occupy[x] = co => x = stackOf[co]
  BY <1>c, <1>t DEF StackTypes, OccupyInv
<1>5. /\ occupy' \in [StackIds -> Co \cup {NoCo}]
      /\ \A x \in StackIds : occupy'[x] = IF occupy[x] = co THEN NoCo ELSE occupy[x]
  BY <1>4, <1>t DEF co_free, Vacated, StackTypes
<1>6. StackTypes'
  BY <1>1, <1>2, <1>3, <1>5, <1>t DEF StackTypes
<1>7. CallInv'
  <2>1. \A i \in 2 .. Len(callStack) : callStack[i] \in Co /\ st[callStack[i]] = "run" /\ callStack[i] # co
    BY <1>1, <1>t DEF CallInv
  <2> QED  BY <1>1, <1>3, <1>t, <2>1 DEF CallInv
<1>8. FramesInv'
  <2> SUFFICES ASSUME NEW c \in Co, st'[c] \notin {"free", "ended"}
               PROVE  IF occupy'[stackOf[c]] = c THEN mem[stackOf[c]] = c ELSE saved'[c] = c
    BY <1>3 DEF FramesInv, Live
  <2>1. c # co /\ Live(c) /\ stackOf[c] \in StackIds
    BY <1>1, <1>t DEF Live, StackTypes
  <2> QED  BY <1>2, <1>5, <1>c, <1>t, <2>1 DEF FramesInv
<1>9. OccupyInv'
  <2> SUFFICES ASSUME NEW x \in StackIds, occupy'[x] # NoCo
               PROVE  st'[occupy'[x]] # "free" /\ stackOf[occupy'[x]] = x
    BY <1>3 DEF OccupyInv
  <2>1. occupy'[x] = occupy[x] /\ occupy[x] # co /\ occupy[x] \in Co
    BY <1>5, <1>t DEF StackTypes
  <2> QED  BY <1>1, <1>t, <2>1 DEF OccupyInv
<1>10. RunningInv'
  <2> SUFFICES ASSUME Running # Main PROVE occupy'[stackOf[Running]] = Running
    BY <1>3 DEF RunningInv
  <2>1. Running \in Co /\ st[Running] = "run" /\ stackOf[Running] \in StackIds
    BY <1>t, RunningFacts DEF StackTypes
  <2> QED  BY <1>1, <1>5, <1>t, <2>1 DEF RunningInv
<1> QED  BY <1>6, <1>7, <1>8, <1>9, <1>10 DEF StackInv

-----------------------------------------------------------------------------
(* The links.                                                              *)

WaitInv == LinkInv /\ TimeInv

\* Steps that leave the links alone, and what every coroutine in one waits for.
LEMMA WaitFrame ==
    ASSUME WaitInv,
           UNCHANGED <<timeVars, noTimeout, active, raised, epoll, polls, condq, toResume, now>>,
           clock' \in Nat,
           \A c \in Co : /\ st[c] \in {"poll", "cond", "parked"} => st'[c] = st[c]
                         /\ st'[c] \in {"poll", "cond"} => st'[c] = st[c]
    PROVE  WaitInv'
<1>1. /\ wheel' = wheel /\ ullStart' = ullStart /\ startIdx' = startIdx /\ expire' = expire
      /\ bTimeout' = bTimeout /\ noTimeout' = noTimeout /\ active' = active /\ raised' = raised
      /\ epoll' = epoll /\ polls' = polls /\ condq' = condq /\ toResume' = toResume /\ now' = now
  BY DEF timeVars
<1>2. LinkTypes' /\ TimeTypes'
  BY <1>1 DEF WaitInv, LinkInv, LinkTypes, TimeInv, TimeTypes
<1>3. Range(active) \subseteq Co /\ Range(toResume) \subseteq Co /\ Range(condq) \subseteq Co
      /\ noTimeout \subseteq Co
  BY DEF WaitInv, LinkInv, LinkTypes, Range
<1>4. WheelInv'
  BY <1>1 DEF WaitInv, LinkInv, WheelInv
<1>5. ActiveInv'
  BY <1>1, <1>3 DEF WaitInv, LinkInv, ActiveInv
<1>6. QueueInv'
  BY <1>1, <1>3 DEF WaitInv, LinkInv, QueueInv
<1>7. PollInv'
  <2>1. \A fd \in Fds : epoll[fd] # NoCo => epoll[fd] \in Co
    BY DEF WaitInv, LinkInv, LinkTypes
  <2> QED  BY <1>1, <1>3, <2>1 DEF WaitInv, LinkInv, PollInv
<1>8. LinkedInv'
  BY <1>1 DEF WaitInv, TimeInv, LinkedInv, InWheel
<1>9. DueInv'
  BY <1>1 DEF WaitInv, TimeInv, DueInv, Ahead
<1>10. ReasonInv'
  BY <1>1, <1>3 DEF WaitInv, LinkInv, ActiveInv, TimeInv, ReasonInv
<1> QED  BY <1>2, <1>4, <1>5, <1>6, <1>7, <1>8, <1>9, <1>10 DEF WaitInv, LinkInv, TimeInv

\* What the slots of the wheel hold after AddTimeout().
LEMMA AddTimeoutFacts ==
    ASSUME LinkTypes, TimeTypes, WheelInv, NEW co \in Co, NEW exp \in Nat, exp >= ullStart,
           ~InWheel(co), AddTimeout(co, exp)
    PROVE  /\ wheel' \in [SlotIds -> Seq(Co)]
           /\ \A i \in SlotIds : IsInjective(wheel'[i])
           /\ \E j \in SlotIds :
                 /\ ullStart + Ahead(j) <= exp
                 /\ \A i \in SlotIds, c \in Co :
                       c \in Range(wheel'[i]) <=> c \in Range(wheel[i]) \/ (i = j /\ c = co)
<1> DEFINE j == Slot(exp)
           d == exp - ullStart
           e == IF d >= Size THEN Size - 1 ELSE d
<1>s. Size \in Nat \ {0}
  BY CoroutineAssumption
<1>1. j = (startIdx + e) % Size
  BY DEF Slot
<1>2. d \in Nat /\ e \in 0 .. Size - 1 /\ e <= d /\ startIdx \in 0 .. Size - 1 /\ ullStart \in Nat
  BY <1>s DEF TimeTypes, SlotIds
<1>3. j = IF startIdx + e < Size THEN startIdx + e ELSE startIdx + e - Size
  <2> HIDE DEF j, e, d
  <2> QED  BY <1>s, <1>1, <1>2, SlotAfter
<1>4. j \in SlotIds /\ Ahead(j) = e
  <2> HIDE DEF j, e, d
  <2> QED  BY <1>s, <1>2, <1>3 DEF SlotIds, Ahead
<1>5. ullStart + e <= exp
  <2>1. ullStart + d = exp
    BY <1>2
  <2> HIDE DEF e, d
  <2> QED  BY <1>s, <1>2, <2>1
<1> HIDE DEF j, e, d
<1>6. wheel \in [SlotIds -> Seq(Co)] /\ wheel[j] \in Seq(Co) /\ co \notin Range(wheel[j])
      /\ \A i \in SlotIds : IsInjective(wheel[i])
  BY <1>4 DEF LinkTypes, InWheel, WheelInv
<1> DEFINE r == Append(wheel[j], co)
<1>7. r \in Seq(Co) /\ Range(r) = Range(wheel[j]) \cup {co} /\ IsInjective(r)
  BY <1>4, <1>6, AppendLink
<1>8. wheel' = [wheel EXCEPT ![j] = r]
  BY DEF AddTimeout, AddTail, j
<1> HIDE DEF r
<1>9. wheel' \in [SlotIds -> Seq(Co)] /\ \A i \in SlotIds : wheel'[i] = IF i = j THEN r ELSE wheel[i]
  BY <1>4, <1>6, <1>7, <1>8
<1>10. \A i \in SlotIds : IsInjective(wheel'[i])
  BY <1>6, <1>7, <1>9
<1>11. \A i \in SlotIds, c \in Co :
          c \in Range(wheel'[i]) <=> c \in Range(wheel[i]) \/ (i = j /\ c = co)
  BY <1>7, <1>9
<1> QED  BY <1>4, <1>5, <1>9, <1>10, <1>11

\* A coroutine that does not wait is in no link.
LEMMA NotWaiting ==
    ASSUME WaitInv, NEW co \in Co, st[co] \notin {"poll", "cond", "parked"}
    PROVE  /\ ~InWheel(co) /\ co \notin Range(active) /\ co \notin Range(toResume)
           /\ co \notin Range(condq) /\ co \notin noTimeout /\ ~bTimeout[co]
           /\ \A fd \in Fds : epoll[fd] # co
<1>1. ~InWheel(co) /\ co \notin Range(active)
  BY DEF WaitInv, LinkInv, WheelInv, ActiveInv, InWheel
<1>2. co \notin Range(toResume) /\ co \notin Range(condq)
  BY DEF WaitInv, LinkInv, QueueInv
<1>3. co \notin noTimeout /\ \A fd \in Fds : epoll[fd] # co
  BY CoroutineAssumption DEF WaitInv, LinkInv, PollInv
<1>4. ~bTimeout[co]
  BY <1>1 DEF WaitInv, TimeInv, ReasonInv
<1> QED  BY <1>1, <1>2, <1>3, <1>4

LEMMA LinkRanges ==
    ASSUME LinkTypes
    PROVE  /\ Range(active) \subseteq Co /\ Range(toResume) \subseteq Co
           /\ Range(condq) \subseteq Co /\ noTimeout \subseteq Co
           /\ \A i \in SlotIds : wheel[i] \in Seq(Co) /\ Range(wheel[i]) \subseteq Co
           /\ \A fd \in Fds : epoll[fd] # NoCo => epoll[fd] \in Co
<1>1. \A i \in SlotIds : wheel[i] \in Seq(Co)
  BY DEF LinkTypes
<1>2. \A q \in Seq(Co) : Range(q) \subseteq Co
  BY DEF Range
<1> QED  BY <1>1, <1>2 DEF LinkTypes

LEMMA ResumeWait ==
    ASSUME WaitInv, NEW co \in Co, resumeCoroutine(co)
    PROVE  WaitInv'
<1>1. /\ wheel' = wheel /\ ullStart' = ullStart /\ startIdx' = startIdx /\ expire' = expire
      /\ bTimeout' = bTimeout /\ noTimeout' = noTimeout /\ active' = active /\ raised' = raised
      /\ epoll' = epoll /\ polls' = polls /\ condq' = condq /\ now' = now /\ st' = st
      /\ clock' = clock
  BY DEF resumeCoroutine, timeVars, boundVars
<1>2. st[co] = "parked" /\ co \notin Range(toResume) /\ co \notin Range(active)
  BY DEF resumeCoroutine
<1>3. toResume \in Seq(Co) /\ IsInjective(toResume)
  BY DEF WaitInv, LinkInv, LinkTypes, QueueInv
<1>4. toResume' \in Seq(Co) /\ Range(toResume') = Range(toResume) \cup {co} /\ IsInjective(toResume')
  <2>1. toResume' = Append(toResume, co)
    BY DEF resumeCoroutine
  <2> DEFINE r == Append(toResume, co)
  <2>2. r \in Seq(Co) /\ Range(r) = Range(toResume) \cup {co} /\ IsInjective(r)
    BY <1>2, <1>3, AppendLink
  <2> HIDE DEF r
  <2>3. toResume' = r
    BY <2>1 DEF r
  <2> QED  BY <2>2, <2>3
<1>5. LinkTypes' /\ TimeTypes'
  BY <1>1, <1>4 DEF WaitInv, LinkInv, LinkTypes, TimeInv, TimeTypes
<1>6. WheelInv' /\ PollInv'
  BY <1>1 DEF WaitInv, LinkInv, WheelInv, PollInv
<1>7. ActiveInv'
  BY <1>1, <1>2, <1>4 DEF WaitInv, LinkInv, ActiveInv
<1>8. QueueInv'
  BY <1>1, <1>2, <1>4 DEF WaitInv, LinkInv, QueueInv
<1>9. LinkedInv' /\ DueInv' /\ ReasonInv'
  BY <1>1 DEF WaitInv, TimeInv, LinkedInv, InWheel, DueInv, Ahead, ReasonInv
<1> QED  BY <1>5, <1>6, <1>7, <1>8, <1>9 DEF WaitInv, LinkInv, TimeInv

\* A running coroutine begins to wait, with a timer or without.
LEMMA AwaitWait ==
    ASSUME WaitInv, st \in [Co -> States], NEW co \in Co, st[co] = "run", NEW how \in {"poll", "cond"},
           NEW t \in Timeouts \cup {0}, Await(how, co, t), toResume' = toResume,
           condq' = IF how = "cond" THEN Append(condq, co) ELSE condq,
           noTimeout' = IF how = "poll" /\ t = 0 THEN noTimeout \cup {co} ELSE noTimeout,
           epoll' \in [Fds -> Co \cup {NoCo}], polls' \in [Co -> Fds \cup {0}], PollInv'
    PROVE  WaitInv'
<1>i. LinkTypes /\ WheelInv /\ ActiveInv /\ QueueInv /\ TimeTypes /\ LinkedInv /\ DueInv /\ ReasonInv
  BY DEF WaitInv, LinkInv, TimeInv
<1>1. /\ ullStart' = ullStart /\ startIdx' = startIdx /\ bTimeout' = bTimeout /\ active' = active
      /\ raised' = raised /\ now' = now /\ clock' = clock
  BY DEF Await
<1>2. /\ ~InWheel(co) /\ co \notin Range(active) /\ co \notin Range(toResume)
      /\ co \notin Range(condq) /\ co \notin noTimeout /\ ~bTimeout[co]
  BY NotWaiting
<1>3. st'[co] = how /\ \A c \in Co : c # co => st'[c] = st[c]
  BY DEF Await
<1>t. t = 0 \/ t \in Nat \ {0}
  BY CoroutineAssumption
<1> DEFINE exp == IF t = 0 THEN 0 ELSE clock + t
<1>4. /\ expire' \in [Co -> Nat] /\ expire'[co] = exp
      /\ \A c \in Co : c # co => expire'[c] = expire[c]
  <2>1. exp \in Nat /\ expire \in [Co -> Nat]
    BY <1>i, <1>t DEF TimeTypes
  <2>2. expire' = [expire EXCEPT ![co] = exp]
    <3>1. CASE t = 0
      BY <3>1 DEF Await
    <3>2. CASE t # 0
      BY <3>2 DEF Await, GetTickMS
    <3> QED  BY <3>1, <3>2
  <2> HIDE DEF exp
  <2> QED  BY <2>1, <2>2
<1>5. condq' \in Seq(Co) /\ IsInjective(condq')
      /\ Range(condq') = IF how = "cond" THEN Range(condq) \cup {co} ELSE Range(condq)
  <2> DEFINE r == Append(condq, co)
  <2>1. condq \in Seq(Co) /\ IsInjective(condq)
    BY <1>i DEF LinkTypes, QueueInv
  <2>2. r \in Seq(Co) /\ Range(r) = Range(condq) \cup {co} /\ IsInjective(r)
    BY <1>2, <2>1, AppendLink
  <2>3. condq' = IF how = "cond" THEN r ELSE condq
    OBVIOUS
  <2> HIDE DEF r
  <2> QED  BY <2>1, <2>2, <2>3
<1>6. /\ wheel' \in [SlotIds -> Seq(Co)]
      /\ \A i \in SlotIds : IsInjective(wheel'[i])
      /\ \E j \in SlotIds :
            /\ t # 0 => ullStart + Ahead(j) <= exp
            /\ \A i \in SlotIds, c \in Co :
                  c \in Range(wheel'[i]) <=> c \in Range(wheel[i]) \/ (i = j /\ c = co /\ t # 0)
  <2>1. CASE t = 0
    <3>1. wheel' = wheel
      BY <2>1 DEF Await
    <3>2. 0 \in SlotIds
      BY CoroutineAssumption DEF SlotIds
    <3> QED  BY <1>i, <2>1, <3>1, <3>2 DEF LinkTypes, WheelInv
  <2>2. CASE t # 0
    <3>1. exp \in Nat /\ exp >= ullStart
      BY <1>i, <1>t, <2>2 DEF Await, CanAddTimeout, GetTickMS, TimeTypes
    <3>2. AddTimeout(co, exp)
      BY <2>2 DEF Await, GetTickMS
    <3> HIDE DEF exp
    <3> QED  BY <1>2, <1>i, <2>2, <3>1, <3>2, AddTimeoutFacts
  <2> QED  BY <2>1, <2>2
<1>7. PICK j \in SlotIds :
            /\ t # 0 => ullStart + Ahead(j) <= exp
            /\ \A i \in SlotIds, c \in Co :
                  c \in Range(wheel'[i]) <=> c \in Range(wheel[i]) \/ (i = j /\ c = co /\ t # 0)
  BY <1>6
<1>8. exp # 0 <=> t # 0
  BY <1>i, <1>t DEF TimeTypes
<1> HIDE DEF exp
<1>r. Range(active) \subseteq Co /\ Range(toResume) \subseteq Co /\ Range(condq) \subseteq Co
      /\ noTimeout \subseteq Co
  BY <1>i, LinkRanges
<1>9. LinkTypes' /\ TimeTypes'
  BY <1>1, <1>4, <1>5, <1>6, <1>i DEF LinkTypes, TimeTypes
<1>10. WheelInv'
  <2>2. ASSUME NEW i \in SlotIds, NEW c \in Co, c \in Range(wheel'[i])
        PROVE  st'[c] \in {"poll", "cond"} /\ c \notin Range(active') /\ c \notin noTimeout'
    <3>1. CASE c = co
      BY <1>1, <1>2, <1>3, <1>7, <2>2, <3>1 DEF InWheel
    <3>2. CASE c # co
      BY <1>1, <1>3, <1>7, <1>i, <2>2, <3>2 DEF WheelInv
    <3> QED  BY <3>1, <3>2
  <2>3. ASSUME NEW i \in SlotIds, NEW k \in SlotIds, NEW c \in Co,
               c \in Range(wheel'[i]), c \in Range(wheel'[k])
        PROVE  i = k
    BY <1>2, <1>7, <1>i, <2>3 DEF WheelInv, InWheel
  <2> QED  BY <1>6, <2>2, <2>3 DEF WheelInv
<1>11. ActiveInv'
  BY <1>1, <1>2, <1>3, <1>i, <1>r DEF ActiveInv
<1>12. QueueInv'
  BY <1>2, <1>3, <1>5, <1>i, <1>r DEF QueueInv
<1>13. LinkedInv'
  <2> SUFFICES ASSUME NEW c \in Co
               PROVE  /\ st'[c] = "poll" => c \in noTimeout' \/ InWheel(c)' \/ c \in Range(active)
                      /\ st'[c] = "cond" /\ (expire'[c] # 0 \/ c \notin Range(condq')) =>
                            InWheel(c)' \/ c \in Range(active)
    BY <1>1 DEF LinkedInv
  <2>1. CASE c = co
    <3>1. t # 0 => InWheel(c)'
      BY <1>7, <2>1 DEF InWheel
    <3> QED  BY <1>3, <1>4, <1>5, <1>8, <2>1, <3>1
  <2>2. CASE c # co
    <3>1. InWheel(c) => InWheel(c)'
      BY <1>7 DEF InWheel
    <3> QED  BY <1>3, <1>4, <1>5, <1>i, <2>2, <3>1 DEF LinkedInv
  <2> QED  BY <2>1, <2>2
<1>14. DueInv'
  <2> SUFFICES ASSUME NEW i \in SlotIds, NEW c \in Co, c \in Range(wheel'[i])
               PROVE  expire'[c] # 0 /\ ullStart + Ahead(i) <= expire'[c]
    BY <1>1 DEF DueInv, Ahead
  <2>1. CASE c = co
    BY <1>2, <1>4, <1>7, <1>8, <2>1 DEF InWheel
  <2>2. CASE c # co
    BY <1>4, <1>7, <1>i, <2>2 DEF DueInv
  <2> QED  BY <2>1, <2>2
<1>15. ReasonInv'
  BY <1>1, <1>2, <1>3, <1>4, <1>5, <1>i, <1>r DEF ReasonInv
<1> QED  BY <1>9, <1>10, <1>11, <1>12, <1>13, <1>14, <1>15 DEF WaitInv, LinkInv, TimeInv

LEMMA PollWait ==
    ASSUME StackInv, WaitInv, NEW fd \in Fds \cup {0}, NEW t \in Timeouts \cup {0},
           fd = 0 => t # 0, co_poll_inner(fd, t)
    PROVE  WaitInv'
<1> DEFINE co == Running
<1>i. LinkTypes /\ PollInv
  BY DEF WaitInv, LinkInv
<1>1. co \in Co /\ st[co] = "run" /\ st \in [Co -> States]
  BY RunningFacts DEF co_poll_inner, StackInv, StackTypes
<1>2. \A x \in Fds : epoll[x] # co
  BY <1>1, NotWaiting
<1>f. 0 \notin Fds /\ NoCo \notin Co
  BY CoroutineAssumption
<1>3. /\ polls' \in [Co -> Fds \cup {0}] /\ polls'[co] = fd
      /\ \A c \in Co : c # co => polls'[c] = polls[c]
  BY <1>1, <1>i DEF co_poll_inner, LinkTypes
<1>4. /\ epoll' \in [Fds -> Co \cup {NoCo}]
      /\ \A x \in Fds : epoll'[x] = IF x = fd THEN co ELSE epoll[x]
      /\ fd # 0 => epoll[fd] = NoCo
  <2>1. epoll \in [Fds -> Co \cup {NoCo}]
    BY <1>i DEF LinkTypes
  <2>2. CASE fd = 0
    <3>1. epoll' = epoll
      BY <2>2 DEF co_poll_inner
    <3> QED  BY <1>f, <2>1, <2>2, <3>1
  <2>3. CASE fd # 0
    <3>1. epoll[fd] = NoCo /\ fd \in Fds
      BY <2>3 DEF co_poll_inner, OnePerFd
    <3>2. epoll' = [epoll EXCEPT ![fd] = co]
      BY <2>3, <3>1 DEF co_poll_inner
    <3> HIDE DEF co
    <3> QED  BY <1>1, <2>1, <3>1, <3>2
  <2> QED  BY <2>2, <2>3
<1>5. Await("poll", co, t) /\ toResume' = toResume /\ condq' = condq
      /\ noTimeout' = IF t = 0 THEN noTimeout \cup {co} ELSE noTimeout
  BY DEF co_poll_inner
<1>6. st'[co] = "poll" /\ \A c \in Co : c # co => st'[c] = st[c]
  BY <1>1, <1>5 DEF Await
<1>7. noTimeout \subseteq Co /\ \A x \in Fds : epoll[x] # NoCo => epoll[x] \in Co
  BY <1>i, LinkRanges
<1> HIDE DEF co
<1>8. PollInv'
  <2>1. ASSUME NEW x \in Fds, epoll'[x] # NoCo
        PROVE  st'[epoll'[x]] = "poll" /\ polls'[epoll'[x]] = x
    <3>1. CASE x = fd
      BY <1>3, <1>4, <1>6, <3>1
    <3>2. CASE x # fd
      BY <1>2, <1>3, <1>4, <1>6, <1>7, <1>i, <2>1, <3>2 DEF PollInv
    <3> QED  BY <3>1, <3>2
  <2>2. ASSUME NEW c \in Co, st'[c] = "poll", polls'[c] # 0
        PROVE  epoll'[polls'[c]] = c
    <3>1. CASE c = co
      BY <1>3, <1>4, <2>2, <3>1
    <3>2. CASE c # co
      <4>1. polls[c] \in Fds /\ epoll[polls[c]] = c /\ polls'[c] = polls[c]
        BY <1>3, <1>6, <1>i, <2>2, <3>2 DEF PollInv, LinkTypes
      <4>2. polls[c] # fd
        BY <1>4, <1>f, <4>1
      <4> QED  BY <1>4, <4>1, <4>2
    <3> QED  BY <3>1, <3>2
  <2>3. ASSUME NEW c \in noTimeout' PROVE st'[c] = "poll" /\ polls'[c] # 0
    <3>1. CASE c = co
      BY <1>1, <1>3, <1>5, <1>6, <1>i, <2>3, <3>1 DEF PollInv
    <3>2. CASE c # co
      BY <1>3, <1>5, <1>6, <1>7, <1>i, <2>3, <3>2 DEF PollInv
    <3> QED  BY <3>1, <3>2
  <2> QED  BY <2>1, <2>2, <2>3 DEF PollInv
<1> QED  BY <1>1, <1>3, <1>4, <1>5, <1>8, AwaitWait

LEMMA CondWait ==
    ASSUME StackInv, WaitInv, NEW t \in Timeouts \cup {0}, co_cond_timedwait(t)
    PROVE  WaitInv'
<1> DEFINE co == Running
<1>i. LinkTypes /\ PollInv
  BY DEF WaitInv, LinkInv
<1>1. co \in Co /\ st[co] = "run" /\ st \in [Co -> States]
  BY RunningFacts DEF co_cond_timedwait, StackInv, StackTypes
<1>2. Await("cond", co, t) /\ toResume' = toResume /\ condq' = Append(condq, co)
      /\ noTimeout' = noTimeout /\ epoll' = epoll /\ polls' = polls
  BY DEF co_cond_timedwait, AddTail
<1>3. st'[co] = "cond" /\ \A c \in Co : c # co => st'[c] = st[c]
  BY <1>1, <1>2 DEF Await
<1>4. noTimeout \subseteq Co /\ \A x \in Fds : epoll[x] # NoCo => epoll[x] \in Co
  BY <1>i, LinkRanges
<1> HIDE DEF co
<1>5. PollInv'
  BY <1>1, <1>2, <1>3, <1>4, <1>i DEF PollInv
<1>6. epoll' \in [Fds -> Co \cup {NoCo}] /\ polls' \in [Co -> Fds \cup {0}]
  BY <1>2, <1>i DEF LinkTypes
<1> QED  BY <1>1, <1>2, <1>5, <1>6, AwaitWait

\* The event loop resumes the head of the active list.
LEMMA LoopResumeWait ==
    ASSUME WaitInv, st \in [Co -> States], co_resume
    PROVE  WaitInv'
<1> DEFINE co == Head(active)
<1>i. LinkTypes /\ WheelInv /\ ActiveInv /\ QueueInv /\ PollInv
      /\ TimeTypes /\ LinkedInv /\ DueInv /\ ReasonInv
  BY DEF WaitInv, LinkInv, TimeInv
<1>1. /\ wheel' = wheel /\ ullStart' = ullStart /\ startIdx' = startIdx /\ noTimeout' = noTimeout
      /\ toResume' = toResume /\ now' = now /\ clock' = clock
  BY DEF co_resume, boundVars
<1>2. /\ co \in Range(active) /\ co \in Co /\ active' \in Seq(Co)
      /\ Range(active') = Range(active) \ {co} /\ IsInjective(active')
  <2>1. active \in Seq(Co) /\ active # <<>> /\ IsInjective(active)
    BY <1>i DEF co_resume, LinkTypes, ActiveInv
  <2>2. active' = Tail(active)
    BY DEF co_resume, PopHead
  <2> QED  BY <2>1, <2>2, TailLink
<1>3. st'[co] = "run" /\ \A c \in Co : c # co => st'[c] = st[c]
  BY <1>2 DEF co_resume, OnCoroutineEvent
<1>4. condq' \in Seq(Co) /\ IsInjective(condq') /\ Range(condq') = Range(condq) \ {co}
  <2> DEFINE r == Without(condq, {co})
  <2>1. r \in Seq(Co) /\ IsInjective(r) /\ Range(r) = Range(condq) \ {co}
    BY <1>i, WithoutLink DEF LinkTypes, QueueInv
  <2>2. condq' = r
    BY DEF co_resume
  <2> HIDE DEF r
  <2> QED  BY <2>1, <2>2
<1>5. /\ polls' \in [Co -> Fds \cup {0}] /\ \A c \in Co : c # co => polls'[c] = polls[c]
  BY <1>2, <1>i DEF co_resume, LinkTypes
<1>6. /\ expire' \in [Co -> Nat] /\ bTimeout' \in [Co -> BOOLEAN] /\ raised' \in [Co -> BOOLEAN]
      /\ \A c \in Co : c # co => expire'[c] = expire[c] /\ bTimeout'[c] = bTimeout[c]
                                 /\ raised'[c] = raised[c]
      /\ ~bTimeout'[co]
  BY <1>2, <1>i DEF co_resume, TimeTypes
<1>7. /\ epoll' \in [Fds -> Co \cup {NoCo}]
      /\ \A x \in Fds : epoll'[x] = IF st[co] = "poll" /\ polls[co] = x THEN NoCo ELSE epoll[x]
  <2>1. epoll \in [Fds -> Co \cup {NoCo}] /\ polls[co] \in Fds \cup {0} /\ 0 \notin Fds
    BY <1>2, <1>i, CoroutineAssumption DEF LinkTypes
  <2>2. epoll' = IF st[co] = "poll" /\ polls[co] # 0 THEN [epoll EXCEPT ![polls[co]] = NoCo]
                 ELSE epoll
    BY DEF co_resume
  <2> HIDE DEF co
  <2>3. CASE st[co] = "poll" /\ polls[co] # 0
    BY <2>1, <2>2, <2>3
  <2>4. CASE ~(st[co] = "poll" /\ polls[co] # 0)
    BY <2>1, <2>2, <2>4
  <2> QED  BY <2>3, <2>4
<1>r. Range(active) \subseteq Co /\ Range(toResume) \subseteq Co /\ Range(condq) \subseteq Co
      /\ noTimeout \subseteq Co /\ \A x \in Fds : epoll[x] # NoCo => epoll[x] \in Co
  BY <1>i, LinkRanges
<1> HIDE DEF co
<1>8. ~InWheel(co) /\ co \notin Range(toResume) /\ co \notin noTimeout
  BY <1>2, <1>i DEF WheelInv, ActiveInv, InWheel
<1>9. LinkTypes' /\ TimeTypes'
  BY <1>1, <1>2, <1>4, <1>5, <1>6, <1>7, <1>i DEF LinkTypes, TimeTypes
<1>10. WheelInv'
  BY <1>1, <1>2, <1>3, <1>8, <1>i DEF WheelInv, InWheel
<1>11. ActiveInv'
  BY <1>1, <1>2, <1>3, <1>i, <1>r DEF ActiveInv
<1>12. QueueInv'
  BY <1>1, <1>3, <1>4, <1>8, <1>i, <1>r DEF QueueInv
<1>13. PollInv'
  <2>1. ASSUME NEW x \in Fds, epoll'[x] # NoCo
        PROVE  st'[epoll'[x]] = "poll" /\ polls'[epoll'[x]] = x
    <3>1. epoll'[x] = epoll[x] /\ epoll[x] # co
      BY <1>7, <1>i, <2>1 DEF PollInv
    <3> QED  BY <1>3, <1>5, <1>i, <1>r, <2>1, <3>1 DEF PollInv
  <2>2. ASSUME NEW c \in Co, st'[c] = "poll", polls'[c] # 0
        PROVE  epoll'[polls'[c]] = c
    <3>1. c # co
      BY <1>3, <2>2
    <3>2. polls[c] \in Fds /\ epoll[polls[c]] = c /\ polls'[c] = polls[c]
      BY <1>3, <1>5, <1>i, <2>2, <3>1 DEF PollInv, LinkTypes
    <3>3. ~(st[co] = "poll" /\ polls[co] = polls[c])
      BY <1>2, <1>i, <2>2, <3>1, <3>2 DEF PollInv
    <3> QED  BY <1>7, <3>2, <3>3
  <2>3. ASSUME NEW c \in noTimeout' PROVE st'[c] = "poll" /\ polls'[c] # 0
    BY <1>1, <1>3, <1>5, <1>8, <1>i, <1>r, <2>3 DEF PollInv
  <2> QED  BY <2>1, <2>2, <2>3 DEF PollInv
<1>14. LinkedInv'
  <2> SUFFICES ASSUME NEW c \in Co
               PROVE  /\ st'[c] = "poll" => c \in noTimeout \/ InWheel(c) \/ c \in Range(active')
                      /\ st'[c] = "cond" /\ (expire'[c] # 0 \/ c \notin Range(condq')) =>
                            InWheel(c) \/ c \in Range(active')
    BY <1>1 DEF LinkedInv, InWheel
  <2>1. CASE c = co
    BY <1>3, <2>1
  <2>2. CASE c # co
    BY <1>2, <1>3, <1>4, <1>6, <1>i, <2>2 DEF LinkedInv
  <2> QED  BY <2>1, <2>2
<1>15. DueInv'
  BY <1>1, <1>6, <1>8, <1>i DEF DueInv, Ahead, InWheel
<1>16. ReasonInv'
  <2>1. ASSUME NEW c \in Range(active')
        PROVE  /\ st'[c] = "poll" => raised'[c] \/ bTimeout'[c]
               /\ st'[c] = "cond" => c \notin Range(condq') \/ bTimeout'[c]
    <3>1. c # co /\ c \in Co /\ c \in Range(active)
      BY <1>2, <1>r, <2>1
    <3> QED  BY <1>3, <1>4, <1>6, <1>i, <3>1 DEF ReasonInv
  <2>2. ASSUME NEW c \in Co, bTimeout'[c]
        PROVE  /\ now >= ullStart /\ expire'[c] # 0 /\ c \in Range(active')
               /\ st'[c] \in {"poll", "cond"}
    <3>1. c # co
      BY <1>6, <2>2
    <3> QED  BY <1>2, <1>3, <1>6, <1>i, <2>2, <3>1 DEF ReasonInv
  <2> QED  BY <1>1, <2>1, <2>2 DEF ReasonInv
<1> QED  BY <1>9, <1>10, <1>11, <1>12, <1>13, <1>14, <1>15, <1>16 DEF WaitInv, LinkInv, TimeInv

\* A timer that was beyond the wheel goes back to it.
LEMMA AddAgainWait ==
    ASSUME WaitInv, AddAgain
    PROVE  WaitInv'
<1> DEFINE co == Head(active)
<1>i. LinkTypes /\ WheelInv /\ ActiveInv /\ QueueInv /\ PollInv
      /\ TimeTypes /\ LinkedInv /\ DueInv /\ ReasonInv
  BY DEF WaitInv, LinkInv, TimeInv
<1>1. /\ ullStart' = ullStart /\ startIdx' = startIdx /\ noTimeout' = noTimeout /\ expire' = expire
      /\ toResume' = toResume /\ now' = now /\ clock' = clock /\ st' = st /\ raised' = raised
      /\ epoll' = epoll /\ polls' = polls /\ condq' = condq
  BY DEF AddAgain, boundVars
<1>2. /\ co \in Range(active) /\ co \in Co /\ active' \in Seq(Co)
      /\ Range(active') = Range(active) \ {co} /\ IsInjective(active')
  <2>1. active \in Seq(Co) /\ active # <<>> /\ IsInjective(active)
    BY <1>i DEF AddAgain, LinkTypes, ActiveInv
  <2>2. active' = Tail(active)
    BY DEF AddAgain, PopHead
  <2> QED  BY <2>1, <2>2, TailLink
<1>3. /\ bTimeout' \in [Co -> BOOLEAN] /\ ~bTimeout'[co]
      /\ \A c \in Co : c # co => bTimeout'[c] = bTimeout[c]
  BY <1>2, <1>i DEF AddAgain, TimeTypes
<1>4. bTimeout[co] /\ expire[co] >= ullStart /\ AddTimeout(co, expire[co]) /\ expire[co] \in Nat
  BY <1>2, <1>i DEF AddAgain, TooEarly, CanAddTimeout, TimeTypes
<1>r. Range(active) \subseteq Co /\ Range(toResume) \subseteq Co /\ Range(condq) \subseteq Co
      /\ noTimeout \subseteq Co
  BY <1>i, LinkRanges
<1> HIDE DEF co
<1>5. expire[co] # 0 /\ st[co] \in {"poll", "cond"}
  BY <1>2, <1>4, <1>i DEF ReasonInv
<1>8. ~InWheel(co) /\ co \notin Range(toResume) /\ co \notin noTimeout
  BY <1>2, <1>i DEF WheelInv, ActiveInv, InWheel
<1>w. /\ wheel' \in [SlotIds -> Seq(Co)]
      /\ \A i \in SlotIds : IsInjective(wheel'[i])
      /\ \E j \in SlotIds :
            /\ ullStart + Ahead(j) <= expire[co]
            /\ \A i \in SlotIds, c \in Co :
                  c \in Range(wheel'[i]) <=> c \in Range(wheel[i]) \/ (i = j /\ c = co)
  BY <1>2, <1>4, <1>8, <1>i, AddTimeoutFacts
<1>7. PICK j \in SlotIds :
            /\ ullStart + Ahead(j) <= expire[co]
            /\ \A i \in SlotIds, c \in Co :
                  c \in Range(wheel'[i]) <=> c \in Range(wheel[i]) \/ (i = j /\ c = co)
  BY <1>w
<1>9. LinkTypes' /\ TimeTypes'
  BY <1>1, <1>2, <1>3, <1>w, <1>i DEF LinkTypes, TimeTypes
<1>10. WheelInv'
  <2>1. ASSUME NEW i \in SlotIds, NEW c \in Co, c \in Range(wheel'[i])
        PROVE  st'[c] \in {"poll", "cond"} /\ c \notin Range(active') /\ c \notin noTimeout'
    BY <1>1, <1>2, <1>5, <1>7, <1>8, <1>i, <2>1 DEF WheelInv
  <2>2. ASSUME NEW i \in SlotIds, NEW k \in SlotIds, NEW c \in Co,
               c \in Range(wheel'[i]), c \in Range(wheel'[k])
        PROVE  i = k
    BY <1>7, <1>8, <1>i, <2>2 DEF WheelInv, InWheel
  <2> QED  BY <1>w, <2>1, <2>2 DEF WheelInv
<1>11. ActiveInv'
  BY <1>1, <1>2, <1>i DEF ActiveInv
<1>12. QueueInv' /\ PollInv'
  BY <1>1, <1>i DEF QueueInv, PollInv
<1>13. LinkedInv'
  <2>1. \A c \in Co : InWheel(c) => InWheel(c)'
    BY <1>7 DEF InWheel
  <2>2. \A c \in Co : c = co => InWheel(c)'
    BY <1>2, <1>7 DEF InWheel
  <2>3. \A c \in Co : c \in Range(active) => c \in Range(active') \/ c = co
    BY <1>2
  <2>4. \A c \in Co : InWheel(c) \/ c \in Range(active) => InWheel(c)' \/ c \in Range(active')
    BY <2>1, <2>2, <2>3
  <2> QED  BY <1>1, <1>i, <2>4 DEF LinkedInv
<1>14. DueInv'
  <2> SUFFICES ASSUME NEW i \in SlotIds, NEW c \in Co, c \in Range(wheel'[i])
               PROVE  expire[c] # 0 /\ ullStart + Ahead(i) <= expire[c]
    BY <1>1 DEF DueInv, Ahead
  <2> QED  BY <1>5, <1>7, <1>i DEF DueInv
<1>15. ReasonInv'
  <2>1. \A c \in Range(active') : c \in Range(active) /\ c \in Co /\ bTimeout'[c] = bTimeout[c]
    BY <1>2, <1>3, <1>r
  <2>2. \A c \in Co : bTimeout'[c] => bTimeout[c] /\ c # co
    BY <1>3
  <2> QED  BY <1>1, <1>2, <1>i, <2>1, <2>2 DEF ReasonInv
<1> QED  BY <1>9, <1>10, <1>11, <1>12, <1>13, <1>14, <1>15 DEF WaitInv, LinkInv, TimeInv

\* The coroutines at the head of the condition variable are woken.
LEMMA SignalWait ==
    ASSUME WaitInv, NEW all \in BOOLEAN, Signal(all)
    PROVE  WaitInv'
<1> DEFINE n == IF all THEN Len(condq) ELSE 1
           woken == SubSeq(condq, 1, n)
           W == Range(woken)
<1>i. LinkTypes /\ WheelInv /\ ActiveInv /\ QueueInv /\ PollInv
      /\ TimeTypes /\ LinkedInv /\ DueInv /\ ReasonInv
  BY DEF WaitInv, LinkInv, TimeInv
<1>1. /\ ullStart' = ullStart /\ startIdx' = startIdx /\ noTimeout' = noTimeout /\ expire' = expire
      /\ toResume' = toResume /\ now' = now /\ clock' = clock /\ st' = st /\ raised' = raised
      /\ epoll' = epoll /\ polls' = polls /\ bTimeout' = bTimeout
  BY DEF Signal
<1>2. /\ condq' = SubSeq(condq, n + 1, Len(condq))
      /\ wheel' = [i \in DOMAIN wheel |-> Without(wheel[i], W)]
      /\ active' = Without(active, W) \o woken
  BY DEF Signal, Signalled, Join
<1>q. condq \in Seq(Co) /\ IsInjective(condq) /\ active \in Seq(Co) /\ IsInjective(active)
  BY <1>i DEF LinkTypes, QueueInv, ActiveInv
<1>n. n \in 0 .. Len(condq)
  <2>1. condq # <<>>
    BY DEF Signal
  <2>2. Len(condq) \in Nat /\ Len(condq) # 0
    BY <1>q, <2>1
  <2> QED  BY <2>2
<1> HIDE DEF n
<1>3. /\ condq' \in Seq(Co) /\ IsInjective(condq') /\ Range(condq') = Range(condq) \ W
      /\ woken \in Seq(Co) /\ IsInjective(woken) /\ W \subseteq Range(condq)
  <2> DEFINE b == SubSeq(condq, n + 1, Len(condq))
  <2>1. /\ woken \in Seq(Co) /\ b \in Seq(Co) /\ IsInjective(woken) /\ IsInjective(b)
        /\ W \cup Range(b) = Range(condq) /\ W \cap Range(b) = {}
    BY <1>q, <1>n, SubSeqLink
  <2>2. condq' = b
    BY <1>2
  <2> HIDE DEF b, woken
  <2>3. Range(b) = Range(condq) \ W /\ W \subseteq Range(condq)
    BY <2>1
  <2> QED  BY <2>1, <2>2, <2>3
<1> HIDE DEF woken
<1>4. /\ active' \in Seq(Co) /\ IsInjective(active') /\ Range(active') = Range(active) \cup W
  <2> DEFINE p == Without(active, W)
  <2>1. p \in Seq(Co) /\ IsInjective(p) /\ Range(p) = Range(active) \ W
    BY <1>q, WithoutLink
  <2>2. active' = p \o woken
    BY <1>2
  <2> HIDE DEF p
  <2>3. Range(p) \cap Range(woken) = {}
    BY <2>1
  <2>4. /\ p \o woken \in Seq(Co) /\ Range(p \o woken) = Range(p) \cup Range(woken)
        /\ IsInjective(p \o woken)
    BY <1>3, <2>1, <2>3, ConcatLink
  <2> QED  BY <2>1, <2>2, <2>4
<1>5. /\ wheel' \in [SlotIds -> Seq(Co)]
      /\ \A i \in SlotIds : IsInjective(wheel'[i]) /\ Range(wheel'[i]) = Range(wheel[i]) \ W
  <2>1. wheel \in [SlotIds -> Seq(Co)] /\ DOMAIN wheel = SlotIds /\ \A i \in SlotIds : IsInjective(wheel[i])
    BY <1>i DEF LinkTypes, WheelInv
  <2>2. \A i \in SlotIds : /\ Without(wheel[i], W) \in Seq(Co)
                           /\ Range(Without(wheel[i], W)) = Range(wheel[i]) \ W
                           /\ IsInjective(Without(wheel[i], W))
    BY <2>1, WithoutLink
  <2>3. wheel' = [i \in SlotIds |-> Without(wheel[i], W)]
    BY <1>2, <2>1
  <2> QED  BY <2>2, <2>3
<1>r. Range(active) \subseteq Co /\ Range(toResume) \subseteq Co /\ Range(condq) \subseteq Co
      /\ noTimeout \subseteq Co
  BY <1>i, LinkRanges
<1> HIDE DEF W
<1>6. \A c \in W : c \in Co /\ st[c] = "cond" /\ c \notin Range(toResume) /\ c \notin noTimeout
  BY <1>3, <1>i, <1>r DEF QueueInv, PollInv
<1>9. LinkTypes' /\ TimeTypes'
  BY <1>1, <1>3, <1>4, <1>5, <1>i DEF LinkTypes, TimeTypes
<1>10. WheelInv'
  BY <1>1, <1>4, <1>5, <1>i DEF WheelInv
<1>11. ActiveInv'
  BY <1>1, <1>4, <1>6, <1>i DEF ActiveInv
<1>12. QueueInv' /\ PollInv'
  BY <1>1, <1>3, <1>i DEF QueueInv, PollInv
<1>13. LinkedInv'
  <2>1. \A c \in Co : InWheel(c) \/ c \in Range(active) => InWheel(c)' \/ c \in Range(active')
    BY <1>4, <1>5 DEF InWheel
  <2>2. \A c \in Co : c \notin Range(condq') => c \notin Range(condq) \/ c \in Range(active')
    BY <1>3, <1>4
  <2> QED  BY <1>1, <1>i, <2>1, <2>2 DEF LinkedInv
<1>14. DueInv'
  <2> SUFFICES ASSUME NEW i \in SlotIds, NEW c \in Co, c \in Range(wheel'[i])
               PROVE  expire[c] # 0 /\ ullStart + Ahead(i) <= expire[c]
    BY <1>1 DEF DueInv, Ahead
  <2> QED  BY <1>5, <1>i DEF DueInv
<1>15. ReasonInv'
  <2>1. \A c \in Range(active') :
          \/ c \in Range(active) /\ (c \notin Range(condq) => c \notin Range(condq'))
          \/ c \notin Range(condq') /\ st[c] = "cond"
    BY <1>3, <1>4, <1>6
  <2> QED  BY <1>1, <1>4, <1>i, <2>1 DEF ReasonInv
<1> QED  BY <1>9, <1>10, <1>11, <1>12, <1>13, <1>14, <1>15 DEF WaitInv, LinkInv, TimeInv

LEMMA AheadShift ==
    ASSUME NEW n \in Nat \ {0}, NEW s \in 0 .. n - 1, NEW i \in 0 .. n - 1, NEW k \in 0 .. n - 1,
           NEW a, a = IF i >= s THEN i - s ELSE i - s + n, a >= k,
           NEW s2, s2 = IF s + k < n THEN s + k ELSE s + k - n
    PROVE  s2 \in 0 .. n - 1 /\ (IF i >= s2 THEN i - s2 ELSE i - s2 + n) = a - k
<1>1. CASE s + k < n
  BY <1>1
<1>2. CASE ~(s + k < n)
  BY <1>2
<1> QED  BY <1>1, <1>2

\* The slots that are due: the first Cnt ones, each of them once.
LEMMA DueFacts ==
    ASSUME TimeTypes, clock >= ullStart
    PROVE  /\ Cnt(clock) \in 1 .. Size
           /\ DueSlots(clock) \in [1 .. Cnt(clock) -> SlotIds]
           /\ \A k, l \in 1 .. Cnt(clock) : DueSlots(clock)[k] = DueSlots(clock)[l] => k = l
           /\ \A i \in SlotIds : Ahead(i) \in SlotIds
           /\ \A i \in SlotIds : i \in Range(DueSlots(clock)) <=> Ahead(i) < Cnt(clock)
           /\ Cnt(clock) < Size => Cnt(clock) = clock - ullStart + 1
<1> DEFINE C == Cnt(clock)
           due == DueSlots(clock)
<1>s. Size \in Nat \ {0} /\ startIdx \in 0 .. Size - 1
  BY CoroutineAssumption DEF TimeTypes, SlotIds
<1>1. C \in 1 .. Size /\ (C < Size => C = clock - ullStart + 1)
  BY <1>s DEF Cnt, TimeTypes
<1>2. due = [k \in 1 .. C |-> (startIdx + k - 1) % Size]
  BY DEF DueSlots
<1> HIDE DEF C, due
<1>3. \A k \in 1 .. C : k - 1 \in 0 .. Size - 1 /\ startIdx + k - 1 = startIdx + (k - 1)
  BY <1>s, <1>1
<1>4. \A e \in 0 .. Size - 1 :
         (startIdx + e) % Size = IF startIdx + e < Size THEN startIdx + e ELSE startIdx + e - Size
  BY <1>s, SlotAfter
<1>5. \A k \in 1 .. C :
         due[k] = IF startIdx + (k - 1) < Size THEN startIdx + (k - 1) ELSE startIdx + (k - 1) - Size
  <2> TAKE k \in 1 .. C
  <2> DEFINE e == k - 1
  <2>1. due[k] = (startIdx + e) % Size /\ e \in 0 .. Size - 1
    BY <1>2, <1>3
  <2> HIDE DEF e
  <2>2. due[k] = IF startIdx + e < Size THEN startIdx + e ELSE startIdx + e - Size
    BY <1>4, <2>1
  <2> QED  BY <2>2 DEF e
<1>6. ASSUME NEW k \in 1 .. C PROVE due[k] \in SlotIds /\ Ahead(due[k]) = k - 1
  <2> DEFINE e == k - 1
             j == due[k]
  <2>1. e \in 0 .. Size - 1 /\ j = IF startIdx + e < Size THEN startIdx + e ELSE startIdx + e - Size
    BY <1>3, <1>5
  <2> HIDE DEF e, j
  <2>4. j \in SlotIds /\ Ahead(j) = e
    <3>1. CASE startIdx + e < Size
      BY <1>s, <2>1, <3>1 DEF SlotIds, Ahead
    <3>2. CASE ~(startIdx + e < Size)
      BY <1>s, <2>1, <3>2 DEF SlotIds, Ahead
    <3> QED  BY <3>1, <3>2
  <2> QED  BY <2>4 DEF e, j
<1>7. due \in [1 .. C -> SlotIds]
  BY <1>2, <1>6
<1>8. \A k, l \in 1 .. C : due[k] = due[l] => k = l
  BY <1>1, <1>6
<1>9. \A i \in SlotIds : Ahead(i) \in SlotIds
  BY <1>s DEF SlotIds, Ahead
<1>10. ASSUME NEW i \in SlotIds, Ahead(i) < C PROVE i \in Range(due)
  <2> DEFINE e == Ahead(i)
             k == e + 1
  <2>1. e \in 0 .. Size - 1 /\ e < C /\ e = IF i >= startIdx THEN i - startIdx ELSE i - startIdx + Size
    BY <1>9, <1>10 DEF SlotIds, Ahead
  <2> HIDE DEF e
  <2>2. k \in 1 .. C /\ k - 1 = e
    BY <1>1, <2>1
  <2>3. (IF startIdx + e < Size THEN startIdx + e ELSE startIdx + e - Size) = i
    <3>1. CASE i >= startIdx
      BY <1>s, <2>1, <3>1 DEF SlotIds
    <3>2. CASE ~(i >= startIdx)
      BY <1>s, <2>1, <3>2 DEF SlotIds
    <3> QED  BY <3>1, <3>2
  <2> HIDE DEF k
  <2>4. due[k] = i
    BY <1>5, <2>2, <2>3
  <2> QED  BY <1>7, <2>2, <2>4 DEF Range
<1>11. ASSUME NEW i \in SlotIds, i \in Range(due) PROVE Ahead(i) < C
  <2>1. PICK k \in 1 .. C : i = due[k]
    BY <1>7, <1>11 DEF Range
  <2>2. Ahead(i) = k - 1
    BY <1>6, <2>1
  <2> QED  BY <1>1, <2>2
<1> QED  BY <1>1, <1>7, <1>8, <1>9, <1>10, <1>11 DEF C, due

\* The slots that co_eventloop() empties: none if the clock was set back.
Due == IF clock >= ullStart THEN DueSlots(clock) ELSE <<>>

\* What co_eventloop() does to the wheel, without the coroutines in hit.
Turn(hit, rest, late) ==
    /\ rest = [i \in DOMAIN wheel |-> Without(wheel[i], hit)]
    /\ late = JoinAll(rest, Due)
    /\ wheel' = [i \in DOMAIN wheel |-> IF i \in Range(Due) THEN <<>> ELSE rest[i]]
    /\ IF clock >= ullStart
       THEN ullStart' = clock /\ startIdx' = (startIdx + Cnt(clock) - 1) % Size
       ELSE UNCHANGED <<ullStart, startIdx>>

\* What the emptied slots and the remaining ones hold then; a remaining slot is
\* due when it was due before.
Turned(hit, late) ==
    /\ wheel' \in [SlotIds -> Seq(Co)]
    /\ \A i \in SlotIds : /\ IsInjective(wheel'[i])
                          /\ i \notin Range(Due) => Range(wheel'[i]) = Range(wheel[i]) \ hit
                          /\ i \in Range(Due) => Range(wheel'[i]) = {}
    /\ late \in Seq(Co) /\ IsInjective(late)
    /\ \A c : c \in Range(late) <=>
          \E i \in SlotIds : i \in Range(Due) /\ c \in Range(wheel[i]) \ hit
    /\ ullStart' \in Nat /\ startIdx' \in SlotIds
    /\ \A i \in SlotIds : i \notin Range(Due) => ullStart' + Ahead(i)' = ullStart + Ahead(i)
    /\ Range(Due) # {} => clock >= ullStart

LEMMA TurnFacts ==
    ASSUME LinkTypes, TimeTypes, WheelInv, NEW hit, NEW rest, NEW late, Turn(hit, rest, late)
    PROVE  Turned(hit, late)
<1>a. /\ rest = [i \in DOMAIN wheel |-> Without(wheel[i], hit)]
      /\ late = JoinAll(rest, Due)
      /\ wheel' = [i \in DOMAIN wheel |-> IF i \in Range(Due) THEN <<>> ELSE rest[i]]
      /\ IF clock >= ullStart
         THEN ullStart' = clock /\ startIdx' = (startIdx + Cnt(clock) - 1) % Size
         ELSE UNCHANGED <<ullStart, startIdx>>
  BY DEF Turn
<1>s. Size \in Nat \ {0} /\ startIdx \in 0 .. Size - 1 /\ clock \in Nat /\ ullStart \in Nat
  BY CoroutineAssumption DEF TimeTypes, SlotIds
<1>w. /\ wheel \in [SlotIds -> Seq(Co)] /\ DOMAIN wheel = SlotIds
      /\ \A i \in SlotIds : IsInjective(wheel[i])
  BY DEF LinkTypes, WheelInv
<1> DEFINE m == IF clock >= ullStart THEN Cnt(clock) ELSE 0
<1>m. /\ m \in 0 .. Size
      /\ Due \in [1 .. m -> SlotIds]
      /\ \A k, l \in 1 .. m : Due[k] = Due[l] => k = l
      /\ Range(Due) # {} => clock >= ullStart
  <2>1. CASE clock >= ullStart
    <3>1. Due = DueSlots(clock) /\ m = Cnt(clock)
      BY <2>1 DEF Due
    <3>2. /\ m \in 1 .. Size /\ Due \in [1 .. m -> SlotIds]
          /\ \A k, l \in 1 .. m : Due[k] = Due[l] => k = l
      BY <2>1, <3>1, DueFacts
    <3> HIDE DEF m
    <3> QED  BY <1>s, <2>1, <3>2
  <2>2. CASE ~(clock >= ullStart)
    <3>1. Due = <<>> /\ m = 0
      BY <2>2 DEF Due
    <3>2. Due \in [1 .. 0 -> SlotIds] /\ Range(Due) = {}
      BY <3>1, EmptyLink
    <3>3. 0 \in 0 .. Size /\ \A k \in 1 .. 0 : FALSE
      BY <1>s
    <3> HIDE DEF m
    <3> QED  BY <3>1, <3>2, <3>3
  <2> QED  BY <2>1, <2>2
<1> HIDE DEF m
<1>1. \A i \in SlotIds : /\ rest[i] \in Seq(Co) /\ Range(rest[i]) = Range(wheel[i]) \ hit
                         /\ IsInjective(rest[i])
  <2>1. \A i \in SlotIds : rest[i] = Without(wheel[i], hit) /\ wheel[i] \in Seq(Co) /\ IsInjective(wheel[i])
    BY <1>a, <1>w
  <2>2. \A link \in Seq(Co) : /\ Without(link, hit) \in Seq(Co)
                              /\ Range(Without(link, hit)) = Range(link) \ hit
                              /\ IsInjective(link) => IsInjective(Without(link, hit))
    BY ONLY WithoutLink
  <2> QED  BY ONLY <2>1, <2>2
<1>2. \A i \in SlotIds : wheel'[i] = IF i \in Range(Due) THEN <<>> ELSE rest[i]
  BY <1>a, <1>w
<1>3. wheel' \in [SlotIds -> Seq(Co)]
  BY <1>1, <1>a, <1>w
<1>4. \A i \in SlotIds : /\ IsInjective(wheel'[i])
                         /\ i \notin Range(Due) => Range(wheel'[i]) = Range(wheel[i]) \ hit
                         /\ i \in Range(Due) => Range(wheel'[i]) = {}
  BY <1>1, <1>2, EmptyLink
<1>5. late \in Seq(Co) /\ IsInjective(late)
      /\ \A c : c \in Range(late) <=>
            \E i \in SlotIds : i \in Range(Due) /\ c \in Range(wheel[i]) \ hit
  <2> DEFINE seqs == [k \in 1 .. m |-> rest[Due[k]]]
  <2>1. late = JoinAll(rest, Due) /\ Len(Due) = m
    BY <1>a, <1>m
  <2>2. \A k \in 1 .. m : Due[k] \in SlotIds /\ seqs[k] = rest[Due[k]]
    BY <1>m
  <2>3. seqs \in [1 .. m -> Seq(Co)] /\ m \in Nat
    BY <1>1, <1>m, <1>s, <2>2
  <2> HIDE DEF seqs
  <2>4. Flattened(late, seqs, m, Co)
    BY <2>1, <2>2, <2>3, JoinAllLink
  <2>5. \A k \in 1 .. m : IsInjective(seqs[k]) /\ Range(seqs[k]) = Range(wheel[Due[k]]) \ hit
    BY <1>1, <2>2
  <2>6. \A k, l \in 1 .. m, c \in Co : c \in Range(seqs[k]) /\ c \in Range(seqs[l]) => k = l
    <3> SUFFICES ASSUME NEW k \in 1 .. m, NEW l \in 1 .. m, NEW c \in Co,
                        c \in Range(seqs[k]), c \in Range(seqs[l])
                 PROVE  k = l
      OBVIOUS
    <3>1. c \in Range(wheel[Due[k]]) /\ c \in Range(wheel[Due[l]])
      BY <2>5
    <3>2. Due[k] = Due[l]
      BY <2>2, <3>1 DEF WheelInv
    <3> QED  BY <1>m, <3>2
  <2>7. late \in Seq(Co) /\ IsInjective(late)
        /\ \A c : c \in Range(late) <=> \E k \in 1 .. m : c \in Range(seqs[k])
    BY <2>4, <2>5, <2>6 DEF Flattened
  <2>8. Range(Due) = {Due[k] : k \in 1 .. m}
    BY <1>m DEF Range
  <2>9. ASSUME NEW c, NEW k \in 1 .. m, c \in Range(seqs[k])
        PROVE  \E i \in SlotIds : i \in Range(Due) /\ c \in Range(wheel[i]) \ hit
    BY <2>2, <2>5, <2>8, <2>9
  <2>10. ASSUME NEW c, NEW i \in SlotIds, i \in Range(Due), c \in Range(wheel[i]) \ hit
         PROVE  \E k \in 1 .. m : c \in Range(seqs[k])
    BY <2>5, <2>8, <2>10
  <2> QED  BY <2>7, <2>9, <2>10
<1>6. /\ ullStart' \in Nat /\ startIdx' \in SlotIds
      /\ \A i \in SlotIds : i \notin Range(Due) => ullStart' + Ahead(i)' = ullStart + Ahead(i)
  <2>1. CASE clock >= ullStart
    <3> DEFINE C == Cnt(clock)
               e == C - 1
    <3>1. Due = DueSlots(clock) /\ ullStart' = clock /\ startIdx' = (startIdx + C - 1) % Size
      BY <1>a, <2>1 DEF Due
    <3>2. /\ C \in 1 .. Size /\ (C < Size => C = clock - ullStart + 1)
          /\ \A i \in SlotIds : Ahead(i) \in SlotIds /\ (i \in Range(Due) <=> Ahead(i) < C)
      BY <2>1, <3>1, DueFacts
    <3> HIDE DEF C
    <3>3. e \in 0 .. Size - 1 /\ startIdx + C - 1 = startIdx + e
      BY <1>s, <3>2
    <3> HIDE DEF e
    <3>4. startIdx' = IF startIdx + e < Size THEN startIdx + e ELSE startIdx + e - Size
      BY <1>s, <3>1, <3>3, SlotAfter
    <3>5. startIdx' \in SlotIds
      BY <1>s, <3>3, <3>4 DEF SlotIds
    <3>6. ASSUME NEW i \in SlotIds, i \notin Range(Due)
          PROVE  ullStart' + Ahead(i)' = ullStart + Ahead(i)
      <4> DEFINE a == Ahead(i)
      <4>1. a \in 0 .. Size - 1 /\ ~(a < C) /\ a = IF i >= startIdx THEN i - startIdx ELSE i - startIdx + Size
        BY <3>2, <3>6 DEF Ahead, SlotIds
      <4> DEFINE b == Ahead(i)'
      <4>2. b = IF i >= startIdx' THEN i - startIdx' ELSE i - startIdx' + Size
        BY DEF Ahead
      <4> HIDE DEF a, b
      <4>3. a >= e /\ C < Size
        BY <1>s, <3>2, <4>1 DEF e
      <4>4. (IF i >= startIdx' THEN i - startIdx' ELSE i - startIdx' + Size) = a - e
        BY <1>s, <3>3, <3>4, <4>1, <4>3, AheadShift DEF SlotIds
      <4>5. b = a - e
        BY <4>2, <4>4
      <4>6. e = clock - ullStart
        BY <1>s, <3>2, <4>3 DEF e
      <4>7. clock + b = ullStart + a
        BY <1>s, <4>1, <4>5, <4>6
      <4> QED  BY <3>1, <4>7 DEF a, b
    <3> QED  BY <1>s, <3>1, <3>5, <3>6
  <2>2. CASE ~(clock >= ullStart)
    <3>1. ullStart' = ullStart /\ startIdx' = startIdx
      BY <1>a, <2>2
    <3> QED  BY <3>1 DEF TimeTypes, Ahead
  <2> QED  BY <2>1, <2>2
<1> QED  BY <1>3, <1>4, <1>5, <1>6, <1>m DEF Turned

LEMMA LoopWait ==
    ASSUME WaitInv, NEW ready \in SUBSET Registered, co_eventloop(ready)
    PROVE  WaitInv'
<1> DEFINE hit == {epoll[fd] : fd \in ready}
           rest == [i \in DOMAIN wheel |-> Without(wheel[i], hit)]
           late == JoinAll(rest, Due)
<1>i. LinkTypes /\ WheelInv /\ ActiveInv /\ QueueInv /\ PollInv
      /\ TimeTypes /\ LinkedInv /\ DueInv /\ ReasonInv
  BY DEF WaitInv, LinkInv, TimeInv
<1>1. /\ expire' = expire /\ st' = st /\ epoll' = epoll /\ polls' = polls /\ condq' = condq
      /\ clock' = clock /\ active = <<>> /\ toResume' = <<>> /\ now' = clock
      /\ noTimeout' = noTimeout \ hit
  BY DEF co_eventloop, boundVars, GetTickMS
<1>2. /\ raised' = [c \in Co |-> raised[c] \/ c \in hit]
      /\ bTimeout' = [c \in Co |-> bTimeout[c] \/ c \in Range(late)]
      /\ active' = (SetToSeq(hit) \o toResume) \o late
      /\ wheel' = [i \in DOMAIN wheel |-> IF i \in Range(Due) THEN <<>> ELSE rest[i]]
      /\ IF clock >= ullStart
         THEN ullStart' = clock /\ startIdx' = (startIdx + Cnt(clock) - 1) % Size
         ELSE UNCHANGED <<ullStart, startIdx>>
  BY DEF co_eventloop, Join, GetTickMS, Due
<1>h. hit \subseteq Co /\ IsFiniteSet(hit) /\ \A c \in hit : st[c] = "poll" /\ polls[c] # 0
  <2>1. ready \subseteq Fds /\ \A fd \in ready : epoll[fd] # NoCo
    BY DEF Registered
  <2>2. \A fd \in ready : epoll[fd] \in Co /\ st[epoll[fd]] = "poll" /\ polls[epoll[fd]] = fd /\ fd # 0
    BY <1>i, <2>1, CoroutineAssumption DEF LinkTypes, PollInv
  <2>3. IsFiniteSet(ready)
    BY <2>1, FS_Subset, CoroutineAssumption
  <2>4. IsFiniteSet(hit)
    <3> DEFINE f == [fd \in ready |-> epoll[fd]]
    <3>1. f \in Surjection(ready, hit)
      BY DEF Surjection
    <3> HIDE DEF f, hit
    <3> QED  BY <2>3, <3>1, FS_Surjection
  <2> QED  BY <2>2, <2>4
<1>t. /\ wheel' \in [SlotIds -> Seq(Co)]
      /\ \A i \in SlotIds : /\ IsInjective(wheel'[i])
                            /\ i \notin Range(Due) => Range(wheel'[i]) = Range(wheel[i]) \ hit
                            /\ i \in Range(Due) => Range(wheel'[i]) = {}
      /\ late \in Seq(Co) /\ IsInjective(late)
      /\ \A c : c \in Range(late) <=>
            \E i \in SlotIds : i \in Range(Due) /\ c \in Range(wheel[i]) \ hit
      /\ ullStart' \in Nat /\ startIdx' \in SlotIds
      /\ \A i \in SlotIds : i \notin Range(Due) =>
            ullStart' + Ahead(i)' = ullStart + Ahead(i)
      /\ Range(Due) # {} => clock >= ullStart
  <2>1. Turn(hit, rest, late)
    BY <1>2 DEF Turn
  <2> HIDE DEF hit, rest, late
  <2>2. Turned(hit, late)
    BY <1>i, <2>1, TurnFacts
  <2> QED  BY <2>2 DEF Turned
<1> HIDE DEF hit, rest, late
<1>r. Range(toResume) \subseteq Co /\ Range(condq) \subseteq Co /\ noTimeout \subseteq Co
      /\ \A i \in SlotIds : Range(wheel[i]) \subseteq Co
  BY <1>i, LinkRanges
<1>l. \A c \in Range(late) : /\ c \in Co /\ c \notin hit /\ st[c] \in {"poll", "cond"}
                             /\ c \notin noTimeout /\ expire[c] # 0 /\ clock >= ullStart
  BY <1>i, <1>r, <1>t DEF WheelInv, DueInv
<1>q. \A c \in Range(toResume) : st[c] = "parked"
  BY <1>i DEF QueueInv
<1>3. /\ active' \in Seq(Co) /\ IsInjective(active')
      /\ Range(active') = hit \cup Range(toResume) \cup Range(late)
  <2> DEFINE a == SetToSeq(hit)
             b == a \o toResume
  <2>1. a \in Seq(Co) /\ Range(a) = hit /\ IsInjective(a)
    BY <1>h, SetToSeqLink
  <2>2. toResume \in Seq(Co) /\ IsInjective(toResume)
    BY <1>i DEF LinkTypes, QueueInv
  <2> HIDE DEF a
  <2>3. Range(a) \cap Range(toResume) = {}
    BY <1>h, <1>q, <2>1
  <2>4. b \in Seq(Co) /\ Range(b) = hit \cup Range(toResume) /\ IsInjective(b)
    BY <2>1, <2>2, <2>3, ConcatLink
  <2>5. Range(b) \cap Range(late) = {}
    BY <1>l, <1>q, <2>4
  <2>6. active' = b \o late
    BY <1>2 DEF a
  <2> HIDE DEF b
  <2>7. b \o late \in Seq(Co) /\ Range(b \o late) = Range(b) \cup Range(late) /\ IsInjective(b \o late)
    BY <1>t, <2>4, <2>5, ConcatLink
  <2> QED  BY <2>4, <2>6, <2>7
<1>b. /\ bTimeout' \in [Co -> BOOLEAN] /\ raised' \in [Co -> BOOLEAN]
      /\ \A c \in Co : (bTimeout'[c] <=> c \in Range(late)) /\ (c \in hit => raised'[c])
  <2>1. Range(active) = {}
    BY <1>1, EmptyLink
  <2>2. \A c \in Co : ~bTimeout[c]
    BY <1>i, <2>1 DEF ReasonInv
  <2>3. bTimeout' \in [Co -> BOOLEAN] /\ raised' \in [Co -> BOOLEAN]
    BY <1>2, <1>i DEF TimeTypes
  <2>4. \A c \in Co : (bTimeout'[c] <=> c \in Range(late)) /\ (c \in hit => raised'[c])
    BY <1>2, <2>2
  <2> QED  BY <2>3, <2>4
<1>e. toResume' \in Seq(Co) /\ Range(toResume') = {} /\ IsInjective(toResume')
  BY <1>1, EmptyLink
<1>4. LinkTypes' /\ TimeTypes'
  BY <1>1, <1>3, <1>b, <1>e, <1>i, <1>t DEF LinkTypes, TimeTypes
<1>5. WheelInv'
  <2>1. \A i \in SlotIds, c \in Co : c \in Range(wheel'[i]) =>
            i \notin Range(Due) /\ c \in Range(wheel[i]) /\ c \notin hit
    BY <1>t
  <2>2. ASSUME NEW i \in SlotIds, NEW c \in Co, c \in Range(wheel'[i])
        PROVE  st[c] \in {"poll", "cond"} /\ c \notin Range(active') /\ c \notin noTimeout'
    <3>1. st[c] \in {"poll", "cond"} /\ c \notin noTimeout /\ c \notin hit
      BY <1>i, <2>1, <2>2 DEF WheelInv
    <3>2. c \notin Range(late)
      BY <1>i, <1>t, <2>1, <2>2 DEF WheelInv
    <3> QED  BY <1>1, <1>3, <1>q, <3>1, <3>2
  <2>3. ASSUME NEW i \in SlotIds, NEW j \in SlotIds, NEW c \in Co,
               c \in Range(wheel'[i]), c \in Range(wheel'[j])
        PROVE  i = j
    BY <1>i, <2>1, <2>3 DEF WheelInv
  <2> QED  BY <1>1, <1>t, <2>2, <2>3 DEF WheelInv
<1>6. ActiveInv'
  <2>1. ASSUME NEW c \in Range(active')
        PROVE  st[c] \in {"poll", "cond", "parked"} /\ c \notin noTimeout'
    <3>1. CASE c \in hit
      BY <1>1, <1>h, <3>1
    <3>2. CASE c \in Range(toResume)
      BY <1>1, <1>i, <1>q, <3>2 DEF PollInv
    <3>3. CASE c \in Range(late)
      BY <1>1, <1>l, <3>3
    <3> QED  BY <1>3, <2>1, <3>1, <3>2, <3>3
  <2> QED  BY <1>1, <1>3, <1>e, <2>1 DEF ActiveInv
<1>7. QueueInv'
  BY <1>1, <1>e, <1>i DEF QueueInv
<1>8. PollInv'
  BY <1>1, <1>i DEF PollInv
<1>9. LinkedInv'
  <2>1. ASSUME NEW c \in Co, InWheel(c) PROVE InWheel(c)' \/ c \in Range(active')
    <3>1. PICK i \in SlotIds : c \in Range(wheel[i])
      BY <2>1 DEF InWheel
    <3> QED  BY <1>3, <1>t, <3>1 DEF InWheel
  <2>2. \A c \in Co : c \in noTimeout => c \in noTimeout' \/ c \in Range(active')
    BY <1>1, <1>3
  <2>3. Range(active) = {}
    BY <1>1, EmptyLink
  <2> QED  BY <1>1, <1>i, <2>1, <2>2, <2>3 DEF LinkedInv
<1>10. DueInv'
  <2> SUFFICES ASSUME NEW i \in SlotIds, NEW c \in Co, c \in Range(wheel'[i])
               PROVE  expire[c] # 0 /\ ullStart' + Ahead(i)' <= expire[c]
    BY <1>1 DEF DueInv
  <2>1. i \notin Range(Due) /\ c \in Range(wheel[i])
    BY <1>t
  <2> QED  BY <1>i, <1>t, <2>1 DEF DueInv
<1>11. ReasonInv'
  <2>1. ASSUME NEW c \in Range(active')
        PROVE  /\ st[c] = "poll" => raised'[c] \/ bTimeout'[c]
               /\ st[c] = "cond" => c \notin Range(condq) \/ bTimeout'[c]
    <3>1. CASE c \in hit
      BY <1>b, <1>h, <3>1
    <3>2. CASE c \in Range(toResume)
      BY <1>q, <3>2
    <3>3. CASE c \in Range(late)
      BY <1>b, <1>l, <3>3
    <3> QED  BY <1>3, <2>1, <3>1, <3>2, <3>3
  <2>2. ASSUME NEW c \in Co, bTimeout'[c]
        PROVE  /\ now' >= ullStart' /\ expire[c] # 0 /\ c \in Range(active')
               /\ st[c] \in {"poll", "cond"}
    <3>1. c \in Range(late)
      BY <1>b, <2>2
    <3>2. clock >= ullStart /\ expire[c] # 0 /\ st[c] \in {"poll", "cond"}
      BY <1>l, <3>1
    <3>3. ullStart' = clock /\ now' = clock /\ clock \in Nat
      BY <1>1, <1>2, <1>i, <3>2 DEF TimeTypes
    <3>4. now' >= ullStart'
      BY <3>3
    <3> QED  BY <1>3, <3>1, <3>2, <3>4
  <2> QED  BY <1>1, <2>1, <2>2 DEF ReasonInv
<1> QED  BY <1>4, <1>5, <1>6, <1>7, <1>8, <1>9, <1>10, <1>11 DEF WaitInv, LinkInv, TimeInv

-----------------------------------------------------------------------------
(* The invariant.                                                          *)

LEMMA StackFrame ==
    ASSUME StackInv, UNCHANGED <<stackVars, st>>
    PROVE  StackInv'
  BY DEF StackInv, stackVars, StackTypes, CallInv, FramesInv, Live, OccupyInv, RunningInv, Running

LEMMA CoInitInv ==
    ASSUME NEW t \in Nat, CoroutineInit(t)
    PROVE  CoInv
<1> DEFINE first == CHOOSE c \in Co : TRUE
           started == <<first>>
<1>1. RuntimeAt(t, started)
  BY DEF CoroutineInit
<1>2. first \in Co /\ NoCo \notin Co /\ Main \notin Co /\ Stacks \in Nat \ {0} /\ Size \in Nat \ {0}
  BY CoroutineAssumption
<1> HIDE DEF first
<1>3. started \in Seq(Co) /\ Len(started) = 1 /\ started[1] = first /\ Range(started) = {first}
  BY <1>2 DEF Range
<1>4. /\ st = [c \in Co |-> IF c = first THEN "run" ELSE "free"]
      /\ callStack = <<Main>> \o started
      /\ occupy = [s \in StackIds |-> IF s < 1 THEN started[s + 1] ELSE NoCo]
      /\ mem = occupy /\ stackOf = [c \in Co \cup {Main} |-> 0]
      /\ saved = [c \in Co |-> NoCo] /\ allocIdx = 1 % Stacks
  BY <1>1, <1>3 DEF RuntimeAt, co_alloc_sharestack, StackIds
<1>7. callStack \in Seq(Co \cup {Main}) /\ Len(callStack) = 2 /\ callStack[1] = Main /\ callStack[2] = first
  <2>1. <<Main>> \in Seq(Co \cup {Main}) /\ <<first>> \in Seq(Co \cup {Main})
    BY <1>2
  <2>2. callStack = <<Main>> \o <<first>>
    BY <1>4
  <2> QED  BY <2>1, <2>2
<1> HIDE DEF started
<1>5. 0 \in StackIds /\ allocIdx \in StackIds /\ 0 \in SlotIds
  BY <1>2, <1>4, ModFacts DEF StackIds, SlotIds
<1>6. /\ occupy \in [StackIds -> Co \cup {NoCo}] /\ occupy[0] = first
      /\ \A s \in StackIds : s # 0 => occupy[s] = NoCo
  <2>1. \A s \in StackIds : (s < 1 <=> s = 0) /\ s \in Nat
    BY <1>2 DEF StackIds
  <2>2. \A s \in StackIds : occupy[s] = IF s = 0 THEN first ELSE NoCo
    BY <1>3, <1>4, <2>1
  <2>3. DOMAIN occupy = StackIds /\ occupy = [s \in StackIds |-> occupy[s]]
    BY <1>4
  <2>4. \A s \in StackIds : occupy[s] \in Co \cup {NoCo}
    BY <1>2, <2>2
  <2> QED  BY <1>5, <2>2, <2>3, <2>4
<1>8. StackTypes
  <2>1. st \in [Co -> States]
    BY <1>4 DEF States
  <2> QED  BY <1>4, <1>5, <1>6, <1>7, <2>1 DEF StackTypes
<1>9. CallInv
  <2>1. \A i \in 2 .. 2 : i = 2
    OBVIOUS
  <2>2. \A i \in 1 .. 2 : i = 1 \/ i = 2
    OBVIOUS
  <2>3. st[first] = "run"
    BY <1>2, <1>4
  <2> QED  BY <1>2, <1>7, <2>1, <2>2, <2>3 DEF CallInv
<1>10. Running = first
  BY <1>7 DEF Running, Last
<1>11. FramesInv /\ OccupyInv /\ RunningInv
  <2>1. \A c \in Co : stackOf[c] = 0 /\ (Live(c) <=> c = first)
    BY <1>4 DEF Live
  <2>2. st[first] # "free" /\ mem[0] = first
    BY <1>2, <1>4, <1>5, <1>6
  <2> QED  BY <1>2, <1>5, <1>6, <1>10, <2>1, <2>2 DEF FramesInv, OccupyInv, RunningInv
<1>12. /\ wheel = [i \in SlotIds |-> <<>>] /\ noTimeout = {} /\ active = <<>>
       /\ epoll = [fd \in Fds |-> NoCo] /\ condq = <<>> /\ toResume = <<>>
       /\ expire = [c \in Co |-> 0] /\ bTimeout = [c \in Co |-> FALSE]
       /\ raised = [c \in Co |-> FALSE] /\ polls = [c \in Co |-> 0]
       /\ clock = t /\ ullStart = t /\ startIdx = 0 /\ now = t
  BY <1>1 DEF RuntimeAt, AllocEpoll, SlotIds
<1>e. <<>> \in Seq(Co) /\ Range(<<>>) = {} /\ IsInjective(<<>>)
  BY EmptyLink
<1>13. LinkTypes /\ TimeTypes
  <2>1. wheel \in [SlotIds -> Seq(Co)] /\ active \in Seq(Co) /\ condq \in Seq(Co) /\ toResume \in Seq(Co)
    BY <1>12, <1>e
  <2>2. LinkTypes
    BY <1>12, <2>1 DEF LinkTypes
  <2>3. TimeTypes
    BY <1>5, <1>12 DEF TimeTypes
  <2> QED  BY <2>2, <2>3
<1>14. \A i \in SlotIds : wheel[i] = <<>>
  BY <1>12
<1>15. WheelInv /\ ActiveInv /\ QueueInv
  BY <1>12, <1>14, <1>e DEF WheelInv, ActiveInv, QueueInv
<1>s. \A c \in Co : st[c] \notin {"poll", "cond"}
  BY <1>4
<1>16. PollInv
  BY <1>12, <1>s DEF PollInv
<1>17. LinkedInv /\ DueInv /\ ReasonInv
  BY <1>12, <1>14, <1>e, <1>s DEF LinkedInv, DueInv, ReasonInv
<1> QED  BY <1>8, <1>9, <1>11, <1>13, <1>15, <1>16, <1>17 DEF CoInv, StackInv, LinkInv, TimeInv

LEMMA StartInv ==
    ASSUME CoInv, NEW co \in Co, startCoroutine(co)
    PROVE  CoInv'
<1>i. StackInv /\ WaitInv /\ StackTypes
  BY DEF CoInv, WaitInv, StackInv
<1>1. /\ st[co] = "free" /\ st' = [st EXCEPT ![co] = "run"] /\ callStack' = Append(callStack, co)
      /\ co_swap(co, TRUE)
      /\ stackOf' = [stackOf EXCEPT ![co] = allocIdx] /\ allocIdx' = (allocIdx + 1) % Stacks
  BY DEF startCoroutine, co_get_stackmem
<1>2. allocIdx' \in StackIds
  <2>1. Stacks \in Nat \ {0} /\ allocIdx + 1 \in Int
    BY <1>i, CoroutineAssumption DEF StackTypes, StackIds
  <2> QED  BY <1>1, <2>1, ModFacts DEF StackIds
<1>3. stackOf' \in [Co \cup {Main} -> StackIds] /\ \A c \in Co : c # co => stackOf'[c] = stackOf[c]
  BY <1>1, <1>i DEF StackTypes
<1>4. StackInv'
  BY <1>1, <1>2, <1>3, <1>i, EnterInv
<1>5. \A c \in Co : /\ st[c] \in {"poll", "cond", "parked"} => st'[c] = st[c]
                    /\ st'[c] \in {"poll", "cond"} => st'[c] = st[c]
  BY <1>1, <1>i DEF StackTypes
<1>6. UNCHANGED <<timeVars, noTimeout, active, raised, epoll, polls, condq, toResume, now>>
      /\ clock' \in Nat
  BY <1>i DEF startCoroutine, WaitInv, TimeInv, TimeTypes
<1>7. WaitInv'
  BY <1>5, <1>6, <1>i, WaitFrame
<1> QED  BY <1>4, <1>7 DEF CoInv, WaitInv

\* The running coroutine ends, or parks.
LEMMA LeaveInv ==
    ASSUME CoInv, Running # Main, NEW how \in {"ended", "parked"},
           st' = [st EXCEPT ![Running] = how], co_yield_env,
           UNCHANGED <<timeVars, noTimeout, active, raised, epoll, polls, condq, toResume, now, boundVars>>
    PROVE  CoInv'
<1>i. StackInv /\ WaitInv /\ StackTypes /\ CallInv
  BY DEF CoInv, WaitInv, StackInv
<1>1. StackInv'
  <2>1. how \in States \ {"free", "run"}
    BY DEF States
  <2> QED  BY <1>i, <2>1, YieldInv
<1>2. Running \in Co /\ st[Running] = "run"
  BY <1>i, RunningFacts
<1>3. \A c \in Co : /\ st[c] \in {"poll", "cond", "parked"} => st'[c] = st[c]
                    /\ st'[c] \in {"poll", "cond"} => st'[c] = st[c]
  BY <1>2, <1>i DEF StackTypes
<1>4. clock' \in Nat
  BY <1>i DEF boundVars, WaitInv, TimeInv, TimeTypes
<1>5. WaitInv'
  BY <1>3, <1>4, <1>i, WaitFrame
<1> QED  BY <1>1, <1>5 DEF CoInv, WaitInv

LEMMA CoFreeInv ==
    ASSUME CoInv, NEW co \in Co, co_free(co)
    PROVE  CoInv'
<1>i. StackInv /\ WaitInv /\ StackTypes
  BY DEF CoInv, WaitInv, StackInv
<1>1. StackInv'
  BY <1>i, FreeInv
<1>3. \A c \in Co : /\ st[c] \in {"poll", "cond", "parked"} => st'[c] = st[c]
                    /\ st'[c] \in {"poll", "cond"} => st'[c] = st[c]
  BY <1>i DEF co_free, StackTypes
<1>4. UNCHANGED <<timeVars, noTimeout, active, raised, epoll, polls, condq, toResume, now>>
      /\ clock' \in Nat
  BY <1>i DEF co_free, boundVars, WaitInv, TimeInv, TimeTypes
<1>5. WaitInv'
  BY <1>3, <1>4, <1>i, WaitFrame
<1> QED  BY <1>1, <1>5 DEF CoInv, WaitInv

LEMMA LoopResumeInv ==
    ASSUME CoInv, co_resume
    PROVE  CoInv'
<1>i. StackInv /\ WaitInv /\ StackTypes
  BY DEF CoInv, WaitInv, StackInv
<1>1. WaitInv'
  BY <1>i, LoopResumeWait DEF StackTypes
<1> DEFINE co == Head(active)
<1>2. co \in Co /\ st[co] \in {"poll", "cond", "parked"}
  <2>1. active \in Seq(Co) /\ active # <<>> /\ IsInjective(active)
    BY <1>i DEF co_resume, WaitInv, LinkInv, LinkTypes, ActiveInv
  <2>2. co \in Range(active) /\ co \in Co
    BY <2>1, TailLink
  <2> QED  BY <1>i, <2>2 DEF WaitInv, LinkInv, ActiveInv
<1>3. /\ callStack' = Append(callStack, co) /\ st' = [st EXCEPT ![co] = "run"]
      /\ stackOf' = stackOf /\ allocIdx' = allocIdx /\ co_swap(co, FALSE)
  BY DEF co_resume, OnCoroutineEvent
<1> HIDE DEF co
<1>4. Live(co) /\ st[co] # "run"
  BY <1>2 DEF Live
<1>5. stackOf' \in [Co \cup {Main} -> StackIds] /\ allocIdx' \in StackIds
  BY <1>3, <1>i DEF StackTypes
<1>6. StackInv'
  BY <1>2, <1>3, <1>4, <1>5, <1>i, EnterInv
<1> QED  BY <1>1, <1>6 DEF CoInv, WaitInv

LEMMA WaitsInv ==
    ASSUME CoInv, Waits
    PROVE  CoInv'
<1>i. StackInv /\ WaitInv
  BY DEF CoInv, WaitInv
<1>1. PICK t \in Timeouts \cup {0} :
        \/ \E fd \in Fds : co_poll_inner(fd, t)
        \/ t # 0 /\ co_poll_inner(0, t)
        \/ co_cond_timedwait(t)
  BY DEF Waits
<1>2. ASSUME NEW fd \in Fds \cup {0}, fd = 0 => t # 0, co_poll_inner(fd, t) PROVE CoInv'
  <2>1. WaitInv'
    BY <1>2, <1>i, PollWait
  <2>2. Running # Main /\ st' = [st EXCEPT ![Running] = "poll"] /\ co_yield_env
    BY <1>2 DEF co_poll_inner, Await
  <2>3. StackInv'
    BY <1>i, <2>2, YieldInv DEF States
  <2> QED  BY <2>1, <2>3 DEF CoInv, WaitInv
<1>3. CASE co_cond_timedwait(t)
  <2>1. WaitInv'
    BY <1>3, <1>i, CondWait
  <2>2. Running # Main /\ st' = [st EXCEPT ![Running] = "cond"] /\ co_yield_env
    BY <1>3 DEF co_cond_timedwait, Await
  <2>3. StackInv'
    BY <1>i, <2>2, YieldInv DEF States
  <2> QED  BY <2>1, <2>3 DEF CoInv, WaitInv
<1>4. 0 \notin Fds
  BY CoroutineAssumption
<1> QED  BY <1>1, <1>2, <1>3, <1>4

LEMMA ClockInv ==
    ASSUME CoInv, Tick \/ SetBack
    PROVE  CoInv'
<1>i. StackInv /\ WaitInv
  BY DEF CoInv, WaitInv
<1>1. UNCHANGED <<stackVars, timeVars, waitVars, now>>
  BY DEF Tick, SetBack
<1>2. clock' \in Nat
  BY <1>i DEF Tick, SetBack, WaitInv, TimeInv, TimeTypes
<1>3. StackInv'
  BY <1>1, <1>i, StackFrame DEF waitVars
<1>4. WaitInv'
  BY <1>1, <1>2, <1>i, WaitFrame DEF waitVars
<1> QED  BY <1>3, <1>4 DEF CoInv, WaitInv

LEMMA CoStepInv ==
    ASSUME CoInv, [CoroutineNext]_coVars
    PROVE  CoInv'
<1>i. StackInv /\ WaitInv
  BY DEF CoInv, WaitInv
<1>1. ASSUME NEW co \in Co, startCoroutine(co) PROVE CoInv'
  BY <1>1, StartInv
<1>2. ASSUME NEW co \in Co, co_free(co) PROVE CoInv'
  BY <1>2, CoFreeInv
<1>3. ASSUME NEW co \in Co, resumeCoroutine(co) PROVE CoInv'
  <2>1. StackInv'
    BY <1>3, <1>i, StackFrame DEF resumeCoroutine
  <2> QED  BY <1>3, <1>i, <2>1, ResumeWait DEF CoInv, WaitInv
<1>4. CASE End
  BY <1>4, LeaveInv DEF End
<1>5. CASE Park
  BY <1>5, LeaveInv DEF Park, co_yield_ct
<1>6. CASE co_resume
  BY <1>6, LoopResumeInv
<1>7. ASSUME NEW ready \in SUBSET Registered, co_eventloop(ready) PROVE CoInv'
  <2>1. StackInv'
    BY <1>7, <1>i, StackFrame DEF co_eventloop
  <2> QED  BY <1>7, <1>i, <2>1, LoopWait DEF CoInv, WaitInv
<1>8. CASE Waits
  BY <1>8, WaitsInv
<1>9. CASE AddAgain
  <2>1. StackInv'
    BY <1>9, <1>i, StackFrame DEF AddAgain
  <2> QED  BY <1>9, <1>i, <2>1, AddAgainWait DEF CoInv, WaitInv
<1>10. CASE Tick \/ SetBack
  BY <1>10, ClockInv
<1>11. ASSUME NEW all \in BOOLEAN, Signal(all) PROVE CoInv'
  <2>1. StackInv'
    BY <1>11, <1>i, StackFrame DEF Signal
  <2> QED  BY <1>11, <1>i, <2>1, SignalWait DEF CoInv, WaitInv
<1>12. CASE UNCHANGED coVars
  <2>1. UNCHANGED <<stackVars, timeVars, waitVars, now, clock>>
    BY <1>12 DEF coVars, boundVars
  <2>2. StackInv'
    BY <1>i, <2>1, StackFrame DEF waitVars
  <2>3. clock' \in Nat
    BY <1>i, <2>1 DEF WaitInv, TimeInv, TimeTypes
  <2>4. WaitInv'
    BY <1>i, <2>1, <2>3, WaitFrame DEF waitVars
  <2> QED  BY <2>2, <2>4 DEF CoInv, WaitInv
<1> QED  BY <1>1, <1>2, <1>3, <1>4, <1>5, <1>6, <1>7, <1>8, <1>9, <1>10, <1>11, <1>12
            DEF CoroutineNext, SwitchNext, WaitNext

-----------------------------------------------------------------------------
(* What it gives.                                                          *)

LEMMA CoInvStack ==
    ASSUME CoInv
    PROVE  StackIntact
<1>i. StackTypes /\ CallInv /\ FramesInv /\ OccupyInv /\ RunningInv
  BY DEF CoInv, StackInv
<1>1. Running # Main => mem[stackOf[Running]] = Running
  <2> SUFFICES ASSUME Running # Main PROVE mem[stackOf[Running]] = Running
    OBVIOUS
  <2>1. Running \in Co /\ Live(Running)
    BY <1>i, RunningFacts DEF Live
  <2> QED  BY <1>i, <2>1 DEF RunningInv, FramesInv
<1>2. DOMAIN occupy = StackIds
  BY <1>i DEF StackTypes
<1> QED  BY <1>1, <1>2, <1>i DEF StackIntact, OccupyInv

\* A coroutine has one place in a link that it is in.
LEMMA OnePlace ==
    ASSUME NEW link \in Seq(Co), IsInjective(link), NEW co
    PROVE  /\ co \in Range(link) => \E k : Places(link, co) = {k}
           /\ co \notin Range(link) => Places(link, co) = {}
<1>1. ASSUME co \in Range(link) PROVE \E k : Places(link, co) = {k}
  <2>1. PICK k \in DOMAIN link : link[k] = co
    BY <1>1 DEF Range
  <2>2. \A l \in DOMAIN link : link[l] = co => l = k
    BY <2>1 DEF IsInjective
  <2>3. Places(link, co) = {k}
    BY <2>1, <2>2 DEF Places
  <2> QED  BY <2>3
<1>2. ASSUME co \notin Range(link) PROVE Places(link, co) = {}
  BY <1>2 DEF Range, Places
<1> QED  BY <1>1, <1>2

LEMMA LinksFacts ==
    ASSUME CoInv, NEW co \in Co
    PROVE  Links(co) = IF co \in Range(active) \/ InWheel(co) \/ co \in noTimeout THEN 1 ELSE 0
<1>i. LinkTypes /\ WheelInv /\ ActiveInv
  BY DEF CoInv, LinkInv
<1>w. /\ active \in Seq(Co) /\ IsInjective(active) /\ DOMAIN wheel = SlotIds
      /\ \A i \in SlotIds : wheel[i] \in Seq(Co) /\ IsInjective(wheel[i])
  BY <1>i DEF LinkTypes, WheelInv, ActiveInv
<1> DEFINE A == Places(active, co)
           B == UNION {{i} \X Places(wheel[i], co) : i \in SlotIds}
           a == Cardinality(A)
           b == Cardinality(B)
<1>1. Links(co) = a + b + (IF co \in noTimeout THEN 1 ELSE 0)
  BY <1>w DEF Links
<1>2. (co \in Range(active) => a = 1) /\ (co \notin Range(active) => a = 0)
  <2>1. (co \in Range(active) => \E k : A = {k}) /\ (co \notin Range(active) => A = {})
    BY <1>w, OnePlace
  <2> HIDE DEF A
  <2> QED  BY <2>1, FS_Singleton, FS_EmptySet
<1>3. (InWheel(co) => b = 1) /\ (~InWheel(co) => b = 0)
  <2>1. \A i \in SlotIds : /\ co \in Range(wheel[i]) => \E k : Places(wheel[i], co) = {k}
                           /\ co \notin Range(wheel[i]) => Places(wheel[i], co) = {}
    BY <1>w, OnePlace
  <2>2. ASSUME InWheel(co) PROVE b = 1
    <3>1. PICK j \in SlotIds : co \in Range(wheel[j])
      BY <2>2 DEF InWheel
    <3>2. PICK k : Places(wheel[j], co) = {k}
      BY <2>1, <3>1
    <3>3. \A i \in SlotIds : i # j => Places(wheel[i], co) = {}
      BY <1>i, <2>1, <3>1 DEF WheelInv
    <3>4. B = {<<j, k>>}
      <4>1. ASSUME NEW x \in B PROVE x = <<j, k>>
        <5>1. PICK i \in SlotIds : x \in {i} \X Places(wheel[i], co)
          BY <4>1
        <5>2. i = j
          BY <3>3, <5>1
        <5> QED  BY <3>2, <5>1, <5>2
      <4>2. <<j, k>> \in B
        <5>1. <<j, k>> \in {j} \X Places(wheel[j], co)
          BY <3>2
        <5> QED  BY <5>1
      <4> QED  BY <4>1, <4>2
    <3> HIDE DEF B
    <3> QED  BY <3>4, FS_Singleton
  <2>3. ASSUME ~InWheel(co) PROVE b = 0
    <3>1. \A i \in SlotIds : Places(wheel[i], co) = {}
      BY <2>1, <2>3 DEF InWheel
    <3>2. B = {}
      BY <3>1
    <3> HIDE DEF B
    <3> QED  BY <3>2, FS_EmptySet
  <2> QED  BY <2>2, <2>3
<1>4. /\ co \in Range(active) => ~InWheel(co) /\ co \notin noTimeout
      /\ InWheel(co) => co \notin noTimeout
  BY <1>i DEF WheelInv, ActiveInv, InWheel
<1> HIDE DEF a, b
<1>5. CASE co \in Range(active)
  BY <1>1, <1>2, <1>3, <1>4, <1>5
<1>6. CASE InWheel(co)
  BY <1>1, <1>2, <1>3, <1>4, <1>6
<1>7. CASE co \notin Range(active) /\ ~InWheel(co)
  BY <1>1, <1>2, <1>3, <1>7
<1> QED  BY <1>5, <1>6, <1>7

LEMMA CoInvLinked ==
    ASSUME CoInv
    PROVE  WaitsAreLinked
<1>i. StackInv /\ WaitInv /\ LinkTypes /\ TimeTypes /\ PollInv /\ QueueInv /\ WheelInv /\ ActiveInv
      /\ LinkedInv /\ DueInv
  BY DEF CoInv, WaitInv, LinkInv, TimeInv
<1>w. DOMAIN wheel = SlotIds /\ noTimeout \subseteq Co
  BY <1>i DEF LinkTypes
<1> SUFFICES ASSUME NEW co \in Co
             PROVE  /\ st[co] \in {"run", "ended", "free"} => Links(co) = 0 /\ co \notin Range(condq)
                    /\ st[co] = "poll" => Links(co) = 1
                    /\ st[co] = "cond" =>
                          IF expire[co] # 0 \/ co \notin Range(condq) THEN Links(co) = 1
                          ELSE Links(co) = 0
                    /\ \A i \in DOMAIN wheel : co \in Range(wheel[i]) =>
                          ullStart + ((i - startIdx) % Size) <= expire[co]
                    /\ co \in noTimeout => epoll[polls[co]] = co
  BY DEF WaitsAreLinked
<1>l. Links(co) = IF co \in Range(active) \/ InWheel(co) \/ co \in noTimeout THEN 1 ELSE 0
  BY LinksFacts
<1>1. ASSUME st[co] \in {"run", "ended", "free"} PROVE Links(co) = 0 /\ co \notin Range(condq)
  BY <1>1, <1>i, <1>l, NotWaiting
<1>2. ASSUME st[co] = "poll" PROVE Links(co) = 1
  BY <1>2, <1>i, <1>l DEF LinkedInv
<1>3. ASSUME st[co] = "cond", expire[co] # 0 \/ co \notin Range(condq) PROVE Links(co) = 1
  BY <1>3, <1>i, <1>l DEF LinkedInv
<1>4. ASSUME st[co] = "cond", ~(expire[co] # 0 \/ co \notin Range(condq)) PROVE Links(co) = 0
  <2>1. ~InWheel(co)
    BY <1>4, <1>i DEF DueInv, InWheel
  <2>2. co \notin noTimeout
    BY <1>4, <1>i DEF PollInv
  <2>3. co \notin Range(active)
    BY <1>4, <1>i DEF CoInv, TimeInv, ReasonInv
  <2> QED  BY <1>l, <2>1, <2>2, <2>3
<1>5. ASSUME NEW i \in DOMAIN wheel, co \in Range(wheel[i])
      PROVE  ullStart + ((i - startIdx) % Size) <= expire[co]
  <2>1. i \in SlotIds /\ ullStart + Ahead(i) <= expire[co]
    BY <1>5, <1>i, <1>w DEF DueInv
  <2>2. Size \in Nat \ {0} /\ startIdx \in 0 .. Size - 1 /\ i \in 0 .. Size - 1
    BY <1>i, <2>1, CoroutineAssumption DEF TimeTypes, SlotIds
  <2> DEFINE d == i - startIdx
  <2>3. d \in Int /\ (d \in 0 .. Size - 1 \/ d \in -Size .. -1) /\ (i >= startIdx <=> d \in 0 .. Size - 1)
    BY <2>2
  <2>4. Ahead(i) = IF d \in 0 .. Size - 1 THEN d ELSE d + Size
    BY <2>3 DEF Ahead
  <2>5. (\A x \in 0 .. Size - 1 : x % Size = x) /\ (\A x \in -Size .. -1 : x % Size = x + Size)
    BY ONLY <2>2, ModFacts
  <2> HIDE DEF d
  <2>6. Ahead(i) = d % Size
    BY <2>3, <2>4, <2>5
  <2> QED  BY <2>1, <2>6 DEF d
<1>6. ASSUME co \in noTimeout PROVE epoll[polls[co]] = co
  BY <1>6, <1>i DEF PollInv
<1> QED  BY <1>1, <1>2, <1>3, <1>4, <1>5, <1>6

\* Only the event loop runs a coroutine that waits, and what it has found is why.
LEMMA CoStepReason ==
    ASSUME CoInv, CoroutineNext, NEW co \in Co, st[co] \in {"poll", "cond"}, st'[co] = "run"
    PROVE  /\ st[co] = "poll" => raised[co] \/ (expire[co] # 0 /\ expire[co] <= now)
           /\ st[co] = "cond" => co \notin Range(condq) \/ (expire[co] # 0 /\ expire[co] <= now)
<1>i. StackTypes /\ CallInv /\ LinkTypes /\ ActiveInv /\ TimeTypes /\ ReasonInv
  BY DEF CoInv, StackInv, LinkInv, TimeInv
<1>r. Running # Main => Running \in Co /\ st[Running] = "run"
  BY <1>i, RunningFacts
<1>1. ASSUME NEW c \in Co, startCoroutine(c) \/ co_free(c) \/ resumeCoroutine(c) PROVE FALSE
  BY <1>1, <1>i DEF startCoroutine, co_free, resumeCoroutine, StackTypes
<1>2. ~(End \/ Park)
  BY <1>i, <1>r DEF End, Park, StackTypes
<1>3. ASSUME NEW ready \in SUBSET Registered, co_eventloop(ready) PROVE FALSE
  BY <1>3 DEF co_eventloop
<1>4. ~Waits
  <2> SUFFICES ASSUME Waits PROVE FALSE
    OBVIOUS
  <2>1. PICK t \in Timeouts \cup {0} :
          \/ \E fd \in Fds : co_poll_inner(fd, t)
          \/ t # 0 /\ co_poll_inner(0, t)
          \/ co_cond_timedwait(t)
    BY DEF Waits
  <2>2. Running # Main /\ \E how \in {"poll", "cond"} : st' = [st EXCEPT ![Running] = how]
    BY <2>1 DEF co_poll_inner, co_cond_timedwait, Await
  <2> QED  BY <1>i, <1>r, <2>2 DEF StackTypes
<1>5. ~(AddAgain \/ Tick \/ SetBack \/ \E all \in BOOLEAN : Signal(all))
  BY DEF AddAgain, Tick, SetBack, Signal, waitVars
<1>6. co_resume
  BY <1>1, <1>2, <1>3, <1>4, <1>5 DEF CoroutineNext, SwitchNext, WaitNext
<1>7. co = Head(active) /\ ~TooEarly(co)
  BY <1>6, <1>i DEF co_resume, OnCoroutineEvent, StackTypes
<1>8. co \in Range(active)
  <2>1. active \in Seq(Co) /\ active # <<>> /\ IsInjective(active)
    BY <1>6, <1>i DEF co_resume, LinkTypes, ActiveInv
  <2> QED  BY <1>7, <2>1, TailLink
<1>9. bTimeout[co] => expire[co] # 0 /\ expire[co] <= now
  <2> SUFFICES ASSUME bTimeout[co] PROVE expire[co] # 0 /\ expire[co] <= now
    OBVIOUS
  <2>1. now >= ullStart /\ expire[co] # 0
    BY <1>i DEF ReasonInv
  <2>2. ~(now < expire[co] /\ now >= ullStart /\ expire[co] >= now)
    BY <1>7 DEF TooEarly, CanAddTimeout
  <2>3. now \in Nat /\ ullStart \in Nat /\ expire[co] \in Nat
    BY <1>i DEF TimeTypes
  <2> QED  BY <2>1, <2>2, <2>3
<1> QED  BY <1>8, <1>9, <1>i DEF ReasonInv

\* The inductive invariant holds throughout: stacks, links and times agree after
\* every step of co_eventloop(), of a coroutine and of what they call.
THEOREM CoInductive == CoSpec => []CoInv
<1>1. (\E t \in Nat : CoroutineInit(t)) => CoInv
  BY CoInitInv
<1>2. CoInv /\ [CoroutineNext]_coVars => CoInv'
  BY CoStepInv
<1> QED  BY <1>1, <1>2, PTL DEF CoSpec

\* StackIntact holds for any number of coroutines, stacks, slots and waits: a
\* coroutine that co_swap() switches to finds the frames it left, whoever used
\* its stack since.
THEOREM CoroutineStacks == CoSpec => []StackIntact
<1>1. CoInv => StackIntact
  BY CoInvStack
<1> QED  BY <1>1, CoInductive, PTL

\* WaitsAreLinked holds: what waits is in exactly one link, in a slot of the
\* wheel that co_eventloop() empties in time.
THEOREM CoroutineWaits == CoSpec => []WaitsAreLinked
<1>1. CoInv => WaitsAreLinked
  BY CoInvLinked
<1> QED  BY <1>1, CoInductive, PTL

\* EndsForAReason holds: co_eventloop() resumes no coroutine before its time
\* that was neither signalled nor found ready.
THEOREM CoroutineReasons == CoSpec => EndsForAReason
<1>1. CoInv /\ [CoroutineNext]_coVars =>
        [\A co \in Co :
         /\ st[co] = "poll" /\ st'[co] = "run" =>
                raised[co] \/ (expire[co] # 0 /\ expire[co] <= now)
         /\ st[co] = "cond" /\ st'[co] = "run" =>
                co \notin Range(condq) \/ (expire[co] # 0 /\ expire[co] <= now)]_coVars
  BY CoStepReason
<1> QED  BY <1>1, CoInductive, PTL DEF CoSpec, EndsForAReason
=============================================================================
