----------------------------- MODULE Condition -----------------------------
(***************************************************************************)
(* corpc::Condition (corpc_condition.h, corpc_condition.cpp), a condition  *)
(* variable across threads, used the usual way: a consumer that finds no   *)
(* item waits with the mutex held and tests again when it wakes up; a      *)
(* producer adds an item with the mutex held and calls signal() or         *)
(* broadcast() before or after it unlocks.                                 *)
(*                                                                         *)
(* While res_ is 1 one coroutine works on waitRoutines_ and the others     *)
(* spin.  A consumer can be resumed before it has yielded: it is then      *)
(* queued on its own thread and goes on after the yield.  The mutex is     *)
(* taken at its specification, a lock with one owner.                      *)
(***************************************************************************)
EXTENDS Integers, Sequences, SequencesExt, FiniteSets

CONSTANTS
    Consumer,
    Producer,
    NoOwner

ASSUME ConditionAssumption ==
    /\ IsFiniteSet(Consumer) /\ IsFiniteSet(Producer) /\ Consumer \cap Producer = {}
    /\ NoOwner \notin Consumer \cup Producer

VARIABLES
    condRes,          \* res_
    condWaitRoutines, \* waitRoutines_
    condPc,           \* where each coroutine is
    info,             \* the sleepers a producer has taken and has yet to resume
    resumed,          \* consumers queued to run again
    owner,            \* the owner of the mutex
    items,            \* what the mutex protects
    condLeft          \* rounds to go

cond == <<condRes, condWaitRoutines, info, resumed>>
condVars == <<cond, condPc, owner, items, condLeft>>

CondCo == Consumer \cup Producer

\* rounds: items each consumer takes and each producer adds.
CondInit(rounds) ==
    /\ condRes = 0
    /\ condWaitRoutines = <<>>
    /\ condPc = [c \in CondCo |-> "idle"]
    /\ info = [p \in Producer |-> <<>>]
    /\ resumed = {}
    /\ owner = NoOwner
    /\ items = 0
    /\ condLeft = rounds

CondGoTo(c, from, to) == condPc[c] = from /\ condPc' = [condPc EXCEPT ![c] = to]

Acquire(c) == owner = NoOwner /\ owner' = c

\* compare_exchange(0, 1)
CondClaim(c, from, to) ==
    /\ condRes = 0
    /\ condRes' = 1
    /\ CondGoTo(c, from, to)
    /\ UNCHANGED <<condWaitRoutines, info, resumed, owner, items, condLeft>>

-----------------------------------------------------------------------------
(* The consumer, and wait()                                                *)

Lock(c) ==
    /\ condLeft[c] > 0
    /\ CondGoTo(c, "idle", "test")
    /\ Acquire(c)
    /\ UNCHANGED <<cond, items, condLeft>>

Take(c) ==
    /\ items > 0
    /\ CondGoTo(c, "test", "idle")
    /\ items' = items - 1
    /\ condLeft' = [condLeft EXCEPT ![c] = @ - 1]
    /\ owner' = NoOwner
    /\ UNCHANGED cond

WaitClaim(c) ==
    /\ items = 0
    /\ CondClaim(c, "test", "push")

WaitPush(c) ==
    /\ CondGoTo(c, "push", "release")
    /\ condWaitRoutines' = Append(condWaitRoutines, c)
    /\ UNCHANGED <<condRes, info, resumed, owner, items, condLeft>>

WaitRelease(c) ==
    /\ CondGoTo(c, "release", "unlock")
    /\ condRes' = 0
    /\ UNCHANGED <<condWaitRoutines, info, resumed, owner, items, condLeft>>

\* lock.unlock() and the yield.
WaitYield(c) ==
    /\ CondGoTo(c, "unlock", "asleep")
    /\ owner' = NoOwner
    /\ UNCHANGED <<cond, items, condLeft>>

\* The coroutine runs again, and wait() returns once it has the mutex.
Relock(c) ==
    /\ c \in resumed
    /\ CondGoTo(c, "asleep", "test")
    /\ Acquire(c)
    /\ resumed' = resumed \ {c}
    /\ UNCHANGED <<condRes, condWaitRoutines, info, items, condLeft>>

-----------------------------------------------------------------------------
(* The producer, signal() and broadcast()                                  *)

\* Add an item; signal with or without the mutex.
Produce(p) ==
    /\ condLeft[p] > 0 /\ owner = NoOwner
    /\ items' = items + 1
    /\ condLeft' = [condLeft EXCEPT ![p] = @ - 1]
    /\ owner' \in {p, NoOwner}
    /\ \E call \in {"signal", "broadcast"} : CondGoTo(p, "idle", call)
    /\ UNCHANGED cond

\* The call returns; a producer that still has the mutex unlocks it.
Done(p) == owner' = IF owner = p THEN NoOwner ELSE owner

SignalClaim(p) == CondClaim(p, "signal", "one") \/ CondClaim(p, "broadcast", "all")

SignalEmpty(p) ==
    /\ condWaitRoutines = <<>>
    /\ CondGoTo(p, "one", "idle") \/ CondGoTo(p, "all", "idle")
    /\ condRes' = 0
    /\ Done(p)
    /\ UNCHANGED <<condWaitRoutines, info, resumed, items, condLeft>>

\* Mutation: the sleeper is looked at and not removed.
SignalOneMutant(p) ==
    /\ condWaitRoutines # <<>>
    /\ CondGoTo(p, "one", "store")
    /\ info' = [info EXCEPT ![p] = <<Head(condWaitRoutines)>>]
    /\ UNCHANGED <<condRes, condWaitRoutines, resumed, owner, items, condLeft>>

SignalOne(p) ==
    /\ condWaitRoutines # <<>>
    /\ CondGoTo(p, "one", "store")
    /\ info' = [info EXCEPT ![p] = <<Head(condWaitRoutines)>>]
    /\ condWaitRoutines' = Tail(condWaitRoutines)
    /\ UNCHANGED <<condRes, resumed, owner, items, condLeft>>

SignalAll(p) ==
    /\ condWaitRoutines # <<>>
    /\ CondGoTo(p, "all", "store")
    /\ info' = [info EXCEPT ![p] = condWaitRoutines]
    /\ condWaitRoutines' = <<>>
    /\ UNCHANGED <<condRes, resumed, owner, items, condLeft>>

SignalStore(p) ==
    /\ CondGoTo(p, "store", "resume")
    /\ condRes' = 0
    /\ UNCHANGED <<condWaitRoutines, info, resumed, owner, items, condLeft>>

\* Mutation: only the first of the sleepers that broadcast() took is resumed.
ResumeMutant(p) ==
    /\ condPc[p] = "resume" /\ info[p] # <<>>
    /\ resumed' = resumed \cup {Head(info[p])}
    /\ info' = [info EXCEPT ![p] = <<>>]
    /\ UNCHANGED <<condRes, condWaitRoutines, condPc, owner, items, condLeft>>

\* resumeCoroutine() of the next one.
Resume(p) ==
    /\ condPc[p] = "resume" /\ info[p] # <<>>
    /\ resumed' = resumed \cup {Head(info[p])}
    /\ info' = [info EXCEPT ![p] = Tail(@)]
    /\ UNCHANGED <<condRes, condWaitRoutines, condPc, owner, items, condLeft>>

SignalReturn(p) ==
    /\ info[p] = <<>>
    /\ CondGoTo(p, "resume", "idle")
    /\ Done(p)
    /\ UNCHANGED <<cond, items, condLeft>>

-----------------------------------------------------------------------------

Consume(c) ==
    \/ Lock(c) \/ Take(c) \/ WaitClaim(c) \/ WaitPush(c) \/ WaitRelease(c)
    \/ WaitYield(c) \/ Relock(c)

Signal(p) ==
    \/ SignalClaim(p) \/ SignalEmpty(p) \/ SignalOne(p) \/ SignalAll(p)
    \/ SignalStore(p) \/ Resume(p) \/ SignalReturn(p)

CondNext == (\E c \in Consumer : Consume(c)) \/ (\E p \in Producer : Produce(p) \/ Signal(p))

\* Every thread keeps executing; nothing is assumed about who gets the mutex.
CondFairness ==
    /\ \A c \in Consumer : WF_condVars(Consume(c))
    /\ \A p \in Producer : WF_condVars(Produce(p) \/ Signal(p))

-----------------------------------------------------------------------------
(* What the condition variable promises.                                   *)

CondPlaces == {"idle", "test", "push", "release", "unlock", "asleep", "signal",
           "broadcast", "one", "all", "store", "resume"}

\* res_ is 1 exactly while a coroutine works on the list.
CondTypeOK ==
    /\ condRes \in 0..1
    /\ condWaitRoutines \in Seq(Consumer)
    /\ condPc \in [CondCo -> CondPlaces]
    /\ info \in [Producer -> Seq(Consumer)]
    /\ resumed \subseteq Consumer
    /\ owner \in CondCo \cup {NoOwner}
    /\ items \in Nat
    /\ condLeft \in [CondCo -> Nat]
    /\ condRes = 1 <=> \E c \in CondCo : condPc[c] \in {"push", "release", "one", "all", "store"}

\* A coroutine that waits is in the list, or in the hands of one producer, or
\* queued to run; nobody else is.  So nobody is resumed twice or forgotten.
InOnePlace ==
    \A c \in Consumer :
        LET places == {<<"list", i>> : i \in {j \in DOMAIN condWaitRoutines :
                                                 condWaitRoutines[j] = c}}
              \cup (UNION {{<<p, i>> : i \in {j \in DOMAIN info[p] : info[p][j] = c}}
                            : p \in Producer})
              \cup {<<"resumed", 0>> : d \in resumed \cap {c}}
        IN  Cardinality(places) = IF condPc[c] \in {"release", "unlock", "asleep"} THEN 1 ELSE 0

\* No signal is missed: while somebody waits there are no more items than
\* signals under way and consumers that are awake.
NoMissedSignal ==
    condWaitRoutines # <<>> =>
        items <= Cardinality(
            {p \in Producer : condPc[p] \in {"signal", "broadcast", "one", "all"}}
            \cup {c \in Consumer : condPc[c] \in {"test", "push"} \/ c \in resumed
                     \/ \E p \in Producer : c \in ToSet(info[p])})

\* Nobody who waits is forgotten, by the list or by a signal.
WaitersKept == CondTypeOK /\ InOnePlace /\ NoMissedSignal

\* With as many items as rounds, every consumer gets its items.
AllServed == <>(\A c \in CondCo : condPc[c] = "idle" /\ condLeft[c] = 0)
=============================================================================
