------------------------------ MODULE RWMutex ------------------------------
(***************************************************************************)
(* corpc::RWMutex (corpc_rwmutex.h, corpc_rwmutex.cpp), after Go's         *)
(* sync.RWMutex.  One step is one access to readerCount_ or readerWait_,   *)
(* or one operation of wlock_, readerSem_ or writerSem_.  Those three are  *)
(* taken at their specifications: a lock with one owner, and a counter     *)
(* with a FIFO of sleepers (SemaphoreSpec).                                *)
(*                                                                         *)
(* A permit of readerSem_ has no name on it: a reader that arrives late    *)
(* can take the one that unlock() posted for an earlier reader.            *)
(***************************************************************************)
EXTENDS Integers, Sequences, FiniteSets

CONSTANTS
    Reader,     \* coroutines that call rlock() and runlock()
    Writer,     \* coroutines that call lock() and unlock()
    MaxReaders, \* RWMUTEXMAXREADERS (2^30)
    NoWriter

ASSUME RWMutexAssumption ==
    /\ IsFiniteSet(Reader) /\ IsFiniteSet(Writer) /\ Reader \cap Writer = {}
    /\ MaxReaders \in Nat /\ MaxReaders > Cardinality(Reader)
    /\ NoWriter \notin Writer

VARIABLES
    readerCount, \* readerCount_: readers, less MaxReaders while a writer is in
    readerWait,  \* readerWait_: readers the writer still waits for
    wlock,       \* the owner of wlock_
    readerSem,   \* readerSem_
    writerSem,   \* writerSem_
    rwPc,        \* where each coroutine is
    rwR          \* the local r of each writer

rwVars == <<readerCount, readerWait, wlock, readerSem, writerSem, rwPc, rwR>>

RWCo == Reader \cup Writer

EmptySem == [count |-> 0, queue |-> <<>>]

RWInit ==
    /\ readerCount = 0
    /\ readerWait = 0
    /\ wlock = NoWriter
    /\ readerSem = EmptySem
    /\ writerSem = EmptySem
    /\ rwPc = [c \in RWCo |-> "idle"]
    /\ rwR = [w \in Writer |-> 0]

RWGoTo(c, from, to) == rwPc[c] = from /\ rwPc' = [rwPc EXCEPT ![c] = to]

\* Semaphore::wait(): take a permit, or go to sleep.
Wait(c, sem, from, asleep, to) ==
    \/ /\ sem.count > 0
       /\ RWGoTo(c, from, to)
       /\ sem' = [sem EXCEPT !.count = @ - 1]
    \/ /\ sem.count = 0
       /\ RWGoTo(c, from, asleep)
       /\ sem' = [sem EXCEPT !.queue = Append(@, c)]

\* Semaphore::post(): wake the first sleeper, which then goes on at awake, or
\* leave a permit.
Post(c, sem, to, awake) ==
    \/ /\ sem.queue = <<>>
       /\ rwPc' = [rwPc EXCEPT ![c] = to]
       /\ sem' = [sem EXCEPT !.count = @ + 1]
    \/ /\ sem.queue # <<>>
       /\ rwPc' = [rwPc EXCEPT ![c] = to, ![Head(sem.queue)] = awake]
       /\ sem' = [sem EXCEPT !.queue = Tail(@)]

-----------------------------------------------------------------------------
(* lock() and unlock()                                                     *)

LockWriters(w) ==
    /\ wlock = NoWriter
    /\ RWGoTo(w, "idle", "announce")
    /\ wlock' = w
    /\ UNCHANGED <<readerCount, readerWait, readerSem, writerSem, rwR>>

Announce(w) ==
    /\ RWGoTo(w, "announce", IF readerCount # 0 THEN "count" ELSE "writing")
    /\ rwR' = [rwR EXCEPT ![w] = readerCount]
    /\ readerCount' = readerCount - MaxReaders
    /\ UNCHANGED <<readerWait, wlock, readerSem, writerSem>>

\* Mutation: the writer waits although the last reader has left already.
CountReadersMutant(w) ==
    /\ RWGoTo(w, "count", "wait")
    /\ readerWait' = readerWait + rwR[w]
    /\ UNCHANGED <<readerCount, wlock, readerSem, writerSem, rwR>>

CountReaders(w) ==
    /\ RWGoTo(w, "count", IF readerWait + rwR[w] # 0 THEN "wait" ELSE "writing")
    /\ readerWait' = readerWait + rwR[w]
    /\ UNCHANGED <<readerCount, wlock, readerSem, writerSem, rwR>>

WaitReaders(w) ==
    /\ Wait(w, writerSem, "wait", "wasleep", "writing")
    /\ UNCHANGED <<readerCount, readerWait, wlock, readerSem, rwR>>

Unlock(w) ==
    /\ RWGoTo(w, "writing", IF readerCount >= 0 THEN "abort" ELSE "post")
    /\ rwR' = [rwR EXCEPT ![w] = readerCount + MaxReaders]
    /\ readerCount' = readerCount + MaxReaders
    /\ UNCHANGED <<readerWait, wlock, readerSem, writerSem>>

PostReader(w) ==
    /\ rwPc[w] = "post" /\ rwR[w] > 0
    /\ Post(w, readerSem, "post", "reading")
    /\ rwR' = [rwR EXCEPT ![w] = @ - 1]
    /\ UNCHANGED <<readerCount, readerWait, wlock, writerSem>>

UnlockWriters(w) ==
    /\ rwR[w] = 0
    /\ RWGoTo(w, "post", "idle")
    /\ wlock' = NoWriter
    /\ UNCHANGED <<readerCount, readerWait, readerSem, writerSem, rwR>>

-----------------------------------------------------------------------------
(* rlock() and runlock()                                                   *)

\* Mutation: the reader does not wait for an announced writer.
RLockMutant(c) ==
    /\ RWGoTo(c, "idle", "reading")
    /\ readerCount' = readerCount + 1
    /\ UNCHANGED <<readerWait, wlock, readerSem, writerSem, rwR>>

RLock(c) ==
    /\ RWGoTo(c, "idle",
            IF readerCount = -1 \/ readerCount >= MaxReaders - 1 THEN "abort"
            ELSE IF readerCount < 0 THEN "rwait" ELSE "reading")
    /\ readerCount' = readerCount + 1
    /\ UNCHANGED <<readerWait, wlock, readerSem, writerSem, rwR>>

RWait(c) ==
    /\ Wait(c, readerSem, "rwait", "rasleep", "reading")
    /\ UNCHANGED <<readerCount, readerWait, wlock, writerSem, rwR>>

RUnlock(c) ==
    /\ RWGoTo(c, "reading",
            IF readerCount \in {0, -MaxReaders} THEN "abort"
            ELSE IF readerCount < 0 THEN "leave" ELSE "idle")
    /\ readerCount' = readerCount - 1
    /\ UNCHANGED <<readerWait, wlock, readerSem, writerSem, rwR>>

\* A writer is waiting: the last of the readers it waits for posts it.
RLeave(c) ==
    /\ RWGoTo(c, "leave", IF readerWait = 1 THEN "wpost" ELSE "idle")
    /\ readerWait' = readerWait - 1
    /\ UNCHANGED <<readerCount, wlock, readerSem, writerSem, rwR>>

PostWriter(c) ==
    /\ rwPc[c] = "wpost"
    /\ Post(c, writerSem, "idle", "writing")
    /\ UNCHANGED <<readerCount, readerWait, wlock, readerSem, rwR>>

-----------------------------------------------------------------------------

WriterStep(w) ==
    \/ Announce(w) \/ CountReaders(w) \/ WaitReaders(w)
    \/ Unlock(w) \/ PostReader(w) \/ UnlockWriters(w)

ReaderStep(c) == RWait(c) \/ RUnlock(c) \/ RLeave(c) \/ PostWriter(c)

RWNext ==
    \/ \E w \in Writer : LockWriters(w) \/ WriterStep(w)
    \/ \E c \in Reader : RLock(c) \/ ReaderStep(c)

\* A call that has begun goes on, and whoever holds the lock releases it.
RWFairness ==
    /\ \A w \in Writer : WF_rwVars(WriterStep(w))
    /\ \A c \in Reader : WF_rwVars(ReaderStep(c))

-----------------------------------------------------------------------------
(* What the lock promises.                                                 *)

At(places) == {c \in RWCo : rwPc[c] \in places}

RWPlaces == {"idle", "announce", "count", "wait", "wasleep", "writing", "post",
       "rwait", "rasleep", "reading", "leave", "wpost"}

\* None of the three abort() calls is reached, and a semaphore never has both
\* permits and sleepers.
RWTypeOK ==
    /\ readerCount \in -MaxReaders .. MaxReaders
    /\ readerWait \in Int
    /\ wlock \in Writer \cup {NoWriter}
    /\ \A s \in {readerSem, writerSem} :
          /\ s.count \in Nat /\ s.queue \in Seq(RWCo)
          /\ s.count > 0 => s.queue = <<>>
    /\ rwPc \in [RWCo -> RWPlaces]
    /\ rwR \in [Writer -> Int]

\* While a writer waits, readerWait_ is the number of readers that hold a read
\* lock or can still get one before it: those inside, those just leaving and the
\* permits nobody has taken yet.  When it is 0 the writer has been posted.
WriterWaitsForReaders ==
    \A w \in At({"wait", "wasleep"}) :
        /\ readerWait = Cardinality(At({"reading", "leave"})) + readerSem.count
        /\ readerWait = 0 <=> writerSem.count = 1 \/ At({"wpost"}) # {}

\* A writer holds the lock alone, and one that waits is woken by the last of the
\* readers before it.
Exclusion ==
    /\ RWTypeOK
    /\ \A w \in At({"writing"}) \cap Writer : At({"writing", "reading"}) = {w}
    /\ WriterWaitsForReaders

\* Readers that never stop do not keep out a writer that has announced itself,
\* and writers that never stop do not keep out a reader that waits.
NeitherStarves ==
    /\ \A w \in Writer :
          rwPc[w] \in {"announce", "count", "wait", "wasleep"} ~> rwPc[w] = "writing"
    /\ \A c \in Reader : rwPc[c] \in {"rwait", "rasleep"} ~> rwPc[c] = "reading"
=============================================================================
