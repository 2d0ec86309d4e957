---------------------------- MODULE MutexProofs ----------------------------
(***************************************************************************)
(* Proofs about Mutex for every set of coroutines, every assignment of     *)
(* coroutines to threads and every SpinMax.  IndInv is inductive; the      *)
(* argument is that exactly one coroutine (or dontWait_) carries a wakeup  *)
(* when the bits of state_ announce one.  Only the carrier may clear       *)
(* WOKEN, only a carrier without WOKEN may take a STARVING mutex, and a    *)
(* new wakeup is made only when the bits say there is none.                *)
(***************************************************************************)
EXTENDS Mutex, FiniteSetTheorems, TLAPS

-----------------------------------------------------------------------------
(* The values of state_.                                                   *)

\* The initial word is a word.
LEMMA ZeroWord == Zero \in Word
  BY DEF Zero, Word

\* Setting WOKEN (the CAS of the spin loop) gives a word.
LEMMA WordWoken == ASSUME NEW w \in Word PROVE [w EXCEPT !.woken = 1] \in Word
  BY DEF Word

\* Taking a waiter's count and setting WOKEN (unlockSlow) gives a word.
LEMMA WordGrab ==
    ASSUME NEW w \in Word, w.waiters # 0
    PROVE  [w EXCEPT !.waiters = @ - 1, !.woken = 1] \in Word
<1>1. w.waiters - 1 \in Nat /\ 1 \in 0..1
  BY DEF Word
<1>2. [w EXCEPT !.waiters = @ - 1] \in Word
  BY <1>1 DEF Word
<1>3. [w EXCEPT !.waiters = @ - 1, !.woken = 1]
        = [[w EXCEPT !.waiters = @ - 1] EXCEPT !.woken = 1]
  BY DEF Word
<1> QED  BY <1>2, <1>3, WordWoken

\* The fetch_add of the handoff carries into no other bit.
LEMMA WordHandoff ==
    ASSUME NEW w \in Word, w.waiters # 0, w.locked = 0, w.starving = 1
    PROVE  /\ [w EXCEPT !.locked = @ + 1, !.waiters = @ - 1, !.starving = @ - 1] \in Word
           /\ [w EXCEPT !.locked = @ + 1, !.waiters = @ - 1, !.starving = @] \in Word
<1>1. w.waiters - 1 \in Nat /\ w.locked + 1 \in 0..1 /\ w.starving - 1 \in 0..1
  BY DEF Word
<1> QED  BY <1>1 DEF Word

\* The new value lockSlow computes is a word.
LEMMA WordNew ==
    ASSUME NEW w \in Word, NEW awk \in BOOLEAN, NEW starv \in BOOLEAN
    PROVE  NewWord(w, awk, starv) \in Word
  BY DEF Word, NewWord, Free

\* The elements of waitRoutines_ after pop_front.
LEMMA TailFacts ==
    ASSUME NEW S, NEW s \in Seq(S), s # <<>>, NEW i \in DOMAIN Tail(s)
    PROVE  /\ i \in Nat /\ i # 0 /\ i + 1 # 1
           /\ i + 1 \in DOMAIN s /\ Tail(s)[i] = s[i + 1]
  OBVIOUS

-----------------------------------------------------------------------------
(* How a step may treat the wakeup.                                        *)

\* A step that neither makes nor spends a wakeup.
LEMMA WakeupKept ==
    ASSUME OneWakeup, dontWait' = dontWait, WakeupBits' <=> WakeupBits,
           \A d \in Co : HasWakeup(d)' <=> HasWakeup(d)
    PROVE  OneWakeup'
  BY DEF OneWakeup

\* A step in which c makes the wakeup, there being none.
LEMMA WakeupMade ==
    ASSUME OneWakeup, NEW c \in Co, ~WakeupBits, dontWait' = dontWait,
           WakeupBits', HasWakeup(c)',
           \A d \in Co \ {c} : HasWakeup(d)' <=> HasWakeup(d)
    PROVE  OneWakeup'
  BY DEF OneWakeup

\* A step in which c spends the wakeup.
LEMMA WakeupSpent ==
    ASSUME OneWakeup, NEW c \in Co, HasWakeup(c), dontWait' = dontWait,
           ~WakeupBits', ~HasWakeup(c)',
           \A d \in Co \ {c} : HasWakeup(d)' <=> HasWakeup(d)
    PROVE  OneWakeup'
  BY DEF OneWakeup

\* A step in which c passes the wakeup on to w.
LEMMA WakeupPassed ==
    ASSUME OneWakeup, NEW c \in Co, NEW w \in Co, c # w, HasWakeup(c),
           dontWait' = dontWait, WakeupBits' <=> WakeupBits,
           ~HasWakeup(c)', HasWakeup(w)',
           \A d \in Co \ {c, w} : HasWakeup(d)' <=> HasWakeup(d)
    PROVE  OneWakeup'
  BY DEF OneWakeup

-----------------------------------------------------------------------------
(* The initial state.                                                      *)

\* Mutex::Mutex() establishes the types.
LEMMA InitType == Init => TypeOK
<1> SUFFICES ASSUME Init PROVE TypeOK
  OBVIOUS
<1>1. state \in Word /\ old \in [Co -> Word]
  BY ZeroWord DEF Init
<1>2. iter \in [Co -> 0..SpinMax] /\ calls \in [Co -> Nat] /\ pc \in [Co -> PC]
  BY ConstantsAssumption DEF Init, PC
<1>3. /\ awoke \in [Co -> BOOLEAN] /\ starving \in [Co -> BOOLEAN]
      /\ waited \in [Co -> {"no", "recent", "long"}]
      /\ cur \in [Thread -> Co \cup {None}]
  BY DEF Init
<1>4. waitRoutines \in Seq(Co) /\ lastco \in Co \cup {None} /\ ready \subseteq Co
  BY DEF Init
<1>5. dontWait \in BOOLEAN /\ streak \in BOOLEAN
  BY DEF Init
<1> QED  BY <1>1, <1>2, <1>3, <1>4, <1>5 DEF TypeOK

\* Mutex::Mutex() establishes the inductive invariant.
LEMMA InitInv == Init => IndInv
<1> SUFFICES ASSUME Init PROVE IndInv
  OBVIOUS
<1>1. NoAbort /\ MutualExclusion
  BY DEF Init, NoAbort, MutualExclusion, Owner
<1>2. OneWakeup
  BY DEF Init, OneWakeup, WakeupBits, HasWakeup, Zero
<1>3. QueueParked /\ LockedBit /\ StarvingBit
  BY DEF Init, QueueParked, LockedBit, StarvingBit, Owner, Zero
<1>4. ASSUME NEW c \in Co PROVE Contender(c)
  BY DEF Init, Contender
<1> QED  BY InitType, <1>1, <1>2, <1>3, <1>4 DEF IndInv

-----------------------------------------------------------------------------
(* The steps, one lemma each.                                              *)

\* A step that changes nothing the invariant is about.
LEMMA QuietInv ==
    ASSUME IndInv, TypeOK', UNCHANGED <<state, dontWait, waitRoutines, pc, old, awoke, starving>>
    PROVE  IndInv'
<1>1. OneWakeup' /\ MutualExclusion' /\ NoAbort'
  BY DEF IndInv, OneWakeup, WakeupBits, HasWakeup, MutualExclusion, Owner, NoAbort
<1>2. QueueParked' /\ LockedBit' /\ StarvingBit'
  BY DEF IndInv, QueueParked, LockedBit, Owner, StarvingBit
<1>3. ASSUME NEW d \in Co PROVE Contender(d)'
  BY <1>2 DEF IndInv, Contender
<1> QED  BY <1>1, <1>2, <1>3 DEF IndInv

\* The return of lockSlow keeps the types of its locals.
LEMMA ReturnType ==
    ASSUME TypeOK, NEW c \in Co, Return(c)
    PROVE  /\ old' \in [Co -> Word] /\ awoke' \in [Co -> BOOLEAN]
           /\ starving' \in [Co -> BOOLEAN] /\ iter' \in [Co -> 0..SpinMax]
           /\ waited' \in [Co -> {"no", "recent", "long"}]
<1>1. old' \in [Co -> Word]
  BY ZeroWord DEF TypeOK, Return
<1>2. awoke' \in [Co -> BOOLEAN] /\ starving' \in [Co -> BOOLEAN]
  BY DEF TypeOK, Return
<1>3. iter' \in [Co -> 0..SpinMax] /\ waited' \in [Co -> {"no", "recent", "long"}]
  BY ConstantsAssumption DEF TypeOK, Return
<1> QED  BY <1>1, <1>2, <1>3

\* IndInv is kept by the scheduler running a queued coroutine.
LEMMA DispatchInv == ASSUME IndInv, NEW c \in Co, Dispatch(c) PROVE IndInv'
<1>1. UNCHANGED <<state, dontWait, waitRoutines, pc, old, awoke, starving>>
  BY DEF Dispatch, IndInv, TypeOK, shared, local
<1>2. TypeOK'
  BY <1>1, ConstantsAssumption DEF Dispatch, IndInv, TypeOK, shared, local, sched
<1> QED  BY <1>1, <1>2, QuietInv

\* IndInv is kept by a yield of the user's code.
LEMMA UserYieldInv == ASSUME IndInv, NEW c \in Co, UserYield(c) PROVE IndInv'
<1>1. UNCHANGED <<state, dontWait, waitRoutines, pc, old, awoke, starving>>
  BY DEF UserYield, IndInv, TypeOK, shared, local
<1>2. TypeOK'
  BY <1>1, ConstantsAssumption DEF UserYield, IndInv, TypeOK, shared, local, sched, Yield
<1> QED  BY <1>1, <1>2, QuietInv

\* IndInv is kept by RoutineEnvironment::pause().
LEMMA PauseInv == ASSUME IndInv, NEW c \in Co, Pause(c) PROVE IndInv'
<1>1. UNCHANGED <<state, dontWait, waitRoutines, pc, old, awoke, starving>>
  BY DEF Pause, IndInv, TypeOK, shared, local, GoTo
<1>2. TypeOK'
  BY <1>1, ConstantsAssumption DEF Pause, IndInv, TypeOK, shared, local, sched, Yield
<1> QED  BY <1>1, <1>2, QuietInv

\* IndInv is kept by the passing of the wait threshold.
LEMMA WaitGetsLongInv == ASSUME IndInv, NEW c \in Co, WaitGetsLong(c) PROVE IndInv'
<1>1. UNCHANGED <<state, dontWait, waitRoutines, pc, old, awoke, starving>>
  BY DEF WaitGetsLong, IndInv, TypeOK, shared, local
<1>2. TypeOK'
  BY <1>1, ConstantsAssumption DEF WaitGetsLong, IndInv, TypeOK, shared, local, sched
<1> QED  BY <1>1, <1>2, QuietInv

\* IndInv is kept by the passing of the streak threshold.
LEMMA StreakGetsLongInv == ASSUME IndInv, StreakGetsLong PROVE IndInv'
<1>1. UNCHANGED <<state, dontWait, waitRoutines, pc, old, awoke, starving>>
  BY DEF StreakGetsLong, local
<1>2. TypeOK'
  BY <1>1 DEF StreakGetsLong, IndInv, TypeOK, local, sched
<1> QED  BY <1>1, <1>2, QuietInv

\* IndInv is kept by the end of a coroutine.
LEMMA FinishInv == ASSUME IndInv, NEW c \in Co, Finish(c) PROVE IndInv'
<1>1. TypeOK'
  BY DEF Finish, IndInv, TypeOK, GoTo, PC, Yield, shared, local
<1>2. NoAbort' /\ MutualExclusion'
  BY DEF Finish, IndInv, GoTo, NoAbort, MutualExclusion, Owner
<1>3. OneWakeup'
  BY DEF Finish, IndInv, GoTo, OneWakeup, WakeupBits, HasWakeup, shared, local
<1>4. QueueParked'
  BY DEF Finish, IndInv, TypeOK, GoTo, QueueParked, Yield, shared, local
<1>5. LockedBit' /\ StarvingBit'
  BY DEF Finish, IndInv, GoTo, LockedBit, StarvingBit, Owner, shared
<1>6. ASSUME NEW d \in Co PROVE Contender(d)'
  BY DEF Finish, IndInv, GoTo, Contender, shared, local
<1> QED  BY <1>1, <1>2, <1>3, <1>4, <1>5, <1>6 DEF IndInv

\* IndInv is kept by lock().
LEMMA LockInv == ASSUME IndInv, NEW c \in Co, Lock(c) PROVE IndInv'
<1>a. /\ pc[c] = "idle" /\ ~awoke[c] /\ ~starving[c]
      /\ \/ state = Zero /\ state' = [Zero EXCEPT !.locked = 1] /\ pc' = [pc EXCEPT ![c] = "cs"]
         \/ state' = state /\ pc' = [pc EXCEPT ![c] = "load"]
      /\ UNCHANGED <<dontWait, waitRoutines, old, awoke, starving>>
  BY DEF Lock, GoTo, local, IndInv, Contender
<1>1. TypeOK'
  <2>1. state' \in Word
    BY DEF Lock, IndInv, TypeOK, Zero, Word
  <2>2. pc' \in [Co -> PC]
    BY DEF Lock, IndInv, TypeOK, GoTo, PC, LockSlowPC
  <2>3. calls' \in [Co -> Nat]
    BY DEF Lock, IndInv, TypeOK
  <2> QED  BY <2>1, <2>2, <2>3 DEF Lock, IndInv, TypeOK, local
<1>2. NoAbort' /\ MutualExclusion'
  <2>1. CASE state = Zero /\ pc' = [pc EXCEPT ![c] = "cs"]
    <3>1. \A d \in Co : ~Owner(d)
      BY <2>1 DEF IndInv, LockedBit, Zero
    <3> QED  BY <2>1, <3>1 DEF IndInv, TypeOK, NoAbort, MutualExclusion, Owner
  <2>2. CASE pc' = [pc EXCEPT ![c] = "load"]
    BY <2>2 DEF IndInv, TypeOK, NoAbort, MutualExclusion, Owner
  <2> QED  BY <1>a, <2>1, <2>2
<1>3. OneWakeup'
  <2>2. \A d \in Co : HasWakeup(d)' <=> HasWakeup(d)
    BY <1>a DEF IndInv, TypeOK, HasWakeup
  <2>3. WakeupBits' <=> WakeupBits
    BY DEF Lock, Zero, WakeupBits
  <2> QED  BY <2>2, <2>3, WakeupKept DEF IndInv, Lock
<1>4. QueueParked'
  BY <1>a DEF Lock, IndInv, TypeOK, GoTo, QueueParked, local, Zero
<1>5. LockedBit' /\ StarvingBit'
  BY <1>a DEF Lock, IndInv, TypeOK, LockedBit, StarvingBit, Owner, Zero
<1>6. ASSUME NEW d \in Co PROVE Contender(d)'
  BY <1>a DEF Lock, IndInv, TypeOK, Contender, Zero
<1> QED  BY <1>1, <1>2, <1>3, <1>4, <1>5, <1>6 DEF IndInv

\* IndInv is kept by the load of state_ in lockSlow.
LEMMA LoadStateInv == ASSUME IndInv, NEW c \in Co, LoadState(c) PROVE IndInv'
<1>1. TypeOK'
  BY DEF LoadState, IndInv, TypeOK, GoTo, PC, LockSlowPC, shared, sched
<1>2. NoAbort' /\ MutualExclusion'
  BY DEF LoadState, IndInv, GoTo, NoAbort, MutualExclusion, Owner
<1>3. OneWakeup'
  BY DEF LoadState, IndInv, GoTo, OneWakeup, WakeupBits, HasWakeup, shared
<1>4. QueueParked'
  BY DEF LoadState, IndInv, TypeOK, GoTo, QueueParked, shared, sched
<1>5. LockedBit' /\ StarvingBit'
  BY DEF LoadState, IndInv, GoTo, LockedBit, StarvingBit, Owner, shared
<1>6. ASSUME NEW d \in Co PROVE Contender(d)'
  BY DEF LoadState, IndInv, TypeOK, GoTo, Contender, shared
<1> QED  BY <1>1, <1>2, <1>3, <1>4, <1>5, <1>6 DEF IndInv

\* IndInv is kept by the spin loop.
LEMMA SpinInv == ASSUME IndInv, NEW c \in Co, Spin(c) PROVE IndInv'
<1>1. TypeOK'
  <2>1. state' \in {state, [state EXCEPT !.woken = 1]}
    BY DEF Spin
  <2>2. state' \in Word
    BY <2>1, WordWoken DEF IndInv, TypeOK
  <2>3. pc' \in [Co -> PC] /\ awoke' \in [Co -> BOOLEAN]
    BY DEF Spin, IndInv, TypeOK, GoTo, PC, LockSlowPC
  <2>4. iter' \in [Co -> 0..SpinMax]
    BY ConstantsAssumption DEF Spin, CanSpin, IndInv, TypeOK
  <2> QED  BY <2>2, <2>3, <2>4 DEF Spin, IndInv, TypeOK, sched
<1>2. NoAbort' /\ MutualExclusion'
  BY DEF Spin, IndInv, GoTo, NoAbort, MutualExclusion, Owner
<1>3. OneWakeup'
  <2> DEFINE win == /\ ~awoke[c] /\ old[c].woken = 0 /\ old[c].waiters # 0
                    /\ state = old[c]
  <2>1. \A d \in Co \ {c} : HasWakeup(d)' <=> HasWakeup(d)
    BY DEF Spin, GoTo, IndInv, TypeOK, HasWakeup
  <2>2. CASE win
    <3>1. ~WakeupBits /\ WakeupBits'
      BY <2>2 DEF Spin, CanSpin, WakeupBits, IndInv, TypeOK, Word
    <3>2. HasWakeup(c)'
      BY <2>2 DEF Spin, GoTo, HasWakeup, IndInv, TypeOK
    <3> QED  BY <2>1, <3>1, <3>2, WakeupMade DEF IndInv, Spin
  <2>3. CASE ~win
    <3>1. state' = state /\ awoke'[c] = awoke[c]
      BY <2>3 DEF Spin, IndInv, TypeOK
    <3>2. HasWakeup(c)' <=> HasWakeup(c)
      BY <3>1 DEF Spin, GoTo, HasWakeup, IndInv, TypeOK
    <3> QED  BY <2>1, <3>1, <3>2, WakeupKept DEF IndInv, Spin, WakeupBits
  <2> QED  BY <2>2, <2>3
<1>4. QueueParked'
  BY DEF Spin, IndInv, TypeOK, GoTo, QueueParked, CanSpin, sched
<1>5. LockedBit' /\ StarvingBit'
  BY DEF Spin, IndInv, GoTo, LockedBit, StarvingBit, Owner, CanSpin
<1>6. ASSUME NEW d \in Co PROVE Contender(d)'
  BY DEF Spin, IndInv, TypeOK, GoTo, Contender
<1> QED  BY <1>1, <1>2, <1>3, <1>4, <1>5, <1>6 DEF IndInv

\* IndInv is kept by passing the pause test.
LEMMA NoPauseInv == ASSUME IndInv, NEW c \in Co, NoPause(c) PROVE IndInv'
<1>1. TypeOK'
  BY DEF NoPause, IndInv, TypeOK, GoTo, PC, LockSlowPC, sched, shared, local
<1>2. NoAbort' /\ MutualExclusion'
  BY DEF NoPause, IndInv, GoTo, NoAbort, MutualExclusion, Owner, Contender, TypeOK, Word
<1>3. OneWakeup'
  BY DEF NoPause, IndInv, GoTo, OneWakeup, WakeupBits, HasWakeup, shared, local, Contender,
     TypeOK, Word
<1>4. QueueParked'
  BY DEF NoPause, IndInv, TypeOK, GoTo, QueueParked, shared, local
<1>5. LockedBit' /\ StarvingBit'
  BY DEF NoPause, IndInv, GoTo, LockedBit, StarvingBit, Owner, shared, local
<1>6. ASSUME NEW d \in Co PROVE Contender(d)'
  BY DEF NoPause, IndInv, TypeOK, GoTo, Contender, shared, local
<1> QED  BY <1>1, <1>2, <1>3, <1>4, <1>5, <1>6 DEF IndInv

\* IndInv is kept by winning the lock with a CAS.
LEMMA CasAcquireInv == ASSUME IndInv, NEW c \in Co, CasAcquire(c) PROVE IndInv'
<1>a. /\ state \in Word /\ state = old[c] /\ pc[c] = "cas"
      /\ awoke[c] \in BOOLEAN /\ starving[c] \in BOOLEAN
      /\ (starving[c] => awoke[c]) /\ (awoke[c] => state.woken = 1)
  BY DEF CasAcquire, GoTo, IndInv, TypeOK, Contender
<1>b. /\ pc' = [pc EXCEPT ![c] = "acq"]
      /\ UNCHANGED <<dontWait, waitRoutines, old, awoke, starving>>
      /\ state.locked = 0 /\ state.starving = 0
      /\ state'.locked = 1 /\ state'.starving = 0
      /\ state'.woken = IF awoke[c] THEN 0 ELSE state.woken
  BY <1>a DEF CasAcquire, GoTo, NewWord, Free, Word, local
<1>c. \A d \in Co : ~Owner(d)
  BY <1>b DEF IndInv, LockedBit
<1>1. TypeOK'
  <2>1. state' \in Word
    BY <1>a, WordNew DEF CasAcquire
  <2>2. pc' \in [Co -> PC]
    BY <1>b DEF IndInv, TypeOK, PC, LockSlowPC
  <2> QED  BY <2>1, <2>2 DEF CasAcquire, IndInv, TypeOK, local, sched
<1>2. NoAbort' /\ MutualExclusion'
  BY <1>b, <1>c DEF IndInv, TypeOK, NoAbort, MutualExclusion, Owner
<1>3. OneWakeup'
  <2>1. (\A d \in Co \ {c} : HasWakeup(d)' <=> HasWakeup(d)) /\ ~HasWakeup(c)'
    BY <1>b DEF IndInv, TypeOK, HasWakeup
  <2>2. CASE awoke[c]
    <3>1. HasWakeup(c) /\ ~WakeupBits'
      BY <1>a, <1>b, <2>2 DEF HasWakeup, WakeupBits
    <3> QED  BY <1>b, <2>1, <3>1, WakeupSpent DEF IndInv
  <2>3. CASE ~awoke[c]
    <3>1. ~HasWakeup(c)
      BY <1>a, <2>3 DEF HasWakeup
    <3>2. WakeupBits' <=> WakeupBits
      BY <1>b, <2>3 DEF WakeupBits
    <3> QED  BY <1>b, <2>1, <3>1, <3>2, WakeupKept DEF IndInv
  <2> QED  BY <2>2, <2>3
<1>4. QueueParked'
  BY <1>a, <1>b DEF IndInv, TypeOK, QueueParked
<1>5. LockedBit' /\ StarvingBit'
  BY <1>b DEF IndInv, TypeOK, LockedBit, StarvingBit, Owner
<1>6. ASSUME NEW d \in Co PROVE Contender(d)'
  <2>1. CASE d = c
    BY <1>a, <1>b, <2>1 DEF IndInv, TypeOK, Contender
  <2>2. CASE d # c
    <3>1. HasWakeup(d) => ~awoke[c]
      BY <1>a, <2>2 DEF IndInv, OneWakeup, HasWakeup
    <3>2. HasWakeup(d) => state'.woken = state.woken
      BY <1>b, <3>1
    <3>3. pc'[d] = pc[d] /\ pc[d] # "handoff"
      BY <1>b, <2>2 DEF IndInv, TypeOK, Contender
    <3> QED  BY <1>a, <1>b, <3>2, <3>3 DEF IndInv, TypeOK, Contender, HasWakeup
  <2> QED  BY <2>1, <2>2
<1> QED  BY <1>1, <1>2, <1>3, <1>4, <1>5, <1>6 DEF IndInv

\* IndInv is kept by queueing with a CAS.
LEMMA CasQueueInv == ASSUME IndInv, NEW c \in Co, CasQueue(c) PROVE IndInv'
<1>a. /\ state \in Word /\ state = old[c] /\ pc[c] = "cas"
      /\ awoke[c] \in BOOLEAN /\ starving[c] \in BOOLEAN
      /\ (starving[c] => awoke[c]) /\ (awoke[c] => state.woken = 1)
  BY DEF CasQueue, GoTo, IndInv, TypeOK, Contender
<1>b. /\ pc' = [pc EXCEPT ![c] = "wait"]
      /\ UNCHANGED <<dontWait, waitRoutines, old, awoke, starving>>
      /\ state'.locked = state.locked /\ state'.waiters = state.waiters + 1
      /\ state'.woken = IF awoke[c] THEN 0 ELSE state.woken
      /\ state.starving = 1 => state'.starving = 1
      /\ state'.starving = 1 => state.starving = 1 \/ awoke[c]
  BY <1>a DEF CasQueue, GoTo, NewWord, Free, Word, local
<1>1. TypeOK'
  <2>1. state' \in Word
    BY <1>a, WordNew DEF CasQueue
  <2>2. pc' \in [Co -> PC]
    BY DEF CasQueue, IndInv, TypeOK, GoTo, PC, LockSlowPC
  <2> QED  BY <2>1, <2>2 DEF CasQueue, IndInv, TypeOK, local, sched
<1>2. NoAbort' /\ MutualExclusion'
  BY <1>a DEF CasQueue, IndInv, GoTo, NoAbort, MutualExclusion, Owner
<1>3. OneWakeup'
  <2>1. (\A d \in Co \ {c} : HasWakeup(d)' <=> HasWakeup(d)) /\ ~HasWakeup(c)'
    BY DEF CasQueue, GoTo, IndInv, TypeOK, HasWakeup, local
  <2>2. CASE awoke[c]
    <3>1. HasWakeup(c) /\ state.woken = 1
      BY <1>a, <2>2 DEF HasWakeup
    <3>2. state.starving = 0 /\ state.locked = 1
      BY <1>a, <3>1 DEF IndInv, StarvingBit, CasQueue, Free, Word
    <3>3. ~WakeupBits'
      BY <1>a, <2>2, <3>2 DEF CasQueue, NewWord, Free, WakeupBits
    <3> QED  BY <2>1, <3>1, <3>3, WakeupSpent DEF IndInv, CasQueue
  <2>3. CASE ~awoke[c]
    <3>1. ~HasWakeup(c)
      BY <1>a, <2>3 DEF HasWakeup
    <3>2. WakeupBits' <=> WakeupBits
      BY <1>a, <2>3 DEF CasQueue, NewWord, Free, WakeupBits, Word
    <3> QED  BY <2>1, <3>1, <3>2, WakeupKept DEF IndInv, CasQueue
  <2> QED  BY <2>2, <2>3
<1>4. QueueParked'
  BY <1>a DEF CasQueue, IndInv, TypeOK, GoTo, QueueParked, local
<1>5. LockedBit' /\ StarvingBit'
  <2>1. \A d \in Co : Owner(d)' <=> Owner(d)
    BY <1>a, <1>b DEF IndInv, TypeOK, Owner
  <2>2. state.starving = 1 => state.woken = 0
    BY DEF IndInv, StarvingBit
  <2>3. state'.starving = 1 => state'.woken = 0 /\ state'.waiters > 0
    BY <1>a, <1>b, <2>2 DEF Word
  <2> QED  BY <1>b, <2>1, <2>3 DEF IndInv, LockedBit, StarvingBit
<1>6. ASSUME NEW d \in Co PROVE Contender(d)'
  <2>1. CASE d = c
    BY <1>a, <1>b, <2>1 DEF IndInv, TypeOK, Contender
  <2>2. CASE d # c
    <3>1. HasWakeup(d) => ~awoke[c]
      BY <1>a, <2>2 DEF IndInv, OneWakeup, HasWakeup
    <3>2. HasWakeup(d) => state'.woken = state.woken
      BY <1>b, <3>1
    <3>3. pc'[d] = pc[d]
      BY <1>b, <2>2 DEF IndInv, TypeOK
    <3> QED  BY <1>a, <1>b, <3>2, <3>3 DEF IndInv, TypeOK, Contender, HasWakeup, Word
  <2> QED  BY <2>1, <2>2
<1> QED  BY <1>1, <1>2, <1>3, <1>4, <1>5, <1>6 DEF IndInv

\* IndInv is kept by losing a CAS.
LEMMA CasFailInv == ASSUME IndInv, NEW c \in Co, CasFail(c) PROVE IndInv'
<1>1. TypeOK'
  BY DEF CasFail, IndInv, TypeOK, GoTo, PC, LockSlowPC, sched, shared, local
<1>2. NoAbort' /\ MutualExclusion'
  BY DEF CasFail, IndInv, GoTo, NoAbort, MutualExclusion, Owner
<1>3. OneWakeup'
  <2>1. \A d \in Co : HasWakeup(d)' <=> HasWakeup(d)
    BY DEF CasFail, GoTo, IndInv, TypeOK, HasWakeup, local
  <2> QED  BY <2>1, WakeupKept DEF IndInv, CasFail, WakeupBits, shared
<1>4. QueueParked'
  BY DEF CasFail, IndInv, TypeOK, GoTo, QueueParked, shared, local
<1>5. LockedBit' /\ StarvingBit'
  BY DEF CasFail, IndInv, GoTo, LockedBit, StarvingBit, Owner, shared, local
<1>6. ASSUME NEW d \in Co PROVE Contender(d)'
  BY DEF CasFail, IndInv, TypeOK, GoTo, Contender, shared, local
<1> QED  BY <1>1, <1>2, <1>3, <1>4, <1>5, <1>6 DEF IndInv

\* IndInv is kept by the bookkeeping after the CAS.
LEMMA AcquiredInv == ASSUME IndInv, NEW c \in Co, Acquired(c) PROVE IndInv'
<1>1. TypeOK'
  <2>1. lastco' \in Co \cup {None} /\ streak' \in BOOLEAN
    BY DEF Acquired, IndInv, TypeOK
  <2>2. pc' \in [Co -> PC]
    BY DEF Acquired, IndInv, TypeOK, GoTo, PC, LockSlowPC
  <2> QED  BY <2>1, <2>2, ReturnType DEF Acquired, IndInv, TypeOK, sched
<1>2. NoAbort' /\ MutualExclusion'
  BY DEF Acquired, IndInv, GoTo, NoAbort, MutualExclusion, Owner
<1>3. OneWakeup'
  BY DEF Acquired, IndInv, GoTo, OneWakeup, WakeupBits, HasWakeup, Contender, TypeOK, Word,
     Return
<1>4. QueueParked'
  BY DEF Acquired, IndInv, TypeOK, GoTo, QueueParked
<1>5. LockedBit' /\ StarvingBit'
  BY DEF Acquired, IndInv, GoTo, LockedBit, StarvingBit, Owner
<1>6. ASSUME NEW d \in Co PROVE Contender(d)'
  BY DEF Acquired, IndInv, TypeOK, GoTo, Contender, Word, Return
<1> QED  BY <1>1, <1>2, <1>3, <1>4, <1>5, <1>6 DEF IndInv

\* IndInv is kept by wait() finding dontWait_.
LEMMA WaitDontInv == ASSUME IndInv, NEW c \in Co, WaitDont(c) PROVE IndInv'
<1>1. TypeOK'
  BY DEF WaitDont, IndInv, TypeOK, GoTo, PC, LockSlowPC, sched
<1>2. NoAbort' /\ MutualExclusion'
  BY DEF WaitDont, IndInv, GoTo, NoAbort, MutualExclusion, Owner
<1>3. OneWakeup'
  BY DEF WaitDont, IndInv, GoTo, OneWakeup, WakeupBits, HasWakeup, Contender, TypeOK, Word
<1>4. QueueParked'
  BY DEF WaitDont, IndInv, TypeOK, GoTo, QueueParked
<1>5. LockedBit' /\ StarvingBit'
  BY DEF WaitDont, IndInv, GoTo, LockedBit, StarvingBit, Owner
<1>6. ASSUME NEW d \in Co PROVE Contender(d)'
  BY DEF WaitDont, IndInv, TypeOK, GoTo, Contender
<1> QED  BY <1>1, <1>2, <1>3, <1>4, <1>5, <1>6 DEF IndInv

\* IndInv is kept by wait() going to sleep.
LEMMA WaitParkInv == ASSUME IndInv, NEW c \in Co, WaitPark(c) PROVE IndInv'
<1>1. TypeOK'
  <2>1. waitRoutines' \in Seq(Co)
    BY DEF WaitPark, IndInv, TypeOK
  <2>3. cur' \in [Thread -> Co \cup {None}]
    BY DEF WaitPark, IndInv, TypeOK, Yield
  <2>2. pc' \in [Co -> PC] /\ waited' \in [Co -> {"no", "recent", "long"}]
    BY DEF WaitPark, IndInv, TypeOK, GoTo, PC, LockSlowPC
  <2> QED  BY <2>1, <2>2, <2>3 DEF WaitPark, IndInv, TypeOK
<1>2. NoAbort' /\ MutualExclusion'
  BY DEF WaitPark, IndInv, GoTo, NoAbort, MutualExclusion, Owner
<1>3. OneWakeup'
  <2>1. \A d \in Co : HasWakeup(d)' <=> HasWakeup(d)
    BY DEF WaitPark, GoTo, IndInv, TypeOK, HasWakeup
  <2> QED  BY <2>1, WakeupKept DEF IndInv, WaitPark, WakeupBits
<1>4. QueueParked'
  <2>1. pc[c] # "parked" /\ pc' = [pc EXCEPT ![c] = "parked"]
    BY DEF WaitPark, GoTo
  <2>2. \A i \in DOMAIN waitRoutines : waitRoutines[i] \in Co /\ waitRoutines[i] # c
    BY <2>1 DEF IndInv, TypeOK, QueueParked
  <2>3. CASE waitRoutines' = Append(waitRoutines, c)
    <3>1. /\ DOMAIN waitRoutines = 1 .. Len(waitRoutines) /\ Len(waitRoutines) \in Nat
          /\ DOMAIN waitRoutines' = 1 .. Len(waitRoutines) + 1
          /\ waitRoutines'[Len(waitRoutines) + 1] = c
          /\ \A i \in DOMAIN waitRoutines : waitRoutines'[i] = waitRoutines[i]
      BY <2>3 DEF IndInv, TypeOK
    <3>2. \A i \in DOMAIN waitRoutines' :
             i \in DOMAIN waitRoutines \/ i = Len(waitRoutines) + 1
      BY <3>1
    <3>3. \A i \in DOMAIN waitRoutines' : pc'[waitRoutines'[i]] = "parked"
      BY <2>1, <2>2, <3>1, <3>2 DEF IndInv, TypeOK, QueueParked
    <3>4. \A i, j \in DOMAIN waitRoutines' : waitRoutines'[i] = waitRoutines'[j] => i = j
      BY <2>2, <3>1, <3>2 DEF IndInv, QueueParked
    <3> QED  BY <3>3, <3>4 DEF QueueParked
  <2>4. CASE waitRoutines' = <<c>> \o waitRoutines
    <3>1. /\ Len(waitRoutines') = Len(waitRoutines) + 1
          /\ waitRoutines'[1] = c
          /\ \A i \in 2 .. Len(waitRoutines) + 1 : waitRoutines'[i] = waitRoutines[i - 1]
      BY <2>4 DEF IndInv, TypeOK
    <3>2. \A i \in 2 .. Len(waitRoutines) + 1 : i - 1 \in DOMAIN waitRoutines
      BY DEF IndInv, TypeOK
    <3>3. DOMAIN waitRoutines' = 1 .. Len(waitRoutines) + 1
      BY <3>1, <2>4 DEF IndInv, TypeOK
    <3>4. \A i \in DOMAIN waitRoutines' : pc'[waitRoutines'[i]] = "parked"
      BY <2>1, <2>2, <3>1, <3>2, <3>3 DEF IndInv, TypeOK, QueueParked
    <3>5. \A i, j \in DOMAIN waitRoutines' : waitRoutines'[i] = waitRoutines'[j] => i = j
      <4> SUFFICES ASSUME NEW i \in 1 .. Len(waitRoutines) + 1,
                          NEW j \in 1 .. Len(waitRoutines) + 1,
                          waitRoutines'[i] = waitRoutines'[j]
                   PROVE  i = j
        BY <3>3
      <4>1. CASE i = 1 \/ j = 1
        BY <4>1, <2>2, <3>1, <3>2 DEF IndInv, TypeOK
      <4>2. CASE i # 1 /\ j # 1
        <5>1. i - 1 \in DOMAIN waitRoutines /\ j - 1 \in DOMAIN waitRoutines
          BY <4>2, <3>2 DEF IndInv, TypeOK
        <5>2. waitRoutines[i - 1] = waitRoutines[j - 1]
          BY <4>2, <3>1 DEF IndInv, TypeOK
        <5>3. i - 1 = j - 1
          BY <5>1, <5>2 DEF IndInv, QueueParked
        <5> QED  BY <5>3
      <4> QED  BY <4>1, <4>2
    <3> QED  BY <3>4, <3>5 DEF QueueParked
  <2> QED  BY <2>3, <2>4 DEF WaitPark
<1>5. LockedBit' /\ StarvingBit'
  BY DEF WaitPark, IndInv, GoTo, LockedBit, StarvingBit, Owner
<1>6. ASSUME NEW d \in Co PROVE Contender(d)'
  BY DEF WaitPark, IndInv, TypeOK, GoTo, Contender
<1> QED  BY <1>1, <1>2, <1>3, <1>4, <1>5, <1>6 DEF IndInv

\* IndInv is kept by waking up in normal mode.
LEMMA ResumeNormalInv == ASSUME IndInv, NEW c \in Co, ResumeNormal(c) PROVE IndInv'
<1>1. TypeOK'
  <2>1. iter' \in [Co -> 0..SpinMax] /\ pc' \in [Co -> PC]
    BY ConstantsAssumption DEF ResumeNormal, IndInv, TypeOK, GoTo, PC, LockSlowPC
  <2>2. awoke' \in [Co -> BOOLEAN] /\ starving' \in [Co -> BOOLEAN]
    BY DEF ResumeNormal, StarvingNow, IndInv, TypeOK
  <2> QED  BY <2>1, <2>2 DEF ResumeNormal, IndInv, TypeOK, shared, sched
<1>2. NoAbort' /\ MutualExclusion'
  BY DEF ResumeNormal, IndInv, GoTo, NoAbort, MutualExclusion, Owner
<1>3. OneWakeup'
  BY DEF ResumeNormal, IndInv, GoTo, OneWakeup, WakeupBits, HasWakeup, shared, Contender,
     TypeOK, Word, StarvingNow
<1>4. QueueParked'
  BY DEF ResumeNormal, IndInv, TypeOK, GoTo, QueueParked, shared
<1>5. LockedBit' /\ StarvingBit'
  BY DEF ResumeNormal, IndInv, GoTo, LockedBit, StarvingBit, Owner, shared
<1>6. ASSUME NEW d \in Co PROVE Contender(d)'
  BY DEF ResumeNormal, IndInv, TypeOK, GoTo, OneWakeup, WakeupBits, StarvingBit, LockedBit,
     Contender, Owner, HasWakeup, StarvingNow, shared, sched, Word
<1> QED  BY <1>1, <1>2, <1>3, <1>4, <1>5, <1>6 DEF IndInv

\* IndInv is kept by waking up in starvation mode.
LEMMA ResumeHandoffInv == ASSUME IndInv, NEW c \in Co, ResumeHandoff(c) PROVE IndInv'
<1>a. pc[c] = "resumed" /\ state.starving = 1 /\ UNCHANGED <<shared, awoke>>
  BY DEF ResumeHandoff, GoTo
<1>b. state.locked = 0 /\ state.woken = 0 /\ state.waiters > 0 /\ state.waiters # 0
  <2>1. HasWakeup(c)
    BY <1>a DEF HasWakeup
  <2>2. WakeupBits
    BY <2>1 DEF IndInv, OneWakeup
  <2> QED  BY <1>a, <2>2 DEF IndInv, TypeOK, Word, StarvingBit, WakeupBits
<1>c. pc' = [pc EXCEPT ![c] = "handoff"]
  BY <1>b DEF ResumeHandoff, GoTo
<1>1. TypeOK'
  <2>1. pc' \in [Co -> PC]
    BY <1>c DEF IndInv, TypeOK, PC, LockSlowPC
  <2>3. starving' \in [Co -> BOOLEAN]
    BY DEF ResumeHandoff, IndInv, TypeOK, StarvingNow
  <2>2. old' \in [Co -> Word]
    BY DEF ResumeHandoff, IndInv, TypeOK
  <2> QED  BY <2>1, <2>2, <2>3 DEF ResumeHandoff, IndInv, TypeOK, sched, shared
<1>2. NoAbort' /\ MutualExclusion'
  BY <1>c DEF IndInv, TypeOK, NoAbort, MutualExclusion, Owner
<1>3. OneWakeup'
  <2>1. \A d \in Co : HasWakeup(d)' <=> HasWakeup(d)
    BY <1>a, <1>c DEF IndInv, TypeOK, HasWakeup
  <2> QED  BY <1>a, <2>1, WakeupKept DEF IndInv, WakeupBits, shared
<1>4. QueueParked'
  BY <1>a, <1>c DEF IndInv, TypeOK, QueueParked, shared
<1>5. LockedBit' /\ StarvingBit'
  BY <1>a, <1>c DEF IndInv, TypeOK, LockedBit, StarvingBit, Owner, shared
<1>6. ASSUME NEW d \in Co PROVE Contender(d)'
  BY <1>a, <1>b, <1>c DEF ResumeHandoff, IndInv, TypeOK, Contender, shared, Word
<1> QED  BY <1>1, <1>2, <1>3, <1>4, <1>5, <1>6 DEF IndInv

\* IndInv is kept by the handoff of the lock.
LEMMA HandoffInv == ASSUME IndInv, NEW c \in Co, Handoff(c) PROVE IndInv'
<1>a. /\ pc[c] = "handoff" /\ pc' = [pc EXCEPT ![c] = "handed"]
      /\ UNCHANGED <<dontWait, waitRoutines, old, awoke, starving>>
  BY DEF Handoff, GoTo, local
<1>b. state.starving = 1 /\ state.locked = 0 /\ state.waiters # 0 /\ state \in Word
  BY <1>a DEF Contender, IndInv, TypeOK, Word
<1>c. state.woken = 0 /\ old[c].waiters \in 1 .. state.waiters
  BY <1>a, <1>b DEF Contender, IndInv, StarvingBit
<1>d. /\ state'.locked = 1 /\ state'.woken = 0 /\ state' \in Word
      /\ state'.starving = 1 => state'.waiters > 0
  <2>1. state' \in Word
    BY <1>b, WordHandoff DEF Handoff
  <2>2. state'.starving = 1 => old[c].waiters # 1
    BY <1>b DEF Handoff, Word
  <2>3. state'.waiters = state.waiters - 1 /\ state'.locked = 1 /\ state'.woken = 0
    BY <1>b, <1>c DEF Handoff, Word
  <2> QED  BY <1>b, <1>c, <2>1, <2>2, <2>3 DEF Word
<1>e. \A d \in Co : ~Owner(d)
  BY <1>b DEF IndInv, LockedBit
<1>f. HasWakeup(c) /\ ~dontWait /\ \A d \in Co : d # c => ~HasWakeup(d)
  <2>1. HasWakeup(c)
    BY <1>a DEF HasWakeup
  <2> QED  BY <2>1 DEF IndInv, OneWakeup
<1>1. TypeOK'
  <2>1. pc' \in [Co -> PC]
    BY <1>a DEF IndInv, TypeOK, PC, LockSlowPC
  <2> QED  BY <1>d, <2>1 DEF Handoff, IndInv, TypeOK, local, sched
<1>2. NoAbort' /\ MutualExclusion'
  BY <1>a, <1>e DEF IndInv, TypeOK, NoAbort, MutualExclusion, Owner
<1>3. OneWakeup'
  <2>1. \A d \in Co : ~HasWakeup(d)'
    BY <1>a, <1>f DEF IndInv, TypeOK, HasWakeup
  <2>2. ~WakeupBits' /\ ~dontWait'
    BY <1>a, <1>d, <1>f DEF WakeupBits
  <2> QED  BY <2>1, <2>2 DEF OneWakeup
<1>4. QueueParked'
  BY <1>a DEF IndInv, TypeOK, QueueParked
<1>5. LockedBit' /\ StarvingBit'
  BY <1>a, <1>d DEF IndInv, TypeOK, LockedBit, StarvingBit, Owner
<1>6. ASSUME NEW d \in Co PROVE Contender(d)'
  <2>1. d # c => pc[d] # "handoff" /\ ~(pc[d] \in {"load", "loop", "cas"} /\ awoke[d])
    BY <1>f DEF HasWakeup
  <2> QED  BY <1>a, <2>1 DEF IndInv, TypeOK, Contender
<1> QED  BY <1>1, <1>2, <1>3, <1>4, <1>5, <1>6 DEF IndInv

\* IndInv is kept by the bookkeeping after the handoff.
LEMMA HandedInv == ASSUME IndInv, NEW c \in Co, Handed(c) PROVE IndInv'
<1>1. TypeOK'
  <2>1. pc' \in [Co -> PC]
    BY DEF Handed, IndInv, TypeOK, GoTo, PC, LockSlowPC
  <2> QED  BY <2>1, ReturnType DEF Handed, IndInv, TypeOK, sched
<1>2. NoAbort' /\ MutualExclusion'
  BY DEF Handed, IndInv, GoTo, NoAbort, MutualExclusion, Owner
<1>3. OneWakeup'
  BY DEF Handed, IndInv, GoTo, OneWakeup, WakeupBits, HasWakeup, Contender, TypeOK, Word,
     Return
<1>4. QueueParked'
  BY DEF Handed, IndInv, TypeOK, GoTo, QueueParked
<1>5. LockedBit' /\ StarvingBit'
  BY DEF Handed, IndInv, GoTo, LockedBit, StarvingBit, Owner
<1>6. ASSUME NEW d \in Co PROVE Contender(d)'
  BY DEF Handed, IndInv, TypeOK, GoTo, Contender, Word, Return
<1> QED  BY <1>1, <1>2, <1>3, <1>4, <1>5, <1>6 DEF IndInv

\* IndInv is kept by unlock().
LEMMA UnlockInv == ASSUME IndInv, NEW c \in Co, Unlock(c) PROVE IndInv'
<1>a. state.locked = 1 /\ pc[c] = "cs"
  BY DEF Unlock, IndInv, LockedBit, Owner, GoTo
<1>b. state' = [state EXCEPT !.locked = 0] /\ state' \in Word
  <2>1. state \in Word /\ state' = [state EXCEPT !.locked = 0]
    BY <1>a DEF Unlock, IndInv, TypeOK
  <2> QED  BY <2>1 DEF Word
<1>c. /\ state.starving = 1 => pc' = [pc EXCEPT ![c] = "post"]
      /\ state.starving = 0 => \/ pc' = [pc EXCEPT ![c] = "idle"]
                               \/ pc' = [pc EXCEPT ![c] = "uloop"]
  <2>1. state'.starving = state.starving /\ (state.starving = 1 => state' # Zero)
    BY <1>b DEF Zero, Word
  <2> QED  BY <1>a, <2>1 DEF Unlock, GoTo
<1>d. \A d \in Co : Owner(d)' <=> Owner(d) /\ d # c
  BY <1>a, <1>c DEF IndInv, TypeOK, Owner, Word
<1>1. TypeOK'
  <2>1. pc' \in [Co -> PC]
    BY <1>a DEF Unlock, IndInv, TypeOK, GoTo, PC, LockSlowPC
  <2>2. old' \in [Co -> Word]
    BY <1>a, <1>b, ZeroWord DEF Unlock, IndInv, TypeOK
  <2> QED  BY <1>b, <2>1, <2>2 DEF Unlock, IndInv, TypeOK, sched
<1>2. NoAbort' /\ MutualExclusion'
  BY <1>a, <1>b, <1>c, <1>d DEF Unlock, IndInv, GoTo, NoAbort, MutualExclusion, Owner,
     Contender, TypeOK, Word, Zero
<1>3. OneWakeup'
  <2>1. \A d \in Co \ {c} : HasWakeup(d)' <=> HasWakeup(d)
    BY DEF Unlock, GoTo, IndInv, TypeOK, HasWakeup
  <2>2. ~HasWakeup(c)
    BY <1>a DEF HasWakeup
  <2>3. CASE state.starving = 1
    <3>1. ~WakeupBits /\ WakeupBits'
      BY <1>a, <1>b, <2>3 DEF IndInv, StarvingBit, WakeupBits
    <3>2. pc'[c] = "post"
      BY <1>c, <2>3 DEF IndInv, TypeOK
    <3> QED  BY <2>1, <3>1, <3>2, WakeupMade DEF IndInv, Unlock, HasWakeup
  <2>4. CASE state.starving = 0
    <3>1. WakeupBits' <=> WakeupBits
      BY <1>b, <2>4 DEF WakeupBits, IndInv, TypeOK, Word
    <3>2. pc'[c] \in {"idle", "uloop"}
      BY <1>c, <2>4 DEF IndInv, TypeOK
    <3>3. ~HasWakeup(c)'
      BY <3>2 DEF HasWakeup
    <3> QED  BY <2>1, <2>2, <3>1, <3>3, WakeupKept DEF IndInv, Unlock
  <2> QED  BY <2>3, <2>4 DEF IndInv, TypeOK, Word
<1>4. QueueParked'
  BY <1>a, <1>b, <1>c, <1>d DEF Unlock, IndInv, TypeOK, GoTo, QueueParked
<1>5. LockedBit' /\ StarvingBit'
  <2>a. LockedBit'
    <3>1. \A d \in Co : ~Owner(d)'
      BY <1>a, <1>d DEF IndInv, MutualExclusion, Owner
    <3>2. state'.locked = 0
      BY <1>b DEF IndInv, TypeOK, Word
    <3> QED  BY <3>1, <3>2 DEF LockedBit
  <2>b. StarvingBit'
    BY <1>b DEF Unlock, IndInv, TypeOK, Word, StarvingBit
  <2> QED  BY <2>a, <2>b
<1>6. ASSUME NEW d \in Co PROVE Contender(d)'
  BY <1>a, <1>b, <1>c, <1>d DEF Unlock, IndInv, TypeOK, GoTo, Contender
<1> QED  BY <1>1, <1>2, <1>3, <1>4, <1>5, <1>6 DEF IndInv

\* IndInv is kept by unlockSlow finding nobody to wake.
LEMMA UnlockReturnInv == ASSUME IndInv, NEW c \in Co, UnlockReturn(c) PROVE IndInv'
<1>1. TypeOK'
  <2>1. old' \in [Co -> Word]
    BY ZeroWord DEF UnlockReturn, IndInv, TypeOK
  <2> QED  BY <2>1 DEF UnlockReturn, IndInv, TypeOK, GoTo, PC, LockSlowPC, shared, sched
<1>2. NoAbort' /\ MutualExclusion'
  BY DEF UnlockReturn, IndInv, GoTo, NoAbort, MutualExclusion, Owner
<1>3. OneWakeup'
  BY DEF UnlockReturn, IndInv, GoTo, OneWakeup, WakeupBits, HasWakeup, shared
<1>4. QueueParked'
  BY DEF UnlockReturn, IndInv, TypeOK, GoTo, QueueParked, shared
<1>5. LockedBit' /\ StarvingBit'
  BY DEF UnlockReturn, IndInv, GoTo, LockedBit, StarvingBit, Owner, shared
<1>6. ASSUME NEW d \in Co PROVE Contender(d)'
  BY DEF UnlockReturn, IndInv, TypeOK, GoTo, Contender, shared
<1> QED  BY <1>1, <1>2, <1>3, <1>4, <1>5, <1>6 DEF IndInv

\* IndInv is kept by unlockSlow grabbing the right to wake.
LEMMA UnlockGrabInv == ASSUME IndInv, NEW c \in Co, UnlockGrab(c) PROVE IndInv'
<1>1. TypeOK'
  <2>1. state' \in Word
    BY WordGrab DEF UnlockGrab, NobodyToWake, IndInv, TypeOK
  <2>2. pc' \in [Co -> PC]
    BY DEF UnlockGrab, IndInv, TypeOK, GoTo, PC, LockSlowPC
  <2>3. old' \in [Co -> Word]
    BY ZeroWord DEF UnlockGrab, IndInv, TypeOK
  <2> QED  BY <2>1, <2>2, <2>3 DEF UnlockGrab, IndInv, TypeOK, sched
<1>2. NoAbort' /\ MutualExclusion'
  BY DEF UnlockGrab, IndInv, GoTo, NoAbort, MutualExclusion, Owner
<1>3. OneWakeup'
  BY DEF UnlockGrab, IndInv, GoTo, OneWakeup, WakeupBits, HasWakeup, Contender, TypeOK,
     Word, NobodyToWake, Zero
<1>4. QueueParked'
  BY DEF UnlockGrab, IndInv, TypeOK, GoTo, QueueParked
<1>5. LockedBit' /\ StarvingBit'
  BY DEF UnlockGrab, IndInv, GoTo, LockedBit, StarvingBit, Owner, Contender, TypeOK, Word,
     NobodyToWake, Zero
<1>6. ASSUME NEW d \in Co PROVE Contender(d)'
  BY DEF UnlockGrab, IndInv, TypeOK, GoTo, Contender, Word, NobodyToWake, Zero
<1> QED  BY <1>1, <1>2, <1>3, <1>4, <1>5, <1>6 DEF IndInv

\* IndInv is kept by unlockSlow losing its CAS.
LEMMA UnlockFailInv == ASSUME IndInv, NEW c \in Co, UnlockFail(c) PROVE IndInv'
<1>1. TypeOK'
  BY DEF UnlockFail, IndInv, TypeOK, GoTo, PC, LockSlowPC, sched, shared, local
<1>2. NoAbort' /\ MutualExclusion'
  BY DEF UnlockFail, IndInv, GoTo, NoAbort, MutualExclusion, Owner
<1>3. OneWakeup'
  BY DEF UnlockFail, IndInv, GoTo, OneWakeup, WakeupBits, HasWakeup, shared, local
<1>4. QueueParked'
  BY DEF UnlockFail, IndInv, TypeOK, GoTo, QueueParked, shared, local
<1>5. LockedBit' /\ StarvingBit'
  BY DEF UnlockFail, IndInv, GoTo, LockedBit, StarvingBit, Owner, shared, local
<1>6. ASSUME NEW d \in Co PROVE Contender(d)'
  BY DEF UnlockFail, IndInv, TypeOK, GoTo, Contender, shared, local
<1> QED  BY <1>1, <1>2, <1>3, <1>4, <1>5, <1>6 DEF IndInv

\* IndInv is kept by unlockSlow loading state_ again.
LEMMA UnlockLoadInv == ASSUME IndInv, NEW c \in Co, UnlockLoad(c) PROVE IndInv'
<1>1. TypeOK'
  BY DEF UnlockLoad, IndInv, TypeOK, GoTo, PC, LockSlowPC, sched, shared
<1>2. NoAbort' /\ MutualExclusion'
  BY DEF UnlockLoad, IndInv, GoTo, NoAbort, MutualExclusion, Owner
<1>3. OneWakeup'
  BY DEF UnlockLoad, IndInv, GoTo, OneWakeup, WakeupBits, HasWakeup, shared
<1>4. QueueParked'
  BY DEF UnlockLoad, IndInv, TypeOK, GoTo, QueueParked, shared
<1>5. LockedBit' /\ StarvingBit'
  BY DEF UnlockLoad, IndInv, GoTo, LockedBit, StarvingBit, Owner, shared
<1>6. ASSUME NEW d \in Co PROVE Contender(d)'
  BY DEF UnlockLoad, IndInv, TypeOK, GoTo, Contender, shared
<1> QED  BY <1>1, <1>2, <1>3, <1>4, <1>5, <1>6 DEF IndInv

\* IndInv is kept by post() finding no sleeper.
LEMMA PostEmptyInv == ASSUME IndInv, NEW c \in Co, PostEmpty(c) PROVE IndInv'
<1>1. TypeOK'
  BY DEF PostEmpty, IndInv, TypeOK, GoTo, PC, LockSlowPC, sched, local
<1>2. NoAbort' /\ MutualExclusion'
  BY DEF PostEmpty, IndInv, GoTo, NoAbort, MutualExclusion, Owner
<1>3. OneWakeup'
  BY DEF PostEmpty, IndInv, GoTo, OneWakeup, WakeupBits, HasWakeup, local, Contender,
     TypeOK, Word
<1>4. QueueParked'
  BY DEF PostEmpty, IndInv, TypeOK, GoTo, QueueParked, local
<1>5. LockedBit' /\ StarvingBit'
  BY DEF PostEmpty, IndInv, GoTo, LockedBit, StarvingBit, Owner, local
<1>6. ASSUME NEW d \in Co PROVE Contender(d)'
  BY DEF PostEmpty, IndInv, TypeOK, GoTo, Contender, local
<1> QED  BY <1>1, <1>2, <1>3, <1>4, <1>5, <1>6 DEF IndInv

\* IndInv is kept by post() waking a sleeper.
LEMMA PostWakeInv == ASSUME IndInv, NEW c \in Co, PostWake(c) PROVE IndInv'
<1>0. PICK w \in Co : w = Head(waitRoutines)
  BY DEF PostWake, IndInv, TypeOK
<1>a. /\ w \in Co /\ pc[w] = "parked" /\ pc[c] = "post" /\ c # w
      /\ Tail(waitRoutines) \in Seq(Co)
  <2>1. w = waitRoutines[1] /\ 1 \in DOMAIN waitRoutines /\ w \in Co
    BY <1>0 DEF PostWake, IndInv, TypeOK
  <2> QED  BY <2>1 DEF PostWake, IndInv, TypeOK, QueueParked
<1>b. pc' = [pc EXCEPT ![c] = "idle", ![w] = "resumed"]
  BY <1>0 DEF PostWake
<1>c. /\ pc'[c] = "idle" /\ pc'[w] = "resumed"
      /\ \A d \in Co \ {c, w} : pc'[d] = pc[d]
  BY <1>a, <1>b DEF IndInv, TypeOK
<1>1. TypeOK'
  <2>1. pc' \in [Co -> PC]
    BY <1>a, <1>b DEF IndInv, TypeOK, PC, LockSlowPC
  <2> QED  BY <1>0, <1>a, <2>1 DEF PostWake, IndInv, TypeOK, local
<1>2. NoAbort' /\ MutualExclusion'
  BY <1>a, <1>c DEF IndInv, GoTo, NoAbort, MutualExclusion, Owner
<1>3. OneWakeup'
  <2>1. HasWakeup(c) /\ ~HasWakeup(c)' /\ HasWakeup(w)'
    BY <1>a, <1>c DEF HasWakeup
  <2>2. \A d \in Co \ {c, w} : HasWakeup(d)' <=> HasWakeup(d)
    BY <1>c DEF HasWakeup, PostWake, local
  <2>3. OneWakeup /\ dontWait' = dontWait /\ (WakeupBits' <=> WakeupBits)
    BY DEF PostWake, IndInv, WakeupBits
  <2> QED  BY <1>a, <2>1, <2>2, <2>3, WakeupPassed
<1>4. QueueParked'
  <2>0. waitRoutines \in Seq(Co) /\ waitRoutines # <<>> /\ waitRoutines' = Tail(waitRoutines)
    BY DEF PostWake, IndInv, TypeOK
  <2>1. \A i \in DOMAIN waitRoutines' :
           i + 1 \in DOMAIN waitRoutines /\ waitRoutines'[i] = waitRoutines[i + 1]
    BY <2>0, TailFacts
  <2>2. w = waitRoutines[1] /\ 1 \in DOMAIN waitRoutines
    BY <1>0 DEF PostWake, IndInv, TypeOK
  <2>3. \A i \in DOMAIN waitRoutines' : waitRoutines'[i] \in Co /\ waitRoutines'[i] # w
    <3> SUFFICES ASSUME NEW i \in DOMAIN waitRoutines'
                 PROVE  waitRoutines'[i] \in Co /\ waitRoutines'[i] # w
      OBVIOUS
    <3>1. i \in Nat /\ i # 0 /\ i + 1 # 1
      BY <2>0, TailFacts
    <3>2. i + 1 \in DOMAIN waitRoutines /\ waitRoutines'[i] = waitRoutines[i + 1]
      BY <2>1
    <3>3. waitRoutines[i + 1] \in Co
      BY <3>2 DEF IndInv, TypeOK
    <3>4. waitRoutines[i + 1] # waitRoutines[1]
      BY <2>2, <3>1, <3>2 DEF IndInv, QueueParked
    <3> QED  BY <2>2, <3>2, <3>3, <3>4
  <2>4. \A i \in DOMAIN waitRoutines' : pc'[waitRoutines'[i]] = "parked"
    BY <2>1, <2>3, <1>a, <1>c DEF IndInv, QueueParked
  <2>5. \A i, j \in DOMAIN waitRoutines' : waitRoutines'[i] = waitRoutines'[j] => i = j
    <3>1. \A i \in DOMAIN waitRoutines' : i \in Nat
      BY <2>0, TailFacts
    <3> QED  BY <2>1, <3>1 DEF IndInv, QueueParked
  <2> QED  BY <2>4, <2>5 DEF QueueParked
<1>5. LockedBit' /\ StarvingBit'
  <2>a. LockedBit'
    <3>1. \A d \in Co : Owner(d)' <=> Owner(d)
      BY <1>a, <1>c DEF Owner
    <3> QED  BY <3>1 DEF PostWake, IndInv, LockedBit
  <2>b. StarvingBit'
    BY DEF PostWake, IndInv, TypeOK, Word, StarvingBit
  <2> QED  BY <2>a, <2>b
<1>6. ASSUME NEW d \in Co PROVE Contender(d)'
  BY <1>a, <1>c DEF PostWake, IndInv, TypeOK, GoTo, Contender, local
<1> QED  BY <1>1, <1>2, <1>3, <1>4, <1>5, <1>6 DEF IndInv

-----------------------------------------------------------------------------
(* The theorems.                                                           *)

\* Every step keeps the inductive invariant.
LEMMA NextInv == IndInv /\ [Next]_vars => IndInv'
<1> SUFFICES ASSUME IndInv, [Next]_vars PROVE IndInv'
  OBVIOUS
<1>1. CASE StreakGetsLong
  BY <1>1, StreakGetsLongInv
<1>2. ASSUME NEW c \in Co, Dispatch(c) \/ UserYield(c) \/ WaitGetsLong(c) PROVE IndInv'
  BY <1>2, DispatchInv, UserYieldInv, WaitGetsLongInv
<1>3. ASSUME NEW c \in Co, Lock(c) \/ Finish(c) PROVE IndInv'
  BY <1>3, LockInv, FinishInv
<1>4. ASSUME NEW c \in Co, LockStep(c) PROVE IndInv'
  BY <1>4, LoadStateInv, SpinInv, PauseInv, NoPauseInv,
     CasAcquireInv, CasQueueInv, CasFailInv, AcquiredInv, WaitDontInv, WaitParkInv,
     ResumeNormalInv, ResumeHandoffInv, HandoffInv, HandedInv DEF LockStep
<1>5. ASSUME NEW c \in Co, UnlockStep(c) PROVE IndInv'
  BY <1>5, UnlockInv, UnlockReturnInv, UnlockGrabInv, UnlockFailInv, UnlockLoadInv,
     PostEmptyInv, PostWakeInv DEF UnlockStep
<1>6. CASE UNCHANGED vars
  <2>1. TypeOK'
    BY <1>6 DEF IndInv, TypeOK, vars, shared, local, sched
  <2> QED  BY <1>6, <2>1, QuietInv DEF vars, shared, local
<1> QED  BY <1>1, <1>2, <1>3, <1>4, <1>5, <1>6 DEF Next, Step

\* IndInv holds in every reachable state of the mutex.
THEOREM Invariance == Spec => []IndInv
  BY InitInv, NextInv, PTL DEF Spec

\* Types, and no carry between the bits of state_ (fetch_add, lines 151 and 170).
THEOREM TypeCorrect == Spec => []TypeOK
<1>1. IndInv => TypeOK
  BY DEF IndInv
<1> QED  BY <1>1, Invariance, PTL

\* lock() and unlock() give mutual exclusion for any number of coroutines.
THEOREM Exclusion == Spec => []MutualExclusion
<1>1. IndInv => MutualExclusion
  BY DEF IndInv
<1> QED  BY <1>1, Invariance, PTL

\* The consistency checks of lockSlow and unlockSlow never call abort().
THEOREM NeverAborts == Spec => []NoAbort
<1>1. IndInv => NoAbort
  BY DEF IndInv
<1> QED  BY <1>1, Invariance, PTL

\* A single wakeup is under way exactly when the bits of state_ say so.
THEOREM SingleWakeup == Spec => []OneWakeup
<1>1. IndInv => OneWakeup
  BY DEF IndInv
<1> QED  BY <1>1, Invariance, PTL

-----------------------------------------------------------------------------
(* No waiter is left behind.                                               *)

\* A step that changes neither state_ nor an unlock() in unlockSlow.
LEMMA UnlockerKept ==
    ASSUME Unlocker, state' = state,
           \A d \in Co : /\ pc[d] = "uload" => pc'[d] = "uload"
                         /\ pc[d] = "uloop" => pc'[d] = "uloop" /\ old'[d] = old[d]
    PROVE  Unlocker'
  BY DEF Unlocker, WakeupBits

\* Unlocker is kept by the steps of the scheduler and of time.
LEMMA UnlockerSched ==
    ASSUME IndInv, Unlocker, NEW c \in Co,
           Dispatch(c) \/ UserYield(c) \/ WaitGetsLong(c) \/ StreakGetsLong \/ Pause(c)
             \/ Finish(c)
    PROVE  Unlocker'
<1>1. state' = state /\ old' = old
  BY DEF Dispatch, UserYield, WaitGetsLong, StreakGetsLong, Pause, Finish, shared, local
<1>2. pc' = pc \/ (pc[c] = "idle" /\ pc' = [pc EXCEPT ![c] = "done"])
         \/ (pc[c] = "loop" /\ pc' = [pc EXCEPT ![c] = "loop"])
  BY DEF Dispatch, UserYield, WaitGetsLong, StreakGetsLong, Pause, Finish, GoTo
<1> QED  BY <1>1, <1>2, UnlockerKept DEF IndInv, TypeOK

\* Unlocker is kept by the steps of lockSlow and post() that leave state_ alone.
LEMMA UnlockerQuiet ==
    ASSUME IndInv, Unlocker, NEW c \in Co,
           \/ LoadState(c) \/ NoPause(c) \/ CasFail(c) \/ Acquired(c) \/ WaitDont(c)
           \/ WaitPark(c) \/ ResumeNormal(c) \/ ResumeHandoff(c) \/ Handed(c)
           \/ PostEmpty(c) \/ PostWake(c)
    PROVE  Unlocker'
<1>1. CASE LoadState(c)
  BY <1>1, UnlockerKept DEF LoadState, GoTo, shared, IndInv, TypeOK
<1>2. CASE NoPause(c)
  BY <1>2, UnlockerKept DEF NoPause, GoTo, shared, local, IndInv, TypeOK
<1>3. CASE CasFail(c)
  BY <1>3, UnlockerKept DEF CasFail, GoTo, shared, local, IndInv, TypeOK
<1>4. CASE Acquired(c)
  BY <1>4, UnlockerKept DEF Acquired, GoTo, Return, IndInv, TypeOK
<1>5. CASE WaitDont(c)
  BY <1>5, UnlockerKept DEF WaitDont, GoTo, IndInv, TypeOK
<1>6. CASE WaitPark(c)
  BY <1>6, UnlockerKept DEF WaitPark, GoTo, IndInv, TypeOK
<1>7. CASE ResumeNormal(c)
  BY <1>7, UnlockerKept DEF ResumeNormal, GoTo, shared, IndInv, TypeOK
<1>8. CASE ResumeHandoff(c)
  BY <1>8, UnlockerKept DEF ResumeHandoff, GoTo, shared, IndInv, TypeOK
<1>9. CASE Handed(c)
  BY <1>9, UnlockerKept DEF Handed, GoTo, Return, IndInv, TypeOK
<1>10. CASE PostEmpty(c)
  BY <1>10, UnlockerKept DEF PostEmpty, GoTo, local, IndInv, TypeOK
<1>11. CASE PostWake(c)
  <2>1. Head(waitRoutines) \in Co /\ pc[Head(waitRoutines)] = "parked"
    BY <1>11 DEF PostWake, IndInv, TypeOK, QueueParked
  <2>2. pc[c] = "post" /\ pc' = [pc EXCEPT ![c] = "idle", ![Head(waitRoutines)] = "resumed"]
    BY <1>11 DEF PostWake
  <2>3. \A d \in Co : pc[d] \in {"uload", "uloop"} => pc'[d] = pc[d]
    BY <2>1, <2>2 DEF IndInv, TypeOK
  <2> QED  BY <1>11, <2>3, UnlockerKept DEF PostWake, local
<1> QED  BY <1>1, <1>2, <1>3, <1>4, <1>5, <1>6, <1>7, <1>8, <1>9, <1>10, <1>11

\* Unlocker is kept by the steps that change state_.
LEMMA UnlockerState ==
    ASSUME IndInv, Unlocker, NEW c \in Co,
           \/ Lock(c) \/ Spin(c) \/ CasAcquire(c) \/ CasQueue(c) \/ Handoff(c)
           \/ Unlock(c) \/ UnlockGrab(c)
    PROVE  Unlocker'
<1>1. CASE Lock(c)
  <2>1. CASE state' = [Zero EXCEPT !.locked = 1]
    BY <2>1 DEF Unlocker, Zero
  <2>2. CASE state' = state /\ pc[c] = "idle" /\ pc' = [pc EXCEPT ![c] = "load"]
    BY <1>1, <2>2, UnlockerKept DEF Lock, local, IndInv, TypeOK
  <2> QED  BY <1>1, <2>1, <2>2 DEF Lock, GoTo
<1>2. CASE Spin(c)
  <2>1. CASE state' = state
    BY <1>2, <2>1, UnlockerKept DEF Spin, GoTo, IndInv, TypeOK
  <2>2. CASE state' = [state EXCEPT !.woken = 1]
    BY <2>2 DEF Unlocker, WakeupBits, IndInv, TypeOK, Word
  <2> QED  BY <1>2, <2>1, <2>2 DEF Spin
<1>3. CASE CasAcquire(c)
  BY <1>3 DEF CasAcquire, NewWord, Free, Unlocker
<1>4. CASE CasQueue(c)
  <2>1. state \in Word /\ state = old[c] /\ ~Free(state)
    BY <1>4 DEF CasQueue, IndInv, TypeOK
  <2>2. state'.locked = 1 \/ state'.starving = 1
    BY <1>4, <2>1 DEF CasQueue, NewWord, Free, Word
  <2> QED  BY <2>2 DEF Unlocker, WakeupBits
<1>5. CASE Handoff(c)
  <2>1. pc[c] = "handoff"
    BY <1>5 DEF Handoff, GoTo
  <2>2. state.locked = 0 /\ state \in Word
    BY <2>1 DEF IndInv, TypeOK, Contender
  <2>3. state'.locked = 1
    BY <1>5, <2>2 DEF Handoff, Word
  <2> QED  BY <2>3 DEF Unlocker
<1>6. CASE Unlock(c)
  <2>1. /\ pc[c] = "cs" /\ state.locked = 1 /\ state \in Word
        /\ state' = [state EXCEPT !.locked = @ - 1]
    BY <1>6 DEF Unlock, GoTo, IndInv, TypeOK, LockedBit, Owner
  <2> SUFFICES ASSUME state'.locked = 0, state'.waiters > 0, ~WakeupBits'
               PROVE  pc'[c] = "uloop" /\ old'[c] = state'
    BY DEF Unlocker
  <2>2. state.starving = 0 /\ state' # Zero
    BY <2>1 DEF WakeupBits, Word, Zero
  <2> QED  BY <1>6, <2>1, <2>2 DEF Unlock, GoTo, IndInv, TypeOK
<1>7. CASE UnlockGrab(c)
  BY <1>7 DEF UnlockGrab, Unlocker, WakeupBits, IndInv, TypeOK, Word
<1> QED  BY <1>1, <1>2, <1>3, <1>4, <1>5, <1>6, <1>7

\* Unlocker is kept by unlockSlow: an unlock() that returns or loses its CAS did
\* so for a value that is not the current one, or with nobody to wake.
LEMMA UnlockerSlow ==
    ASSUME IndInv, Unlocker, NEW c \in Co,
           UnlockReturn(c) \/ UnlockFail(c) \/ UnlockLoad(c)
    PROVE  Unlocker'
<1>1. CASE UnlockReturn(c)
  <2>1. pc[c] = "uloop" /\ pc' = [pc EXCEPT ![c] = "idle"] /\ state' = state
         /\ NobodyToWake(old[c]) /\ old' = [old EXCEPT ![c] = Zero]
    BY <1>1 DEF UnlockReturn, GoTo, shared
  <2> SUFFICES ASSUME state.locked = 0, state.waiters > 0, ~WakeupBits
               PROVE  \E d \in Co : pc'[d] = "uload" \/ (pc'[d] = "uloop" /\ old'[d] = state)
    BY <2>1 DEF Unlocker, WakeupBits
  <2>2. PICK d \in Co : pc[d] = "uload" \/ (pc[d] = "uloop" /\ old[d] = state)
    BY DEF Unlocker
  <2>3. d # c
    BY <2>1, <2>2 DEF NobodyToWake, WakeupBits, IndInv, TypeOK, Word
  <2> QED  BY <2>1, <2>2, <2>3 DEF IndInv, TypeOK
<1>2. CASE UnlockFail(c)
  <2>1. pc'[c] = "uload"
    BY <1>2 DEF UnlockFail, GoTo, IndInv, TypeOK
  <2> QED  BY <2>1 DEF Unlocker
<1>3. CASE UnlockLoad(c)
  <2>1. pc'[c] = "uloop" /\ old'[c] = state /\ state' = state
    BY <1>3 DEF UnlockLoad, GoTo, shared, IndInv, TypeOK
  <2> QED  BY <2>1 DEF Unlocker
<1> QED  BY <1>1, <1>2, <1>3

\* A free mutex with waiters always has a wakeup under way or an unlock() that
\* will look at them, for any number of coroutines.
THEOREM NobodyForgotten == Spec => []WakeupOwed
<1>1. Init => Unlocker
  BY DEF Init, Unlocker, Zero
<1>2. IndInv /\ Unlocker /\ [Next]_vars => Unlocker'
  <2> SUFFICES ASSUME IndInv, Unlocker, [Next]_vars PROVE Unlocker'
    OBVIOUS
  <2>1. CASE Next
    <3>1. CASE StreakGetsLong
      <4>1. pc' = pc /\ state' = state /\ old' = old
        BY <3>1 DEF StreakGetsLong, local
      <4> QED  BY <4>1, UnlockerKept
    <3>2. ASSUME NEW c \in Co,
                 Dispatch(c) \/ UserYield(c) \/ Step(c) \/ WaitGetsLong(c)
          PROVE  Unlocker'
      BY <3>2, UnlockerSched, UnlockerQuiet, UnlockerState, UnlockerSlow
         DEF Step, LockStep, UnlockStep
    <3> QED  BY <2>1, <3>1, <3>2 DEF Next
  <2>2. CASE UNCHANGED vars
    BY <2>2, UnlockerKept DEF vars, shared, local
  <2> QED  BY <2>1, <2>2
<1>3. IndInv /\ Unlocker => WakeupOwed
  BY DEF IndInv, OneWakeup, Unlocker, WakeupOwed
<1> QED  BY <1>1, <1>2, <1>3, Invariance, PTL DEF Spec

-----------------------------------------------------------------------------
(* The waiter count.                                                       *)

\* Waiting is finite, and its size is a natural number.
LEMMA WaitingFinite == IsFiniteSet(Waiting) /\ Cardinality(Waiting) \in Nat
<1>1. Waiting \subseteq Co
  BY DEF Waiting
<1> QED  BY <1>1, ConstantsAssumption, FS_Subset, FS_CardinalityType

\* A step that moves nobody into or out of wait() and keeps what was taken.
LEMMA CountKept ==
    ASSUME WaitersCounted, Waiting' = Waiting, Taken' <=> Taken,
           state'.waiters = state.waiters
    PROVE  WaitersCounted'
  BY DEF WaitersCounted

\* A step of c outside wait() and post().
LEMMA CountQuiet ==
    ASSUME WaitersCounted, NEW c \in Co, dontWait' = dontWait,
           state'.waiters = state.waiters, state'.starving = state.starving,
           \A d \in Co \ {c} : pc'[d] = pc[d],
           {pc[c], pc'[c]} \cap {"wait", "parked", "resumed", "handoff", "post"} = {}
    PROVE  WaitersCounted'
<1>1. Waiting' = Waiting
  BY DEF Waiting
<1>2. Taken' <=> Taken
  BY DEF Taken
<1> QED  BY <1>1, <1>2, CountKept

\* The count is right after a step of the scheduler, of time, or of a
\* coroutine that leaves the count alone.
LEMMA CountOthers ==
    ASSUME IndInv, WaitersCounted, NEW c \in Co,
           \/ Dispatch(c) \/ UserYield(c) \/ WaitGetsLong(c) \/ StreakGetsLong
           \/ Pause(c) \/ Finish(c) \/ LoadState(c) \/ NoPause(c) \/ CasFail(c)
           \/ Acquired(c) \/ Handed(c) \/ UnlockReturn(c) \/ UnlockFail(c)
           \/ UnlockLoad(c)
    PROVE  WaitersCounted'
<1>1. state' = state /\ dontWait' = dontWait
  BY DEF Dispatch, UserYield, WaitGetsLong, StreakGetsLong, Pause, Finish, LoadState,
         NoPause, CasFail, Acquired, Handed, UnlockReturn, UnlockFail, UnlockLoad, shared
<1>2. CASE pc' = pc
  BY <1>1, <1>2, CountKept DEF Waiting, Taken
<1>3. CASE pc' # pc
  <2>1. \E to \in {"done", "loop", "abort", "cas", "load", "cs", "idle", "uload", "uloop"} :
           pc' = [pc EXCEPT ![c] = to]
    BY <1>3 DEF Dispatch, UserYield, WaitGetsLong, StreakGetsLong, Pause, Finish, LoadState,
                NoPause, CasFail, Acquired, Handed, UnlockReturn, UnlockFail, UnlockLoad, GoTo
  <2>2. pc[c] \in {"idle", "load", "loop", "cas", "acq", "handed", "uloop", "uload"}
    BY <1>3 DEF Dispatch, UserYield, WaitGetsLong, StreakGetsLong, Pause, Finish, LoadState,
                NoPause, CasFail, Acquired, Handed, UnlockReturn, UnlockFail, UnlockLoad, GoTo
  <2> QED  BY <1>1, <2>1, <2>2, CountQuiet DEF IndInv, TypeOK
<1> QED  BY <1>2, <1>3

\* The count is right after the steps that change the bits of state_ only.
LEMMA CountBits ==
    ASSUME IndInv, WaitersCounted, NEW c \in Co,
           Lock(c) \/ Spin(c) \/ CasAcquire(c)
    PROVE  WaitersCounted'
<1>0. state \in Word /\ pc \in [Co -> PC]
  BY DEF IndInv, TypeOK
<1>1. CASE Lock(c)
  <2>1. /\ state'.waiters = state.waiters /\ state'.starving = state.starving
        /\ dontWait' = dontWait
    BY <1>1 DEF Lock, Zero
  <2>2. pc[c] = "idle" /\ (pc' = [pc EXCEPT ![c] = "cs"] \/ pc' = [pc EXCEPT ![c] = "load"])
    BY <1>1 DEF Lock, GoTo
  <2> QED  BY <1>0, <2>1, <2>2, CountQuiet
<1>2. CASE Spin(c)
  <2>1. /\ state'.waiters = state.waiters /\ state'.starving = state.starving
        /\ dontWait' = dontWait
    BY <1>0, <1>2 DEF Spin, Word
  <2>2. pc[c] = "loop" /\ pc' = [pc EXCEPT ![c] = "load"]
    BY <1>2 DEF Spin, GoTo
  <2> QED  BY <1>0, <2>1, <2>2, CountQuiet
<1>3. CASE CasAcquire(c)
  <2>1. /\ state'.waiters = state.waiters /\ state'.starving = state.starving
        /\ dontWait' = dontWait
    BY <1>0, <1>3 DEF CasAcquire, NewWord, Free, Word
  <2>2. pc[c] = "cas" /\ pc' = [pc EXCEPT ![c] = "acq"]
    BY <1>3 DEF CasAcquire, GoTo
  <2> QED  BY <1>0, <2>1, <2>2, CountQuiet
<1> QED  BY <1>1, <1>2, <1>3

\* The count is right after a step of wait() or post(), in which the one
\* wakeup goes from hand to hand.
LEMMA CountWakeup ==
    ASSUME IndInv, WaitersCounted, NEW c \in Co,
           WaitPark(c) \/ WaitDont(c) \/ ResumeHandoff(c) \/ PostEmpty(c) \/ PostWake(c)
    PROVE  WaitersCounted'
<1>0. state' = state /\ pc \in [Co -> PC]
  BY DEF WaitPark, WaitDont, ResumeHandoff, PostEmpty, PostWake, shared, IndInv, TypeOK
<1>1. CASE WaitPark(c)
  <2>1. pc[c] = "wait" /\ pc' = [pc EXCEPT ![c] = "parked"] /\ dontWait' = dontWait
    BY <1>1 DEF WaitPark, GoTo
  <2>2. Waiting' = Waiting /\ (Taken' <=> Taken)
    BY <1>0, <2>1 DEF Waiting, Taken
  <2> QED  BY <1>0, <2>2, CountKept
<1>2. CASE WaitDont(c)
  <2>1. pc[c] = "wait" /\ pc' = [pc EXCEPT ![c] = "resumed"] /\ dontWait
    BY <1>2 DEF WaitDont, GoTo
  <2>2. Waiting' = Waiting /\ (Taken' <=> Taken)
    BY <1>0, <2>1 DEF Waiting, Taken
  <2> QED  BY <1>0, <2>2, CountKept
<1>3. CASE ResumeHandoff(c)
  <2>1. pc[c] = "resumed" /\ state.starving = 1 /\ NoAbort'
        /\ \E to \in {"abort", "handoff"} : pc' = [pc EXCEPT ![c] = to]
    BY <1>3, ResumeHandoffInv DEF ResumeHandoff, GoTo, IndInv
  <2>2. pc' = [pc EXCEPT ![c] = "handoff"]
    BY <1>0, <2>1 DEF NoAbort
  <2>3. Waiting' = Waiting /\ (Taken' <=> Taken)
    BY <1>0, <2>1, <2>2 DEF Waiting, Taken
  <2> QED  BY <1>0, <2>3, CountKept
<1>4. CASE PostEmpty(c)
  <2>1. pc[c] = "post" /\ pc' = [pc EXCEPT ![c] = "idle"] /\ dontWait'
    BY <1>4 DEF PostEmpty, GoTo
  <2>2. Waiting' = Waiting /\ (Taken' <=> Taken)
    BY <1>0, <2>1 DEF Waiting, Taken
  <2> QED  BY <1>0, <2>2, CountKept
<1>5. CASE PostWake(c)
  <2> DEFINE w == Head(waitRoutines)
  <2>1. w \in Co /\ pc[w] = "parked"
    BY <1>5 DEF PostWake, IndInv, TypeOK, QueueParked
  <2>2. /\ pc[c] = "post" /\ dontWait' = dontWait
        /\ pc' = [pc EXCEPT ![c] = "idle", ![w] = "resumed"]
    BY <1>5 DEF PostWake
  <2> HIDE DEF w
  <2>3. pc'[w] = "resumed" /\ pc'[c] = "idle" /\ \A d \in Co \ {c, w} : pc'[d] = pc[d]
    BY <1>0, <2>1, <2>2
  <2>4. Waiting' = Waiting
    BY <2>1, <2>2, <2>3 DEF Waiting
  <2>5. Taken' <=> Taken
    BY <1>0, <2>1, <2>2, <2>3 DEF Taken
  <2> QED  BY <1>0, <2>4, <2>5, CountKept
<1> QED  BY <1>1, <1>2, <1>3, <1>4, <1>5

\* The count is right after a coroutine queues: it counts itself, and one that
\* makes the mutex starve spends the only wakeup there is.
LEMMA CountQueue ==
    ASSUME IndInv, WaitersCounted, NEW c \in Co, CasQueue(c) PROVE WaitersCounted'
<1>0. state \in Word /\ pc \in [Co -> PC]
  BY DEF IndInv, TypeOK
<1>1. /\ pc[c] = "cas" /\ pc' = [pc EXCEPT ![c] = "wait"] /\ dontWait' = dontWait
      /\ state = old[c] /\ ~Free(state)
      /\ state' = NewWord(state, awoke[c], starving[c])
  BY DEF CasQueue, GoTo
<1>2. state'.waiters = state.waiters + 1
  BY <1>1 DEF NewWord
<1>3. Waiting' = Waiting \cup {c} /\ c \notin Waiting
  BY <1>0, <1>1 DEF Waiting
<1>4. Cardinality(Waiting') = Cardinality(Waiting) + 1
  BY <1>3, WaitingFinite, FS_AddElement
<1>5. Taken' <=> Taken
  <2>1. CASE state'.starving = state.starving
    BY <1>0, <1>1, <2>1 DEF Taken
  <2>2. CASE state'.starving # state.starving
    <3>1. state.starving = 0 /\ state'.starving = 1 /\ starving[c]
      BY <1>0, <1>1, <2>2 DEF NewWord, Word
    <3>2. HasWakeup(c)
      BY <1>1, <3>1 DEF HasWakeup, IndInv, Contender
    <3>3. ~dontWait /\ \A d \in Co : pc[d] \notin {"post", "resumed"}
      BY <1>1, <3>2 DEF IndInv, OneWakeup, HasWakeup
    <3> QED  BY <3>1, <3>3 DEF Taken
  <2> QED  BY <2>1, <2>2
<1>6. state.waiters \in Nat
  BY <1>0 DEF Word
<1> QED  BY <1>2, <1>4, <1>5, <1>6, WaitingFinite DEF WaitersCounted

\* The count is right after unlock() takes one, there being no wakeup before.
LEMMA CountGrab ==
    ASSUME IndInv, WaitersCounted, NEW c \in Co, UnlockGrab(c) PROVE WaitersCounted'
<1>0. state \in Word /\ pc \in [Co -> PC]
  BY DEF IndInv, TypeOK
<1>1. /\ pc[c] = "uloop" /\ pc' = [pc EXCEPT ![c] = "post"]
      /\ state.waiters # 0 /\ state.woken # 1 /\ state.starving # 1
      /\ state' = [state EXCEPT !.waiters = @ - 1, !.woken = 1]
  BY DEF UnlockGrab, GoTo, NobodyToWake
<1>2. state'.waiters = state.waiters - 1 /\ state'.starving = 0 /\ state.waiters \in Nat
  BY <1>0, <1>1 DEF Word
<1>3. Waiting' = Waiting
  BY <1>0, <1>1 DEF Waiting
<1>4. ~Taken
  BY <1>1 DEF Taken, IndInv, OneWakeup, WakeupBits, HasWakeup
<1>5. Taken'
  BY <1>0, <1>1, <1>2 DEF Taken
<1> QED  BY <1>2, <1>3, <1>4, <1>5, WaitingFinite DEF WaitersCounted

\* The count is right after a coroutine leaves wait(): in normal mode the count
\* was taken for it before, and a handoff takes its own.
LEMMA CountLeave ==
    ASSUME IndInv, WaitersCounted, NEW c \in Co, ResumeNormal(c) \/ Handoff(c)
    PROVE  WaitersCounted'
<1>0. state \in Word /\ pc \in [Co -> PC] /\ state.waiters \in Nat
  BY DEF IndInv, TypeOK, Word
<1>1. /\ pc[c] \in {"resumed", "handoff"} /\ dontWait' = dontWait
      /\ \E to \in {"loop", "handed"} : pc' = [pc EXCEPT ![c] = to]
  BY DEF ResumeNormal, Handoff, GoTo, shared
<1>2. Waiting' = Waiting \ {c} /\ c \in Waiting
  BY <1>0, <1>1 DEF Waiting
<1>3. Cardinality(Waiting') = Cardinality(Waiting) - 1
  BY <1>2, WaitingFinite, FS_RemoveElement
<1>4. ~dontWait /\ \A d \in Co \ {c} : pc[d] \notin {"post", "resumed"}
  BY <1>1 DEF IndInv, OneWakeup, HasWakeup
<1>5. ~Taken'
  BY <1>0, <1>1, <1>4 DEF Taken
<1>6. CASE ResumeNormal(c)
  <2>1. Taken /\ state' = state
    BY <1>6 DEF ResumeNormal, GoTo, Taken, shared
  <2> QED  BY <1>0, <1>3, <1>5, <2>1, WaitingFinite DEF WaitersCounted
<1>7. CASE Handoff(c)
  <2>1. state.starving = 1 /\ state'.waiters = state.waiters - 1
    BY <1>0, <1>7 DEF Handoff, GoTo, IndInv, Contender, Word
  <2>2. ~Taken
    BY <2>1 DEF Taken
  <2> QED  BY <1>0, <1>3, <1>5, <2>1, <2>2, WaitingFinite DEF WaitersCounted
<1> QED  BY <1>6, <1>7

\* The count is right after unlock() clears LOCKED; it posts at once only when
\* the mutex starves.
LEMMA CountUnlock ==
    ASSUME IndInv, WaitersCounted, NEW c \in Co, Unlock(c) PROVE WaitersCounted'
<1>0. state \in Word /\ pc \in [Co -> PC]
  BY DEF IndInv, TypeOK
<1>1. /\ pc[c] = "cs" /\ dontWait' = dontWait
      /\ state' = [state EXCEPT !.locked = @ - 1]
      /\ \E to \in {"idle", "abort", "post", "uloop"} :
            pc' = [pc EXCEPT ![c] = to] /\ (to = "post" => state.starving = 1)
  BY DEF Unlock, GoTo
<1>2. state'.waiters = state.waiters /\ state'.starving = state.starving
  BY <1>0, <1>1 DEF Word
<1>3. Waiting' = Waiting
  BY <1>0, <1>1 DEF Waiting
<1>4. Taken' <=> Taken
  BY <1>0, <1>1, <1>2 DEF Taken
<1> QED  BY <1>2, <1>3, <1>4, CountKept

\* The waiter count of state_ is exact in every reachable state, for any
\* number of coroutines and threads: nobody is counted twice or forgotten.
THEOREM CountExact == Spec => []WaitersCounted
<1>1. Init => WaitersCounted
  <2> SUFFICES ASSUME Init PROVE WaitersCounted
    OBVIOUS
  <2>1. Waiting = {}
    BY DEF Init, Waiting
  <2>2. ~Taken /\ state.waiters = 0
    BY DEF Init, Taken, Zero
  <2> QED  BY <2>1, <2>2, FS_EmptySet DEF WaitersCounted
<1>2. IndInv /\ WaitersCounted /\ [Next]_vars => WaitersCounted'
  <2> SUFFICES ASSUME IndInv, WaitersCounted, [Next]_vars PROVE WaitersCounted'
    OBVIOUS
  <2>1. CASE StreakGetsLong
    <3>1. UNCHANGED <<state, dontWait, pc>>
      BY <2>1 DEF StreakGetsLong
    <3> QED  BY <3>1, CountKept DEF Waiting, Taken
  <2>2. ASSUME NEW c \in Co,
               Dispatch(c) \/ UserYield(c) \/ Step(c) \/ WaitGetsLong(c)
        PROVE  WaitersCounted'
    BY <2>2, CountOthers, CountBits, CountWakeup, CountQueue, CountGrab, CountLeave,
       CountUnlock DEF Step, LockStep, UnlockStep
  <2>3. CASE UNCHANGED vars
    BY <2>3, CountKept DEF vars, shared, Waiting, Taken
  <2> QED  BY <2>1, <2>2, <2>3 DEF Next
<1> QED  BY <1>1, <1>2, Invariance, PTL DEF Spec
=============================================================================
