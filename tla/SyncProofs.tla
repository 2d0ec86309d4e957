---------------------------- MODULE SyncProofs ----------------------------
(***************************************************************************)
(* Proofs about Semaphore, RWMutex and Condition, one after the other; the *)
(* three are independent of one another.                                   *)
(***************************************************************************)
EXTENDS Semaphore, RWMutex, Condition, FiniteSetTheorems, TLAPS

-----------------------------------------------------------------------------
(***************************************************************************)
(* Proofs about Semaphore for every set of coroutines, every number of     *)
(* permits and every number of calls.  SemInv is inductive: res_ is -1     *)
(* exactly while one coroutine is between its compare_exchange(0, -1) and  *)
(* its store, so the list has one user; a coroutine is in the list, or in  *)
(* the hands of one post(), only while it sleeps or is about to.           *)
(***************************************************************************)
\* The semaphore by itself, with any number of calls per coroutine.
SemSpec == (\E rounds \in Nat : SemInit(rounds)) /\ [][SemNext]_semVars

\* The place of a coroutine says which call it is in and that the call has not
\* taken effect yet.
PlacesOK ==
    \A c \in SemCo :
        /\ semPc[c] \in {"push", "store", "asleep"} => c \in Waiter
        /\ semPc[c] \in {"check", "release", "resume"} => c \in Poster
        /\ semPc[c] \in {"load", "try", "push", "check"} => semLeft[c] > 0

\* res_ is -1 exactly while a coroutine works on the list, and a positive res_
\* means that nobody sleeps.
ResOK ==
    /\ res = -1 <=> \E c \in SemCo : InList(c)
    /\ \A c, d \in SemCo : InList(c) /\ InList(d) => c = d
    /\ res > 0 => waitRoutines = <<>>

\* Who is in the list sleeps or is about to, and is there once.
ListOK ==
    /\ \A i \in DOMAIN waitRoutines : semPc[waitRoutines[i]] \in {"store", "asleep"}
    /\ \A i, j \in DOMAIN waitRoutines : waitRoutines[i] = waitRoutines[j] => i = j

\* A sleeper that post() took.
HasSleeper(c) == semPc[c] \in {"release", "resume"}

\* It has left the list, sleeps, and no other post() has it.
SleeperOK ==
    /\ \A c \in SemCo : HasSleeper(c) =>
          /\ semWoken[c] \in Waiter /\ semPc[semWoken[c]] = "asleep"
          /\ \A i \in DOMAIN waitRoutines : waitRoutines[i] # semWoken[c]
    /\ \A c, d \in SemCo : HasSleeper(c) /\ HasSleeper(d) /\ semWoken[c] = semWoken[d] => c = d

SemInv == SemTypeOK /\ PlacesOK /\ ResOK /\ ListOK /\ SleeperOK

-----------------------------------------------------------------------------

\* The constructor establishes the invariant.
LEMMA SemInitInv == ASSUME NEW rounds \in Nat, SemInit(rounds) PROVE SemInv
<1>1. SemTypeOK
  BY SemaphoreAssumption DEF SemInit, SemTypeOK, SemPlaces
<1>2. PlacesOK /\ ResOK /\ ListOK /\ SleeperOK
  BY SemaphoreAssumption DEF SemInit, PlacesOK, ResOK, ListOK, SleeperOK, InList, HasSleeper
<1> QED  BY <1>1, <1>2 DEF SemInv

\* Who is in the list is a coroutine.
LEMMA ListElem == ASSUME SemTypeOK PROVE \A i \in DOMAIN waitRoutines : waitRoutines[i] \in SemCo
  BY DEF SemTypeOK, SemCo

\* A coroutine that neither sleeps nor has taken a sleeper moves on, and the list
\* stays as it is.
LEMMA SleepersKept ==
    ASSUME SemTypeOK, ListOK, SleeperOK, NEW c \in SemCo, NEW to,
           semPc' = [semPc EXCEPT ![c] = to],
           semPc[c] \notin {"store", "asleep", "release", "resume"},
           to \notin {"release", "resume"},
           waitRoutines' = waitRoutines, semWoken' = semWoken
    PROVE  ListOK' /\ SleeperOK'
<1>1. \A d \in SemCo : semPc'[d] = IF d = c THEN to ELSE semPc[d]
  BY DEF SemTypeOK
<1>2. ListOK'
  <2>1. \A i \in DOMAIN waitRoutines : waitRoutines[i] \in SemCo /\ waitRoutines[i] # c
    BY ListElem DEF ListOK
  <2> QED  BY <1>1, <2>1 DEF ListOK
<1>3. SleeperOK'
  <2>1. \A d \in SemCo : HasSleeper(d)' <=> HasSleeper(d)
    BY <1>1 DEF HasSleeper
  <2>2. \A d \in SemCo : HasSleeper(d) => semPc'[semWoken[d]] = "asleep"
    BY <1>1 DEF SleeperOK, SemCo
  <2> QED  BY <2>1, <2>2 DEF SleeperOK
<1> QED  BY <1>2, <1>3

\* The steps that touch neither the list nor who works on it.
LEMMA SemSpinInv ==
    ASSUME SemInv, NEW c \in SemCo,
           SemCall(c) \/ SemLoad(c) \/ SemRetry(c)
    PROVE  SemInv'
<1> USE DEF SemInv, SemCall, SemLoad, SemRetry, SemGoTo
<1>1. SemTypeOK'
  BY DEF SemTypeOK, SemPlaces
<1>2. PlacesOK'
  BY DEF PlacesOK, SemTypeOK
<1>3. ResOK'
  BY DEF ResOK, InList, SemTypeOK
<1>4. ListOK' /\ SleeperOK'
  BY SleepersKept
<1> QED  BY <1>1, <1>2, <1>3, <1>4

\* A call that changes a positive res_.
LEMMA SemCountInv ==
    ASSUME SemInv, NEW c \in SemCo,
           WaitTake(c) \/ PostAdd(c)
    PROVE  SemInv'
<1> USE DEF SemInv, WaitTake, PostAdd, SemGoTo, SemCount
<1>0. semLeft[c] > 0 /\ semLeft[c] \in Nat
  BY DEF PlacesOK, SemTypeOK
<1>1. SemTypeOK'
  <2>1. semLeft' \in [SemCo -> Nat] /\ semPc' \in [SemCo -> SemPlaces]
    <3>1. semLeft[c] - 1 \in Nat
      BY <1>0
    <3> QED  BY <3>1 DEF SemTypeOK, SemPlaces
  <2>2. res' \in Int /\ res' >= -1
    BY DEF SemTypeOK
  <2> QED  BY <2>1, <2>2 DEF SemTypeOK
<1>2. PlacesOK'
  BY DEF PlacesOK, SemTypeOK
<1>3. ResOK'
  BY DEF ResOK, InList, SemTypeOK
<1>4. ListOK' /\ SleeperOK'
  BY SleepersKept
<1> QED  BY <1>1, <1>2, <1>3, <1>4

\* compare_exchange(0, -1): nobody worked on the list before.
LEMMA SemClaimInv ==
    ASSUME SemInv, NEW c \in SemCo,
           \/ c \in Waiter /\ SemWaitClaim(c)
           \/ c \in Poster /\ PostClaim(c)
    PROVE  SemInv'
<1> USE DEF SemInv, SemWaitClaim, PostClaim, SemClaim, SemGoTo
<1>1. SemTypeOK'
  <2>1. semPc' \in [SemCo -> SemPlaces]
    BY DEF SemTypeOK, SemPlaces
  <2> QED  BY <2>1 DEF SemTypeOK
<1>2. PlacesOK'
  BY DEF PlacesOK, SemTypeOK
<1>3. ResOK'
  BY DEF ResOK, InList, SemTypeOK
<1>4. ListOK' /\ SleeperOK'
  BY SleepersKept
<1> QED  BY <1>1, <1>2, <1>3, <1>4

\* The waiter enters the list: it was not there, nor in the hands of a post().
LEMMA PushInv ==
    ASSUME SemInv, NEW c \in Waiter, SemWaitPush(c)
    PROVE  SemInv'
<1> USE DEF SemInv, SemWaitPush, SemGoTo, SemCount
<1>0. c \in SemCo /\ semLeft[c] > 0 /\ semLeft[c] \in Nat
  BY DEF PlacesOK, SemTypeOK, SemCo
<1>a. /\ Len(waitRoutines) \in Nat
      /\ DOMAIN waitRoutines' = 1 .. Len(waitRoutines) + 1
      /\ DOMAIN waitRoutines = 1 .. Len(waitRoutines)
      /\ waitRoutines'[Len(waitRoutines) + 1] = c
      /\ \A i \in DOMAIN waitRoutines : waitRoutines'[i] = waitRoutines[i]
  BY DEF SemTypeOK
<1>b. \A i \in DOMAIN waitRoutines : waitRoutines[i] # c
  BY DEF ListOK
<1>1. SemTypeOK'
  BY <1>0 DEF SemTypeOK, SemPlaces
<1>2. PlacesOK'
  BY <1>0 DEF PlacesOK, SemTypeOK
<1>3. ResOK'
  BY <1>0 DEF ResOK, InList, SemTypeOK
<1>4. ListOK'
  <2>1. ASSUME NEW i \in DOMAIN waitRoutines' 
        PROVE  i \in DOMAIN waitRoutines \/ i = Len(waitRoutines) + 1
    BY <1>a
  <2>2. \A i \in DOMAIN waitRoutines' : semPc'[waitRoutines'[i]] \in {"store", "asleep"}
    BY <1>0, <1>a, <2>1, ListElem DEF ListOK, SemTypeOK
  <2>3. \A i, j \in DOMAIN waitRoutines' : waitRoutines'[i] = waitRoutines'[j] => i = j
    BY <1>a, <1>b, <2>1 DEF ListOK
  <2> QED  BY <2>2, <2>3 DEF ListOK
<1>5. SleeperOK'
  <2>1. \A d \in SemCo : HasSleeper(d)' <=> HasSleeper(d)
    BY <1>0 DEF HasSleeper, SemTypeOK
  <2>2. ASSUME NEW d \in SemCo, HasSleeper(d)
        PROVE  /\ semWoken'[d] \in Waiter /\ semPc'[semWoken'[d]] = "asleep"
               /\ \A i \in DOMAIN waitRoutines' : waitRoutines'[i] # semWoken'[d]
    BY <1>0, <1>a, <2>2 DEF SleeperOK, SemTypeOK, SemCo
  <2> QED  BY <2>1, <2>2 DEF SleeperOK
<1> QED  BY <1>1, <1>2, <1>3, <1>4, <1>5

\* The waiter gives the list back and sleeps.
LEMMA StoreInv ==
    ASSUME SemInv, NEW c \in Waiter, WaitStore(c)
    PROVE  SemInv'
<1> USE DEF SemInv, WaitStore, SemGoTo
<1>0. c \in SemCo
  BY DEF SemCo
<1>1. SemTypeOK'
  BY <1>0 DEF SemTypeOK, SemPlaces
<1>2. PlacesOK'
  BY <1>0 DEF PlacesOK, SemTypeOK
<1>3. ResOK'
  BY <1>0 DEF ResOK, InList, SemTypeOK
<1>4. ListOK'
  BY <1>0, ListElem DEF ListOK, SemTypeOK
<1>5. SleeperOK'
  BY <1>0 DEF SleeperOK, HasSleeper, SemTypeOK, SemCo
<1> QED  BY <1>1, <1>2, <1>3, <1>4, <1>5

\* post() finds nobody in the list and leaves a permit.
LEMMA EmptyInv ==
    ASSUME SemInv, NEW c \in Poster, PostEmpty(c)
    PROVE  SemInv'
<1> USE DEF SemInv, PostEmpty, SemGoTo, SemCount
<1>0. c \in SemCo /\ semLeft[c] > 0 /\ semLeft[c] \in Nat
  BY DEF PlacesOK, SemTypeOK, SemCo
<1>1. SemTypeOK'
  BY <1>0 DEF SemTypeOK, SemPlaces
<1>2. PlacesOK'
  BY <1>0 DEF PlacesOK, SemTypeOK
<1>3. ResOK'
  BY <1>0 DEF ResOK, InList, SemTypeOK
<1>4. ListOK'
  BY <1>0, ListElem DEF ListOK, SemTypeOK
<1>5. SleeperOK'
  BY <1>0 DEF SleeperOK, HasSleeper, SemTypeOK, SemCo
<1> QED  BY <1>1, <1>2, <1>3, <1>4, <1>5

\* post() takes the first sleeper.  As post() works on the list, no waiter does,
\* so the sleeper has reached its yield.
LEMMA PopInv ==
    ASSUME SemInv, NEW c \in Poster, PostPop(c)
    PROVE  SemInv'
<1> USE DEF SemInv, PostPop, SemGoTo, SemCount
<1> DEFINE h == Head(waitRoutines)
<1>0. c \in SemCo /\ semLeft[c] > 0 /\ semLeft[c] \in Nat
  BY DEF PlacesOK, SemTypeOK, SemCo
<1>a. /\ h \in Waiter /\ h = waitRoutines[1] /\ 1 \in DOMAIN waitRoutines
      /\ waitRoutines' \in Seq(Waiter)
      /\ \A i \in DOMAIN waitRoutines' :
            i \in Nat /\ i + 1 # 1 /\ i + 1 \in DOMAIN waitRoutines
              /\ waitRoutines'[i] = waitRoutines[i + 1]
  BY DEF SemTypeOK
<1>b. semPc[h] = "asleep" /\ h # c /\ h \in SemCo
  BY <1>0, <1>a DEF ListOK, ResOK, InList, SemCo
<1>1. SemTypeOK'
  <2>1. semWoken' \in [SemCo -> Waiter \cup {NoSleeper}]
    BY <1>0, <1>a DEF SemTypeOK
  <2>2. semPc' \in [SemCo -> SemPlaces] /\ semLeft' \in [SemCo -> Nat]
    BY <1>0 DEF SemTypeOK, SemPlaces
  <2> QED  BY <1>a, <2>1, <2>2 DEF SemTypeOK
<1>2. PlacesOK'
  BY <1>0 DEF PlacesOK, SemTypeOK
<1>3. ResOK'
  <2>1. \A d \in SemCo : InList(d)' <=> InList(d)
    BY <1>0 DEF InList, SemTypeOK
  <2>2. ~ res' > 0
    BY <1>0 DEF ResOK, InList, SemTypeOK
  <2> QED  BY <2>1, <2>2 DEF ResOK
<1>4. ListOK'
  <2>1. ASSUME NEW i \in DOMAIN waitRoutines'
        PROVE  semPc'[waitRoutines'[i]] \in {"store", "asleep"}
    BY <1>0, <1>a, ListElem DEF ListOK, SemTypeOK
  <2>2. ASSUME NEW i \in DOMAIN waitRoutines', NEW j \in DOMAIN waitRoutines',
               waitRoutines'[i] = waitRoutines'[j]
        PROVE  i = j
    <3>1. i + 1 = j + 1 /\ i \in Nat /\ j \in Nat
      BY <1>a, <2>2 DEF ListOK
    <3> QED  BY <3>1
  <2> QED  BY <2>1, <2>2 DEF ListOK
<1>5. SleeperOK'
  <2>1. \A d \in SemCo \ {c} : (HasSleeper(d)' <=> HasSleeper(d)) /\ semWoken'[d] = semWoken[d]
    BY <1>0 DEF HasSleeper, SemTypeOK
  <2>2. HasSleeper(c)' /\ semWoken'[c] = h
    BY <1>0 DEF HasSleeper, SemTypeOK
  <2>3. semPc'[h] = "asleep" /\ \A i \in DOMAIN waitRoutines' : waitRoutines'[i] # h
    BY <1>0, <1>a, <1>b DEF ListOK, SemTypeOK
  <2>4. ASSUME NEW d \in SemCo \ {c}, HasSleeper(d)
        PROVE  /\ semWoken[d] \in Waiter /\ semPc'[semWoken[d]] = "asleep"
               /\ \A i \in DOMAIN waitRoutines' : waitRoutines'[i] # semWoken[d]
               /\ semWoken[d] # h
    BY <1>0, <1>a, <2>4 DEF SleeperOK, SemTypeOK, SemCo
  <2>5. \A d \in SemCo : HasSleeper(d)' =>
          /\ semWoken'[d] \in Waiter /\ semPc'[semWoken'[d]] = "asleep"
          /\ \A i \in DOMAIN waitRoutines' : waitRoutines'[i] # semWoken'[d]
    BY <1>a, <2>1, <2>2, <2>3, <2>4
  <2>6. \A d, e \in SemCo :
          HasSleeper(d)' /\ HasSleeper(e)' /\ semWoken'[d] = semWoken'[e] => d = e
    BY <2>1, <2>2, <2>4 DEF SleeperOK
  <2> QED  BY <2>5, <2>6 DEF SleeperOK
<1> QED  BY <1>1, <1>2, <1>3, <1>4, <1>5

\* post() gives the list back with the sleeper in its hands.
LEMMA ReleaseInv ==
    ASSUME SemInv, NEW c \in Poster, PostRelease(c)
    PROVE  SemInv'
<1> USE DEF SemInv, PostRelease, SemGoTo
<1>0. c \in SemCo
  BY DEF SemCo
<1>1. SemTypeOK'
  BY <1>0 DEF SemTypeOK, SemPlaces
<1>2. PlacesOK'
  BY <1>0 DEF PlacesOK, SemTypeOK
<1>3. ResOK'
  BY <1>0 DEF ResOK, InList, SemTypeOK
<1>4. ListOK'
  BY <1>0, ListElem DEF ListOK, SemTypeOK
<1>5. SleeperOK'
  BY <1>0 DEF SleeperOK, HasSleeper, SemTypeOK, SemCo
<1> QED  BY <1>1, <1>2, <1>3, <1>4, <1>5

\* The sleeper returns from wait(): it is in nobody else's hands.
LEMMA SemResumeInv ==
    ASSUME SemInv, NEW c \in Poster, PostResume(c)
    PROVE  SemInv'
<1> USE DEF SemInv, PostResume
<1> DEFINE w == semWoken[c]
<1>0. c \in SemCo /\ w \in Waiter /\ w \in SemCo /\ semPc[w] = "asleep" /\ w # c
  BY DEF SleeperOK, HasSleeper, SemCo
<1>a. /\ semPc' \in [SemCo -> SemPlaces]
      /\ \A d \in SemCo : semPc'[d] = IF d \in {c, w} THEN "idle" ELSE semPc[d]
  BY <1>0 DEF SemTypeOK, SemPlaces
<1>1. SemTypeOK'
  BY <1>0, <1>a DEF SemTypeOK
<1>2. PlacesOK'
  BY <1>a DEF PlacesOK
<1>3. ResOK'
  <2>1. \A d \in SemCo : InList(d)' <=> InList(d)
    BY <1>0, <1>a DEF InList
  <2> QED  BY <2>1 DEF ResOK
<1>4. ListOK'
  <2>1. \A i \in DOMAIN waitRoutines : waitRoutines[i] \notin {c, w}
    BY <1>0 DEF ListOK, SleeperOK, HasSleeper
  <2> QED  BY <1>a, <2>1, ListElem DEF ListOK
<1>5. SleeperOK'
  <2>1. \A d \in SemCo \ {c} : (HasSleeper(d)' <=> HasSleeper(d)) /\ semWoken'[d] = semWoken[d]
    BY <1>0, <1>a DEF HasSleeper, SemTypeOK
  <2>2. ~HasSleeper(c)'
    BY <1>0, <1>a DEF HasSleeper
  <2>3. ASSUME NEW d \in SemCo \ {c}, HasSleeper(d)
        PROVE  semWoken[d] \in Waiter /\ semPc'[semWoken[d]] = "asleep"
    <3>1. semWoken[d] \in SemCo /\ semWoken[d] # w /\ semPc[semWoken[d]] = "asleep"
      BY <1>0, <2>3 DEF SleeperOK, HasSleeper, SemCo
    <3> QED  BY <1>0, <1>a, <2>3, <3>1 DEF SleeperOK
  <2>4. \A d \in SemCo : HasSleeper(d)' =>
          \A i \in DOMAIN waitRoutines' : waitRoutines'[i] # semWoken'[d]
    BY <2>1, <2>2 DEF SleeperOK
  <2>5. \A d, e \in SemCo :
          HasSleeper(d)' /\ HasSleeper(e)' /\ semWoken'[d] = semWoken'[e] => d = e
    BY <2>1, <2>2 DEF SleeperOK
  <2>6. \A d \in SemCo : HasSleeper(d)' =>
          semWoken'[d] \in Waiter /\ semPc'[semWoken'[d]] = "asleep"
    BY <2>1, <2>2, <2>3
  <2> QED  BY <2>4, <2>5, <2>6 DEF SleeperOK
<1> QED  BY <1>1, <1>2, <1>3, <1>4, <1>5

\* Every step keeps the invariant.
LEMMA SemNextInv == SemInv /\ [SemNext]_semVars => SemInv'
<1> SUFFICES ASSUME SemInv, [SemNext]_semVars PROVE SemInv'
  OBVIOUS
<1>1. CASE UNCHANGED semVars
  BY <1>1 DEF SemInv, SemTypeOK, PlacesOK, ResOK, ListOK, SleeperOK, InList, HasSleeper, semVars
<1>2. ASSUME NEW c \in SemCo, SemStep(c) PROVE SemInv'
  <2>1. CASE SemCall(c) \/ SemLoad(c) \/ SemRetry(c)
    BY <2>1, SemSpinInv
  <2>2. CASE c \in Waiter /\ (WaitTake(c) \/ SemWaitClaim(c) \/ SemWaitPush(c) \/ WaitStore(c))
    BY <2>2, SemCountInv, SemClaimInv, PushInv, StoreInv
  <2>3. CASE c \in Poster /\ (PostAdd(c) \/ PostClaim(c) \/ PostEmpty(c))
    BY <2>3, SemCountInv, SemClaimInv, EmptyInv
  <2>4. CASE c \in Poster /\ (PostPop(c) \/ PostRelease(c) \/ PostResume(c))
    BY <2>4, PopInv, ReleaseInv, SemResumeInv
  <2> QED  BY <1>2, <2>1, <2>2, <2>3, <2>4 DEF SemStep
<1> QED  BY <1>1, <1>2 DEF SemNext

\* The inductive invariant holds.
THEOREM SemInvariant == SemSpec => []SemInv
<1>1. (\E rounds \in Nat : SemInit(rounds)) => SemInv
  BY SemInitInv
<1> QED  BY <1>1, SemNextInv, PTL DEF SemSpec

\* waitRoutines_ has one user at a time, although no lock guards it.
THEOREM SemListExclusive == SemSpec => []ListExclusive
<1>1. SemInv => ListExclusive
  BY DEF SemInv, ListExclusive, ResOK
<1> QED  BY <1>1, SemInvariant, PTL

-----------------------------------------------------------------------------
(* The semaphore implements SemaphoreSpec.                                 *)

Count == IF res > 0 THEN res ELSE 0

\* The initial states map to initial states.
LEMMA SemAbstractInit == ASSUME NEW rounds \in Nat, SemInit(rounds) PROVE SemAbstract!Init
  BY SemaphoreAssumption DEF SemInit, SemAbstract!Init, SemCo

\* Every step maps to a step of the abstract semaphore or to a stutter: a call
\* takes effect when it counts, and when it pushes or pops.
LEMMA SemAbstractStep ==
    ASSUME SemInv, NEW c \in SemCo, SemStep(c)
    PROVE  [SemAbstract!Next]_<<Count, waitRoutines, semLeft>>
<1> USE DEF SemInv, SemGoTo
<1>0. res \in Int /\ res >= -1 /\ (InList(c) => res = -1)
  BY DEF SemTypeOK, ResOK
<1>1. CASE SemCall(c) \/ SemLoad(c) \/ SemRetry(c)
  BY <1>1 DEF SemCall, SemLoad, SemRetry, Count
<1>2. CASE c \in Waiter /\ WaitTake(c)
  <2>1. semLeft[c] > 0 /\ res > 0 /\ res' = res - 1
    BY <1>2 DEF WaitTake, PlacesOK
  <2>2. SemAbstract!WaitOk(c)
    BY <1>0, <1>2, <2>1 DEF WaitTake, SemCount, SemAbstract!WaitOk, SemAbstract!Called
  <2> QED  BY <1>2, <2>2 DEF SemAbstract!Next
<1>3. CASE SemWaitClaim(c) \/ PostClaim(c) \/ WaitStore(c) \/ PostRelease(c)
  BY <1>0, <1>3 DEF SemWaitClaim, PostClaim, SemClaim, WaitStore, PostRelease, InList, Count
<1>4. CASE c \in Waiter /\ SemWaitPush(c)
  <2>1. \A i \in DOMAIN waitRoutines : waitRoutines[i] # c
    BY <1>4 DEF SemWaitPush, ListOK
  <2>2. semLeft[c] > 0 /\ res = -1 /\ res' = res
    BY <1>0, <1>4 DEF SemWaitPush, PlacesOK, InList
  <2>3. SemAbstract!WaitBlock(c)
    BY <1>4, <2>1, <2>2 DEF SemWaitPush, SemCount, SemAbstract!WaitBlock, SemAbstract!Called
  <2> QED  BY <1>4, <2>3 DEF SemAbstract!Next
<1>5. CASE c \in Poster /\ PostAdd(c)
  <2>1. semLeft[c] > 0 /\ res > 0 /\ res' = res + 1 /\ waitRoutines = <<>>
    BY <1>0, <1>5 DEF PostAdd, PlacesOK, ResOK
  <2>2. SemAbstract!PostCount(c)
    BY <1>0, <1>5, <2>1 DEF PostAdd, SemCount, SemAbstract!PostCount, SemAbstract!Called
  <2> QED  BY <1>5, <2>2 DEF SemAbstract!Next
<1>6. CASE c \in Poster /\ PostEmpty(c)
  <2>1. semLeft[c] > 0 /\ res = -1 /\ res' = 1
    BY <1>0, <1>6 DEF PostEmpty, PlacesOK, InList
  <2>2. SemAbstract!PostCount(c)
    BY <1>6, <2>1 DEF PostEmpty, SemCount, SemAbstract!PostCount, SemAbstract!Called
  <2> QED  BY <1>6, <2>2 DEF SemAbstract!Next
<1>7. CASE c \in Poster /\ PostPop(c)
  <2>1. semLeft[c] > 0
    BY <1>7 DEF PostPop, PlacesOK
  <2>2. SemAbstract!PostWake(c)
    BY <1>7, <2>1 DEF PostPop, SemCount, SemAbstract!PostWake, SemAbstract!Called
  <2> QED  BY <1>7, <2>2 DEF SemAbstract!Next
<1>8. CASE PostResume(c)
  BY <1>8 DEF PostResume, Count
<1> QED
  BY <1>1, <1>2, <1>3, <1>4, <1>5, <1>6, <1>7, <1>8 DEF SemStep

\* wait() and post() behave as the atomic operations of a counter with a FIFO
\* of sleepers.
THEOREM SemRefines == SemSpec => SemImplements
<1>1. (\E rounds \in Nat : SemInit(rounds)) => SemAbstract!Init
  BY SemAbstractInit
<1>2. SemInv /\ [SemNext]_semVars => [SemAbstract!Next]_<<Count, waitRoutines, semLeft>>
  BY SemAbstractStep DEF SemNext, semVars, Count
<1> QED
  BY <1>1, <1>2, SemInvariant, PTL DEF SemSpec, SemImplements, SemAbstract!Spec, Count

-----------------------------------------------------------------------------
(***************************************************************************)
(* Proofs about RWMutex for every finite set of readers and writers (fewer *)
(* readers than RWMUTEXMAXREADERS, as the code assumes).  The argument     *)
(* counts: readerCount_ is the number of readers that have called rlock()  *)
(* and not yet runlock(), less MaxReaders while a writer is announced, and *)
(* what the writer has yet to wait for is the readers inside, those just   *)
(* leaving and the permits of readerSem_ nobody has taken.                 *)
(***************************************************************************)
\* The lock by itself.
RWSpec == RWInit /\ [][RWNext]_rwVars

ReaderPlaces == {"idle", "rwait", "rasleep", "reading", "leave", "wpost"}
WriterPlaces == {"idle", "announce", "count", "wait", "wasleep", "writing", "post"}

\* The number of coroutines at place p.
Places(f, p) == {c \in RWCo : f[c] = p}
N(p) == Cardinality(Places(rwPc, p))

\* Where the writer is that holds wlock_.
WriterAt == IF wlock = NoWriter THEN "idle" ELSE rwPc[wlock]

\* MaxReaders is subtracted from readerCount_.
Announced == WriterAt \in {"count", "wait", "wasleep", "writing"}

\* What an announced writer has to wait for.
Before == N("reading") + N("leave") + readerSem.count

\* Readers that have called rlock() and do not have the lock yet.
Held == N("rwait") + N("rasleep")

\* Types; readers and writers at places of their own; only the owner of wlock_
\* is in lock() or unlock().
TypeInv ==
    /\ readerCount \in Int /\ readerWait \in Int
    /\ wlock \in Writer \cup {NoWriter}
    /\ readerSem \in [count : Nat, queue : Seq(Reader)]
    /\ writerSem \in [count : Nat, queue : Seq(Writer)]
    /\ rwPc \in [RWCo -> RWPlaces]
    /\ rwR \in [Writer -> Int]
    /\ \A c \in Reader : rwPc[c] \in ReaderPlaces
    /\ \A w \in Writer : rwPc[w] \in WriterPlaces /\ (rwPc[w] # "idle" <=> wlock = w)

\* Those in the queue of a semaphore sleep, and are there once.
QueueOK(q, place) ==
    /\ \A i \in DOMAIN q : rwPc[q[i]] = place
    /\ \A i, j \in DOMAIN q : q[i] = q[j] => i = j

QueueInv ==
    /\ QueueOK(readerSem.queue, "rasleep") /\ QueueOK(writerSem.queue, "wasleep")
    /\ readerSem.count > 0 => readerSem.queue = <<>>
    /\ writerSem.count > 0 => writerSem.queue = <<>>

\* What readerCount_, readerWait_ and the permits of readerSem_ count.
CountInv ==
    /\ readerCount = Held + N("reading") - (IF Announced THEN MaxReaders ELSE 0)
    /\ WriterAt = "count" => rwR[wlock] + readerWait = Before /\ readerWait <= 0
    /\ WriterAt \in {"wait", "wasleep"} => readerWait = Before
    /\ WriterAt = "writing" => readerWait = 0 /\ Before = 0
    /\ ~Announced => readerWait = 0 /\ N("leave") = 0
    /\ WriterAt = "post" => Held = readerSem.count + rwR[wlock] /\ rwR[wlock] >= 0
    /\ WriterAt \in {"idle", "announce"} => Held = readerSem.count

\* The writer that waits is posted once, when nothing is left to wait for.
PostInv ==
    writerSem.count + N("wpost") =
        IF WriterAt \in {"wait", "wasleep"} /\ readerWait = 0 THEN 1 ELSE 0

RWInv == TypeInv /\ QueueInv /\ CountInv /\ PostInv

-----------------------------------------------------------------------------
(* Counting coroutines.                                                    *)

\* The coroutines at a place are finitely many.
LEMMA PlacesFinite ==
    ASSUME NEW f, NEW p
    PROVE  IsFiniteSet(Places(f, p)) /\ Cardinality(Places(f, p)) \in Nat
<1>1. IsFiniteSet(RWCo)
  BY RWMutexAssumption, FS_Union DEF RWCo
<1>2. IsFiniteSet(Places(f, p))
  BY <1>1, FS_Subset DEF Places
<1> QED  BY <1>2, FS_CardinalityType

\* Only c moves.
Moves(f, g, c) == c \in RWCo /\ \A d \in RWCo \ {c} : g[d] = f[d]

\* One coroutine moves.
LEMMA MoveCount ==
    ASSUME NEW f, NEW g, NEW c, NEW p, Moves(f, g, c)
    PROVE  Cardinality(Places(g, p)) =
             Cardinality(Places(f, p)) + (IF p = g[c] THEN 1 ELSE 0)
                - (IF p = f[c] THEN 1 ELSE 0)
<1> DEFINE A == Places(f, p)
           B == Places(g, p)
<1>1. IsFiniteSet(A) /\ IsFiniteSet(B) /\ Cardinality(A) \in Nat
  BY PlacesFinite
<1>2. CASE p = g[c]
  <2>1. B = A \cup {c} /\ (c \in A <=> p = f[c])
    BY <1>2 DEF Places, Moves
  <2>2. Cardinality(B) = IF c \in A THEN Cardinality(A) ELSE Cardinality(A) + 1
    BY <1>1, <2>1, FS_AddElement
  <2> QED  BY <1>1, <1>2, <2>1, <2>2
<1>3. CASE p # g[c]
  <2>1. B = A \ {c} /\ (c \in A <=> p = f[c])
    BY <1>3 DEF Places, Moves
  <2>2. Cardinality(B) = IF c \in A THEN Cardinality(A) - 1 ELSE Cardinality(A)
    BY <1>1, <2>1, FS_RemoveElement
  <2> QED  BY <1>1, <1>3, <2>1, <2>2
<1> QED  BY <1>2, <1>3

\* What a change of place does to a count.
Gain(p, from, to) == (IF p = to THEN 1 ELSE 0) - (IF p = from THEN 1 ELSE 0)

\* The same for a step.
LEMMA MoveOne ==
    ASSUME TypeInv, NEW c \in RWCo, NEW to, rwPc' = [rwPc EXCEPT ![c] = to], NEW p
    PROVE  /\ N(p) \in Nat /\ N(p)' \in Nat
           /\ N(p)' = N(p) + Gain(p, rwPc[c], to)
<1> DEFINE h == rwPc'
<1>0. h[c] = to /\ Moves(rwPc, h, c)
  BY DEF TypeInv, Moves
<1>a. N(p)' = Cardinality(Places(h, p)) /\ N(p) = Cardinality(Places(rwPc, p))
  BY DEF N, Places
<1> HIDE DEF h
<1>1. Cardinality(Places(h, p)) = Cardinality(Places(rwPc, p))
          + (IF p = h[c] THEN 1 ELSE 0) - (IF p = rwPc[c] THEN 1 ELSE 0)
  BY <1>0, MoveCount
<1>2. Cardinality(Places(rwPc, p)) \in Nat /\ Cardinality(Places(h, p)) \in Nat
  BY PlacesFinite
<1> QED  BY <1>0, <1>a, <1>1, <1>2 DEF Gain

\* Only c and d move.
MovesBoth(c, d) ==
    c \in RWCo /\ d \in RWCo /\ c # d /\ \A e \in RWCo \ {c, d} : rwPc'[e] = rwPc[e]

\* A step that wakes a sleeper moves two coroutines.
LEMMA MoveTwo ==
    ASSUME TypeInv, NEW c, NEW d, MovesBoth(c, d), NEW p
    PROVE  /\ N(p) \in Nat /\ N(p)' \in Nat
           /\ N(p)' = N(p) + Gain(p, rwPc[c], rwPc'[c]) + Gain(p, rwPc[d], rwPc'[d])
<1> DEFINE h == rwPc'
           g == [rwPc EXCEPT ![c] = h[c]]
<1>0. /\ g[c] = h[c] /\ g[d] = rwPc[d]
      /\ Moves(rwPc, g, c) /\ Moves(g, h, d)
  BY DEF TypeInv, Moves, MovesBoth
<1>a. N(p)' = Cardinality(Places(h, p)) /\ N(p) = Cardinality(Places(rwPc, p))
  BY DEF N, Places
<1> HIDE DEF g, h
<1>1. Cardinality(Places(g, p)) = Cardinality(Places(rwPc, p))
          + (IF p = g[c] THEN 1 ELSE 0) - (IF p = rwPc[c] THEN 1 ELSE 0)
  BY <1>0, MoveCount
<1>2. Cardinality(Places(h, p)) = Cardinality(Places(g, p))
          + (IF p = h[d] THEN 1 ELSE 0) - (IF p = g[d] THEN 1 ELSE 0)
  BY <1>0, MoveCount
<1>3. Cardinality(Places(rwPc, p)) \in Nat /\ Cardinality(Places(h, p)) \in Nat
  BY PlacesFinite
<1>4. h = rwPc'
  BY DEF h
<1> QED  BY <1>0, <1>a, <1>1, <1>2, <1>3, <1>4 DEF Gain

\* rlock() has been called by readers only, each once.
LEMMA ReadersBound ==
    ASSUME TypeInv
    PROVE  /\ Held + N("reading") <= Cardinality(Reader)
           /\ \A c \in Reader : rwPc[c] = "idle" => Held + N("reading") < Cardinality(Reader)
           /\ Held + N("reading") \in Nat /\ Cardinality(Reader) \in Nat
<1> DEFINE A == Places(rwPc, "rwait")
           B == Places(rwPc, "rasleep")
           C == Places(rwPc, "reading")
           U == A \cup B \cup C
<1>1. /\ IsFiniteSet(A) /\ IsFiniteSet(B) /\ IsFiniteSet(C) /\ IsFiniteSet(Reader)
      /\ Cardinality(A) \in Nat /\ Cardinality(B) \in Nat /\ Cardinality(C) \in Nat
  BY PlacesFinite, RWMutexAssumption
<1>2. U \subseteq Reader /\ A \cap B = {} /\ (A \cup B) \cap C = {}
  BY DEF Places, TypeInv, RWCo, WriterPlaces
<1>3. Cardinality(A \cup B) = Cardinality(A) + Cardinality(B) /\ IsFiniteSet(A \cup B)
  <2>1. IsFiniteSet(A \cup B) /\ Cardinality(A \cup B) = Cardinality(A) + Cardinality(B) - Cardinality({})
    BY <1>1, <1>2, FS_Union
  <2> QED  BY <1>1, <2>1, FS_EmptySet
<1>4. Cardinality(U) = Cardinality(A) + Cardinality(B) + Cardinality(C) /\ IsFiniteSet(U)
  <2>1. IsFiniteSet(U) /\ Cardinality(U) = Cardinality(A \cup B) + Cardinality(C) - Cardinality({})
    <3> DEFINE AB == A \cup B
    <3>1. IsFiniteSet(AB) /\ IsFiniteSet(C) /\ AB \cap C = {} /\ U = AB \cup C
      BY <1>1, <1>2, <1>3
    <3> HIDE DEF AB, C, U
    <3>2. IsFiniteSet(U) /\ Cardinality(U) = Cardinality(AB) + Cardinality(C) - Cardinality({})
      BY <3>1, FS_Union
    <3> QED  BY <3>2 DEF AB
  <2> QED  BY <1>1, <1>3, <2>1, FS_EmptySet
<1>5. Cardinality(U) = Held + N("reading")
  BY <1>1, <1>4 DEF Held, N
<1>6. Cardinality(U) <= Cardinality(Reader) /\ Cardinality(U) \in Nat /\ Cardinality(Reader) \in Nat
  BY <1>1, <1>2, <1>4, FS_Subset, FS_CardinalityType
<1>7. ASSUME NEW c \in Reader, rwPc[c] = "idle" PROVE Cardinality(U) # Cardinality(Reader)
  <2>1. c \notin U
    BY <1>7 DEF Places
  <2> QED  BY <1>1, <1>2, <2>1, FS_Subset
<1>8. ASSUME NEW c \in Reader, rwPc[c] = "idle" PROVE Held + N("reading") < Cardinality(Reader)
  <2> HIDE DEF U
  <2> QED  BY <1>5, <1>6, <1>7, <1>8
<1> QED  BY <1>5, <1>6, <1>8

\* The counts are numbers.
LEMMA CountsNat ==
    ASSUME TypeInv
    PROVE  /\ Held \in Nat /\ Before \in Nat /\ readerSem.count \in Nat /\ writerSem.count \in Nat
           /\ N("rwait") \in Nat /\ N("rasleep") \in Nat /\ N("reading") \in Nat
           /\ N("leave") \in Nat /\ N("wpost") \in Nat
<1>1. \A p : N(p) \in Nat
  BY PlacesFinite DEF N
<1>2. readerSem.count \in Nat /\ writerSem.count \in Nat
  BY DEF TypeInv
<1> QED  BY <1>1, <1>2 DEF Held, Before

\* RWMUTEXMAXREADERS is a number.
LEMMA MaxReadersNat == MaxReaders \in Nat
  BY RWMutexAssumption

-----------------------------------------------------------------------------
(* What a step of one coroutine leaves alone.                              *)

\* A step of a reader leaves the writer where it is.
LEMMA ReaderMoves ==
    ASSUME TypeInv, NEW c \in Reader, NEW to, rwPc' = [rwPc EXCEPT ![c] = to], wlock' = wlock
    PROVE  /\ c \in RWCo /\ WriterAt' = WriterAt /\ (Announced' <=> Announced)
           /\ WriterAt \in WriterPlaces
  BY RWMutexAssumption DEF TypeInv, WriterAt, Announced, RWCo, WriterPlaces

\* The writer that moves owns wlock_, and no reader moves with it.
LEMMA WriterMoves ==
    ASSUME TypeInv, NEW w \in Writer, NEW to, rwPc' = [rwPc EXCEPT ![w] = to],
           wlock' = wlock, rwPc[w] # "idle"
    PROVE  /\ w \in RWCo /\ wlock = w /\ w # NoWriter
           /\ WriterAt = rwPc[w] /\ WriterAt' = to
  BY RWMutexAssumption DEF TypeInv, WriterAt, RWCo

\* The types when a writer moves on.
LEMMA WriterTyped ==
    ASSUME TypeInv, NEW w \in Writer, NEW to \in WriterPlaces,
           rwPc' = [rwPc EXCEPT ![w] = to], rwPc[w] # "idle", to # "idle", wlock' = wlock,
           readerCount' \in Int, readerWait' \in Int, rwR' \in [Writer -> Int],
           readerSem' \in [count : Nat, queue : Seq(Reader)],
           writerSem' \in [count : Nat, queue : Seq(Writer)]
    PROVE  TypeInv'
  BY RWMutexAssumption DEF TypeInv, RWPlaces, WriterPlaces, RWCo

\* The types when a reader moves on.
LEMMA ReaderTyped ==
    ASSUME TypeInv, NEW c \in Reader, NEW to \in ReaderPlaces,
           rwPc' = [rwPc EXCEPT ![c] = to], wlock' = wlock,
           readerCount' \in Int, readerWait' \in Int, rwR' = rwR,
           readerSem' \in [count : Nat, queue : Seq(Reader)],
           writerSem' \in [count : Nat, queue : Seq(Writer)]
    PROVE  TypeInv'
  BY RWMutexAssumption DEF TypeInv, RWPlaces, ReaderPlaces, RWCo

\* The queues when a coroutine moves that does not sleep.
LEMMA QueuesKept ==
    ASSUME TypeInv, QueueInv, NEW c \in RWCo, NEW to, rwPc' = [rwPc EXCEPT ![c] = to],
           rwPc[c] \notin {"rasleep", "wasleep"},
           readerSem' = readerSem, writerSem' = writerSem
    PROVE  QueueInv'
<1>1. \A d \in RWCo \ {c} : rwPc'[d] = rwPc[d]
  BY DEF TypeInv
<1>2. \A i \in DOMAIN readerSem.queue : readerSem.queue[i] \in RWCo \ {c}
  BY DEF TypeInv, QueueInv, QueueOK, RWCo
<1>3. \A i \in DOMAIN writerSem.queue : writerSem.queue[i] \in RWCo \ {c}
  BY DEF TypeInv, QueueInv, QueueOK, RWCo
<1>4. QueueOK(readerSem.queue, "rasleep")'
  BY <1>1, <1>2 DEF QueueInv, QueueOK
<1>5. QueueOK(writerSem.queue, "wasleep")'
  BY <1>1, <1>3 DEF QueueInv, QueueOK
<1> QED  BY <1>4, <1>5 DEF QueueInv

\* The counts of the places of readers when a writer moves.
LEMMA WriterCounts ==
    ASSUME TypeInv, NEW w \in Writer, NEW to \in WriterPlaces,
           rwPc' = [rwPc EXCEPT ![w] = to]
    PROVE  /\ N("rwait")' = N("rwait") /\ N("rasleep")' = N("rasleep")
           /\ N("reading")' = N("reading") /\ N("leave")' = N("leave")
           /\ N("wpost")' = N("wpost")
           /\ Held' = Held /\ (readerSem' = readerSem => Before' = Before)
           /\ N("rwait") \in Nat /\ N("rasleep") \in Nat /\ N("reading") \in Nat
           /\ N("leave") \in Nat /\ N("wpost") \in Nat
<1>1. w \in RWCo /\ rwPc[w] \in WriterPlaces
  BY DEF TypeInv, RWCo
<1>2. \A p \in {"rwait", "rasleep", "reading", "leave", "wpost"} :
          N(p) \in Nat /\ N(p)' = N(p) + Gain(p, rwPc[w], to)
  BY <1>1, MoveOne
<1>3. \A p \in {"rwait", "rasleep", "reading", "leave", "wpost"} : Gain(p, rwPc[w], to) = 0
  BY <1>1 DEF Gain, WriterPlaces
<1>4. \A p \in {"rwait", "rasleep", "reading", "leave", "wpost"} : N(p) \in Nat /\ N(p)' = N(p)
  BY <1>2, <1>3
<1> QED  BY <1>4 DEF Held, Before

-----------------------------------------------------------------------------
(* lock() and unlock()                                                     *)

\* The writer gets wlock_.
LEMMA LockWritersInv == ASSUME RWInv, NEW w \in Writer, LockWriters(w) PROVE RWInv'
<1> USE DEF RWInv, LockWriters, RWGoTo
<1>0. w \in RWCo /\ WriterAt = "idle" /\ WriterAt' = "announce"
  BY RWMutexAssumption DEF TypeInv, WriterAt, RWCo
<1>1. TypeInv'
  BY <1>0, RWMutexAssumption DEF TypeInv, RWPlaces, WriterPlaces, RWCo
<1>2. QueueInv'
  BY <1>0, QueuesKept
<1>3. CountInv' /\ PostInv'
  <2>1. /\ Held' = Held /\ Before' = Before /\ N("reading")' = N("reading")
        /\ N("leave")' = N("leave") /\ N("wpost")' = N("wpost")
    BY WriterCounts DEF WriterPlaces
  <2> QED  BY <1>0, <2>1 DEF CountInv, PostInv, Announced
<1> QED  BY <1>1, <1>2, <1>3

\* The writer announces itself: all that have called rlock() are before it.
LEMMA AnnounceInv == ASSUME RWInv, NEW w \in Writer, Announce(w) PROVE RWInv'
<1> USE DEF RWInv, Announce, RWGoTo
<1> DEFINE to == IF readerCount # 0 THEN "count" ELSE "writing"
<1>0. /\ w \in RWCo /\ wlock = w /\ WriterAt = "announce" /\ WriterAt' = to
      /\ to \in WriterPlaces
  BY WriterMoves DEF WriterPlaces
<1>1. TypeInv'
  BY <1>0, RWMutexAssumption DEF TypeInv, RWPlaces, WriterPlaces, RWCo
<1>2. QueueInv'
  BY <1>0, QueuesKept
<1>3. CountInv' /\ PostInv'
  <2>1. /\ Held' = Held /\ Before' = Before /\ N("reading")' = N("reading")
        /\ N("leave")' = N("leave") /\ N("wpost")' = N("wpost")
    BY <1>0, WriterCounts
  <2>a. Held \in Nat /\ N("reading") \in Nat /\ readerSem.count \in Nat
    BY CountsNat
  <2>2. readerCount = Before /\ readerWait = 0 /\ rwR'[w] = readerCount
    BY <1>0, <2>1, <2>a DEF CountInv, Announced, Before, TypeInv
  <2>3. CountInv'
    <3>1. readerCount' = Held' + N("reading")' - MaxReaders /\ Announced'
      BY <1>0, <2>1, <2>a, MaxReadersNat DEF CountInv, Announced, TypeInv
    <3> QED  BY <1>0, <2>1, <2>2, <3>1 DEF CountInv, Announced
  <2>4. PostInv'
    BY <1>0, <2>1 DEF PostInv
  <2> QED  BY <2>3, <2>4
<1> QED  BY <1>1, <1>2, <1>3

\* The writer adds the readers before it to readerWait_, from which those that
\* have left in the meantime have been subtracted.
LEMMA CountReadersInv == ASSUME RWInv, NEW w \in Writer, CountReaders(w) PROVE RWInv'
<1> USE DEF RWInv, CountReaders, RWGoTo
<1> DEFINE to == IF readerWait + rwR[w] # 0 THEN "wait" ELSE "writing"
<1>0. /\ w \in RWCo /\ wlock = w /\ WriterAt = "count" /\ WriterAt' = to
      /\ to \in WriterPlaces
  BY WriterMoves DEF WriterPlaces
<1>1. TypeInv'
  BY <1>0, RWMutexAssumption DEF TypeInv, RWPlaces, WriterPlaces, RWCo
<1>2. QueueInv'
  BY <1>0, QueuesKept
<1>3. CountInv' /\ PostInv'
  <2>1. /\ Held' = Held /\ Before' = Before /\ N("reading")' = N("reading")
        /\ N("leave")' = N("leave") /\ N("wpost")' = N("wpost") /\ N("wpost") \in Nat
    BY <1>0, WriterCounts
  <2>2. readerWait' = Before /\ (Announced' <=> Announced)
    BY <1>0 DEF CountInv, Announced, TypeInv
  <2>3. CountInv'
    BY <1>0, <2>1, <2>2 DEF CountInv, Announced
  <2>4. PostInv'
    BY <1>0, <2>1 DEF PostInv
  <2> QED  BY <2>3, <2>4
<1> QED  BY <1>1, <1>2, <1>3

\* A coroutine that does not sleep enters the queue of a semaphore.
LEMMA QueuePush ==
    ASSUME TypeInv, NEW q \in Seq(RWCo), NEW place, QueueOK(q, place),
           NEW c \in RWCo, rwPc' = [rwPc EXCEPT ![c] = place], rwPc[c] # place
    PROVE  /\ \A i \in DOMAIN Append(q, c) : rwPc'[Append(q, c)[i]] = place
           /\ \A i, j \in DOMAIN Append(q, c) : Append(q, c)[i] = Append(q, c)[j] => i = j
<1>1. rwPc'[c] = place /\ \A d \in RWCo \ {c} : rwPc'[d] = rwPc[d]
  BY DEF TypeInv
<1>2. \A i \in DOMAIN q : q[i] \in RWCo \ {c} /\ rwPc[q[i]] = place
  BY DEF QueueOK
<1>3. \A i \in DOMAIN Append(q, c) :
          (i \in DOMAIN q /\ Append(q, c)[i] = q[i]) \/ (i = Len(q) + 1 /\ Append(q, c)[i] = c)
  <2> DEFINE a == Append(q, c)
  <2>1. Len(q) \in Nat /\ DOMAIN q = 1 .. Len(q) /\ DOMAIN a = 1 .. Len(q) + 1
    OBVIOUS
  <2>2. \A i \in 1 .. Len(q) : a[i] = q[i]
    OBVIOUS
  <2>3. a[Len(q) + 1] = c
    OBVIOUS
  <2> HIDE DEF a
  <2>4. ASSUME NEW i \in DOMAIN a
        PROVE  (i \in DOMAIN q /\ a[i] = q[i]) \/ (i = Len(q) + 1 /\ a[i] = c)
    <3>1. i \in 1 .. Len(q) \/ i = Len(q) + 1
      BY <2>1
    <3> QED  BY <2>1, <2>2, <2>3, <3>1
  <2>5. \A i \in DOMAIN a : (i \in DOMAIN q /\ a[i] = q[i]) \/ (i = Len(q) + 1 /\ a[i] = c)
    BY <2>4
  <2> QED  BY <2>5 DEF a
<1>4. \A i \in DOMAIN Append(q, c) : rwPc'[Append(q, c)[i]] = place
  BY <1>1, <1>2, <1>3
<1>5. \A i, j \in DOMAIN Append(q, c) : Append(q, c)[i] = Append(q, c)[j] => i = j
  BY <1>2, <1>3 DEF QueueOK
<1> QED  BY <1>4, <1>5

\* pop_front of a queue.
Rest(q) == Tail(q)

\* The first of a queue is woken.
LEMMA QueuePop ==
    ASSUME TypeInv, NEW q \in Seq(RWCo), NEW place, QueueOK(q, place), q # <<>>,
           NEW c \in RWCo, rwPc[c] # place,
           \A d \in RWCo \ {c, q[1]} : rwPc'[d] = rwPc[d]
    PROVE  /\ q[1] \in RWCo /\ rwPc[q[1]] = place /\ q[1] # c
           /\ \A i \in DOMAIN Rest(q) : rwPc'[Rest(q)[i]] = place
           /\ \A i, j \in DOMAIN Rest(q) : Rest(q)[i] = Rest(q)[j] => i = j
<1>0. 1 \in DOMAIN q /\ q[1] \in RWCo
  OBVIOUS
<1>1. rwPc[q[1]] = place /\ q[1] # c
  BY <1>0 DEF QueueOK
<1>3. \A i \in DOMAIN Rest(q) : i \in Nat /\ i + 1 # 1 /\ i + 1 \in DOMAIN q /\ Rest(q)[i] = q[i + 1]
  BY DEF Rest
<1>4. ASSUME NEW i \in DOMAIN Rest(q) PROVE rwPc'[Rest(q)[i]] = place
  <2>1. Rest(q)[i] = q[i + 1] /\ i + 1 \in DOMAIN q /\ q[i + 1] # q[1]
    BY <1>0, <1>3 DEF QueueOK
  <2>2. q[i + 1] \in RWCo /\ rwPc[q[i + 1]] = place
    BY <2>1 DEF QueueOK
  <2> QED  BY <2>1, <2>2
<1>5. ASSUME NEW i \in DOMAIN Rest(q), NEW j \in DOMAIN Rest(q), Rest(q)[i] = Rest(q)[j]
      PROVE  i = j
  <2>1. i + 1 = j + 1 /\ i \in Nat /\ j \in Nat
    BY <1>3, <1>5 DEF QueueOK
  <2> QED  BY <2>1
<1> QED  BY <1>0, <1>1, <1>4, <1>5

\* The types when only c moves and the semaphores change.
LEMMA SemTyped ==
    ASSUME TypeInv, NEW c \in RWCo, NEW to, rwPc' = [rwPc EXCEPT ![c] = to],
           \/ c \in Reader /\ to \in ReaderPlaces
           \/ c \in Writer /\ to \in WriterPlaces \ {"idle"} /\ rwPc[c] # "idle",
           UNCHANGED <<readerCount, readerWait, wlock, rwR>>,
           readerSem' \in [count : Nat, queue : Seq(Reader)],
           writerSem' \in [count : Nat, queue : Seq(Writer)]
    PROVE  TypeInv'
<1>1. readerCount' \in Int /\ readerWait' \in Int /\ rwR' \in [Writer -> Int]
  BY DEF TypeInv
<1> QED  BY <1>1, WriterTyped, ReaderTyped

\* Semaphore::wait() takes a permit.
Takes(s, t) == s.count > 0 /\ t = [s EXCEPT !.count = @ - 1]

\* Semaphore::wait() puts c to sleep.
Sleeps(s, t, c) == s.count = 0 /\ t = [s EXCEPT !.queue = Append(@, c)]

\* Semaphore::post() leaves a permit.
Leaves(s, t) == s.queue = <<>> /\ t = [s EXCEPT !.count = @ + 1]

\* Semaphore::post() wakes the first sleeper.
Wakes(s, t) == s.queue # <<>> /\ t = [s EXCEPT !.queue = Rest(@)]

\* What these do to the fields of a semaphore.
LEMMA SemFields ==
    ASSUME NEW S, NEW s \in [count : Nat, queue : Seq(S)], NEW t
    PROVE  /\ Takes(s, t) => /\ t \in [count : Nat, queue : Seq(S)]
                             /\ t.count = s.count - 1 /\ t.queue = s.queue
           /\ \A c \in S : Sleeps(s, t, c) =>
                             /\ t \in [count : Nat, queue : Seq(S)]
                             /\ t.count = s.count /\ t.queue = Append(s.queue, c)
           /\ Leaves(s, t) => /\ t \in [count : Nat, queue : Seq(S)]
                              /\ t.count = s.count + 1 /\ t.queue = s.queue
           /\ Wakes(s, t) => /\ t \in [count : Nat, queue : Seq(S)]
                             /\ t.count = s.count /\ t.queue = Rest(s.queue)
<1>1. Takes(s, t) => /\ t \in [count : Nat, queue : Seq(S)]
                     /\ t.count = s.count - 1 /\ t.queue = s.queue
  BY DEF Takes
<1>2. \A c \in S : Sleeps(s, t, c) => /\ t \in [count : Nat, queue : Seq(S)]
                                      /\ t.count = s.count /\ t.queue = Append(s.queue, c)
  BY DEF Sleeps
<1>3. Leaves(s, t) => /\ t \in [count : Nat, queue : Seq(S)]
                      /\ t.count = s.count + 1 /\ t.queue = s.queue
  BY DEF Leaves
<1>4. Wakes(s, t) => /\ t \in [count : Nat, queue : Seq(S)]
                     /\ t.count = s.count /\ t.queue = Rest(s.queue)
  <2>1. ASSUME s.queue # <<>> PROVE Rest(s.queue) \in Seq(S)
    BY <2>1 DEF Rest
  <2> QED  BY <2>1 DEF Wakes
<1> QED  BY <1>1, <1>2, <1>3, <1>4

\* A queue whose sleepers do not move.
LEMMA QueueStays ==
    ASSUME TypeInv, NEW q \in Seq(RWCo), NEW place, QueueOK(q, place),
           \A d \in RWCo : rwPc[d] = place => rwPc'[d] = place
    PROVE  /\ \A i \in DOMAIN q : rwPc'[q[i]] = place
           /\ \A i, j \in DOMAIN q : q[i] = q[j] => i = j
<1>1. \A i \in DOMAIN q : q[i] \in RWCo /\ rwPc[q[i]] = place
  BY DEF QueueOK
<1> QED  BY <1>1 DEF QueueOK

\* The writer takes the permit of writerSem_.
LEMMA WaitReadersTakes ==
    ASSUME RWInv, NEW w \in Writer, RWGoTo(w, "wait", "writing"), Takes(writerSem, writerSem'),
           UNCHANGED <<readerCount, readerWait, wlock, readerSem, rwR>>
    PROVE  RWInv'
<1>p. rwPc' = [rwPc EXCEPT ![w] = "writing"] /\ rwPc[w] = "wait" /\ TypeInv
  BY DEF RWGoTo, RWInv
<1>0. w \in RWCo /\ wlock = w /\ WriterAt = "wait" /\ WriterAt' = "writing"
  BY <1>p, RWMutexAssumption DEF TypeInv, WriterAt, RWCo
<1>a. /\ writerSem.count \in Nat /\ writerSem.count > 0
      /\ writerSem' \in [count : Nat, queue : Seq(Writer)]
      /\ writerSem'.count = writerSem.count - 1 /\ writerSem'.queue = writerSem.queue
      /\ readerSem' \in [count : Nat, queue : Seq(Reader)]
      /\ readerSem.queue \in Seq(RWCo)
  <2>1. writerSem \in [count : Nat, queue : Seq(Writer)]
    BY <1>p DEF TypeInv
  <2>2. writerSem.count \in Nat /\ writerSem.count > 0
    BY <2>1 DEF Takes
  <2>3. readerSem' \in [count : Nat, queue : Seq(Reader)] /\ readerSem.queue \in Seq(RWCo)
    BY <1>p DEF TypeInv, RWCo
  <2> QED  BY <2>1, <2>2, <2>3, SemFields
<1>1. TypeInv'
  BY <1>p, <1>0, <1>a, SemTyped DEF WriterPlaces
<1>b. /\ Held' = Held /\ Before' = Before /\ N("reading")' = N("reading")
      /\ N("leave")' = N("leave") /\ N("wpost")' = N("wpost") /\ N("wpost") \in Nat
  BY <1>p, WriterCounts DEF WriterPlaces
<1>2. QueueInv'
  <2>1. writerSem.queue = <<>>
    BY <1>a DEF QueueInv, RWInv
  <2>2. QueueOK(writerSem.queue, "wasleep")'
    BY <1>a, <2>1 DEF QueueOK
  <2>3. \A d \in RWCo : rwPc[d] = "rasleep" => rwPc'[d] = "rasleep"
    BY <1>p DEF TypeInv
  <2>4. QueueOK(readerSem.queue, "rasleep")
    BY DEF QueueInv, RWInv
  <2>5. QueueOK(readerSem.queue, "rasleep")'
    BY <1>p, <1>a, <2>3, <2>4, QueueStays DEF QueueOK
  <2> QED  BY <1>a, <2>1, <2>2, <2>5 DEF QueueInv, RWInv
<1>3. readerWait = 0 /\ Before = 0 /\ writerSem.count + N("wpost") = 1
  BY <1>0, <1>a, <1>b DEF CountInv, PostInv, RWInv
<1>4. CountInv'
  BY <1>0, <1>b, <1>3 DEF CountInv, Announced, RWInv
<1>5. PostInv'
  BY <1>0, <1>a, <1>b, <1>3 DEF PostInv
<1> QED  BY <1>1, <1>2, <1>4, <1>5 DEF RWInv

\* The writer goes to sleep on writerSem_.
LEMMA WaitReadersSleeps ==
    ASSUME RWInv, NEW w \in Writer, RWGoTo(w, "wait", "wasleep"),
           Sleeps(writerSem, writerSem', w),
           UNCHANGED <<readerCount, readerWait, wlock, readerSem, rwR>>
    PROVE  RWInv'
<1>p. rwPc' = [rwPc EXCEPT ![w] = "wasleep"] /\ rwPc[w] = "wait" /\ TypeInv
  BY DEF RWGoTo, RWInv
<1>0. w \in RWCo /\ wlock = w /\ WriterAt = "wait" /\ WriterAt' = "wasleep"
  BY <1>p, RWMutexAssumption DEF TypeInv, WriterAt, RWCo
<1>a. /\ writerSem.count = 0
      /\ writerSem' \in [count : Nat, queue : Seq(Writer)]
      /\ writerSem'.count = writerSem.count /\ writerSem'.queue = Append(writerSem.queue, w)
      /\ readerSem' \in [count : Nat, queue : Seq(Reader)]
      /\ readerSem.queue \in Seq(RWCo) /\ writerSem.queue \in Seq(RWCo)
  <2>1. writerSem \in [count : Nat, queue : Seq(Writer)]
    BY <1>p DEF TypeInv
  <2>2. writerSem.count = 0
    BY DEF Sleeps
  <2>3. /\ readerSem' \in [count : Nat, queue : Seq(Reader)]
        /\ readerSem.queue \in Seq(RWCo) /\ writerSem.queue \in Seq(RWCo)
    BY <1>p DEF TypeInv, RWCo
  <2> QED  BY <2>1, <2>2, <2>3, SemFields
<1>1. TypeInv'
  BY <1>p, <1>0, <1>a, SemTyped DEF WriterPlaces
<1>b. /\ Held' = Held /\ Before' = Before /\ N("reading")' = N("reading")
      /\ N("leave")' = N("leave") /\ N("wpost")' = N("wpost")
  BY <1>p, WriterCounts DEF WriterPlaces
<1>2. QueueInv'
  <2>1. QueueOK(writerSem.queue, "wasleep") /\ QueueOK(readerSem.queue, "rasleep")
    BY DEF QueueInv, RWInv
  <2>2. QueueOK(writerSem.queue, "wasleep")'
    <3> DEFINE q == Append(writerSem.queue, w)
    <3>1. /\ \A i \in DOMAIN q : rwPc'[q[i]] = "wasleep"
          /\ \A i, j \in DOMAIN q : q[i] = q[j] => i = j
      BY <1>p, <1>0, <1>a, <2>1, QueuePush
    <3> HIDE DEF q
    <3>2. writerSem'.queue = q
      BY <1>a DEF q
    <3> QED  BY <3>1, <3>2 DEF QueueOK
  <2>3. \A d \in RWCo : rwPc[d] = "rasleep" => rwPc'[d] = "rasleep"
    BY <1>p DEF TypeInv
  <2>5. QueueOK(readerSem.queue, "rasleep")'
    BY <1>p, <1>a, <2>3, <2>1, QueueStays DEF QueueOK
  <2> QED  BY <1>a, <2>2, <2>5 DEF QueueInv, RWInv
<1>4. CountInv'
  BY <1>0, <1>b DEF CountInv, Announced, RWInv
<1>5. PostInv'
  BY <1>0, <1>a, <1>b DEF PostInv, RWInv
<1> QED  BY <1>1, <1>2, <1>4, <1>5 DEF RWInv

\* The writer waits for writerSem_.
LEMMA WaitReadersInv == ASSUME RWInv, NEW w \in Writer, WaitReaders(w) PROVE RWInv'
  BY WaitReadersTakes, WaitReadersSleeps DEF WaitReaders, Wait, Takes, Sleeps

\* unlock(): nobody reads, and all that have called rlock() are to be posted.
LEMMA UnlockInv == ASSUME RWInv, NEW w \in Writer, Unlock(w) PROVE RWInv'
<1> USE DEF RWInv, Unlock, RWGoTo
<1>a. /\ w \in RWCo /\ wlock = w /\ WriterAt = "writing" /\ Announced
  BY RWMutexAssumption DEF TypeInv, WriterAt, RWCo, Announced
<1>b. /\ N("reading") \in Nat /\ N("leave") \in Nat /\ readerSem.count \in Nat /\ Held \in Nat
      /\ Held + N("reading") < MaxReaders
  BY CountsNat, ReadersBound, RWMutexAssumption
<1>c. /\ readerWait = 0 /\ N("reading") = 0 /\ N("leave") = 0 /\ readerSem.count = 0
      /\ readerCount = Held - MaxReaders /\ readerCount < 0
  BY <1>a, <1>b, MaxReadersNat DEF CountInv, Before
<1>d. rwPc' = [rwPc EXCEPT ![w] = "post"]
  <2>1. ~(readerCount >= 0)
    BY <1>c DEF TypeInv
  <2> QED  BY <2>1
<1>0. WriterAt' = "post"
  BY <1>d, WriterMoves
<1>1. TypeInv'
  BY <1>a, <1>b, <1>d, MaxReadersNat, RWMutexAssumption DEF TypeInv, RWPlaces, WriterPlaces, RWCo
<1>2. QueueInv'
  BY <1>a, <1>d, QueuesKept
<1>3. CountInv' /\ PostInv'
  <2>1. /\ Held' = Held /\ Before' = Before /\ N("reading")' = N("reading")
        /\ N("leave")' = N("leave") /\ N("wpost")' = N("wpost") /\ N("wpost") \in Nat
    BY <1>d, WriterCounts DEF WriterPlaces
  <2>2. readerCount' = Held /\ rwR'[w] = Held /\ ~Announced'
    BY <1>0, <1>a, <1>b, <1>c, MaxReadersNat DEF TypeInv, Announced
  <2>3. CountInv'
    BY <1>0, <1>a, <1>b, <1>c, <2>1, <2>2 DEF CountInv
  <2>4. PostInv'
    BY <1>0, <1>a, <2>1 DEF PostInv
  <2> QED  BY <2>3, <2>4
<1> QED  BY <1>1, <1>2, <1>3

\* The last reader has been posted.
LEMMA UnlockWritersInv == ASSUME RWInv, NEW w \in Writer, UnlockWriters(w) PROVE RWInv'
<1> USE DEF RWInv, UnlockWriters, RWGoTo
<1>0. w \in RWCo /\ wlock = w /\ WriterAt = "post" /\ WriterAt' = "idle"
  BY RWMutexAssumption DEF TypeInv, WriterAt, RWCo
<1>1. TypeInv'
  BY <1>0, RWMutexAssumption DEF TypeInv, RWPlaces, WriterPlaces, RWCo
<1>2. QueueInv'
  BY <1>0, QueuesKept
<1>3. CountInv' /\ PostInv'
  <2>1. /\ Held' = Held /\ Before' = Before /\ N("reading")' = N("reading")
        /\ N("leave")' = N("leave") /\ N("wpost")' = N("wpost")
    BY WriterCounts DEF WriterPlaces
  <2>2. Held = readerSem.count
    BY <1>0 DEF CountInv, TypeInv
  <2> QED  BY <1>0, <2>1, <2>2 DEF CountInv, PostInv, Announced
<1> QED  BY <1>1, <1>2, <1>3

-----------------------------------------------------------------------------
(* rlock() and runlock()                                                   *)

\* A place where somebody is counts at least one.
LEMMA Present == ASSUME NEW c \in RWCo, NEW p, rwPc[c] = p PROVE N(p) >= 1
<1>1. c \in Places(rwPc, p) /\ IsFiniteSet(Places(rwPc, p)) /\ N(p) \in Nat
  BY PlacesFinite DEF Places, N
<1>2. N(p) # 0
  BY <1>1, FS_EmptySet DEF N
<1> QED  BY <1>1, <1>2

\* The counts when a reader moves.
LEMMA ReaderCounts ==
    ASSUME TypeInv, NEW c \in Reader, NEW to, rwPc' = [rwPc EXCEPT ![c] = to]
    PROVE  /\ N("rwait")' = N("rwait") + Gain("rwait", rwPc[c], to)
           /\ N("rasleep")' = N("rasleep") + Gain("rasleep", rwPc[c], to)
           /\ N("reading")' = N("reading") + Gain("reading", rwPc[c], to)
           /\ N("leave")' = N("leave") + Gain("leave", rwPc[c], to)
           /\ N("wpost")' = N("wpost") + Gain("wpost", rwPc[c], to)
<1>1. c \in RWCo
  BY DEF RWCo
<1>2. \A p : N(p)' = N(p) + Gain(p, rwPc[c], to)
  BY <1>1, MoveOne
<1> QED  BY <1>2

\* rlock() counts the reader, which waits if a writer is announced.
LEMMA RLockInv == ASSUME RWInv, NEW c \in Reader, RLock(c) PROVE RWInv'
<1>p. TypeInv /\ QueueInv /\ CountInv /\ PostInv /\ rwPc[c] = "idle"
  BY DEF RWInv, RLock, RWGoTo
<1>n. /\ Held \in Nat /\ N("reading") \in Nat /\ Held + N("reading") + 1 < MaxReaders
      /\ N("rwait") \in Nat /\ N("rasleep") \in Nat
  <2>1. Held + N("reading") < Cardinality(Reader) /\ Cardinality(Reader) < MaxReaders
        /\ Cardinality(Reader) \in Nat
    BY <1>p, ReadersBound, RWMutexAssumption
  <2>2. Held \in Nat /\ N("reading") \in Nat /\ N("rwait") \in Nat /\ N("rasleep") \in Nat
    BY <1>p, CountsNat
  <2> QED  BY <2>1, <2>2, MaxReadersNat
<1> DEFINE to == IF Announced THEN "rwait" ELSE "reading"
<1>d. /\ rwPc' = [rwPc EXCEPT ![c] = to] /\ readerCount' = readerCount + 1
      /\ UNCHANGED <<readerWait, wlock, readerSem, writerSem, rwR>>
  <2>1. CASE Announced
    <3>1. readerCount = Held + N("reading") - MaxReaders
      BY <1>p, <2>1 DEF CountInv
    <3>2. readerCount # -1 /\ ~(readerCount >= MaxReaders - 1) /\ readerCount < 0
      BY <1>n, <3>1, MaxReadersNat
    <3> QED  BY <2>1, <3>2 DEF RLock, RWGoTo
  <2>2. CASE ~Announced
    <3>1. readerCount = Held + N("reading")
      BY <1>p, <1>n, <2>2 DEF CountInv
    <3>2. readerCount # -1 /\ ~(readerCount >= MaxReaders - 1) /\ ~(readerCount < 0)
      BY <1>n, <3>1, MaxReadersNat
    <3> QED  BY <2>2, <3>2 DEF RLock, RWGoTo
  <2> QED  BY <2>1, <2>2
<1>0. /\ c \in RWCo /\ WriterAt' = WriterAt /\ (Announced' <=> Announced)
      /\ WriterAt \in WriterPlaces
  BY <1>p, <1>d, ReaderMoves
<1>1. TypeInv'
  <2>1. readerCount' \in Int /\ readerWait' \in Int
        /\ readerSem' \in [count : Nat, queue : Seq(Reader)]
        /\ writerSem' \in [count : Nat, queue : Seq(Writer)]
    BY <1>p, <1>d DEF TypeInv
  <2> QED  BY <1>p, <1>d, <2>1, ReaderTyped DEF ReaderPlaces
<1>2. QueueInv'
  BY <1>p, <1>d, <1>0, QueuesKept
<1>c. /\ N("rwait")' = N("rwait") + (IF Announced THEN 1 ELSE 0) /\ N("rasleep")' = N("rasleep")
      /\ N("reading")' = N("reading") + (IF Announced THEN 0 ELSE 1)
      /\ N("leave")' = N("leave") /\ N("wpost")' = N("wpost")
      /\ N("leave") \in Nat /\ N("wpost") \in Nat
  <2>1. /\ N("rwait")' = N("rwait") + Gain("rwait", "idle", to)
        /\ N("rasleep")' = N("rasleep") + Gain("rasleep", "idle", to)
        /\ N("reading")' = N("reading") + Gain("reading", "idle", to)
        /\ N("leave")' = N("leave") + Gain("leave", "idle", to)
        /\ N("wpost")' = N("wpost") + Gain("wpost", "idle", to)
    BY <1>p, <1>d, ReaderCounts
  <2>2. /\ N("rwait") \in Nat /\ N("rasleep") \in Nat /\ N("reading") \in Nat
        /\ N("leave") \in Nat /\ N("wpost") \in Nat
    BY <1>p, CountsNat
  <2> QED  BY <2>1, <2>2 DEF Gain
<1>3. CountInv'
  <2>1. /\ Held' = Held + (IF Announced THEN 1 ELSE 0)
        /\ Announced => Before' = Before
    BY <1>n, <1>c, <1>d DEF Held, Before
  <2>2. readerCount' = Held' + N("reading")' - (IF Announced' THEN MaxReaders ELSE 0)
    BY <1>p, <1>n, <1>0, <1>c, <1>d, <2>1, MaxReadersNat DEF CountInv
  <2> HIDE DEF to
  <2>3. CASE Announced
    BY <1>p, <1>0, <1>c, <1>d, <2>1, <2>2, <2>3 DEF CountInv, Announced
  <2>4. CASE ~Announced
    <3>1. Held' = Held
      BY <1>n, <2>1, <2>4
    <3> QED  BY <1>p, <1>0, <1>c, <1>d, <2>2, <2>4, <3>1 DEF CountInv, Announced
  <2> QED  BY <2>3, <2>4
<1>4. PostInv'
  BY <1>p, <1>0, <1>c, <1>d DEF PostInv
<1> QED  BY <1>1, <1>2, <1>3, <1>4 DEF RWInv

\* runlock(): the reader leaves, through readerWait_ if a writer is announced.
LEMMA RUnlockInv == ASSUME RWInv, NEW c \in Reader, RUnlock(c) PROVE RWInv'
<1>p. TypeInv /\ QueueInv /\ CountInv /\ PostInv /\ rwPc[c] = "reading" /\ c \in RWCo
  BY DEF RWInv, RUnlock, RWGoTo, RWCo
<1>n. /\ Held \in Nat /\ N("reading") \in Nat /\ Held + N("reading") < MaxReaders
      /\ N("rwait") \in Nat /\ N("rasleep") \in Nat /\ N("reading") >= 1
      /\ N("leave") \in Nat /\ N("wpost") \in Nat /\ readerSem.count \in Nat
  <2>1. Held + N("reading") <= Cardinality(Reader) /\ Cardinality(Reader) < MaxReaders
        /\ Cardinality(Reader) \in Nat
    BY <1>p, ReadersBound, RWMutexAssumption
  <2>2. /\ Held \in Nat /\ N("reading") \in Nat /\ N("rwait") \in Nat /\ N("rasleep") \in Nat
        /\ N("leave") \in Nat /\ N("wpost") \in Nat /\ readerSem.count \in Nat
    BY <1>p, CountsNat
  <2>3. N("reading") >= 1
    BY <1>p, Present
  <2> QED  BY <2>1, <2>2, <2>3, MaxReadersNat
<1> DEFINE to == IF Announced THEN "leave" ELSE "idle"
<1>d. /\ rwPc' = [rwPc EXCEPT ![c] = to] /\ readerCount' = readerCount - 1
      /\ UNCHANGED <<readerWait, wlock, readerSem, writerSem, rwR>>
  <2>1. CASE Announced
    <3>1. readerCount = Held + N("reading") - MaxReaders
      BY <1>p, <2>1 DEF CountInv
    <3>2. readerCount \notin {0, -MaxReaders} /\ readerCount < 0
      BY <1>n, <3>1, MaxReadersNat
    <3> QED  BY <2>1, <3>2 DEF RUnlock, RWGoTo
  <2>2. CASE ~Announced
    <3>1. readerCount = Held + N("reading")
      BY <1>p, <1>n, <2>2 DEF CountInv
    <3>2. readerCount \notin {0, -MaxReaders} /\ ~(readerCount < 0)
      BY <1>n, <3>1, MaxReadersNat
    <3> QED  BY <2>2, <3>2 DEF RUnlock, RWGoTo
  <2> QED  BY <2>1, <2>2
<1>0. WriterAt' = WriterAt /\ (Announced' <=> Announced) /\ WriterAt \in WriterPlaces
  BY <1>p, <1>d, ReaderMoves
<1>1. TypeInv'
  <2>1. readerCount' \in Int /\ readerWait' \in Int
        /\ readerSem' \in [count : Nat, queue : Seq(Reader)]
        /\ writerSem' \in [count : Nat, queue : Seq(Writer)]
    BY <1>p, <1>d DEF TypeInv
  <2> QED  BY <1>p, <1>d, <2>1, ReaderTyped DEF ReaderPlaces
<1>2. QueueInv'
  BY <1>p, <1>d, <1>0, QueuesKept
<1>c. /\ N("rwait")' = N("rwait") /\ N("rasleep")' = N("rasleep")
      /\ N("reading")' = N("reading") - 1
      /\ N("leave")' = N("leave") + (IF Announced THEN 1 ELSE 0) /\ N("wpost")' = N("wpost")
  <2>1. /\ N("rwait")' = N("rwait") + Gain("rwait", "reading", to)
        /\ N("rasleep")' = N("rasleep") + Gain("rasleep", "reading", to)
        /\ N("reading")' = N("reading") + Gain("reading", "reading", to)
        /\ N("leave")' = N("leave") + Gain("leave", "reading", to)
        /\ N("wpost")' = N("wpost") + Gain("wpost", "reading", to)
    BY <1>p, <1>d, ReaderCounts
  <2>2. /\ N("rwait") \in Nat /\ N("rasleep") \in Nat /\ N("reading") \in Nat
        /\ N("leave") \in Nat /\ N("wpost") \in Nat
    BY <1>p, CountsNat
  <2> QED  BY <2>1, <2>2 DEF Gain
<1>3. CountInv'
  <2>1. Held' = Held /\ (Announced => Before' = Before)
    BY <1>n, <1>c, <1>d DEF Held, Before
  <2>2. readerCount' = Held' + N("reading")' - (IF Announced' THEN MaxReaders ELSE 0)
    BY <1>p, <1>n, <1>0, <1>c, <1>d, <2>1, MaxReadersNat DEF CountInv
  <2> HIDE DEF to
  <2>3. CASE Announced
    BY <1>p, <1>0, <1>c, <1>d, <2>1, <2>2, <2>3 DEF CountInv, Announced
  <2>4. CASE ~Announced
    <3>1. N("leave")' = N("leave")
      BY <1>n, <1>c, <2>4
    <3> QED  BY <1>p, <1>0, <1>d, <2>1, <2>2, <2>4, <3>1 DEF CountInv, Announced
  <2> QED  BY <2>3, <2>4
<1>4. PostInv'
  BY <1>p, <1>0, <1>c, <1>d DEF PostInv
<1> QED  BY <1>1, <1>2, <1>3, <1>4 DEF RWInv

\* The reader that leaves takes itself off readerWait_; only the last of those
\* the writer waits for finds 1 there.
LEMMA RLeaveInv == ASSUME RWInv, NEW c \in Reader, RLeave(c) PROVE RWInv'
<1> DEFINE to == IF readerWait = 1 THEN "wpost" ELSE "idle"
<1>p. /\ TypeInv /\ QueueInv /\ CountInv /\ PostInv /\ rwPc[c] = "leave" /\ c \in RWCo
      /\ rwPc' = [rwPc EXCEPT ![c] = to] /\ readerWait' = readerWait - 1 /\ readerWait \in Int
      /\ UNCHANGED <<readerCount, wlock, readerSem, writerSem, rwR>>
  BY DEF RWInv, RLeave, RWGoTo, RWCo, TypeInv
<1>n. /\ N("reading") \in Nat /\ N("rwait") \in Nat /\ N("rasleep") \in Nat
      /\ N("leave") \in Nat /\ N("wpost") \in Nat /\ N("leave") >= 1
      /\ readerSem.count \in Nat /\ writerSem.count \in Nat
  BY <1>p, CountsNat, Present
<1>0. WriterAt' = WriterAt /\ (Announced' <=> Announced) /\ WriterAt \in WriterPlaces
  BY <1>p, ReaderMoves
<1>a. WriterAt \in {"count", "wait", "wasleep"} /\ Announced
  <2>1. Announced
    BY <1>p, <1>n DEF CountInv
  <2>2. WriterAt # "writing"
    BY <1>p, <1>n DEF CountInv, Before
  <2> QED  BY <2>1, <2>2 DEF Announced
<1>1. TypeInv'
  <2>1. readerCount' \in Int /\ readerWait' \in Int
        /\ readerSem' \in [count : Nat, queue : Seq(Reader)]
        /\ writerSem' \in [count : Nat, queue : Seq(Writer)]
    BY <1>p DEF TypeInv
  <2> QED  BY <1>p, <2>1, ReaderTyped DEF ReaderPlaces
<1>2. QueueInv'
  BY <1>p, QueuesKept
<1>c. /\ N("rwait")' = N("rwait") /\ N("rasleep")' = N("rasleep")
      /\ N("reading")' = N("reading") /\ N("leave")' = N("leave") - 1
      /\ N("wpost")' = N("wpost") + (IF readerWait = 1 THEN 1 ELSE 0)
  <2>1. /\ N("rwait")' = N("rwait") + Gain("rwait", "leave", to)
        /\ N("rasleep")' = N("rasleep") + Gain("rasleep", "leave", to)
        /\ N("reading")' = N("reading") + Gain("reading", "leave", to)
        /\ N("leave")' = N("leave") + Gain("leave", "leave", to)
        /\ N("wpost")' = N("wpost") + Gain("wpost", "leave", to)
    BY <1>p, ReaderCounts
  <2>2. /\ N("rwait") \in Nat /\ N("rasleep") \in Nat /\ N("reading") \in Nat
        /\ N("leave") \in Nat /\ N("wpost") \in Nat
    BY <1>p, CountsNat
  <2> QED  BY <2>1, <2>2 DEF Gain
<1>b. Held' = Held /\ Before' = Before - 1 /\ Before \in Nat
  BY <1>p, <1>n, <1>c DEF Held, Before
<1> HIDE DEF to
<1>3. CountInv'
  <2>1. readerCount' = Held' + N("reading")' - (IF Announced' THEN MaxReaders ELSE 0)
    BY <1>p, <1>0, <1>b, <1>c DEF CountInv
  <2>2. CASE WriterAt = "count"
    <3>1. rwR'[wlock'] + readerWait' = Before' /\ readerWait' <= 0
      <4>1. rwR[wlock] \in Int
        BY <1>p, <2>2, RWMutexAssumption DEF WriterAt, TypeInv
      <4> QED  BY <1>p, <1>b, <2>2, <4>1 DEF CountInv
    <3> QED  BY <1>0, <1>a, <2>1, <2>2, <3>1 DEF CountInv
  <2>3. CASE WriterAt \in {"wait", "wasleep"}
    <3>1. readerWait' = Before'
      BY <1>p, <1>b, <2>3 DEF CountInv
    <3> QED  BY <1>0, <1>a, <2>1, <2>3, <3>1 DEF CountInv
  <2> QED  BY <1>a, <2>2, <2>3
<1>4. PostInv'
  <2>1. CASE WriterAt = "count"
    <3>1. readerWait # 1
      BY <1>p, <2>1 DEF CountInv
    <3> QED  BY <1>p, <1>n, <1>0, <1>c, <2>1, <3>1 DEF PostInv
  <2>2. CASE WriterAt \in {"wait", "wasleep"}
    <3>1. readerWait >= 1
      BY <1>p, <1>n, <2>2 DEF CountInv, Before
    <3> QED  BY <1>p, <1>n, <1>0, <1>c, <2>2, <3>1 DEF PostInv
  <2> QED  BY <1>a, <2>1, <2>2
<1> QED  BY <1>1, <1>2, <1>3, <1>4 DEF RWInv

\* The reader takes a permit of readerSem_, no matter whom it was posted for.
LEMMA RWaitTakes ==
    ASSUME RWInv, NEW c \in Reader, RWGoTo(c, "rwait", "reading"), Takes(readerSem, readerSem'),
           UNCHANGED <<readerCount, readerWait, wlock, writerSem, rwR>>
    PROVE  RWInv'
<1>p. /\ rwPc' = [rwPc EXCEPT ![c] = "reading"] /\ rwPc[c] = "rwait" /\ c \in RWCo
      /\ TypeInv /\ QueueInv /\ CountInv /\ PostInv
  BY DEF RWGoTo, RWInv, RWCo
<1>0. WriterAt' = WriterAt /\ (Announced' <=> Announced) /\ WriterAt \in WriterPlaces
  BY <1>p, ReaderMoves
<1>a. /\ readerSem.count \in Nat /\ readerSem.count > 0
      /\ readerSem' \in [count : Nat, queue : Seq(Reader)]
      /\ readerSem'.count = readerSem.count - 1 /\ readerSem'.queue = readerSem.queue
      /\ writerSem' \in [count : Nat, queue : Seq(Writer)]
      /\ writerSem.queue \in Seq(RWCo)
  <2>1. readerSem \in [count : Nat, queue : Seq(Reader)]
    BY <1>p DEF TypeInv
  <2>2. readerSem.count \in Nat /\ readerSem.count > 0
    BY <2>1 DEF Takes
  <2>3. writerSem' \in [count : Nat, queue : Seq(Writer)] /\ writerSem.queue \in Seq(RWCo)
    BY <1>p DEF TypeInv, RWCo
  <2> QED  BY <2>1, <2>2, <2>3, SemFields
<1>1. TypeInv'
  BY <1>p, <1>a, SemTyped DEF ReaderPlaces
<1>2. QueueInv'
  <2>1. readerSem.queue = <<>> /\ QueueOK(writerSem.queue, "wasleep")
    BY <1>p, <1>a DEF QueueInv
  <2>2. QueueOK(readerSem.queue, "rasleep")'
    BY <1>a, <2>1 DEF QueueOK
  <2>3. \A d \in RWCo : rwPc[d] = "wasleep" => rwPc'[d] = "wasleep"
    BY <1>p DEF TypeInv
  <2>4. QueueOK(writerSem.queue, "wasleep")'
    BY <1>p, <1>a, <2>1, <2>3, QueueStays DEF QueueOK
  <2> QED  BY <1>p, <1>a, <2>1, <2>2, <2>4 DEF QueueInv
<1>c. /\ N("rwait")' = N("rwait") - 1 /\ N("rasleep")' = N("rasleep")
      /\ N("reading")' = N("reading") + 1 /\ N("leave")' = N("leave")
      /\ N("wpost")' = N("wpost")
      /\ N("rwait") \in Nat /\ N("rasleep") \in Nat /\ N("reading") \in Nat
      /\ N("leave") \in Nat /\ N("wpost") \in Nat
  <2>1. /\ N("rwait")' = N("rwait") + Gain("rwait", "rwait", "reading")
        /\ N("rasleep")' = N("rasleep") + Gain("rasleep", "rwait", "reading")
        /\ N("reading")' = N("reading") + Gain("reading", "rwait", "reading")
        /\ N("leave")' = N("leave") + Gain("leave", "rwait", "reading")
        /\ N("wpost")' = N("wpost") + Gain("wpost", "rwait", "reading")
    BY <1>p, ReaderCounts
  <2>2. /\ N("rwait") \in Nat /\ N("rasleep") \in Nat /\ N("reading") \in Nat
        /\ N("leave") \in Nat /\ N("wpost") \in Nat
    BY <1>p, CountsNat
  <2> QED  BY <2>1, <2>2 DEF Gain
<1>b. Held' = Held - 1 /\ Before' = Before /\ Held \in Nat
  <2>1. readerSem.count \in Nat /\ readerSem'.count = readerSem.count - 1
    BY <1>a
  <2>2. Held' = Held - 1 /\ Held \in Nat
    BY <1>c DEF Held
  <2>3. Before' = N("reading") + 1 + N("leave") + (readerSem.count - 1)
    BY <1>c, <2>1 DEF Before
  <2> QED  BY <1>c, <2>1, <2>2, <2>3 DEF Before
<1>3. CountInv'
  <2>1. readerCount' = Held' + N("reading")' - (IF Announced' THEN MaxReaders ELSE 0)
    BY <1>p, <1>0, <1>b, <1>c, MaxReadersNat DEF CountInv
  <2>2. /\ WriterAt' = "post" => Held' = readerSem'.count + rwR'[wlock'] /\ rwR'[wlock'] >= 0
        /\ WriterAt' \in {"idle", "announce"} => Held' = readerSem'.count
    <3>1. WriterAt = "post" => rwR[wlock] \in Int
      BY <1>p, RWMutexAssumption DEF WriterAt, TypeInv
    <3>2. readerSem.count \in Nat /\ readerSem'.count = readerSem.count - 1
      BY <1>a
    <3> QED  BY <1>p, <1>0, <1>b, <3>1, <3>2 DEF CountInv
  <2> QED  BY <1>p, <1>0, <1>b, <1>c, <2>1, <2>2 DEF CountInv
<1>4. PostInv'
  BY <1>p, <1>0, <1>c DEF PostInv
<1> QED  BY <1>1, <1>2, <1>3, <1>4 DEF RWInv

\* The reader goes to sleep on readerSem_.
LEMMA RWaitSleeps ==
    ASSUME RWInv, NEW c \in Reader, RWGoTo(c, "rwait", "rasleep"),
           Sleeps(readerSem, readerSem', c),
           UNCHANGED <<readerCount, readerWait, wlock, writerSem, rwR>>
    PROVE  RWInv'
<1>p. /\ rwPc' = [rwPc EXCEPT ![c] = "rasleep"] /\ rwPc[c] = "rwait" /\ c \in RWCo
      /\ TypeInv /\ QueueInv /\ CountInv /\ PostInv
  BY DEF RWGoTo, RWInv, RWCo
<1>0. WriterAt' = WriterAt /\ (Announced' <=> Announced) /\ WriterAt \in WriterPlaces
  BY <1>p, ReaderMoves
<1>a. /\ readerSem.count = 0
      /\ readerSem' \in [count : Nat, queue : Seq(Reader)]
      /\ readerSem'.count = readerSem.count /\ readerSem'.queue = Append(readerSem.queue, c)
      /\ writerSem' \in [count : Nat, queue : Seq(Writer)]
      /\ writerSem.queue \in Seq(RWCo) /\ readerSem.queue \in Seq(RWCo)
  <2>1. readerSem \in [count : Nat, queue : Seq(Reader)]
    BY <1>p DEF TypeInv
  <2>2. readerSem.count = 0
    BY DEF Sleeps
  <2>3. /\ writerSem' \in [count : Nat, queue : Seq(Writer)]
        /\ writerSem.queue \in Seq(RWCo) /\ readerSem.queue \in Seq(RWCo)
    BY <1>p DEF TypeInv, RWCo
  <2> QED  BY <2>1, <2>2, <2>3, SemFields
<1>1. TypeInv'
  BY <1>p, <1>a, SemTyped DEF ReaderPlaces
<1>2. QueueInv'
  <2>1. QueueOK(readerSem.queue, "rasleep") /\ QueueOK(writerSem.queue, "wasleep")
    BY <1>p DEF QueueInv
  <2>2. QueueOK(readerSem.queue, "rasleep")'
    <3> DEFINE q == Append(readerSem.queue, c)
    <3>1. /\ \A i \in DOMAIN q : rwPc'[q[i]] = "rasleep"
          /\ \A i, j \in DOMAIN q : q[i] = q[j] => i = j
      BY <1>p, <1>a, <2>1, QueuePush
    <3> HIDE DEF q
    <3>2. readerSem'.queue = q
      BY <1>a DEF q
    <3> QED  BY <3>1, <3>2 DEF QueueOK
  <2>3. \A d \in RWCo : rwPc[d] = "wasleep" => rwPc'[d] = "wasleep"
    BY <1>p DEF TypeInv
  <2>4. QueueOK(writerSem.queue, "wasleep")'
    BY <1>p, <1>a, <2>1, <2>3, QueueStays DEF QueueOK
  <2> QED  BY <1>p, <1>a, <2>2, <2>4 DEF QueueInv
<1>c. /\ N("rwait")' = N("rwait") - 1 /\ N("rasleep")' = N("rasleep") + 1
      /\ N("reading")' = N("reading") /\ N("leave")' = N("leave")
      /\ N("wpost")' = N("wpost")
      /\ N("rwait") \in Nat /\ N("rasleep") \in Nat
  <2>1. /\ N("rwait")' = N("rwait") + Gain("rwait", "rwait", "rasleep")
        /\ N("rasleep")' = N("rasleep") + Gain("rasleep", "rwait", "rasleep")
        /\ N("reading")' = N("reading") + Gain("reading", "rwait", "rasleep")
        /\ N("leave")' = N("leave") + Gain("leave", "rwait", "rasleep")
        /\ N("wpost")' = N("wpost") + Gain("wpost", "rwait", "rasleep")
    BY <1>p, ReaderCounts
  <2>2. /\ N("rwait") \in Nat /\ N("rasleep") \in Nat /\ N("reading") \in Nat
        /\ N("leave") \in Nat /\ N("wpost") \in Nat
    BY <1>p, CountsNat
  <2> QED  BY <2>1, <2>2 DEF Gain
<1>b. Held' = Held /\ Before' = Before
  BY <1>a, <1>c DEF Held, Before
<1>3. CountInv'
  BY <1>p, <1>0, <1>a, <1>b, <1>c DEF CountInv
<1>4. PostInv'
  BY <1>p, <1>0, <1>c DEF PostInv
<1> QED  BY <1>1, <1>2, <1>3, <1>4 DEF RWInv

\* The reader waits for readerSem_.
LEMMA RWaitInv == ASSUME RWInv, NEW c \in Reader, RWait(c) PROVE RWInv'
  BY RWaitTakes, RWaitSleeps DEF RWait, Wait, Takes, Sleeps

-----------------------------------------------------------------------------
(* The two post() loops.                                                   *)

\* unlock() leaves a permit of readerSem_.
LEMMA PostReaderLeaves ==
    ASSUME RWInv, NEW w \in Writer, rwPc[w] = "post", rwR[w] > 0,
           rwPc' = [rwPc EXCEPT ![w] = "post"], Leaves(readerSem, readerSem'),
           rwR' = [rwR EXCEPT ![w] = @ - 1],
           UNCHANGED <<readerCount, readerWait, wlock, writerSem>>
    PROVE  RWInv'
<1>p. TypeInv /\ QueueInv /\ CountInv /\ PostInv
  BY DEF RWInv
<1>s. rwPc' = rwPc
  BY <1>p DEF TypeInv, RWCo
<1>0. wlock = w /\ WriterAt = "post" /\ WriterAt' = "post"
  BY <1>p, <1>s, RWMutexAssumption DEF TypeInv, WriterAt
<1>a. /\ readerSem.count \in Nat
      /\ readerSem' \in [count : Nat, queue : Seq(Reader)]
      /\ readerSem'.count = readerSem.count + 1
      /\ readerSem.queue = <<>> /\ readerSem'.queue = readerSem.queue
  <2>1. readerSem \in [count : Nat, queue : Seq(Reader)]
    BY <1>p DEF TypeInv
  <2>2. readerSem.count \in Nat /\ readerSem.queue = <<>>
    BY <2>1 DEF Leaves
  <2> QED  BY <2>1, <2>2, SemFields
<1>r. rwR'[w] = rwR[w] - 1 /\ rwR[w] \in Int /\ rwR' \in [Writer -> Int]
  BY <1>p DEF TypeInv
<1>1. TypeInv'
  BY <1>p, <1>s, <1>a, <1>r DEF TypeInv
<1>2. QueueInv'
  BY <1>p, <1>s, <1>a DEF QueueInv, QueueOK
<1>c. Held' = Held /\ N("reading")' = N("reading") /\ N("leave")' = N("leave")
      /\ N("wpost")' = N("wpost")
  BY <1>s DEF Held, N, Places
<1>3. CountInv'
  <2>1. Held' = readerSem'.count + rwR'[wlock'] /\ rwR'[wlock'] >= 0
    BY <1>p, <1>0, <1>a, <1>c, <1>r DEF CountInv
  <2> QED  BY <1>p, <1>0, <1>c, <2>1 DEF CountInv, Announced
<1>4. PostInv'
  BY <1>p, <1>0, <1>c DEF PostInv
<1> QED  BY <1>1, <1>2, <1>3, <1>4 DEF RWInv

\* unlock() wakes the first reader that sleeps.
LEMMA PostReaderWakes ==
    ASSUME RWInv, NEW w \in Writer, rwPc[w] = "post", rwR[w] > 0,
           NEW h, h = readerSem.queue[1], h # w, rwPc' \in [RWCo -> RWPlaces],
           \A d \in RWCo : rwPc'[d] = IF d = h THEN "reading" ELSE rwPc[d],
           Wakes(readerSem, readerSem'), rwR' = [rwR EXCEPT ![w] = @ - 1],
           UNCHANGED <<readerCount, readerWait, wlock, writerSem>>
    PROVE  RWInv'
<1>p. TypeInv /\ QueueInv /\ CountInv /\ PostInv /\ w \in RWCo
  BY DEF RWInv, RWCo
<1>a. /\ readerSem.count \in Nat
      /\ readerSem' \in [count : Nat, queue : Seq(Reader)]
      /\ readerSem'.count = readerSem.count /\ readerSem'.queue = Rest(readerSem.queue)
      /\ readerSem.queue # <<>> /\ readerSem.queue \in Seq(RWCo) /\ h \in Reader
      /\ writerSem.queue \in Seq(RWCo)
  <2>1. readerSem \in [count : Nat, queue : Seq(Reader)]
    BY <1>p DEF TypeInv
  <2>2. readerSem.count \in Nat /\ readerSem.queue # <<>>
    BY <2>1 DEF Wakes
  <2>3. h \in Reader /\ readerSem.queue \in Seq(RWCo) /\ writerSem.queue \in Seq(RWCo)
    BY <1>p, <2>2 DEF TypeInv, RWCo
  <2>4. /\ readerSem' \in [count : Nat, queue : Seq(Reader)]
        /\ readerSem'.count = readerSem.count /\ readerSem'.queue = Rest(readerSem.queue)
    BY <2>1, SemFields
  <2> QED  BY <2>2, <2>3, <2>4
<1>q. QueueOK(readerSem.queue, "rasleep") /\ QueueOK(writerSem.queue, "wasleep")
  BY <1>p DEF QueueInv
<1>h. /\ h \in RWCo /\ rwPc[h] = "rasleep"
      /\ \A i \in DOMAIN Rest(readerSem.queue) : rwPc'[Rest(readerSem.queue)[i]] = "rasleep"
      /\ \A i, j \in DOMAIN Rest(readerSem.queue) :
            Rest(readerSem.queue)[i] = Rest(readerSem.queue)[j] => i = j
  <2>1. \A d \in RWCo \ {w, readerSem.queue[1]} : rwPc'[d] = rwPc[d]
    OBVIOUS
  <2> QED  BY <1>p, <1>a, <1>q, <2>1, QueuePop
<1>0. wlock = w /\ WriterAt = "post" /\ WriterAt' = "post"
  BY <1>p, RWMutexAssumption DEF TypeInv, WriterAt
<1>r. rwR'[w] = rwR[w] - 1 /\ rwR[w] \in Int /\ rwR' \in [Writer -> Int]
  BY <1>p DEF TypeInv
<1>1. TypeInv'
  <2>2. \A c \in Reader : rwPc'[c] \in ReaderPlaces
    BY <1>p DEF TypeInv, ReaderPlaces, RWCo
  <2>3. \A v \in Writer : rwPc'[v] = rwPc[v]
    BY <1>a, RWMutexAssumption DEF RWCo
  <2> QED  BY <1>p, <1>a, <1>r, <2>2, <2>3 DEF TypeInv
<1>2. QueueInv'
  <2>1. QueueOK(readerSem.queue, "rasleep")'
    BY <1>a, <1>h DEF QueueOK
  <2>2. \A d \in RWCo : rwPc[d] = "wasleep" => rwPc'[d] = "wasleep"
    BY <1>h
  <2>3. QueueOK(writerSem.queue, "wasleep")'
    <3>1. /\ \A i \in DOMAIN writerSem.queue : rwPc'[writerSem.queue[i]] = "wasleep"
          /\ \A i, j \in DOMAIN writerSem.queue : writerSem.queue[i] = writerSem.queue[j] => i = j
      BY <1>p, <1>a, <1>q, <2>2, QueueStays
    <3> QED  BY <3>1 DEF QueueOK
  <2>4. readerSem'.count = 0
    BY <1>p, <1>a DEF QueueInv
  <2> QED  BY <1>p, <2>1, <2>3, <2>4 DEF QueueInv
<1>c. /\ N("rwait")' = N("rwait") /\ N("rasleep")' = N("rasleep") - 1
      /\ N("reading")' = N("reading") + 1 /\ N("leave")' = N("leave")
      /\ N("wpost")' = N("wpost")
      /\ N("rwait") \in Nat /\ N("rasleep") \in Nat /\ N("reading") \in Nat
  <2>1. \A p : N(p)' = N(p) + Gain(p, "post", "post") + Gain(p, "rasleep", "reading")
    <3>1. MovesBoth(w, h) /\ rwPc'[w] = "post" /\ rwPc'[h] = "reading"
      BY <1>p, <1>h DEF MovesBoth
    <3> QED  BY <1>p, <1>h, <3>1, MoveTwo
  <2>2. /\ N("rwait") \in Nat /\ N("rasleep") \in Nat /\ N("reading") \in Nat
        /\ N("leave") \in Nat /\ N("wpost") \in Nat
    BY <1>p, CountsNat
  <2> QED  BY <2>1, <2>2 DEF Gain
<1>b. Held' = Held - 1 /\ Held \in Nat
  BY <1>c DEF Held
<1>3. CountInv'
  <2>1. Held' = readerSem'.count + rwR'[wlock'] /\ rwR'[wlock'] >= 0
    BY <1>p, <1>0, <1>a, <1>b, <1>r DEF CountInv
  <2>2. readerCount' = Held' + N("reading")'
    BY <1>p, <1>0, <1>b, <1>c DEF CountInv, Announced
  <2> QED  BY <1>p, <1>0, <1>b, <1>c, <2>1, <2>2 DEF CountInv, Announced
<1>4. PostInv'
  BY <1>p, <1>0, <1>c DEF PostInv
<1> QED  BY <1>1, <1>2, <1>3, <1>4 DEF RWInv

\* A step of c that wakes the first of q.
Woken(c, q, to, up) == rwPc' = [rwPc EXCEPT ![c] = to, ![Head(q)] = up]

\* The first sleeper of a queue and the places after it is woken.
LEMMA WokenPlaces ==
    ASSUME TypeInv, NEW q \in Seq(RWCo), NEW place, QueueOK(q, place), q # <<>>,
           NEW c \in RWCo, rwPc[c] # place, NEW to \in RWPlaces, NEW up \in RWPlaces,
           Woken(c, q, to, up)
    PROVE  /\ q[1] \in RWCo /\ q[1] # c /\ rwPc' \in [RWCo -> RWPlaces]
           /\ \A d \in RWCo : rwPc'[d] = IF d = q[1] THEN up ELSE IF d = c THEN to ELSE rwPc[d]
<1>1. Head(q) = q[1] /\ 1 \in DOMAIN q /\ q[1] \in RWCo
  OBVIOUS
<1>2. q[1] # c
  BY <1>1 DEF QueueOK
<1> QED  BY <1>1, <1>2 DEF TypeInv, Woken

\* unlock() posts one reader.
LEMMA PostReaderInv == ASSUME RWInv, NEW w \in Writer, PostReader(w) PROVE RWInv'
<1>1. CASE readerSem.queue = <<>>
  BY <1>1, PostReaderLeaves DEF PostReader, Post, Leaves
<1>2. CASE readerSem.queue # <<>>
  <2>1. /\ rwPc[w] = "post" /\ rwR[w] > 0 /\ Wakes(readerSem, readerSem')
        /\ Woken(w, readerSem.queue, "post", "reading")
        /\ rwR' = [rwR EXCEPT ![w] = @ - 1]
        /\ UNCHANGED <<readerCount, readerWait, wlock, writerSem>>
    BY <1>2 DEF PostReader, Post, Wakes, Rest, Woken
  <2>2. /\ TypeInv /\ readerSem.queue \in Seq(RWCo) /\ QueueOK(readerSem.queue, "rasleep")
        /\ w \in RWCo
    BY DEF RWInv, TypeInv, QueueInv, RWCo
  <2>q. "post" \in RWPlaces /\ "reading" \in RWPlaces
    BY DEF RWPlaces
  <2>3. /\ readerSem.queue[1] \in RWCo /\ readerSem.queue[1] # w
        /\ rwPc' \in [RWCo -> RWPlaces]
        /\ \A d \in RWCo : rwPc'[d] = IF d = readerSem.queue[1] THEN "reading"
                                      ELSE IF d = w THEN "post" ELSE rwPc[d]
    BY <1>2, <2>1, <2>2, <2>q, WokenPlaces
  <2>4. \A d \in RWCo : rwPc'[d] = IF d = readerSem.queue[1] THEN "reading" ELSE rwPc[d]
    BY <2>1, <2>3
  <2> DEFINE h == readerSem.queue[1]
  <2>5. h # w /\ h = readerSem.queue[1] /\ \A d \in RWCo : rwPc'[d] = IF d = h THEN "reading" ELSE rwPc[d]
    BY <2>3, <2>4
  <2> HIDE DEF h
  <2> QED  BY <2>1, <2>3, <2>5, PostReaderWakes
<1> QED  BY <1>1, <1>2

\* The last reader leaves a permit of writerSem_: the writer waits, and is not
\* asleep yet.
LEMMA PostWriterLeaves ==
    ASSUME RWInv, NEW c \in Reader, rwPc[c] = "wpost",
           rwPc' = [rwPc EXCEPT ![c] = "idle"], Leaves(writerSem, writerSem'),
           UNCHANGED <<readerCount, readerWait, wlock, readerSem, rwR>>
    PROVE  RWInv'
<1>p. TypeInv /\ QueueInv /\ CountInv /\ PostInv /\ c \in RWCo
  BY DEF RWInv, RWCo
<1>0. WriterAt' = WriterAt /\ (Announced' <=> Announced) /\ WriterAt \in WriterPlaces
  BY <1>p, ReaderMoves
<1>a. /\ writerSem.count \in Nat /\ writerSem.queue = <<>>
      /\ writerSem' \in [count : Nat, queue : Seq(Writer)]
      /\ writerSem'.count = writerSem.count + 1 /\ writerSem'.queue = writerSem.queue
      /\ readerSem' \in [count : Nat, queue : Seq(Reader)]
      /\ readerSem.queue \in Seq(RWCo)
  <2>1. writerSem \in [count : Nat, queue : Seq(Writer)]
    BY <1>p DEF TypeInv
  <2>2. writerSem.count \in Nat /\ writerSem.queue = <<>>
    BY <2>1 DEF Leaves
  <2>3. readerSem' \in [count : Nat, queue : Seq(Reader)] /\ readerSem.queue \in Seq(RWCo)
    BY <1>p DEF TypeInv, RWCo
  <2> QED  BY <2>1, <2>2, <2>3, SemFields
<1>1. TypeInv'
  BY <1>p, <1>a, SemTyped DEF ReaderPlaces
<1>2. QueueInv'
  <2>1. QueueOK(readerSem.queue, "rasleep")
    BY <1>p DEF QueueInv
  <2>2. QueueOK(writerSem.queue, "wasleep")'
    BY <1>a DEF QueueOK
  <2>3. \A d \in RWCo : rwPc[d] = "rasleep" => rwPc'[d] = "rasleep"
    BY <1>p DEF TypeInv
  <2>4. QueueOK(readerSem.queue, "rasleep")'
    BY <1>p, <1>a, <2>1, <2>3, QueueStays DEF QueueOK
  <2> QED  BY <1>p, <1>a, <2>2, <2>4 DEF QueueInv
<1>c. /\ N("rwait")' = N("rwait") /\ N("rasleep")' = N("rasleep")
      /\ N("reading")' = N("reading") /\ N("leave")' = N("leave")
      /\ N("wpost")' = N("wpost") - 1 /\ N("wpost") \in Nat
  <2>1. /\ N("rwait")' = N("rwait") + Gain("rwait", "wpost", "idle")
        /\ N("rasleep")' = N("rasleep") + Gain("rasleep", "wpost", "idle")
        /\ N("reading")' = N("reading") + Gain("reading", "wpost", "idle")
        /\ N("leave")' = N("leave") + Gain("leave", "wpost", "idle")
        /\ N("wpost")' = N("wpost") + Gain("wpost", "wpost", "idle")
    BY <1>p, ReaderCounts
  <2>2. /\ N("rwait") \in Nat /\ N("rasleep") \in Nat /\ N("reading") \in Nat
        /\ N("leave") \in Nat /\ N("wpost") \in Nat
    BY <1>p, CountsNat
  <2> QED  BY <2>1, <2>2 DEF Gain
<1>b. Held' = Held /\ Before' = Before
  BY <1>c DEF Held, Before
<1>3. CountInv'
  BY <1>p, <1>0, <1>b, <1>c DEF CountInv
<1>4. PostInv'
  <2>1. writerSem'.count + N("wpost")' = writerSem.count + N("wpost")
    <3>1. writerSem.count \in Nat /\ writerSem'.count = writerSem.count + 1
      BY <1>a
    <3> QED  BY <1>c, <3>1
  <2> QED  BY <1>p, <1>0, <2>1 DEF PostInv
<1> QED  BY <1>1, <1>2, <1>3, <1>4 DEF RWInv

\* The last reader wakes the writer, which then is alone.
LEMMA PostWriterWakes ==
    ASSUME RWInv, NEW c \in Reader, rwPc[c] = "wpost",
           NEW w, w = writerSem.queue[1], w # c, rwPc' \in [RWCo -> RWPlaces],
           \A d \in RWCo : rwPc'[d] = IF d = w THEN "writing" ELSE IF d = c THEN "idle" ELSE rwPc[d],
           Wakes(writerSem, writerSem'),
           UNCHANGED <<readerCount, readerWait, wlock, readerSem, rwR>>
    PROVE  RWInv'
<1>p. TypeInv /\ QueueInv /\ CountInv /\ PostInv /\ c \in RWCo
  BY DEF RWInv, RWCo
<1>a. /\ writerSem.count \in Nat
      /\ writerSem' \in [count : Nat, queue : Seq(Writer)]
      /\ writerSem'.count = writerSem.count /\ writerSem'.queue = Rest(writerSem.queue)
      /\ writerSem.queue # <<>> /\ writerSem.queue \in Seq(RWCo) /\ w \in Writer
      /\ readerSem.queue \in Seq(RWCo)
  <2>1. writerSem \in [count : Nat, queue : Seq(Writer)]
    BY <1>p DEF TypeInv
  <2>2. writerSem.count \in Nat /\ writerSem.queue # <<>>
    BY <2>1 DEF Wakes
  <2>3. w \in Writer /\ writerSem.queue \in Seq(RWCo) /\ readerSem.queue \in Seq(RWCo)
    BY <1>p, <2>2 DEF TypeInv, RWCo
  <2>4. /\ writerSem' \in [count : Nat, queue : Seq(Writer)]
        /\ writerSem'.count = writerSem.count /\ writerSem'.queue = Rest(writerSem.queue)
    BY <2>1, SemFields
  <2> QED  BY <2>2, <2>3, <2>4
<1>q. QueueOK(readerSem.queue, "rasleep") /\ QueueOK(writerSem.queue, "wasleep")
  BY <1>p DEF QueueInv
<1>h. /\ w \in RWCo /\ rwPc[w] = "wasleep"
      /\ \A i \in DOMAIN Rest(writerSem.queue) : rwPc'[Rest(writerSem.queue)[i]] = "wasleep"
      /\ \A i, j \in DOMAIN Rest(writerSem.queue) :
            Rest(writerSem.queue)[i] = Rest(writerSem.queue)[j] => i = j
  <2>1. \A d \in RWCo \ {c, writerSem.queue[1]} : rwPc'[d] = rwPc[d]
    OBVIOUS
  <2> QED  BY <1>p, <1>a, <1>q, <2>1, QueuePop
<1>0. wlock = w /\ w # NoWriter /\ WriterAt = "wasleep" /\ WriterAt' = "writing"
  BY <1>p, <1>a, <1>h, RWMutexAssumption DEF TypeInv, WriterAt
<1>1. TypeInv'
  <2>2. \A d \in Reader : rwPc'[d] \in ReaderPlaces
    BY <1>p, <1>a, RWMutexAssumption DEF TypeInv, ReaderPlaces, RWCo
  <2>3. \A v \in Writer : rwPc'[v] = IF v = w THEN "writing" ELSE rwPc[v]
    BY <1>a, RWMutexAssumption DEF RWCo
  <2>4. \A v \in Writer : rwPc'[v] \in WriterPlaces /\ (rwPc'[v] # "idle" <=> wlock' = v)
    BY <1>p, <1>0, <2>3 DEF TypeInv, WriterPlaces
  <2> QED  BY <1>p, <1>a, <2>2, <2>4 DEF TypeInv
<1>2. QueueInv'
  <2>1. QueueOK(writerSem.queue, "wasleep")'
    BY <1>a, <1>h DEF QueueOK
  <2>2. \A d \in RWCo : rwPc[d] = "rasleep" => rwPc'[d] = "rasleep"
    BY <1>h
  <2>3. QueueOK(readerSem.queue, "rasleep")'
    <3>1. /\ \A i \in DOMAIN readerSem.queue : rwPc'[readerSem.queue[i]] = "rasleep"
          /\ \A i, j \in DOMAIN readerSem.queue : readerSem.queue[i] = readerSem.queue[j] => i = j
      BY <1>p, <1>a, <1>q, <2>2, QueueStays
    <3> QED  BY <3>1 DEF QueueOK
  <2>4. writerSem'.count = 0
    BY <1>p, <1>a DEF QueueInv
  <2> QED  BY <1>p, <2>1, <2>3, <2>4 DEF QueueInv
<1>c. /\ N("rwait")' = N("rwait") /\ N("rasleep")' = N("rasleep")
      /\ N("reading")' = N("reading") /\ N("leave")' = N("leave")
      /\ N("wpost")' = N("wpost") - 1 /\ N("wpost") \in Nat
  <2>1. \A p : N(p)' = N(p) + Gain(p, "wpost", "idle") + Gain(p, "wasleep", "writing")
    <3>1. MovesBoth(c, w) /\ rwPc'[c] = "idle" /\ rwPc'[w] = "writing"
      BY <1>p, <1>h DEF MovesBoth
    <3> QED  BY <1>p, <1>h, <3>1, MoveTwo
  <2>2. /\ N("rwait") \in Nat /\ N("rasleep") \in Nat /\ N("reading") \in Nat
        /\ N("leave") \in Nat /\ N("wpost") \in Nat
    BY <1>p, CountsNat
  <2> QED  BY <2>1, <2>2 DEF Gain
<1>b. Held' = Held /\ Before' = Before
  BY <1>c DEF Held, Before
<1>w. readerWait = 0 /\ writerSem.count + N("wpost") = 1
  <2>1. N("wpost") >= 1
    BY <1>p, Present
  <2>2. writerSem.count + N("wpost") # 0
    BY <1>a, <1>c, <2>1
  <2> QED  BY <1>p, <2>2 DEF PostInv
<1>3. CountInv'
  <2>1. readerWait' = 0 /\ Before' = 0
    BY <1>p, <1>0, <1>b, <1>w DEF CountInv
  <2>2. readerCount' = Held' + N("reading")' - (IF Announced' THEN MaxReaders ELSE 0)
    BY <1>p, <1>0, <1>b, <1>c DEF CountInv, Announced
  <2> QED  BY <1>0, <2>1, <2>2 DEF CountInv, Announced
<1>4. PostInv'
  <2>1. writerSem'.count + N("wpost")' = 0
    <3>1. writerSem.count \in Nat /\ writerSem'.count = writerSem.count
      BY <1>a
    <3> QED  BY <1>c, <1>w, <3>1
  <2> QED  BY <1>0, <2>1 DEF PostInv
<1> QED  BY <1>1, <1>2, <1>3, <1>4 DEF RWInv

\* runlock() posts the writer.
LEMMA PostWriterInv == ASSUME RWInv, NEW c \in Reader, PostWriter(c) PROVE RWInv'
<1>1. CASE writerSem.queue = <<>>
  BY <1>1, PostWriterLeaves DEF PostWriter, Post, Leaves
<1>2. CASE writerSem.queue # <<>>
  <2>1. /\ rwPc[c] = "wpost" /\ Wakes(writerSem, writerSem')
        /\ Woken(c, writerSem.queue, "idle", "writing")
        /\ UNCHANGED <<readerCount, readerWait, wlock, readerSem, rwR>>
    BY <1>2 DEF PostWriter, Post, Wakes, Rest, Woken
  <2>2. /\ TypeInv /\ writerSem.queue \in Seq(RWCo) /\ QueueOK(writerSem.queue, "wasleep")
        /\ c \in RWCo
    BY DEF RWInv, TypeInv, QueueInv, RWCo
  <2>q. "idle" \in RWPlaces /\ "writing" \in RWPlaces
    BY DEF RWPlaces
  <2>3. /\ writerSem.queue[1] \in RWCo /\ writerSem.queue[1] # c
        /\ rwPc' \in [RWCo -> RWPlaces]
        /\ \A d \in RWCo : rwPc'[d] = IF d = writerSem.queue[1] THEN "writing"
                                      ELSE IF d = c THEN "idle" ELSE rwPc[d]
    BY <1>2, <2>1, <2>2, <2>q, WokenPlaces
  <2> DEFINE h == writerSem.queue[1]
  <2>5. h # c /\ h = writerSem.queue[1]
        /\ \A d \in RWCo : rwPc'[d] = IF d = h THEN "writing" ELSE IF d = c THEN "idle" ELSE rwPc[d]
    BY <2>3
  <2> HIDE DEF h
  <2> QED  BY <2>1, <2>3, <2>5, PostWriterWakes
<1> QED  BY <1>1, <1>2

-----------------------------------------------------------------------------
(* The theorems.                                                           *)

\* Nobody is in a call of the lock at first.
LEMMA RWInitInv == RWInit => RWInv
<1> SUFFICES ASSUME RWInit PROVE RWInv
  OBVIOUS
<1>1. TypeInv
  BY RWMutexAssumption
     DEF RWInit, TypeInv, EmptySem, RWPlaces, ReaderPlaces, WriterPlaces, RWCo
<1>2. QueueInv
  BY DEF RWInit, QueueInv, QueueOK, EmptySem
<1>3. WriterAt = "idle" /\ ~Announced
  BY DEF RWInit, WriterAt, Announced
<1>4. \A p : p # "idle" => N(p) = 0
  <2>1. ASSUME NEW p, p # "idle" PROVE Places(rwPc, p) = {}
    BY <2>1 DEF Places, RWInit
  <2> QED  BY <2>1, FS_EmptySet DEF N
<1>5. /\ N("rwait") = 0 /\ N("rasleep") = 0 /\ N("reading") = 0 /\ N("leave") = 0
      /\ N("wpost") = 0
  BY <1>4
<1>6. Held = 0 /\ readerSem.count = 0 /\ writerSem.count = 0
  BY <1>5 DEF Held, RWInit, EmptySem
<1>7. CountInv /\ PostInv
  BY <1>3, <1>5, <1>6 DEF CountInv, PostInv, RWInit
<1> QED  BY <1>1, <1>2, <1>7 DEF RWInv

\* Every step keeps the invariant.
LEMMA RWNextInv == RWInv /\ [RWNext]_rwVars => RWInv'
<1> SUFFICES ASSUME RWInv, [RWNext]_rwVars PROVE RWInv'
  OBVIOUS
<1>1. ASSUME NEW w \in Writer, LockWriters(w) PROVE RWInv'
  BY <1>1, LockWritersInv
<1>2. ASSUME NEW w \in Writer, WriterStep(w) PROVE RWInv'
  BY <1>2, AnnounceInv, CountReadersInv, WaitReadersInv, UnlockInv, PostReaderInv,
     UnlockWritersInv DEF WriterStep
<1>3. ASSUME NEW c \in Reader, RLock(c) PROVE RWInv'
  BY <1>3, RLockInv
<1>4. ASSUME NEW c \in Reader, ReaderStep(c) PROVE RWInv'
  BY <1>4, RWaitInv, RUnlockInv, RLeaveInv, PostWriterInv DEF ReaderStep
<1>5. CASE UNCHANGED rwVars
  <2>1. UNCHANGED <<readerCount, readerWait, wlock, readerSem, writerSem, rwPc, rwR>>
    BY <1>5 DEF rwVars
  <2>2. /\ TypeInv' = TypeInv /\ QueueInv' = QueueInv /\ WriterAt' = WriterAt
        /\ Held' = Held /\ Before' = Before /\ \A p : N(p)' = N(p)
    BY <2>1 DEF TypeInv, QueueInv, QueueOK, WriterAt, Held, Before, N, Places
  <2> QED  BY <2>1, <2>2 DEF RWInv, CountInv, PostInv, Announced
<1> QED  BY <1>1, <1>2, <1>3, <1>4, <1>5 DEF RWNext

\* readerCount_ and readerWait_ count what they are meant to count after every
\* step of rlock(), runlock(), lock() and unlock().
THEOREM RWInvariant == RWSpec => []RWInv
  BY RWInitInv, RWNextInv, PTL DEF RWSpec

\* The invariant gives the types, and no abort() is reached.
LEMMA InvTypes == ASSUME RWInv PROVE RWTypeOK
<1>p. TypeInv /\ QueueInv /\ CountInv
  BY DEF RWInv
<1>1. readerCount \in -MaxReaders .. MaxReaders
  <2>1. /\ Held + N("reading") <= Cardinality(Reader) /\ Cardinality(Reader) < MaxReaders
        /\ Held + N("reading") \in Nat /\ Cardinality(Reader) \in Nat
    BY <1>p, ReadersBound, RWMutexAssumption
  <2>2. readerCount \in Int /\ MaxReaders \in Nat
    BY <1>p, MaxReadersNat DEF TypeInv
  <2>3. \/ readerCount = Held + N("reading") - MaxReaders
        \/ readerCount = Held + N("reading") - 0
    BY <1>p DEF CountInv
  <2> DEFINE k == Held + N("reading")
             n == Cardinality(Reader)
  <2>4. /\ k <= n /\ n < MaxReaders /\ k \in Nat /\ n \in Nat
        /\ (readerCount = k - MaxReaders \/ readerCount = k - 0)
    <3>1. Held \in Nat /\ N("reading") \in Nat
      BY <1>p, CountsNat
    <3> QED  BY <2>1, <2>2, <2>3, <3>1
  <2> HIDE DEF k, n
  <2>5. -MaxReaders \in Int /\ -MaxReaders = 0 - MaxReaders
    BY <2>2
  <2>6. CASE readerCount = k - MaxReaders
    BY <2>2, <2>4, <2>5, <2>6
  <2>7. CASE readerCount = k - 0
    BY <2>2, <2>4, <2>5, <2>7
  <2> QED  BY <2>4, <2>6, <2>7
<1>2. readerSem.queue \in Seq(RWCo) /\ writerSem.queue \in Seq(RWCo)
  BY <1>p DEF TypeInv, RWCo
<1>3. \A s \in {readerSem, writerSem} :
          /\ s.count \in Nat /\ s.queue \in Seq(RWCo)
          /\ s.count > 0 => s.queue = <<>>
  BY <1>p, <1>2 DEF TypeInv, QueueInv
<1>4. /\ readerWait \in Int /\ wlock \in Writer \cup {NoWriter}
      /\ rwPc \in [RWCo -> RWPlaces] /\ rwR \in [Writer -> Int]
  BY <1>p DEF TypeInv
<1> QED  BY <1>1, <1>3, <1>4 DEF RWTypeOK

\* Those inside and those just leaving are counted apart.
LEMMA InsideCount == Cardinality(At({"reading", "leave"})) = N("reading") + N("leave")
<1> DEFINE A == Places(rwPc, "reading")
           B == Places(rwPc, "leave")
<1>1. IsFiniteSet(A) /\ IsFiniteSet(B) /\ Cardinality(A) \in Nat /\ Cardinality(B) \in Nat
  BY PlacesFinite
<1>2. A \cap B = {} /\ At({"reading", "leave"}) = A \cup B
  BY DEF At, Places
<1>3. Cardinality(A \cup B) = Cardinality(A) + Cardinality(B) - Cardinality({})
  <2> HIDE DEF A, B
  <2> QED  BY <1>1, <1>2, FS_Union
<1>4. N("reading") = Cardinality(A) /\ N("leave") = Cardinality(B)
  BY DEF N
<1>5. Cardinality({}) = 0
  BY FS_EmptySet
<1>6. Cardinality(At({"reading", "leave"})) = Cardinality(A \cup B)
  BY <1>2
<1> HIDE DEF A, B
<1> QED  BY <1>1, <1>3, <1>4, <1>5, <1>6

\* A count is 0 when nobody is at the place.
LEMMA NobodyAt == ASSUME NEW p PROVE N(p) = 0 <=> At({p}) = {}
<1>1. At({p}) = Places(rwPc, p) /\ IsFiniteSet(Places(rwPc, p))
  BY PlacesFinite DEF At, Places
<1> QED  BY <1>1, FS_EmptySet DEF N

\* The invariant gives the exclusion and the meaning of readerWait_.
LEMMA InvExclusion == RWInv => Exclusion
<1> SUFFICES ASSUME RWInv PROVE Exclusion
  OBVIOUS
<1>p. TypeInv /\ QueueInv /\ CountInv /\ PostInv
  BY DEF RWInv
<1>n. /\ N("reading") \in Nat /\ N("leave") \in Nat /\ N("wpost") \in Nat
      /\ readerSem.count \in Nat /\ writerSem.count \in Nat
  BY <1>p, CountsNat
<1>1. ASSUME NEW w \in At({"writing"}) \cap Writer PROVE At({"writing", "reading"}) = {w}
  <2>1. w \in Writer /\ w \in RWCo /\ rwPc[w] = "writing" /\ wlock = w /\ w # NoWriter
    BY <1>p, RWMutexAssumption DEF At, TypeInv
  <2>2. WriterAt = "writing"
    BY <2>1 DEF WriterAt
  <2>3. N("reading") = 0
    BY <1>p, <1>n, <2>2 DEF CountInv, Before
  <2>4. At({"reading"}) = {}
    BY <2>3, NobodyAt
  <2>5. \A d \in RWCo : rwPc[d] = "writing" => d = w
    BY <1>p, <2>1 DEF TypeInv, RWCo, ReaderPlaces
  <2> QED  BY <2>1, <2>4, <2>5 DEF At
<1>2. ASSUME NEW w \in At({"wait", "wasleep"})
      PROVE  /\ readerWait = Cardinality(At({"reading", "leave"})) + readerSem.count
             /\ readerWait = 0 <=> writerSem.count = 1 \/ At({"wpost"}) # {}
  <2>1. w \in Writer /\ rwPc[w] \in {"wait", "wasleep"} /\ wlock = w /\ w # NoWriter
    BY <1>p, RWMutexAssumption DEF At, TypeInv, RWCo, ReaderPlaces
  <2>2. WriterAt \in {"wait", "wasleep"}
    BY <2>1 DEF WriterAt
  <2>3. readerWait = N("reading") + N("leave") + readerSem.count
    BY <1>p, <2>2 DEF CountInv, Before
  <2>4. N("wpost") = 0 <=> At({"wpost"}) = {}
    BY NobodyAt
  <2>5. writerSem.count + N("wpost") = IF readerWait = 0 THEN 1 ELSE 0
    BY <1>p, <2>2 DEF PostInv
  <2> QED  BY <1>n, <2>3, <2>4, <2>5, InsideCount
<1>3. RWTypeOK
  BY InvTypes
<1> QED  BY <1>1, <1>2, <1>3 DEF Exclusion, WriterWaitsForReaders

\* A writer holds the lock alone, none of the abort() calls of corpc_rwmutex.cpp
\* is reached, and the writer that waits in lock() is posted exactly when the
\* last reader before it has left.
THEOREM RWExclusion == RWSpec => []Exclusion
  BY RWInvariant, InvExclusion, PTL

-----------------------------------------------------------------------------
(***************************************************************************)
(* Proofs about Condition for every finite set of consumers and producers  *)
(* and any number of rounds.  A consumer that waits is an element of one   *)
(* of three disjoint sets, the list, the hands of one producer and the     *)
(* resumed ones, and every step moves it from one to the next.  A signal   *)
(* is not missed because a consumer that goes to sleep holds the mutex     *)
(* from its test until it is in the list, so that there are no items then. *)
(***************************************************************************)
\* The condition variable by itself.
CondSpec ==
    (\E rounds \in [CondCo -> Nat] : CondInit(rounds)) /\ [][CondNext]_condVars

ConsumerPlaces == {"idle", "test", "push", "release", "unlock", "asleep"}
ProducerPlaces == {"idle", "signal", "broadcast", "one", "all", "store", "resume"}

\* A coroutine at one of these works on waitRoutines_.
ClaimPlaces == {"push", "release", "one", "all", "store"}

CondTypes ==
    /\ condRes \in 0 .. 1
    /\ condWaitRoutines \in Seq(Consumer)
    /\ condPc \in [CondCo -> CondPlaces]
    /\ info \in [Producer -> Seq(Consumer)]
    /\ resumed \subseteq Consumer
    /\ owner \in CondCo \cup {NoOwner}
    /\ items \in Nat
    /\ condLeft \in [CondCo -> Nat]
    /\ \A c \in Consumer : condPc[c] \in ConsumerPlaces /\ (condPc[c] # "idle" => condLeft[c] > 0)
    /\ \A p \in Producer : condPc[p] \in ProducerPlaces

\* res_ is a lock of the list.
ClaimInv ==
    /\ condRes = 1 <=> \E c \in CondCo : condPc[c] \in ClaimPlaces
    /\ \A c, d \in CondCo : condPc[c] \in ClaimPlaces /\ condPc[d] \in ClaimPlaces => c = d

\* The mutex is held from the test to the yield of wait(), and there are no
\* items when a consumer has decided to wait.
MutexInv ==
    \A c \in Consumer :
        /\ condPc[c] \in {"test", "push", "release", "unlock"} => owner = c
        /\ condPc[c] \in {"push", "release", "unlock"} => items = 0

\* The elements of a sequence, and that it has none twice.
Els(q) == {q[i] : i \in DOMAIN q}
Once(q) == \A i, j \in DOMAIN q : q[i] = q[j] => i = j

\* Who waits is in one place, once.
Waiting(c) == condPc[c] \in {"release", "unlock", "asleep"}

WaitInv ==
    /\ Once(condWaitRoutines) /\ \A p \in Producer : Once(info[p])
    /\ \A p \in Producer : info[p] # <<>> => condPc[p] \in {"store", "resume"}
    /\ \A p, q \in Producer : p # q => Els(info[p]) \cap Els(info[q]) = {}
    /\ \A p \in Producer : /\ Els(info[p]) \cap Els(condWaitRoutines) = {}
                           /\ Els(info[p]) \cap resumed = {}
    /\ Els(condWaitRoutines) \cap resumed = {}
    /\ \A c \in Consumer :
          Waiting(c) <=> \/ c \in Els(condWaitRoutines)
                         \/ \E p \in Producer : c \in Els(info[p])
                         \/ c \in resumed

\* Signals under way, and consumers that will look at the items.
Busy ==
    {p \in Producer : condPc[p] \in {"signal", "broadcast", "one", "all"}}
    \cup {c \in Consumer : condPc[c] \in {"test", "push"} \/ c \in resumed
             \/ \E p \in Producer : c \in Els(info[p])}

SignalInv == condWaitRoutines # <<>> => items <= Cardinality(Busy)

CondInv == CondTypes /\ ClaimInv /\ MutexInv /\ WaitInv /\ SignalInv

-----------------------------------------------------------------------------
(* Sequences as sets.                                                      *)

\* push_back
LEMMA ElsAppend ==
    ASSUME NEW S, NEW q \in Seq(S), NEW x \in S, Once(q), x \notin Els(q)
    PROVE  /\ Append(q, x) \in Seq(S) /\ Els(Append(q, x)) = Els(q) \cup {x}
           /\ Once(Append(q, x)) /\ Append(q, x) # <<>>
<1> DEFINE r == Append(q, x)
<1>1. /\ Len(q) \in Nat /\ DOMAIN q = 1 .. Len(q) /\ DOMAIN r = 1 .. Len(q) + 1
      /\ \A i \in DOMAIN q : r[i] = q[i] /\ q[i] \in Els(q)
      /\ r[Len(q) + 1] = x /\ r \in Seq(S) /\ r # <<>>
  BY DEF Els
<1> HIDE DEF r
<1>2. DOMAIN r = DOMAIN q \cup {Len(q) + 1} /\ Len(q) + 1 \notin DOMAIN q
  BY <1>1
<1>3. Els(r) = Els(q) \cup {x}
  BY <1>1, <1>2 DEF Els
<1>4. Once(r)
  BY <1>1, <1>2 DEF Once
<1> QED  BY <1>1, <1>3, <1>4 DEF r

\* front and pop_front
LEMMA ElsTail ==
    ASSUME NEW S, NEW q \in Seq(S), q # <<>>, Once(q)
    PROVE  /\ Head(q) \in S /\ Tail(q) \in Seq(S) /\ Once(Tail(q))
           /\ Head(q) \in Els(q) /\ Els(Tail(q)) = Els(q) \ {Head(q)}
<1> DEFINE t == Tail(q)
<1>1. /\ Len(q) \in Nat /\ Len(q) # 0 /\ DOMAIN q = 1 .. Len(q) /\ DOMAIN t = 1 .. Len(q) - 1
      /\ Head(q) = q[1] /\ q[1] \in S /\ t \in Seq(S)
      /\ \A i \in DOMAIN t : t[i] = q[i + 1]
  OBVIOUS
<1> HIDE DEF t
<1>2. 1 \in DOMAIN q /\ \A i \in DOMAIN t : i + 1 \in DOMAIN q /\ i + 1 # 1 /\ i \in Int
  BY <1>1
<1>3. \A i \in DOMAIN q : i # 1 => i - 1 \in DOMAIN t /\ t[i - 1] = q[i]
  BY <1>1
<1>4. Once(t)
  <2>1. \A i, j \in DOMAIN t : t[i] = t[j] => i + 1 = j + 1
    BY <1>1, <1>2 DEF Once
  <2> QED  BY <1>2, <2>1 DEF Once
<1>5. \A i \in DOMAIN t : t[i] \in Els(q) /\ t[i] # q[1]
  BY <1>1, <1>2 DEF Els, Once
<1>6. \A y \in Els(q) : y # q[1] => y \in Els(t)
  BY <1>3 DEF Els
<1>7. q[1] \in Els(q)
  BY <1>2 DEF Els
<1>8. Els(t) = Els(q) \ {q[1]}
  <2>1. \A y \in Els(t) : y \in Els(q) /\ y # q[1]
    BY <1>5 DEF Els
  <2> QED  BY <1>6, <2>1
<1> QED  BY <1>1, <1>4, <1>7, <1>8 DEF t

\* A sequence of one, and of none.
LEMMA ElsOne ==
    ASSUME NEW S, NEW x \in S
    PROVE  /\ <<x>> \in Seq(S) /\ Els(<<x>>) = {x} /\ Once(<<x>>)
           /\ <<>> \in Seq(S) /\ Els(<<>>) = {} /\ Once(<<>>)
  BY DEF Els, Once

\* A sequence without elements is empty.
LEMMA ElsNone ==
    ASSUME NEW S, NEW q \in Seq(S), q # <<>> PROVE Els(q) # {}
<1>1. 1 \in DOMAIN q
  OBVIOUS
<1> QED  BY <1>1 DEF Els

-----------------------------------------------------------------------------
(* Steps in general.                                                       *)

\* The coroutines that will look at the items are finitely many.
LEMMA BusyFinite == IsFiniteSet(Busy) /\ Cardinality(Busy) \in Nat
<1>1. IsFiniteSet(Consumer \cup Producer)
  BY ConditionAssumption, FS_Union
<1>2. Busy \subseteq Consumer \cup Producer
  BY DEF Busy
<1> QED  BY <1>1, <1>2, FS_Subset, FS_CardinalityType

\* One coroutine changes its place.
Goes(c, to) ==
    /\ c \in CondCo /\ condPc' \in [CondCo -> CondPlaces]
    /\ condPc'[c] = to /\ \A d \in CondCo \ {c} : condPc'[d] = condPc[d]

LEMMA GoesTo ==
    ASSUME CondTypes, NEW c \in CondCo, NEW from, NEW to \in CondPlaces, CondGoTo(c, from, to)
    PROVE  Goes(c, to) /\ condPc[c] = from
  BY DEF Goes, CondGoTo, CondTypes

\* What the steps have to show of the types of the other variables.
TypedNext ==
    /\ condRes' \in 0 .. 1 /\ condWaitRoutines' \in Seq(Consumer)
    /\ info' \in [Producer -> Seq(Consumer)] /\ resumed' \subseteq Consumer
    /\ owner' \in CondCo \cup {NoOwner} /\ items' \in Nat

LEMMA TypesConsumer ==
    ASSUME CondTypes, NEW c \in Consumer, NEW to \in ConsumerPlaces, Goes(c, to), TypedNext,
           condLeft' = condLeft, to # "idle" => condLeft[c] > 0
    PROVE  CondTypes'
<1>1. \A d \in Consumer : /\ condPc'[d] \in ConsumerPlaces
                          /\ condPc'[d] # "idle" => condLeft'[d] > 0
  BY DEF CondTypes, Goes, CondCo
<1>2. \A p \in Producer : condPc'[p] \in ProducerPlaces
  BY ConditionAssumption DEF CondTypes, Goes, CondCo
<1>3. condLeft' \in [CondCo -> Nat] /\ condPc' \in [CondCo -> CondPlaces]
  BY DEF CondTypes, Goes
<1> QED  BY <1>1, <1>2, <1>3 DEF CondTypes, TypedNext

LEMMA TypesProducer ==
    ASSUME CondTypes, NEW p \in Producer, NEW to \in ProducerPlaces, Goes(p, to), TypedNext,
           condLeft' \in [CondCo -> Nat], \A c \in Consumer : condLeft'[c] = condLeft[c]
    PROVE  CondTypes'
<1>1. \A d \in Consumer : /\ condPc'[d] \in ConsumerPlaces
                          /\ condPc'[d] # "idle" => condLeft'[d] > 0
  BY ConditionAssumption DEF CondTypes, Goes, CondCo
<1>2. \A q \in Producer : condPc'[q] \in ProducerPlaces
  BY DEF CondTypes, Goes, CondCo
<1>3. condPc' \in [CondCo -> CondPlaces]
  BY DEF Goes
<1> QED  BY <1>1, <1>2, <1>3 DEF CondTypes, TypedNext

\* The lock of the list when it is neither taken nor released.
LEMMA ClaimKept ==
    ASSUME ClaimInv, NEW c, NEW to, Goes(c, to), condRes' = condRes,
           condPc[c] \in ClaimPlaces <=> to \in ClaimPlaces
    PROVE  ClaimInv'
<1>1. \A d \in CondCo : condPc'[d] \in ClaimPlaces <=> condPc[d] \in ClaimPlaces
  BY DEF Goes
<1> QED  BY <1>1 DEF ClaimInv, Goes

\* It is taken.
LEMMA ClaimTaken ==
    ASSUME ClaimInv, NEW c, NEW to \in ClaimPlaces, Goes(c, to), condRes = 0, condRes' = 1
    PROVE  ClaimInv'
<1>1. \A d \in CondCo : condPc[d] \notin ClaimPlaces
  BY DEF ClaimInv
<1>2. \A d \in CondCo : condPc'[d] \in ClaimPlaces <=> d = c
  BY <1>1 DEF Goes
<1> QED  BY <1>2 DEF ClaimInv, Goes

\* It is released.
LEMMA ClaimReleased ==
    ASSUME ClaimInv, NEW c, NEW to, to \notin ClaimPlaces, Goes(c, to),
           condPc[c] \in ClaimPlaces, condRes' = 0
    PROVE  ClaimInv'
<1>1. \A d \in CondCo : condPc'[d] \notin ClaimPlaces
  BY DEF ClaimInv, Goes
<1> QED  BY <1>1 DEF ClaimInv

\* Those who wait, when nobody begins or ceases to wait.
LEMMA WaitKept ==
    ASSUME WaitInv, NEW c, NEW to, Goes(c, to), UNCHANGED <<condWaitRoutines, info, resumed>>,
           c \in Consumer => (Waiting(c) <=> to \in {"release", "unlock", "asleep"}),
           c \in Producer => (info[c] # <<>> => to \in {"store", "resume"})
    PROVE  WaitInv'
<1>1. \A d \in Consumer : Waiting(d)' <=> Waiting(d)
  BY DEF Goes, Waiting, CondCo
<1>2. \A p \in Producer : info'[p] # <<>> => condPc'[p] \in {"store", "resume"}
  BY DEF WaitInv, Goes, CondCo
<1> QED  BY <1>1, <1>2 DEF WaitInv

\* Those who will look at the items, when a consumer or a producer moves.
LEMMA BusyConsumer ==
    ASSUME NEW c \in Consumer, NEW to, Goes(c, to), UNCHANGED <<info, resumed>>
    PROVE  Busy' = IF \/ to \in {"test", "push"} \/ c \in resumed
                      \/ \E p \in Producer : c \in Els(info[p])
                   THEN Busy \cup {c} ELSE Busy \ {c}
<1>1. \A p \in Producer : condPc'[p] = condPc[p] /\ p # c
  BY ConditionAssumption DEF Goes, CondCo
<1>2. \A d \in Consumer \ {c} : condPc'[d] = condPc[d]
  BY DEF Goes, CondCo
<1>3. condPc'[c] = to
  BY DEF Goes
<1> QED  BY <1>1, <1>2, <1>3 DEF Busy

LEMMA BusyProducer ==
    ASSUME NEW p \in Producer, NEW to, Goes(p, to), UNCHANGED <<info, resumed>>
    PROVE  Busy' = IF to \in {"signal", "broadcast", "one", "all"}
                   THEN Busy \cup {p} ELSE Busy \ {p}
<1>1. \A c \in Consumer : condPc'[c] = condPc[c] /\ p # c
  BY ConditionAssumption DEF Goes, CondCo
<1>2. \A q \in Producer \ {p} : condPc'[q] = condPc[q]
  BY DEF Goes, CondCo
<1>3. condPc'[p] = to
  BY DEF Goes
<1> QED  BY <1>1, <1>2, <1>3 DEF Busy

\* A step after which at least as many will look at the items.
LEMMA SignalKept ==
    ASSUME CondTypes, SignalInv, UNCHANGED <<condWaitRoutines, items>>, Busy \subseteq Busy',
           IsFiniteSet(Busy')
    PROVE  SignalInv'
<1>1. Cardinality(Busy) <= Cardinality(Busy') /\ Cardinality(Busy) \in Nat
      /\ Cardinality(Busy') \in Nat
  BY BusyFinite, FS_Subset, FS_CardinalityType
<1> QED  BY <1>1 DEF SignalInv, CondTypes

\* Busy is finite after a step, too.
LEMMA BusyFiniteNext == IsFiniteSet(Busy') /\ Cardinality(Busy') \in Nat
<1>1. IsFiniteSet(Consumer \cup Producer)
  BY ConditionAssumption, FS_Union
<1>2. Busy' \subseteq Consumer \cup Producer
  BY DEF Busy
<1> QED  BY <1>1, <1>2, FS_Subset, FS_CardinalityType

\* The mutex when a producer moves.
LEMMA MutexProducer ==
    ASSUME MutexInv, NEW p \in Producer, NEW to, Goes(p, to), items' = items,
           owner' = owner \/ Done(p)
    PROVE  MutexInv'
<1>1. \A c \in Consumer : c # p /\ condPc'[c] = condPc[c]
  BY ConditionAssumption DEF Goes, CondCo
<1>2. \A c \in Consumer : owner = c => owner' = c
  BY <1>1 DEF Done
<1> QED  BY <1>1, <1>2 DEF MutexInv

-----------------------------------------------------------------------------
(* The consumer.                                                           *)

\* The consumer has the mutex.
LEMMA LockInv == ASSUME CondInv, NEW c \in Consumer, Lock(c) PROVE CondInv'
<1>p. CondTypes /\ ClaimInv /\ MutexInv /\ WaitInv /\ SignalInv /\ c \in CondCo
  BY DEF CondInv, CondCo
<1>g. Goes(c, "test") /\ condPc[c] = "idle"
  BY <1>p, GoesTo DEF Lock, CondPlaces
<1>u. /\ UNCHANGED <<condRes, condWaitRoutines, info, resumed, items, condLeft>>
      /\ owner = NoOwner /\ owner' = c
  BY DEF Lock, Acquire, cond
<1>1. CondTypes'
  <2>1. TypedNext
    BY <1>p, <1>u DEF CondTypes, TypedNext
  <2>2. condLeft[c] > 0
    BY DEF Lock
  <2> QED  BY <1>p, <1>g, <1>u, <2>1, <2>2, TypesConsumer DEF ConsumerPlaces
<1>2. ClaimInv'
  BY <1>p, <1>g, <1>u, ClaimKept DEF ClaimPlaces
<1>3. MutexInv'
  <2>1. \A d \in Consumer : d # c =>
           condPc'[d] \notin {"test", "push", "release", "unlock"}
    BY <1>p, <1>g, <1>u, ConditionAssumption DEF MutexInv, Goes, CondCo
  <2> QED  BY <1>g, <1>u, <2>1 DEF MutexInv, Goes
<1>4. WaitInv'
  BY <1>p, <1>g, <1>u, ConditionAssumption, WaitKept DEF Waiting
<1>5. SignalInv'
  <2>1. Busy' = Busy \cup {c}
    BY <1>g, <1>u, BusyConsumer
  <2> QED  BY <1>p, <1>u, <2>1, SignalKept, BusyFiniteNext
<1> QED  BY <1>1, <1>2, <1>3, <1>4, <1>5 DEF CondInv

\* The consumer takes an item and unlocks.
LEMMA TakeInv == ASSUME CondInv, NEW c \in Consumer, Take(c) PROVE CondInv'
<1>p. CondTypes /\ ClaimInv /\ MutexInv /\ WaitInv /\ SignalInv /\ c \in CondCo
  BY DEF CondInv, CondCo
<1>g. Goes(c, "idle") /\ condPc[c] = "test"
  BY <1>p, GoesTo DEF Take, CondPlaces
<1>u. /\ UNCHANGED <<condRes, condWaitRoutines, info, resumed>>
      /\ items > 0 /\ items' = items - 1 /\ owner' = NoOwner
      /\ condLeft' = [condLeft EXCEPT ![c] = @ - 1]
  BY DEF Take, cond
<1>o. owner = c
  BY <1>p, <1>g DEF MutexInv
<1>1. CondTypes'
  <2>1. items' \in Nat
    BY <1>p, <1>u DEF CondTypes
  <2>2. condLeft' \in [CondCo -> Nat] /\ \A d \in CondCo \ {c} : condLeft'[d] = condLeft[d]
    <3>1. condLeft \in [CondCo -> Nat] /\ condLeft[c] > 0 /\ condLeft[c] \in Nat
      BY <1>p, <1>g DEF CondTypes
    <3>2. condLeft[c] - 1 \in Nat
      BY <3>1
    <3> QED  BY <1>u, <3>1, <3>2
  <2>3. \A d \in Consumer : condPc'[d] \in ConsumerPlaces /\ (condPc'[d] # "idle" => condLeft'[d] > 0)
    BY <1>p, <1>g, <2>2 DEF CondTypes, Goes, ConsumerPlaces, CondCo
  <2>4. \A d \in Producer : condPc'[d] \in ProducerPlaces
    BY <1>p, <1>g, ConditionAssumption DEF CondTypes, Goes, CondCo
  <2> QED  BY <1>p, <1>g, <1>u, <2>1, <2>2, <2>3, <2>4 DEF CondTypes, Goes
<1>2. ClaimInv'
  BY <1>p, <1>g, <1>u, ClaimKept DEF ClaimPlaces
<1>3. MutexInv'
  BY <1>p, <1>g, <1>o DEF MutexInv, Goes, CondCo
<1>4. WaitInv'
  BY <1>p, <1>g, <1>u, ConditionAssumption, WaitKept DEF Waiting
<1>5. SignalInv'
  <2>1. ~(c \in resumed) /\ ~(\E p \in Producer : c \in Els(info[p]))
    BY <1>p, <1>g DEF WaitInv, Waiting
  <2>2. Busy' = Busy \ {c} /\ c \in Busy
    BY <1>g, <1>u, <2>1, BusyConsumer DEF Busy
  <2>3. Cardinality(Busy') = Cardinality(Busy) - 1 /\ Cardinality(Busy) \in Nat
    BY <2>2, BusyFinite, FS_RemoveElement
  <2>4. items \in Nat
    BY <1>p DEF CondTypes
  <2> QED  BY <1>p, <1>u, <2>3, <2>4 DEF SignalInv
<1> QED  BY <1>1, <1>2, <1>3, <1>4, <1>5 DEF CondInv

\* The consumer begins to work on the list.
LEMMA WaitClaimInv == ASSUME CondInv, NEW c \in Consumer, WaitClaim(c) PROVE CondInv'
<1>p. CondTypes /\ ClaimInv /\ MutexInv /\ WaitInv /\ SignalInv /\ c \in CondCo
  BY DEF CondInv, CondCo
<1>g. Goes(c, "push") /\ condPc[c] = "test"
  BY <1>p, GoesTo DEF WaitClaim, CondClaim, CondPlaces
<1>u. /\ UNCHANGED <<condWaitRoutines, info, resumed, owner, items, condLeft>>
      /\ condRes = 0 /\ condRes' = 1 /\ items = 0
  BY DEF WaitClaim, CondClaim
<1>1. CondTypes'
  <2>1. condRes' \in 0 .. 1
    BY <1>p, <1>u DEF CondTypes
  <2>2. TypedNext
    BY <1>p, <1>u, <2>1 DEF CondTypes, TypedNext
  <2>3. condLeft[c] > 0
    BY <1>p, <1>g DEF CondTypes
  <2> QED  BY <1>p, <1>g, <1>u, <2>2, <2>3, TypesConsumer DEF ConsumerPlaces
<1>2. ClaimInv'
  BY <1>p, <1>g, <1>u, ClaimTaken DEF ClaimPlaces
<1>3. MutexInv'
  BY <1>p, <1>g, <1>u DEF MutexInv, Goes, CondCo
<1>4. WaitInv'
  BY <1>p, <1>g, <1>u, ConditionAssumption, WaitKept DEF Waiting
<1>5. SignalInv'
  BY <1>u, BusyFiniteNext DEF SignalInv
<1> QED  BY <1>1, <1>2, <1>3, <1>4, <1>5 DEF CondInv

\* The consumer is in the list.
LEMMA WaitPushInv == ASSUME CondInv, NEW c \in Consumer, WaitPush(c) PROVE CondInv'
<1>p. CondTypes /\ ClaimInv /\ MutexInv /\ WaitInv /\ SignalInv /\ c \in CondCo
  BY DEF CondInv, CondCo
<1>g. Goes(c, "release") /\ condPc[c] = "push"
  BY <1>p, GoesTo DEF WaitPush, CondPlaces
<1>u. /\ UNCHANGED <<condRes, info, resumed, owner, items, condLeft>>
      /\ condWaitRoutines' = Append(condWaitRoutines, c)
  BY DEF WaitPush
<1>n. /\ c \notin Els(condWaitRoutines) /\ c \notin resumed
      /\ \A p \in Producer : c \notin Els(info[p])
  BY <1>p, <1>g DEF WaitInv, Waiting
<1>l. /\ condWaitRoutines' \in Seq(Consumer) /\ Once(condWaitRoutines')
      /\ Els(condWaitRoutines') = Els(condWaitRoutines) \cup {c}
  <2>1. condWaitRoutines \in Seq(Consumer) /\ Once(condWaitRoutines)
    BY <1>p DEF CondTypes, WaitInv
  <2> QED  BY <1>n, <1>u, <2>1, ElsAppend
<1>1. CondTypes'
  <2>1. UNCHANGED <<condRes, info, resumed, owner, items, condLeft>>
    BY <1>u
  <2>2. TypedNext
    BY <1>p, <1>l, <2>1 DEF CondTypes, TypedNext
  <2>3. condLeft[c] > 0
    BY <1>p, <1>g DEF CondTypes
  <2> QED  BY <1>p, <1>g, <2>1, <2>2, <2>3, TypesConsumer DEF ConsumerPlaces
<1>2. ClaimInv'
  BY <1>p, <1>g, <1>u, ClaimKept DEF ClaimPlaces
<1>3. MutexInv'
  BY <1>p, <1>g, <1>u DEF MutexInv, Goes, CondCo
<1>4. WaitInv'
  <2>1. \A d \in Consumer : Waiting(d)' <=> (Waiting(d) \/ d = c)
    BY <1>g DEF Goes, Waiting, CondCo
  <2>2. \A p \in Producer : condPc'[p] = condPc[p]
    BY <1>g, ConditionAssumption DEF Goes, CondCo
  <2>3. UNCHANGED <<info, resumed>>
    BY <1>u
  <2> QED  BY <1>p, <1>n, <1>l, <2>1, <2>2, <2>3 DEF WaitInv
<1>5. SignalInv'
  <2>1. items = 0
    BY <1>p, <1>g DEF MutexInv
  <2> QED  BY <1>u, <2>1, BusyFiniteNext DEF SignalInv
<1> QED  BY <1>1, <1>2, <1>3, <1>4, <1>5 DEF CondInv

\* The consumer is done with the list.
LEMMA WaitReleaseInv == ASSUME CondInv, NEW c \in Consumer, WaitRelease(c) PROVE CondInv'
<1>p. CondTypes /\ ClaimInv /\ MutexInv /\ WaitInv /\ SignalInv /\ c \in CondCo
  BY DEF CondInv, CondCo
<1>g. Goes(c, "unlock") /\ condPc[c] = "release"
  BY <1>p, GoesTo DEF WaitRelease, CondPlaces
<1>u. /\ UNCHANGED <<condWaitRoutines, info, resumed, owner, items, condLeft>>
      /\ condRes' = 0
  BY DEF WaitRelease
<1>1. CondTypes'
  <2>1. condRes' \in 0 .. 1
    BY <1>p, <1>u DEF CondTypes
  <2>2. TypedNext
    BY <1>p, <1>u, <2>1 DEF CondTypes, TypedNext
  <2>3. condLeft[c] > 0
    BY <1>p, <1>g DEF CondTypes
  <2> QED  BY <1>p, <1>g, <1>u, <2>2, <2>3, TypesConsumer DEF ConsumerPlaces
<1>2. ClaimInv'
  BY <1>p, <1>g, <1>u, ClaimReleased DEF ClaimPlaces
<1>3. MutexInv'
  BY <1>p, <1>g, <1>u DEF MutexInv, Goes, CondCo
<1>4. WaitInv'
  BY <1>p, <1>g, <1>u, ConditionAssumption, WaitKept DEF Waiting
<1>5. SignalInv'
  <2>1. items = 0
    BY <1>p, <1>g DEF MutexInv
  <2> QED  BY <1>u, <2>1, BusyFiniteNext DEF SignalInv
<1> QED  BY <1>1, <1>2, <1>3, <1>4, <1>5 DEF CondInv

\* The consumer unlocks and yields.
LEMMA WaitYieldInv == ASSUME CondInv, NEW c \in Consumer, WaitYield(c) PROVE CondInv'
<1>p. CondTypes /\ ClaimInv /\ MutexInv /\ WaitInv /\ SignalInv /\ c \in CondCo
  BY DEF CondInv, CondCo
<1>g. Goes(c, "asleep") /\ condPc[c] = "unlock"
  BY <1>p, GoesTo DEF WaitYield, CondPlaces
<1>u. /\ UNCHANGED <<condRes, condWaitRoutines, info, resumed, items, condLeft>>
      /\ owner' = NoOwner
  BY DEF WaitYield, cond
<1>o. owner = c
  BY <1>p, <1>g DEF MutexInv
<1>1. CondTypes'
  <2>1. condRes' \in 0 .. 1
    BY <1>p, <1>u DEF CondTypes
  <2>2. TypedNext
    BY <1>p, <1>u, <2>1 DEF CondTypes, TypedNext
  <2>3. condLeft[c] > 0
    BY <1>p, <1>g DEF CondTypes
  <2> QED  BY <1>p, <1>g, <1>u, <2>2, <2>3, TypesConsumer DEF ConsumerPlaces
<1>2. ClaimInv'
  BY <1>p, <1>g, <1>u, ClaimKept DEF ClaimPlaces
<1>3. MutexInv'
  BY <1>p, <1>g, <1>o DEF MutexInv, Goes, CondCo
<1>4. WaitInv'
  BY <1>p, <1>g, <1>u, ConditionAssumption, WaitKept DEF Waiting
<1>5. SignalInv'
  <2>1. items = 0
    BY <1>p, <1>g DEF MutexInv
  <2> QED  BY <1>u, <2>1, BusyFiniteNext DEF SignalInv
<1> QED  BY <1>1, <1>2, <1>3, <1>4, <1>5 DEF CondInv

\* A resumed consumer has the mutex again.
LEMMA RelockInv == ASSUME CondInv, NEW c \in Consumer, Relock(c) PROVE CondInv'
<1>p. CondTypes /\ ClaimInv /\ MutexInv /\ WaitInv /\ SignalInv /\ c \in CondCo
  BY DEF CondInv, CondCo
<1>g. Goes(c, "test") /\ condPc[c] = "asleep"
  BY <1>p, GoesTo DEF Relock, CondPlaces
<1>u. /\ UNCHANGED <<condRes, condWaitRoutines, info, items, condLeft>>
      /\ owner = NoOwner /\ owner' = c /\ c \in resumed /\ resumed' = resumed \ {c}
  BY DEF Relock, Acquire
<1>1. CondTypes'
  <2>1. condRes' \in 0 .. 1
    BY <1>p, <1>u DEF CondTypes
  <2>2. TypedNext
    BY <1>p, <1>u, <2>1 DEF CondTypes, TypedNext
  <2>3. condLeft[c] > 0
    BY <1>p, <1>g DEF CondTypes
  <2> QED  BY <1>p, <1>g, <1>u, <2>2, <2>3, TypesConsumer DEF ConsumerPlaces
<1>2. ClaimInv'
  BY <1>p, <1>g, <1>u, ClaimKept DEF ClaimPlaces
<1>3. MutexInv'
  <2>1. \A d \in Consumer : d # c =>
           condPc'[d] \notin {"test", "push", "release", "unlock"}
    BY <1>p, <1>g, <1>u, ConditionAssumption DEF MutexInv, Goes, CondCo
  <2> QED  BY <1>g, <1>u, <2>1 DEF MutexInv, Goes
<1>4. WaitInv'
  <2>1. \A d \in Consumer : Waiting(d)' <=> (Waiting(d) /\ d # c)
    BY <1>g DEF Goes, Waiting, CondCo
  <2>2. \A p \in Producer : condPc'[p] = condPc[p]
    BY <1>g, ConditionAssumption DEF Goes, CondCo
  <2>3. c \notin Els(condWaitRoutines) /\ \A p \in Producer : c \notin Els(info[p])
    BY <1>p, <1>u DEF WaitInv
  <2> QED  BY <1>p, <1>u, <2>1, <2>2, <2>3 DEF WaitInv
<1>5. SignalInv'
  <2>1. \A p \in Producer : condPc'[p] = condPc[p]
    BY <1>g, ConditionAssumption DEF Goes, CondCo
  <2>2. \A d \in Consumer : d # c => condPc'[d] = condPc[d]
    BY <1>g DEF Goes, CondCo
  <2>3. Busy \subseteq Busy'
    BY <1>g, <1>u, <2>1, <2>2 DEF Busy, Goes
  <2> QED  BY <1>p, <1>u, <2>3, SignalKept, BusyFiniteNext
<1> QED  BY <1>1, <1>2, <1>3, <1>4, <1>5 DEF CondInv
-----------------------------------------------------------------------------
(* The producer.                                                           *)

\* The producer adds an item and goes on to signal() or broadcast().
LEMMA ProduceInv == ASSUME CondInv, NEW p \in Producer, Produce(p) PROVE CondInv'
<1>p. CondTypes /\ ClaimInv /\ MutexInv /\ WaitInv /\ SignalInv /\ p \in CondCo
  BY DEF CondInv, CondCo
<1>c. PICK call \in {"signal", "broadcast"} : CondGoTo(p, "idle", call)
  BY DEF Produce
<1>g. Goes(p, call) /\ condPc[p] = "idle"
  BY <1>p, <1>c, GoesTo DEF CondPlaces
<1>u. /\ UNCHANGED <<condRes, condWaitRoutines, info, resumed>>
      /\ owner = NoOwner /\ owner' \in {p, NoOwner} /\ items' = items + 1
      /\ condLeft[p] > 0 /\ condLeft' = [condLeft EXCEPT ![p] = @ - 1]
  BY DEF Produce, cond
<1>1. CondTypes'
  <2>1. items' \in Nat
    BY <1>p, <1>u DEF CondTypes
  <2>2. TypedNext
    BY <1>p, <1>u, <2>1 DEF CondTypes, TypedNext
  <2>3. condLeft' \in [CondCo -> Nat] /\ \A d \in CondCo \ {p} : condLeft'[d] = condLeft[d]
    <3>1. condLeft \in [CondCo -> Nat] /\ condLeft[p] \in Nat
      BY <1>p DEF CondTypes
    <3>2. condLeft[p] - 1 \in Nat
      BY <1>u, <3>1
    <3> QED  BY <1>u, <3>1, <3>2
  <2>4. \A c \in Consumer : condLeft'[c] = condLeft[c]
    BY <2>3, ConditionAssumption DEF CondCo
  <2>5. call \in ProducerPlaces
    BY <1>c DEF ProducerPlaces
  <2> QED  BY <1>p, <1>g, <2>2, <2>3, <2>4, <2>5, TypesProducer
<1>2. ClaimInv'
  BY <1>p, <1>g, <1>u, ClaimKept DEF ClaimPlaces
<1>3. MutexInv'
  <2>1. \A c \in Consumer : condPc'[c] = condPc[c]
    BY <1>g, ConditionAssumption DEF Goes, CondCo
  <2>2. \A c \in Consumer : condPc[c] \notin {"test", "push", "release", "unlock"}
    BY <1>p, <1>u, ConditionAssumption DEF MutexInv
  <2> QED  BY <2>1, <2>2 DEF MutexInv
<1>4. WaitInv'
  <2>1. p \notin Consumer /\ info[p] = <<>>
    BY <1>p, <1>g, ConditionAssumption DEF WaitInv
  <2> QED  BY <1>p, <1>g, <1>u, <2>1, WaitKept
<1>5. SignalInv'
  <2>1. Busy' = Busy \cup {p}
    BY <1>g, <1>u, BusyProducer
  <2>2. p \notin Busy
    BY <1>g, ConditionAssumption DEF Busy
  <2>3. Cardinality(Busy') = Cardinality(Busy) + 1 /\ Cardinality(Busy) \in Nat
    BY <2>1, <2>2, BusyFinite, FS_AddElement
  <2>4. items \in Nat
    BY <1>p DEF CondTypes
  <2> QED  BY <1>p, <1>u, <2>3, <2>4 DEF SignalInv
<1> QED  BY <1>1, <1>2, <1>3, <1>4, <1>5 DEF CondInv

\* The producer begins to work on the list.
LEMMA SignalClaims ==
    ASSUME CondInv, NEW p \in Producer, NEW from \in {"signal", "broadcast"},
           NEW to \in {"one", "all"}, CondClaim(p, from, to)
    PROVE  CondInv'
<1>p. CondTypes /\ ClaimInv /\ MutexInv /\ WaitInv /\ SignalInv /\ p \in CondCo
  BY DEF CondInv, CondCo
<1>g. Goes(p, to) /\ condPc[p] = from
  BY <1>p, GoesTo DEF CondClaim, CondPlaces
<1>u. /\ UNCHANGED <<condWaitRoutines, info, resumed, owner, items, condLeft>>
      /\ condRes = 0 /\ condRes' = 1
  BY DEF CondClaim
<1>1. CondTypes'
  <2>1. condRes' \in 0 .. 1 /\ to \in ProducerPlaces /\ condLeft' \in [CondCo -> Nat]
    BY <1>p, <1>u DEF ProducerPlaces, CondTypes
  <2>2. TypedNext
    BY <1>p, <1>u, <2>1 DEF CondTypes, TypedNext
  <2> QED  BY <1>p, <1>g, <1>u, <2>1, <2>2, TypesProducer
<1>2. ClaimInv'
  BY <1>p, <1>g, <1>u, ClaimTaken DEF ClaimPlaces
<1>3. MutexInv'
  BY <1>p, <1>g, <1>u, MutexProducer
<1>4. WaitInv'
  <2>1. p \notin Consumer /\ info[p] = <<>>
    BY <1>p, <1>g, ConditionAssumption DEF WaitInv
  <2> QED  BY <1>p, <1>g, <1>u, <2>1, WaitKept
<1>5. SignalInv'
  <2>1. Busy' = Busy \cup {p}
    BY <1>g, <1>u, BusyProducer
  <2> QED  BY <1>p, <1>u, <2>1, SignalKept, BusyFiniteNext
<1> QED  BY <1>1, <1>2, <1>3, <1>4, <1>5 DEF CondInv

LEMMA SignalClaimInv == ASSUME CondInv, NEW p \in Producer, SignalClaim(p) PROVE CondInv'
  BY SignalClaims DEF SignalClaim

\* Nobody is in the list: the call returns.
LEMMA SignalEmptyInv == ASSUME CondInv, NEW p \in Producer, SignalEmpty(p) PROVE CondInv'
<1>p. CondTypes /\ ClaimInv /\ MutexInv /\ WaitInv /\ SignalInv /\ p \in CondCo
  BY DEF CondInv, CondCo
<1>g. Goes(p, "idle") /\ condPc[p] \in {"one", "all"}
  BY <1>p, GoesTo DEF SignalEmpty, CondPlaces
<1>u. /\ UNCHANGED <<condWaitRoutines, info, resumed, items, condLeft>>
      /\ condRes' = 0 /\ Done(p) /\ condWaitRoutines = <<>>
  BY DEF SignalEmpty
<1>1. CondTypes'
  <2>1. condRes' \in 0 .. 1 /\ "idle" \in ProducerPlaces /\ condLeft' \in [CondCo -> Nat]
    BY <1>p, <1>u DEF ProducerPlaces, CondTypes
  <2>2. owner' \in CondCo \cup {NoOwner}
    BY <1>p, <1>u DEF Done, CondTypes
  <2>3. TypedNext
    BY <1>p, <1>u, <2>1, <2>2 DEF CondTypes, TypedNext
  <2> QED  BY <1>p, <1>g, <1>u, <2>1, <2>3, TypesProducer
<1>2. ClaimInv'
  BY <1>p, <1>g, <1>u, ClaimReleased DEF ClaimPlaces
<1>3. MutexInv'
  BY <1>p, <1>g, <1>u, MutexProducer
<1>4. WaitInv'
  <2>1. p \notin Consumer /\ info[p] = <<>>
    BY <1>p, <1>g, ConditionAssumption DEF WaitInv
  <2> QED  BY <1>p, <1>g, <1>u, <2>1, WaitKept
<1>5. SignalInv'
  BY <1>u DEF SignalInv
<1> QED  BY <1>1, <1>2, <1>3, <1>4, <1>5 DEF CondInv

\* signal() takes the first sleeper: as many as before will look at the items.
LEMMA SignalOneInv == ASSUME CondInv, NEW p \in Producer, SignalOne(p) PROVE CondInv'
<1>p. CondTypes /\ ClaimInv /\ MutexInv /\ WaitInv /\ SignalInv /\ p \in CondCo
  BY DEF CondInv, CondCo
<1>g. Goes(p, "store") /\ condPc[p] = "one"
  BY <1>p, GoesTo DEF SignalOne, CondPlaces
<1>u. /\ UNCHANGED <<condRes, resumed, owner, items, condLeft>> /\ condWaitRoutines # <<>>
  BY DEF SignalOne
<1> DEFINE h == Head(condWaitRoutines)
<1>l. /\ h \in Consumer /\ condWaitRoutines' \in Seq(Consumer) /\ Once(condWaitRoutines')
      /\ h \in Els(condWaitRoutines) /\ Els(condWaitRoutines') = Els(condWaitRoutines) \ {h}
  <2>1. condWaitRoutines \in Seq(Consumer) /\ Once(condWaitRoutines)
    BY <1>p DEF CondTypes, WaitInv
  <2>2. condWaitRoutines' = Tail(condWaitRoutines)
    BY DEF SignalOne
  <2> QED  BY <1>u, <2>1, <2>2, ElsTail
<1>i. /\ info' \in [Producer -> Seq(Consumer)] /\ \A q \in Producer \ {p} : info'[q] = info[q]
      /\ Els(info'[p]) = {h} /\ Once(info'[p])
  <2>1. info' = [info EXCEPT ![p] = <<h>>] /\ info \in [Producer -> Seq(Consumer)]
    BY <1>p DEF SignalOne, CondTypes
  <2> HIDE DEF h
  <2>2. info' \in [Producer -> Seq(Consumer)] /\ info'[p] = <<h>>
        /\ \A q \in Producer \ {p} : info'[q] = info[q]
    BY <1>l, <2>1
  <2> QED  BY <1>l, <2>2, ElsOne
<1> HIDE DEF h
<1>n. info[p] = <<>> /\ Els(info[p]) = {}
  BY <1>p, <1>g DEF WaitInv, Els
<1>1. CondTypes'
  <2>1. "store" \in ProducerPlaces /\ condLeft' \in [CondCo -> Nat]
    BY <1>p, <1>u DEF ProducerPlaces, CondTypes
  <2>2. TypedNext
    BY <1>p, <1>u, <1>l, <1>i DEF CondTypes, TypedNext
  <2> QED  BY <1>p, <1>g, <1>u, <2>1, <2>2, TypesProducer
<1>2. ClaimInv'
  BY <1>p, <1>g, <1>u, ClaimKept DEF ClaimPlaces
<1>3. MutexInv'
  BY <1>p, <1>g, <1>u, MutexProducer
<1>s. /\ \A c \in Consumer : condPc'[c] = condPc[c] /\ c # p
      /\ \A q \in Producer \ {p} : condPc'[q] = condPc[q]
      /\ condPc'[p] = "store"
  BY <1>g, ConditionAssumption DEF Goes, CondCo
<1>4. WaitInv'
  <2>1. \A c \in Consumer : Waiting(c)' <=> Waiting(c)
    BY <1>s DEF Waiting
  <2>2. \A q \in Producer : h \notin Els(info[q])
    BY <1>p, <1>l DEF WaitInv
  <2>3. h \notin resumed
    BY <1>p, <1>l DEF WaitInv
  <2>4. /\ \A q \in Producer : Once(info'[q])
        /\ \A q \in Producer : info'[q] # <<>> => condPc'[q] \in {"store", "resume"}
    BY <1>p, <1>i, <1>s DEF WaitInv
  <2>5. \A q, r \in Producer : q # r => Els(info'[q]) \cap Els(info'[r]) = {}
    <3>1. \A q \in Producer \ {p} : h \notin Els(info'[q])
      BY <1>i, <2>2
    <3>2. \A q, r \in Producer \ {p} : q # r => Els(info'[q]) \cap Els(info'[r]) = {}
      BY <1>p, <1>i DEF WaitInv
    <3>3. \A q \in Producer \ {p} : /\ Els(info'[q]) \cap Els(info'[p]) = {}
                                    /\ Els(info'[p]) \cap Els(info'[q]) = {}
      BY <1>i, <3>1
    <3> QED  BY <3>2, <3>3
  <2>6. \A q \in Producer : /\ Els(info'[q]) \cap Els(condWaitRoutines') = {}
                            /\ Els(info'[q]) \cap resumed' = {}
    BY <1>p, <1>i, <1>l, <1>u, <2>2, <2>3 DEF WaitInv
  <2>7. Els(condWaitRoutines') \cap resumed' = {}
    BY <1>p, <1>l, <1>u DEF WaitInv
  <2>8. \A c \in Consumer :
          Waiting(c)' <=> \/ c \in Els(condWaitRoutines')
                          \/ \E q \in Producer : c \in Els(info'[q])
                          \/ c \in resumed'
    <3>1. \A c : (\E q \in Producer : c \in Els(info'[q]))
              <=> (c = h \/ \E q \in Producer : c \in Els(info[q]))
      BY <1>i, <1>n
    <3> QED  BY <1>p, <1>l, <1>u, <2>1, <3>1 DEF WaitInv
  <2> QED  BY <1>l, <2>4, <2>5, <2>6, <2>7, <2>8 DEF WaitInv
<1>5. SignalInv'
  <2>1. /\ h \notin resumed /\ \A q \in Producer : h \notin Els(info[q])
        /\ condPc[h] \in {"release", "unlock", "asleep"} /\ h \notin Producer
    BY <1>p, <1>l, ConditionAssumption DEF WaitInv, Waiting
  <2>2. \A c : (\E q \in Producer : c \in Els(info'[q]))
            <=> (c = h \/ \E q \in Producer : c \in Els(info[q]))
    BY <1>i, <1>n
  <2>3. Busy' = (Busy \ {p}) \cup {h}
    BY <1>l, <1>s, <1>u, <2>1, <2>2 DEF Busy
  <2>4. p \in Busy /\ h \notin Busy \ {p}
    BY <1>g, <2>1 DEF Busy
  <2>5. IsFiniteSet(Busy \ {p}) /\ Cardinality(Busy \ {p}) = Cardinality(Busy) - 1
        /\ Cardinality(Busy) \in Nat
    BY <2>4, BusyFinite, FS_RemoveElement
  <2>6. Cardinality(Busy') = Cardinality(Busy \ {p}) + 1
    BY <2>3, <2>4, <2>5, FS_AddElement
  <2>7. Cardinality(Busy') = Cardinality(Busy)
    BY <2>5, <2>6
  <2> QED  BY <1>p, <1>u, <2>7 DEF SignalInv
<1> QED  BY <1>1, <1>2, <1>3, <1>4, <1>5 DEF CondInv

\* broadcast() takes the whole list.
LEMMA SignalAllInv == ASSUME CondInv, NEW p \in Producer, SignalAll(p) PROVE CondInv'
<1>p. CondTypes /\ ClaimInv /\ MutexInv /\ WaitInv /\ SignalInv /\ p \in CondCo
  BY DEF CondInv, CondCo
<1>g. Goes(p, "store") /\ condPc[p] = "all"
  BY <1>p, GoesTo DEF SignalAll, CondPlaces
<1>u. UNCHANGED <<condRes, resumed, owner, items, condLeft>> /\ condWaitRoutines' = <<>>
  BY DEF SignalAll
<1>l. /\ condWaitRoutines' \in Seq(Consumer) /\ Once(condWaitRoutines')
      /\ Els(condWaitRoutines') = {}
  BY <1>u DEF Once, Els
<1>i. /\ info' \in [Producer -> Seq(Consumer)] /\ \A q \in Producer \ {p} : info'[q] = info[q]
      /\ info'[p] = condWaitRoutines
  BY <1>p DEF SignalAll, CondTypes
<1>n. info[p] = <<>> /\ Els(info[p]) = {}
  BY <1>p, <1>g DEF WaitInv, Els
<1>1. CondTypes'
  <2>1. "store" \in ProducerPlaces /\ condLeft' \in [CondCo -> Nat]
    BY <1>p, <1>u DEF ProducerPlaces, CondTypes
  <2>2. TypedNext
    BY <1>p, <1>u, <1>l, <1>i DEF CondTypes, TypedNext
  <2> QED  BY <1>p, <1>g, <1>u, <2>1, <2>2, TypesProducer
<1>2. ClaimInv'
  BY <1>p, <1>g, <1>u, ClaimKept DEF ClaimPlaces
<1>3. MutexInv'
  BY <1>p, <1>g, <1>u, MutexProducer
<1>s. /\ \A c \in Consumer : condPc'[c] = condPc[c] /\ c # p
      /\ \A q \in Producer \ {p} : condPc'[q] = condPc[q]
      /\ condPc'[p] = "store"
  BY <1>g, ConditionAssumption DEF Goes, CondCo
<1>4. WaitInv'
  <2>0. resumed' = resumed
    BY <1>u
  <2>1. \A c \in Consumer : Waiting(c)' <=> Waiting(c)
    BY <1>s DEF Waiting
  <2>4. /\ \A q \in Producer : Once(info'[q])
        /\ \A q \in Producer : info'[q] # <<>> => condPc'[q] \in {"store", "resume"}
    BY <1>p, <1>i, <1>s DEF WaitInv
  <2>5. \A q, r \in Producer : q # r => Els(info'[q]) \cap Els(info'[r]) = {}
    BY <1>p, <1>i DEF WaitInv
  <2>6. \A q \in Producer : /\ Els(info'[q]) \cap Els(condWaitRoutines') = {}
                            /\ Els(info'[q]) \cap resumed' = {}
    BY <1>p, <1>i, <1>l, <2>0 DEF WaitInv
  <2>8. \A c \in Consumer :
          Waiting(c)' <=> \/ c \in Els(condWaitRoutines')
                          \/ \E q \in Producer : c \in Els(info'[q])
                          \/ c \in resumed'
    <3>1. \A c : (\E q \in Producer : c \in Els(info'[q]))
              <=> (c \in Els(condWaitRoutines) \/ \E q \in Producer : c \in Els(info[q]))
      BY <1>i, <1>n
    <3> QED  BY <1>p, <1>l, <2>0, <2>1, <3>1 DEF WaitInv
  <2> QED  BY <1>l, <2>4, <2>5, <2>6, <2>8 DEF WaitInv
<1>5. SignalInv'
  BY <1>u DEF SignalInv
<1> QED  BY <1>1, <1>2, <1>3, <1>4, <1>5 DEF CondInv

\* The producer is done with the list.
LEMMA SignalStoreInv == ASSUME CondInv, NEW p \in Producer, SignalStore(p) PROVE CondInv'
<1>p. CondTypes /\ ClaimInv /\ MutexInv /\ WaitInv /\ SignalInv /\ p \in CondCo
  BY DEF CondInv, CondCo
<1>g. Goes(p, "resume") /\ condPc[p] = "store"
  BY <1>p, GoesTo DEF SignalStore, CondPlaces
<1>u. /\ UNCHANGED <<condWaitRoutines, info, resumed, owner, items, condLeft>>
      /\ condRes' = 0
  BY DEF SignalStore
<1>1. CondTypes'
  <2>1. condRes' \in 0 .. 1 /\ "resume" \in ProducerPlaces /\ condLeft' \in [CondCo -> Nat]
    BY <1>p, <1>u DEF ProducerPlaces, CondTypes
  <2>2. TypedNext
    BY <1>p, <1>u, <2>1 DEF CondTypes, TypedNext
  <2> QED  BY <1>p, <1>g, <1>u, <2>1, <2>2, TypesProducer
<1>2. ClaimInv'
  BY <1>p, <1>g, <1>u, ClaimReleased DEF ClaimPlaces
<1>3. MutexInv'
  BY <1>p, <1>g, <1>u, MutexProducer
<1>4. WaitInv'
  <2>1. p \notin Consumer
    BY ConditionAssumption
  <2> QED  BY <1>p, <1>g, <1>u, <2>1, WaitKept
<1>5. SignalInv'
  <2>1. Busy' = Busy \ {p}
    BY <1>g, <1>u, BusyProducer
  <2>2. p \notin Busy
    BY <1>g, ConditionAssumption DEF Busy
  <2> QED  BY <1>p, <1>u, <2>1, <2>2, SignalKept, BusyFiniteNext
<1> QED  BY <1>1, <1>2, <1>3, <1>4, <1>5 DEF CondInv

\* A sleeper goes from the hands of the producer to the queue of its thread.
LEMMA ResumeInv == ASSUME CondInv, NEW p \in Producer, Resume(p) PROVE CondInv'
<1>p. CondTypes /\ ClaimInv /\ MutexInv /\ WaitInv /\ SignalInv
  BY DEF CondInv
<1> DEFINE h == Head(info[p])
<1>u. /\ UNCHANGED <<condRes, condWaitRoutines, condPc, owner, items, condLeft>>
      /\ condPc[p] = "resume" /\ info[p] # <<>> /\ resumed' = resumed \cup {h}
      /\ info' = [info EXCEPT ![p] = Tail(@)]
  BY DEF Resume
<1>l. /\ info[p] \in Seq(Consumer) /\ h \in Consumer /\ h \in Els(info[p])
      /\ info' \in [Producer -> Seq(Consumer)] /\ \A q \in Producer \ {p} : info'[q] = info[q]
      /\ Once(info'[p]) /\ Els(info'[p]) = Els(info[p]) \ {h}
  <2>1. info \in [Producer -> Seq(Consumer)] /\ info[p] \in Seq(Consumer) /\ Once(info[p])
    BY <1>p DEF CondTypes, WaitInv
  <2>2. /\ h \in Consumer /\ Tail(info[p]) \in Seq(Consumer) /\ Once(Tail(info[p]))
        /\ h \in Els(info[p]) /\ Els(Tail(info[p])) = Els(info[p]) \ {h}
    BY <1>u, <2>1, ElsTail
  <2>3. info'[p] = Tail(info[p]) /\ \A q \in Producer \ {p} : info'[q] = info[q]
    BY <1>u, <2>1
  <2>4. info' \in [Producer -> Seq(Consumer)]
    <3> DEFINE t == Tail(info[p])
    <3>1. info' = [info EXCEPT ![p] = t] /\ t \in Seq(Consumer)
      BY <1>u, <2>2
    <3> HIDE DEF t
    <3> QED  BY <2>1, <3>1
  <2> QED  BY <2>1, <2>2, <2>3, <2>4
<1>v. /\ UNCHANGED <<condRes, condWaitRoutines, condPc, owner, items, condLeft>>
      /\ condPc[p] = "resume" /\ resumed' = resumed \cup {h}
  BY <1>u
<1> HIDE DEF h
<1>1. CondTypes'
  BY <1>p, <1>v, <1>l DEF CondTypes
<1>2. ClaimInv' /\ MutexInv'
  BY <1>p, <1>v DEF ClaimInv, MutexInv
<1>e. \A c : (c = h \/ \E q \in Producer : c \in Els(info'[q]))
          <=> (\E q \in Producer : c \in Els(info[q]))
  BY <1>l
<1>4. WaitInv'
  <2>1. h \notin Els(condWaitRoutines) /\ h \notin resumed
        /\ \A q \in Producer \ {p} : h \notin Els(info[q])
    BY <1>p, <1>l DEF WaitInv
  <2>2. \A c \in Consumer : Waiting(c)' <=> Waiting(c)
    BY <1>v DEF Waiting
  <2>4. /\ \A q \in Producer : Once(info'[q])
        /\ \A q \in Producer : info'[q] # <<>> => condPc'[q] \in {"store", "resume"}
    BY <1>p, <1>l, <1>v DEF WaitInv
  <2>5. \A q, r \in Producer : q # r => Els(info'[q]) \cap Els(info'[r]) = {}
    BY <1>p, <1>l DEF WaitInv
  <2>6. \A q \in Producer : /\ Els(info'[q]) \cap Els(condWaitRoutines') = {}
                            /\ Els(info'[q]) \cap resumed' = {}
    BY <1>p, <1>l, <1>v, <2>1 DEF WaitInv
  <2>7. Els(condWaitRoutines') \cap resumed' = {} /\ Once(condWaitRoutines')
    BY <1>p, <1>v, <2>1 DEF WaitInv
  <2>8. \A c \in Consumer :
          Waiting(c)' <=> \/ c \in Els(condWaitRoutines')
                          \/ \E q \in Producer : c \in Els(info'[q])
                          \/ c \in resumed'
    BY <1>p, <1>e, <1>v, <2>2 DEF WaitInv
  <2> QED  BY <2>4, <2>5, <2>6, <2>7, <2>8 DEF WaitInv
<1>5. SignalInv'
  <2>1. Busy' = Busy
    BY <1>e, <1>l, <1>v DEF Busy
  <2> QED  BY <1>p, <1>v, <2>1 DEF SignalInv
<1> QED  BY <1>1, <1>2, <1>4, <1>5 DEF CondInv

\* The call returns.
LEMMA SignalReturnInv == ASSUME CondInv, NEW p \in Producer, SignalReturn(p) PROVE CondInv'
<1>p. CondTypes /\ ClaimInv /\ MutexInv /\ WaitInv /\ SignalInv /\ p \in CondCo
  BY DEF CondInv, CondCo
<1>g. Goes(p, "idle") /\ condPc[p] = "resume"
  BY <1>p, GoesTo DEF SignalReturn, CondPlaces
<1>u. /\ UNCHANGED <<condRes, condWaitRoutines, info, resumed, items, condLeft>>
      /\ Done(p) /\ info[p] = <<>>
  BY DEF SignalReturn, cond
<1>1. CondTypes'
  <2>1. "idle" \in ProducerPlaces /\ condLeft' \in [CondCo -> Nat]
    BY <1>p, <1>u DEF ProducerPlaces, CondTypes
  <2>2. owner' \in CondCo \cup {NoOwner}
    BY <1>p, <1>u DEF Done, CondTypes
  <2>3. TypedNext
    BY <1>p, <1>u, <2>1, <2>2 DEF CondTypes, TypedNext
  <2> QED  BY <1>p, <1>g, <1>u, <2>1, <2>3, TypesProducer
<1>2. ClaimInv'
  BY <1>p, <1>g, <1>u, ClaimKept DEF ClaimPlaces
<1>3. MutexInv'
  BY <1>p, <1>g, <1>u, MutexProducer
<1>4. WaitInv'
  <2>1. p \notin Consumer
    BY ConditionAssumption
  <2> QED  BY <1>p, <1>g, <1>u, <2>1, WaitKept
<1>5. SignalInv'
  <2>1. Busy' = Busy \ {p}
    BY <1>g, <1>u, BusyProducer
  <2>2. p \notin Busy
    BY <1>g, ConditionAssumption DEF Busy
  <2> QED  BY <1>p, <1>u, <2>1, <2>2, SignalKept, BusyFiniteNext
<1> QED  BY <1>1, <1>2, <1>3, <1>4, <1>5 DEF CondInv

-----------------------------------------------------------------------------
(* The theorems.                                                           *)

\* Nobody waits at first.
LEMMA CondInitInv == ASSUME NEW rounds \in [CondCo -> Nat], CondInit(rounds) PROVE CondInv
<1>1. CondTypes
  BY DEF CondInit, CondTypes, CondPlaces, ConsumerPlaces, ProducerPlaces, CondCo
<1>2. ClaimInv /\ MutexInv /\ SignalInv
  BY DEF CondInit, ClaimInv, MutexInv, SignalInv, ClaimPlaces, CondCo
<1>3. WaitInv
  <2>1. condWaitRoutines = <<>> /\ resumed = {} /\ \A p \in Producer : info[p] = <<>>
    BY DEF CondInit
  <2>2. Els(<<>>) = {} /\ Once(<<>>)
    BY DEF Els, Once
  <2>3. \A c \in Consumer : ~Waiting(c)
    BY DEF CondInit, Waiting, CondCo
  <2> QED  BY <2>1, <2>2, <2>3 DEF WaitInv
<1> QED  BY <1>1, <1>2, <1>3 DEF CondInv

\* Every step keeps the invariant.
LEMMA CondNextInv == CondInv /\ [CondNext]_condVars => CondInv'
<1> SUFFICES ASSUME CondInv, [CondNext]_condVars PROVE CondInv'
  OBVIOUS
<1>1. ASSUME NEW c \in Consumer, Consume(c) PROVE CondInv'
  BY <1>1, LockInv, TakeInv, WaitClaimInv, WaitPushInv, WaitReleaseInv, WaitYieldInv, RelockInv
     DEF Consume
<1>2. ASSUME NEW p \in Producer, Produce(p) PROVE CondInv'
  BY <1>2, ProduceInv
<1>3. ASSUME NEW p \in Producer, Signal(p) PROVE CondInv'
  BY <1>3, SignalClaimInv, SignalEmptyInv, SignalOneInv, SignalAllInv, SignalStoreInv,
     ResumeInv, SignalReturnInv DEF Signal
<1>4. CASE UNCHANGED condVars
  <2>1. UNCHANGED <<condRes, condWaitRoutines, info, resumed, condPc, owner, items, condLeft>>
    BY <1>4 DEF condVars, cond
  <2>2. Busy' = Busy
    BY <2>1 DEF Busy
  <2> QED  BY <2>1, <2>2
       DEF CondInv, CondTypes, ClaimInv, MutexInv, WaitInv, Waiting, SignalInv
<1> QED  BY <1>1, <1>2, <1>3, <1>4 DEF CondNext

\* A consumer that waits is in one place, whoever signals when.
THEOREM CondInvariant == CondSpec => []CondInv
<1>1. (\E rounds \in [CondCo -> Nat] : CondInit(rounds)) => CondInv
  BY CondInitInv
<1> QED  BY <1>1, CondNextInv, PTL DEF CondSpec

\* The invariant gives the types of the run.
LEMMA InvCondTypes == ASSUME CondInv PROVE CondTypeOK
<1>1. condRes = 1 <=> \E c \in CondCo : condPc[c] \in {"push", "release", "one", "all", "store"}
  BY DEF CondInv, ClaimInv, ClaimPlaces
<1> QED  BY <1>1 DEF CondInv, CondTypes, CondTypeOK

\* The places of a consumer that InOnePlace counts.
OnList(c) == {<<"list", i>> : i \in {j \in DOMAIN condWaitRoutines : condWaitRoutines[j] = c}}
InHand(p, c) == {<<p, i>> : i \in {j \in DOMAIN info[p] : info[p][j] = c}}
InQueue(c) == {<<"resumed", 0>> : d \in resumed \cap {c}}

\* They are at most one each, and none where the consumer is not.
LEMMA ListPlaces ==
    ASSUME WaitInv, NEW c
    PROVE  /\ c \in Els(condWaitRoutines) => \E x : OnList(c) = {x}
           /\ c \notin Els(condWaitRoutines) => OnList(c) = {}
<1>1. ASSUME c \in Els(condWaitRoutines) PROVE \E x : OnList(c) = {x}
  <2>1. PICK i \in DOMAIN condWaitRoutines : condWaitRoutines[i] = c
    BY <1>1 DEF Els
  <2>2. {j \in DOMAIN condWaitRoutines : condWaitRoutines[j] = c} = {i}
    BY <2>1 DEF WaitInv, Once
  <2>3. OnList(c) = {<<"list", i>>}
    BY <2>2 DEF OnList
  <2> QED  BY <2>3
<1>2. ASSUME c \notin Els(condWaitRoutines) PROVE OnList(c) = {}
  BY <1>2 DEF Els, OnList
<1> QED  BY <1>1, <1>2

LEMMA HandPlaces ==
    ASSUME WaitInv, NEW c, NEW p \in Producer
    PROVE  /\ c \in Els(info[p]) => \E x : InHand(p, c) = {x}
           /\ c \notin Els(info[p]) => InHand(p, c) = {}
<1>1. ASSUME c \in Els(info[p]) PROVE \E x : InHand(p, c) = {x}
  <2>1. PICK i \in DOMAIN info[p] : info[p][i] = c
    BY <1>1 DEF Els
  <2>2. {j \in DOMAIN info[p] : info[p][j] = c} = {i}
    BY <2>1 DEF WaitInv, Once
  <2>3. InHand(p, c) = {<<p, i>>}
    BY <2>2 DEF InHand
  <2> QED  BY <2>3
<1>2. ASSUME c \notin Els(info[p]) PROVE InHand(p, c) = {}
  BY <1>2 DEF Els, InHand
<1> QED  BY <1>1, <1>2

LEMMA QueuePlaces ==
    ASSUME NEW c
    PROVE  /\ c \in resumed => InQueue(c) = {<<"resumed", 0>>}
           /\ c \notin resumed => InQueue(c) = {}
  BY DEF InQueue

\* The invariant puts a consumer that waits into one place.
LEMMA InvOnePlace == ASSUME CondInv PROVE InOnePlace
<1>p. WaitInv
  BY DEF CondInv
<1>1. ASSUME NEW c \in Consumer
      PROVE  Cardinality(OnList(c) \cup (UNION {InHand(p, c) : p \in Producer}) \cup InQueue(c))
                = IF Waiting(c) THEN 1 ELSE 0
  <2> DEFINE hands == UNION {InHand(p, c) : p \in Producer}
             places == OnList(c) \cup hands \cup InQueue(c)
  <2>0. \A p \in Producer : c \notin Els(info[p]) => InHand(p, c) = {}
    BY <1>p, HandPlaces
  <2>a. (\A p \in Producer : c \notin Els(info[p])) => hands = {}
    BY <2>0
  <2>1. CASE c \in Els(condWaitRoutines)
    <3>1. Waiting(c) /\ c \notin resumed /\ \A p \in Producer : c \notin Els(info[p])
      BY <1>p, <2>1 DEF WaitInv
    <3>2. \E x : OnList(c) = {x}
      BY <1>p, <2>1, ListPlaces
    <3>3. InQueue(c) = {} /\ hands = {}
      BY <2>a, <3>1, QueuePlaces
    <3> HIDE DEF hands
    <3>4. \E x : places = {x}
      BY <3>2, <3>3
    <3> QED  BY <3>1, <3>4, FS_Singleton DEF hands
  <2>2. CASE \E p \in Producer : c \in Els(info[p])
    <3>1. PICK p \in Producer : c \in Els(info[p])
      BY <2>2
    <3>2. /\ Waiting(c) /\ c \notin resumed /\ c \notin Els(condWaitRoutines)
          /\ \A q \in Producer \ {p} : c \notin Els(info[q])
      BY <1>p, <3>1 DEF WaitInv
    <3>3. PICK x : InHand(p, c) = {x}
      BY <1>p, <3>1, HandPlaces
    <3>4. hands = {x}
      BY <2>0, <3>2, <3>3
    <3>5. InQueue(c) = {} /\ OnList(c) = {}
      BY <1>p, <3>2, QueuePlaces, ListPlaces
    <3> HIDE DEF hands
    <3>6. places = {x}
      BY <3>4, <3>5
    <3> QED  BY <3>2, <3>6, FS_Singleton DEF hands
  <2>3. CASE c \in resumed
    <3>1. Waiting(c) /\ c \notin Els(condWaitRoutines) /\ \A p \in Producer : c \notin Els(info[p])
      BY <1>p, <2>3 DEF WaitInv
    <3>2. InQueue(c) = {<<"resumed", 0>>} /\ OnList(c) = {} /\ hands = {}
      BY <1>p, <2>3, <2>a, <3>1, QueuePlaces, ListPlaces
    <3> HIDE DEF hands
    <3>3. places = {<<"resumed", 0>>}
      BY <3>2
    <3> QED  BY <3>1, <3>3, FS_Singleton DEF hands
  <2>4. CASE ~Waiting(c)
    <3>1. /\ c \notin resumed /\ c \notin Els(condWaitRoutines)
          /\ \A p \in Producer : c \notin Els(info[p])
      BY <1>p, <2>4 DEF WaitInv
    <3>2. InQueue(c) = {} /\ OnList(c) = {} /\ hands = {}
      BY <1>p, <2>a, <3>1, QueuePlaces, ListPlaces
    <3> HIDE DEF hands
    <3>3. places = {}
      BY <3>2
    <3> QED  BY <2>4, <3>3, FS_EmptySet DEF hands
  <2> QED  BY <1>p, <2>1, <2>2, <2>3, <2>4 DEF WaitInv
<1> QED  BY <1>1 DEF InOnePlace, OnList, InHand, InQueue, Waiting

\* The invariant gives the property of the run.
LEMMA InvWaitersKept == CondInv => WaitersKept
<1> SUFFICES ASSUME CondInv PROVE WaitersKept
  OBVIOUS
<1>1. NoMissedSignal
  BY DEF CondInv, SignalInv, NoMissedSignal, Busy, Els, ToSet
<1> QED  BY <1>1, InvCondTypes, InvOnePlace DEF WaitersKept

\* Nobody who waits is forgotten by the list or by a signal, and no signal is
\* missed: while somebody is in the list there are no more items than signals
\* under way and consumers that are awake.
THEOREM CondWaitersKept == CondSpec => []WaitersKept
  BY CondInvariant, InvWaitersKept, PTL
=============================================================================
