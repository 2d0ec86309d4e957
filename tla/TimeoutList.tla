---------------------------- MODULE TimeoutList ----------------------------
(***************************************************************************)
(* TimeoutList, the skip list of corpc_timeout_list.h that holds the       *)
(* deadlines of the calls of a thread, latest first; deadlines that are    *)
(* equal form a ring whose head is in the skip list.  Links are modelled   *)
(* as they are, one function per direction; a level is a number from 1.    *)
(*                                                                         *)
(* And GetNextTimeoutInASecond() of co_routine.cpp: how long epoll_wait()  *)
(* may sleep, found in a bitmap with a bit per slot of the timing wheel.   *)
(* The bits of slots that have become empty may still be set.              *)
(***************************************************************************)
EXTENDS Integers, FiniteSets, FiniteSetsExt

CONSTANTS
    Ids,        \* coroutines that wait for a call
    Expiries,   \* deadlines
    MaxLevel    \* CORPC_SKIP_LIST_MAX_LEVEL

ASSUME TimeoutListAssumption == Expiries \subseteq Nat \ {0} /\ MaxLevel \in Nat \ {0}

VARIABLES
    deadline,     \* expireTime of the nodes in nodeMap_, 0 if there is none
    height,       \* links.size() of a node
    nxt, prv,     \* links[i].next, links[i].prev
    ringN, ringP, \* link.next, link.prev
    maxCurLevel

tlVars == <<deadline, height, nxt, prv, ringN, ringP, maxCurLevel>>

Header == 0
Trailer == -1
Nodes == Ids \cup {Header, Trailer}
Levels == 1 .. MaxLevel
Beyond == Max(Expiries) + 1

Expire(n) == CASE n = Header -> Beyond [] n = Trailer -> 0 [] OTHER -> deadline[n]

\* insert(), first loop: where the walk from n along level i ends,
Walk(i, start, exp) ==
    LET end[n \in Nodes] == IF Expire(nxt[i][n]) >= exp THEN end[nxt[i][n]] ELSE n
    IN  end[start]

\* and the nodes where it goes down a level.
PrevNodes(exp) ==
    LET at[i \in 1 .. maxCurLevel] ==
            Walk(i, IF i = maxCurLevel THEN Header ELSE at[i + 1], exp)
    IN  [i \in Levels |-> IF i <= maxCurLevel THEN at[i] ELSE Header]

\* The deadline is there already: the node becomes the last of the ring of cur.
InsertInRing(id, exp, cur) ==
    /\ ringN' = [ringN EXCEPT ![id] = cur, ![ringP[cur]] = id]
    /\ ringP' = [ringP EXCEPT ![id] = ringP[cur], ![cur] = id]
    /\ height' = [height EXCEPT ![id] = 0]
    /\ UNCHANGED <<nxt, prv, maxCurLevel>>

InsertInList(id, level, before) ==
    /\ nxt' = [i \in Levels |-> IF i > level THEN nxt[i]
                 ELSE [nxt[i] EXCEPT ![id] = nxt[i][before[i]], ![before[i]] = id]]
    /\ prv' = [i \in Levels |-> IF i > level THEN prv[i]
                 ELSE [prv[i] EXCEPT ![id] = before[i], ![nxt[i][before[i]]] = id]]
    /\ height' = [height EXCEPT ![id] = level]
    /\ maxCurLevel' = Max({maxCurLevel, level})
    /\ ringN' = [ringN EXCEPT ![id] = id] /\ ringP' = [ringP EXCEPT ![id] = id]

insert(id, exp, level) ==
    /\ deadline[id] = 0
    /\ deadline' = [deadline EXCEPT ![id] = exp]
    /\ LET before == PrevNodes(exp) IN
       IF Expire(before[1]) = exp
       THEN InsertInRing(id, exp, before[1])
       ELSE InsertInList(id, level, before)

RemoveFromRing(id) ==
    /\ ringN' = [ringN EXCEPT ![ringP[id]] = ringN[id], ![id] = id]
    /\ ringP' = [ringP EXCEPT ![ringN[id]] = ringP[id], ![id] = id]

\* The next node of the ring takes the place of id in the skip list.
Promote(id, heir) ==
    /\ RemoveFromRing(id)
    /\ nxt' = [i \in Levels |-> IF i > height[id] THEN nxt[i]
                 ELSE [nxt[i] EXCEPT ![heir] = nxt[i][id], ![prv[i][id]] = heir, ![id] = id]]
    /\ prv' = [i \in Levels |-> IF i > height[id] THEN prv[i]
                 ELSE [prv[i] EXCEPT ![heir] = prv[i][id], ![nxt[i][id]] = heir, ![id] = id]]
    /\ height' = [height EXCEPT ![heir] = height[id], ![id] = 0]
    /\ UNCHANGED maxCurLevel

\* The levels that only id was on.
Emptied(id) == {i \in 2 .. height[id] : prv[i][id] = Header /\ nxt[i][id] = Trailer}

RemoveFromList(id) ==
    /\ nxt' = [i \in Levels |-> IF i > height[id] THEN nxt[i]
                 ELSE [nxt[i] EXCEPT ![prv[i][id]] = nxt[i][id], ![id] = id]]
    /\ prv' = [i \in Levels |-> IF i > height[id] THEN prv[i]
                 ELSE [prv[i] EXCEPT ![nxt[i][id]] = prv[i][id], ![id] = id]]
    /\ maxCurLevel' = maxCurLevel - Cardinality(Emptied(id))
    /\ height' = [height EXCEPT ![id] = 0]
    /\ UNCHANGED <<ringN, ringP>>

remove(id) ==
    /\ deadline[id] # 0
    /\ deadline' = [deadline EXCEPT ![id] = 0]
    /\ \/ height[id] = 0 /\ RemoveFromRing(id) /\ UNCHANGED <<height, nxt, prv, maxCurLevel>>
       \/ height[id] > 0 /\ ringN[id] # id /\ Promote(id, ringN[id])
       \/ height[id] > 0 /\ ringN[id] = id /\ RemoveFromList(id)

getLast ==
    LET n == prv[1][Trailer] IN IF n = Header THEN Header ELSE ringP[n]

TimeoutListInit ==
    /\ deadline = [n \in Ids |-> 0] /\ height = [n \in Ids |-> 0]
    /\ nxt = [i \in Levels |-> [n \in Nodes |-> IF n = Header THEN Trailer ELSE n]]
    /\ prv = [i \in Levels |-> [n \in Nodes |-> IF n = Trailer THEN Header ELSE n]]
    /\ ringN = [n \in Ids |-> n] /\ ringP = [n \in Ids |-> n]
    /\ maxCurLevel = 1

TimeoutListNext ==
    \E id \in Ids :
        \/ \E exp \in Expiries, level \in Levels : insert(id, exp, level)
        \/ remove(id)
-----------------------------------------------------------------------------
\* The nodes of the skip list on level i.
OnLevel(i) == {n \in Ids : height[n] >= i}

\* After any sequence of inserts and removes the list is what a sorted list
\* would be: each level runs through exactly the nodes that are that high, in
\* strictly descending order, in both directions; every deadline is the head's
\* of one ring, which holds all nodes with that deadline; maxCurLevel_ is the
\* highest level in use; getLast() has the earliest deadline of all.
TimeoutListSorted ==
    LET In == {n \in Ids : deadline[n] # 0} IN
    /\ \A i \in Levels :
         /\ \A n \in OnLevel(i) \cup {Header} :
              LET later == {m \in OnLevel(i) : Expire(m) < Expire(n)}
                  next == nxt[i][n]
              IN  /\ IF later = {} THEN next = Trailer
                     ELSE next \in later /\ \A m \in later : Expire(m) <= Expire(next)
                  /\ prv[i][next] = n
         /\ i > maxCurLevel => OnLevel(i) = {}
    /\ maxCurLevel >= 1 /\ (maxCurLevel > 1 => OnLevel(maxCurLevel) # {})
    /\ \A n \in In :
         /\ Cardinality({m \in OnLevel(1) : deadline[m] = deadline[n]}) = 1
         /\ ringP[ringN[n]] = n /\ ringN[n] \in In /\ deadline[ringN[n]] = deadline[n]
         /\ ringN[n] = n => \A m \in In : deadline[m] = deadline[n] => m = n
    /\ IF In = {} THEN getLast = Header
       ELSE getLast \in In /\ \A n \in In : deadline[getLast] <= deadline[n]

-----------------------------------------------------------------------------
(* GetNextTimeoutInASecond                                                 *)

CONSTANTS
    Slots,     \* iItemSize
    Word,      \* bits of an element of pFlags (64)
    Byte,      \* grain of the answer (8)
    Second     \* how far to look (1000)

ASSUME FlagsAssumption ==
    /\ {Slots, Word, Byte, Second} \subseteq Nat \ {0}
    /\ Slots % Word = 0 /\ Word % Byte = 0 /\ Second < Slots - Word

VARIABLES bits, from   \* the slots whose bit is set; llStartIdx

flagVars == <<bits, from>>

\* The end of the first byte with a bit in it.
EndOfByte(S) == ((Min(S) \div Byte) + 1) * Byte

\* Bits lo .. hi of word w, counted from bit base.
Flags(w, lo, hi, base) == {b - base : b \in {x \in lo .. hi : w * Word + x \in bits}}

\* shiftRightCnt
Shift == (from % Word) - ((from % Word) % Byte)

GetNextTimeoutInASecond ==
    LET words == Slots \div Word
        first == from \div Word
        end == (from + Second) % Slots
        full == ((end \div Word) - (first + 1)) % words   \* words in between
        W(k) == (first + k) % words
        now == Flags(first, from % Word, Word - 1, Shift)
        hit == {k \in 1 .. full : Flags(W(k), 0, Word - 1, 0) # {}}
        last == Flags(W(full + 1), 0, end % Word, 0)
        Ret(k) == (Word - Shift) + (k - 1) * Word
    IN  IF now # {} THEN {EndOfByte(now)}
        ELSE IF hit # {} THEN {Ret(Min(hit)) + EndOfByte(Flags(W(Min(hit)), 0, Word - 1, 0))}
        ELSE (IF last # {} THEN {Ret(full + 1) + EndOfByte(last)} ELSE {Ret(full + 1)})
             \* shifting 1 by 64 bits makes endMask 0 or all ones
             \cup (IF end % Word = Word - 1 THEN {Ret(full + 1)} ELSE {})

FlagsInit ==
    /\ from \in 0 .. Slots - 1
    /\ bits \in {{}} \cup {{a, b} : a, b \in 0 .. Slots - 1}
-----------------------------------------------------------------------------
\* The loop sleeps for some time, but past no timer of the next second by two
\* grains or more, and hardly longer than the second.
NeverOversleeps ==
    \A wait \in GetNextTimeoutInASecond :
        /\ wait \in 1 .. Second + Word
        /\ \A d \in 0 .. Second : (from + d) % Slots \in bits => wait < d + 2 * Byte
=============================================================================
