----------------------------- MODULE SeqLemmas -----------------------------
(***************************************************************************)
(* Induction over the natural numbers, from the fact that they are well    *)
(* founded, and what it gives about sequences: what is in a sequence that  *)
(* an operator makes, and that nothing is in it twice.                     *)
(***************************************************************************)
EXTENDS Integers, Sequences, FiniteSets, SequencesExt, WellFoundedInduction, FiniteSetTheorems,
        SequenceTheorems, TLAPS

(***************************************************************************)
(* Induction: a set of numbers that has one has a least one.               *)
(***************************************************************************)
LEMMA LeastNatural ==
    ASSUME NEW T, T \subseteq Nat, T # {}
    PROVE  \E m \in T : \A n \in T : m <= n
<1> DEFINE R == {p \in Nat \X Nat : p[1] < p[2]}
<1>1. IsWellFoundedOn(R, Nat)
  BY NatLessThanWellFounded, Zenon DEF OpToRel
<1>2. \A x, y \in Nat : x < y => <<x, y>> \in R
  OBVIOUS
<1> HIDE DEF R
<1>3. PICK x \in T : \A y \in T : <<y, x>> \notin R
  BY <1>1, WFMin
<1>4. \A y \in T : ~(y < x)
  BY <1>2, <1>3
<1> QED  BY <1>3, <1>4

\* Induction for a set P of numbers below n.
LEMMA UpTo ==
    ASSUME NEW n \in Nat, NEW P, 0 \in P,
           \A i \in 1 .. n : i - 1 \in P => i \in P
    PROVE  \A i \in 0 .. n : i \in P
<1> DEFINE T == {i \in 0 .. n : i \notin P}
<1> SUFFICES ASSUME T # {} PROVE FALSE
  OBVIOUS
<1>1. PICK m \in T : \A i \in T : m <= i
  <2>1. T \subseteq Nat
    OBVIOUS
  <2> HIDE DEF T
  <2> QED  BY <2>1, LeastNatural
<1>2. m \in 1 .. n /\ m - 1 \in 0 .. n
  BY <1>1
<1>3. m - 1 \in P
  BY <1>1, <1>2
<1> QED  BY <1>1, <1>2, <1>3

\* f is defined by recursion: base at 0, then what Step makes of the value before.
Follows(f, k, base, Step) ==
    f[0] = base /\ \A i \in 1 .. k : f[i] = Step[i][f[i - 1]]

\* There is such a function, by induction.
LEMMA RecursiveFunction ==
    ASSUME NEW n \in Nat, NEW X, NEW base \in X, NEW Step \in [1 .. n -> [X -> X]]
    PROVE  \E f \in [0 .. n -> X] : Follows(f, n, base, Step)
<1> DEFINE P == {k \in 0 .. n : \E f \in [0 .. k -> X] : Follows(f, k, base, Step)}
<1>1. 0 \in P
  <2> DEFINE f == [i \in 0 .. 0 |-> base]
  <2>1. f \in [0 .. 0 -> X]
    OBVIOUS
  <2>2. f[0] = base
    OBVIOUS
  <2> HIDE DEF f
  <2>3. Follows(f, 0, base, Step)
    BY <2>2 DEF Follows
  <2> QED  BY <2>1, <2>3
<1>2. ASSUME NEW k \in 1 .. n, k - 1 \in P
      PROVE  k \in P
  <2>1. PICK g \in [0 .. k - 1 -> X] : Follows(g, k - 1, base, Step)
    BY <1>2
  <2> DEFINE f == [i \in 0 .. k |-> IF i = k THEN Step[k][g[k - 1]] ELSE g[i]]
  <2>2. g[k - 1] \in X
    BY <2>1
  <2>3. f \in [0 .. k -> X]
    BY <2>1, <2>2
  <2>4. Follows(f, k, base, Step)
    <3>1. f[0] = base
      BY <2>1 DEF Follows
    <3>2. \A i \in 1 .. k - 1 : f[i] = g[i] /\ f[i - 1] = g[i - 1]
      OBVIOUS
    <3>3. \A i \in 1 .. k - 1 : f[i] = Step[i][f[i - 1]]
      BY <2>1, <3>2 DEF Follows
    <3>4. f[k] = Step[k][g[k - 1]] /\ f[k - 1] = g[k - 1]
      OBVIOUS
    <3> HIDE DEF f
    <3> QED  BY <3>1, <3>3, <3>4 DEF Follows
  <2> HIDE DEF f
  <2> QED  BY <2>3, <2>4
<1>3. n \in P
  <2> HIDE DEF P
  <2>1. \A i \in 0 .. n : i \in P
    BY <1>1, <1>2, UpTo
  <2> QED  BY <2>1
<1> QED  BY <1>3

\* The elements of a sequence after Append().
LEMMA AppendAt ==
    ASSUME NEW S, NEW q \in Seq(S), NEW e \in S, NEW r, r = Append(q, e)
    PROVE  /\ r \in Seq(S) /\ Len(q) \in Nat /\ Len(r) = Len(q) + 1
           /\ r[Len(q) + 1] = e
           /\ \A k \in 1 .. Len(q) : r[k] = q[k]
  OBVIOUS

(***************************************************************************)
(* Links: what is in them, and that nothing is in them twice.              *)
(***************************************************************************)
LEMMA AppendLink ==
    ASSUME NEW S, NEW q \in Seq(S), NEW e \in S
    PROVE  /\ Append(q, e) \in Seq(S)
           /\ Range(Append(q, e)) = Range(q) \cup {e}
           /\ IsInjective(q) /\ e \notin Range(q) => IsInjective(Append(q, e))
<1> DEFINE r == Append(q, e)
           m == Len(q)
<1>1. /\ r \in Seq(S) /\ m \in Nat /\ Len(r) = m + 1 /\ r[m + 1] = e
      /\ \A k \in 1 .. m : r[k] = q[k]
  BY AppendAt
<1>2. DOMAIN r = 1 .. m + 1 /\ DOMAIN q = 1 .. m
  BY <1>1
<1> HIDE DEF r, m
<1>3. Range(r) = Range(q) \cup {e}
  <2>1. \A k \in 1 .. m + 1 : k \in 1 .. m \/ k = m + 1
    BY <1>1
  <2>2. \A k \in 1 .. m : k \in 1 .. m + 1
    BY <1>1
  <2>3. m + 1 \in 1 .. m + 1
    BY <1>1
  <2> QED  BY <1>1, <1>2, <2>1, <2>2, <2>3 DEF Range
<1>4. IsInjective(q) /\ e \notin Range(q) => IsInjective(r)
  <2>1. \A k \in 1 .. m + 1 : k \in 1 .. m \/ k = m + 1
    BY <1>1
  <2> QED  BY <1>1, <1>2, <2>1 DEF Range, IsInjective
<1> QED  BY <1>1, <1>3, <1>4 DEF r

LEMMA ConcatLink ==
    ASSUME NEW S, NEW p \in Seq(S), NEW q \in Seq(S)
    PROVE  /\ p \o q \in Seq(S)
           /\ Range(p \o q) = Range(p) \cup Range(q)
           /\ IsInjective(p) /\ IsInjective(q) /\ Range(p) \cap Range(q) = {} =>
                  IsInjective(p \o q)
<1> DEFINE r == p \o q
           m == Len(p)
           n == Len(q)
<1>1. /\ r \in Seq(S) /\ m \in Nat /\ n \in Nat /\ Len(r) = m + n
      /\ \A k \in 1 .. m + n : r[k] = IF k <= m THEN p[k] ELSE q[k - m]
  BY ConcatProperties
<1>2. DOMAIN r = 1 .. m + n /\ DOMAIN q = 1 .. n /\ DOMAIN p = 1 .. m
  BY <1>1
<1> HIDE DEF r, m, n
<1>3. \A k \in 1 .. m : k \in 1 .. m + n /\ r[k] = p[k]
  BY <1>1
<1>4. \A k \in 1 .. n : m + k \in 1 .. m + n /\ r[m + k] = q[k]
  BY <1>1
<1>5. \A k \in 1 .. m + n : k \in 1 .. m \/ \E l \in 1 .. n : k = m + l
  <2> TAKE k \in 1 .. m + n
  <2>1. k <= m => k \in 1 .. m
    OBVIOUS
  <2>2. ~(k <= m) => k - m \in 1 .. n /\ k = m + (k - m)
    BY <1>1
  <2> QED  BY <2>1, <2>2
<1>6. Range(r) = Range(p) \cup Range(q)
  BY <1>2, <1>3, <1>4, <1>5 DEF Range
<1>7. ASSUME IsInjective(p), IsInjective(q), Range(p) \cap Range(q) = {}
      PROVE  IsInjective(r)
  <2> SUFFICES ASSUME NEW k \in 1 .. m + n, NEW l \in 1 .. m + n, r[k] = r[l] PROVE k = l
    BY <1>2 DEF IsInjective
  <2>1. CASE k \in 1 .. m /\ l \in 1 .. m
    BY <1>2, <1>3, <1>7, <2>1 DEF IsInjective
  <2>2. CASE \E i, j \in 1 .. n : k = m + i /\ l = m + j
    BY <1>2, <1>4, <1>7, <2>2 DEF IsInjective
  <2>3. CASE k \in 1 .. m /\ \E j \in 1 .. n : l = m + j
    BY <1>2, <1>3, <1>4, <1>7, <2>3 DEF Range
  <2>4. CASE l \in 1 .. m /\ \E j \in 1 .. n : k = m + j
    BY <1>2, <1>3, <1>4, <1>7, <2>4 DEF Range
  <2> QED  BY <1>5, <2>1, <2>2, <2>3, <2>4
<1> QED  BY <1>1, <1>6, <1>7 DEF r

LEMMA SubSeqLink ==
    ASSUME NEW S, NEW q \in Seq(S), IsInjective(q), NEW n \in 0 .. Len(q)
    PROVE  /\ SubSeq(q, 1, n) \in Seq(S) /\ SubSeq(q, n + 1, Len(q)) \in Seq(S)
           /\ IsInjective(SubSeq(q, 1, n)) /\ IsInjective(SubSeq(q, n + 1, Len(q)))
           /\ Range(SubSeq(q, 1, n)) \cup Range(SubSeq(q, n + 1, Len(q))) = Range(q)
           /\ Range(SubSeq(q, 1, n)) \cap Range(SubSeq(q, n + 1, Len(q))) = {}
<1> DEFINE a == SubSeq(q, 1, n)
           b == SubSeq(q, n + 1, Len(q))
           m == Len(q)
<1>1. /\ a \in Seq(S) /\ Len(a) = n /\ \A k \in 1 .. n : a[k] = q[k]
      /\ b \in Seq(S) /\ Len(b) = m - n /\ \A k \in 1 .. m - n : b[k] = q[n + k]
  OBVIOUS
<1>2. m \in Nat /\ n \in 0 .. m /\ DOMAIN q = 1 .. m /\ DOMAIN a = 1 .. n /\ DOMAIN b = 1 .. m - n
  BY <1>1
<1> HIDE DEF a, b, m
<1>3. \A k \in 1 .. m - n : n + k \in 1 .. m /\ n + k \notin 1 .. n
  BY <1>2
<1>4. \A k \in 1 .. m : k \in 1 .. n \/ \E l \in 1 .. m - n : k = n + l
  <2> TAKE k \in 1 .. m
  <2>1. k <= n => k \in 1 .. n
    BY <1>2
  <2>2. ~(k <= n) => k - n \in 1 .. m - n /\ k = n + (k - n)
    BY <1>2
  <2> QED  BY <2>1, <2>2
<1>5. \A k \in 1 .. n : k \in 1 .. m
  BY <1>2
<1>6. IsInjective(a) /\ IsInjective(b)
  <2>a. \A k, l \in 1 .. m : q[k] = q[l] => k = l
    BY <1>2 DEF IsInjective
  <2>b. \A k, l \in 1 .. n : a[k] = a[l] => k = l
    BY <1>1, <1>5, <2>a
  <2>1. IsInjective(a)
    BY <1>2, <2>b DEF IsInjective
  <2>2. \A k, l \in 1 .. m - n : n + k = n + l => k = l
    BY <1>2
  <2>c. \A k, l \in 1 .. m - n : b[k] = b[l] => k = l
    BY <1>1, <1>3, <2>2, <2>a
  <2>3. IsInjective(b)
    BY <1>2, <2>c DEF IsInjective
  <2> QED  BY <2>1, <2>3
<1>7. Range(a) \cup Range(b) = Range(q)
  <2>1. \A c : c \in Range(a) \/ c \in Range(b) => c \in Range(q)
    BY <1>1, <1>2, <1>3, <1>5 DEF Range
  <2>2. ASSUME NEW c \in Range(q) PROVE c \in Range(a) \/ c \in Range(b)
    <3>1. PICK k \in 1 .. m : c = q[k]
      BY <1>2 DEF Range
    <3>2. k \in 1 .. n => c \in Range(a)
      BY <1>1, <1>2, <3>1 DEF Range
    <3>3. ASSUME NEW l \in 1 .. m - n, k = n + l PROVE c \in Range(b)
      BY <1>1, <1>2, <3>1, <3>3 DEF Range
    <3> QED  BY <1>4, <3>2, <3>3
  <2> QED  BY <2>1, <2>2
<1>8. Range(a) \cap Range(b) = {}
  <2> SUFFICES ASSUME NEW c, c \in Range(a), c \in Range(b) PROVE FALSE
    OBVIOUS
  <2>1. PICK k \in 1 .. n : c = q[k]
    BY <1>1, <1>2 DEF Range
  <2>2. PICK l \in 1 .. m - n : c = b[l]
    BY <1>2 DEF Range
  <2>3. c = q[n + l] /\ n + l \in 1 .. m /\ k \in 1 .. m
    BY <1>1, <1>3, <1>5, <2>2
  <2>4. k = n + l
    BY <1>2, <2>1, <2>3 DEF IsInjective
  <2> QED  BY <1>3, <2>4
<1> QED  BY <1>1, <1>6, <1>7, <1>8 DEF a, b, m

LEMMA TailLink ==
    ASSUME NEW S, NEW q \in Seq(S), q # <<>>, IsInjective(q)
    PROVE  /\ Head(q) \in Range(q) /\ Head(q) \in S
           /\ Tail(q) \in Seq(S)
           /\ Range(Tail(q)) = Range(q) \ {Head(q)}
           /\ IsInjective(Tail(q))
<1> DEFINE m == Len(q)
           r == Tail(q)
<1>1. /\ m \in Nat \ {0} /\ r \in Seq(S) /\ Len(r) = m - 1 /\ \A k \in 1 .. m - 1 : r[k] = q[k + 1]
      /\ Head(q) = q[1] /\ DOMAIN q = 1 .. m /\ DOMAIN r = 1 .. m - 1
      /\ \A k \in 1 .. m : q[k] \in S
  OBVIOUS
<1> HIDE DEF m, r
<1>2. 1 \in 1 .. m /\ \A k \in 1 .. m - 1 : k + 1 \in 1 .. m /\ k + 1 # 1
  BY <1>1
<1>3. \A k \in 1 .. m : k = 1 \/ \E l \in 1 .. m - 1 : k = l + 1
  <2> TAKE k \in 1 .. m
  <2>1. k # 1 => k - 1 \in 1 .. m - 1 /\ k = (k - 1) + 1
    BY <1>1
  <2> QED  BY <2>1
<1>4. IsInjective(r)
  <2>1. \A k, l \in 1 .. m - 1 : k + 1 = l + 1 => k = l
    BY <1>1
  <2> QED  BY <1>1, <1>2, <2>1 DEF IsInjective
<1>5. Range(r) = Range(q) \ {q[1]}
  <2>1. \A c \in Range(r) : c \in Range(q) /\ c # q[1]
    BY <1>1, <1>2 DEF Range, IsInjective
  <2>2. ASSUME NEW c \in Range(q), c # q[1] PROVE c \in Range(r)
    <3>1. PICK k \in 1 .. m : c = q[k]
      BY <1>1 DEF Range
    <3>2. PICK l \in 1 .. m - 1 : k = l + 1
      BY <1>3, <2>2, <3>1
    <3> QED  BY <1>1, <3>1, <3>2 DEF Range
  <2> QED  BY <2>1, <2>2
<1> QED  BY <1>1, <1>2, <1>4, <1>5 DEF r, Range

\* A sequence without its last element.
LEMMA LastOut ==
    ASSUME NEW S, NEW q \in Seq(S), q # <<>>, IsInjective(q), NEW r, r = SubSeq(q, 1, Len(q) - 1)
    PROVE  /\ r \in Seq(S) /\ IsInjective(r)
           /\ q[Len(q)] \in Range(q) /\ Range(r) = Range(q) \ {q[Len(q)]}
<1> DEFINE n == Len(q)
<1>1. n \in Nat /\ n >= 1 /\ DOMAIN q = 1 .. n /\ \A k \in 1 .. n : q[k] \in S
  BY EmptySeq
<1>2. n - 1 \in 0 .. n
  <2> HIDE DEF n
  <2> QED  BY <1>1
<1>3. r \in Seq(S) /\ IsInjective(r)
  BY <1>2, SubSeqLink
<1>4. Len(r) = n - 1 /\ \A k \in 1 .. n - 1 : r[k] = q[k]
  BY <1>1
<1>5. q[n] \in Range(q)
  BY <1>1 DEF Range
<1>6. DOMAIN r = 1 .. n - 1
  BY <1>3, <1>4
<1>7. \A i, j \in 1 .. n : q[i] = q[j] => i = j
  BY <1>1 DEF IsInjective
<1> HIDE DEF n
<1>8. ASSUME NEW x \in Range(r) PROVE x \in Range(q) \ {q[n]}
  <2>1. PICK k \in 1 .. n - 1 : x = r[k]
    BY <1>6 DEF Range
  <2>2. k \in 1 .. n /\ k # n /\ n \in 1 .. n /\ x = q[k]
    BY <1>1, <1>4, <2>1
  <2>3. x # q[n]
    BY <1>7, <2>2
  <2> QED  BY <1>1, <2>2, <2>3 DEF Range
<1>9. ASSUME NEW x \in Range(q) \ {q[n]} PROVE x \in Range(r)
  <2>1. PICK k \in 1 .. n : x = q[k]
    BY <1>1 DEF Range
  <2>2. k # n
    BY <2>1
  <2>3. k \in 1 .. n - 1
    BY <1>1, <2>2
  <2> QED  BY <1>4, <1>6, <2>1, <2>3 DEF Range
<1>10. Range(r) = Range(q) \ {q[n]}
  BY <1>8, <1>9
<1> QED  BY <1>3, <1>5, <1>10 DEF n

LEMMA EmptyLink ==
    ASSUME NEW S
    PROVE  <<>> \in Seq(S) /\ Range(<<>>) = {} /\ IsInjective(<<>>)
  BY DEF Range, IsInjective

\* q holds what is in the first i links of seqs.
Flattened(q, seqs, i, S) ==
    /\ q \in Seq(S)
    /\ \A c : c \in Range(q) <=> \E j \in 1 .. i : c \in Range(seqs[j])
    /\ (/\ \A j \in 1 .. i : IsInjective(seqs[j])
        /\ \A j, k \in 1 .. i, c \in S : c \in Range(seqs[j]) /\ c \in Range(seqs[k]) => j = k)
           => IsInjective(q)

LEMMA FlattenedStep ==
    ASSUME NEW S, NEW seqs, NEW i \in Nat \ {0}, NEW q, seqs[i] \in Seq(S),
           Flattened(q, seqs, i - 1, S)
    PROVE  Flattened(q \o seqs[i], seqs, i, S)
<1> DEFINE t == seqs[i]
           r == q \o t
<1>1. q \in Seq(S) /\ t \in Seq(S)
  BY DEF Flattened
<1>2. /\ r \in Seq(S) /\ Range(r) = Range(q) \cup Range(t)
      /\ IsInjective(q) /\ IsInjective(t) /\ Range(q) \cap Range(t) = {} => IsInjective(r)
  BY <1>1, ConcatLink
<1>3. \A c \in Range(t) : c \in S
  BY <1>1 DEF Range
<1>4. i \in 1 .. i /\ \A j \in 1 .. i : j \in 1 .. i - 1 \/ j = i
  OBVIOUS
<1>5. \A j \in 1 .. i - 1 : j \in 1 .. i /\ j # i
  OBVIOUS
<1> HIDE DEF r
<1>6. \A c : c \in Range(r) <=> \E j \in 1 .. i : c \in Range(seqs[j])
  <2>1. \A c : c \in Range(q) <=> \E j \in 1 .. i - 1 : c \in Range(seqs[j])
    BY DEF Flattened
  <2> QED  BY <1>2, <1>4, <1>5, <2>1
<1>7. ASSUME \A j \in 1 .. i : IsInjective(seqs[j]),
             \A j, k \in 1 .. i, c \in S : c \in Range(seqs[j]) /\ c \in Range(seqs[k]) => j = k
      PROVE  IsInjective(r)
  <2>1. IsInjective(q)
    BY <1>5, <1>7 DEF Flattened
  <2>2. IsInjective(t)
    BY <1>4, <1>7
  <2>3. Range(q) \cap Range(t) = {}
    <3> SUFFICES ASSUME NEW c, c \in Range(q), c \in Range(t) PROVE FALSE
      OBVIOUS
    <3>1. PICK j \in 1 .. i - 1 : c \in Range(seqs[j])
      BY DEF Flattened
    <3> QED  BY <1>3, <1>4, <1>5, <1>7, <3>1
  <2> QED  BY <1>2, <2>1, <2>2, <2>3
<1>8. Flattened(r, seqs, i, S)
  BY <1>2, <1>6, <1>7 DEF Flattened
<1> QED  BY <1>8 DEF r

\* q holds the elements of link[1] .. link[i] that are not in gone.
Filtered(q, link, i, S, gone) ==
    /\ q \in Seq(S)
    /\ \A k \in 1 .. Len(q) : q[k] \notin gone /\ \E j \in 1 .. i : q[k] = link[j]
    /\ \A j \in 1 .. i : link[j] \notin gone => \E k \in 1 .. Len(q) : q[k] = link[j]
    /\ (\A k, l \in 1 .. i : link[k] = link[l] => k = l) =>
           \A k, l \in 1 .. Len(q) : q[k] = q[l] => k = l

LEMMA FilteredStep ==
    ASSUME NEW S, NEW link, NEW gone, NEW i \in Nat \ {0}, NEW q, NEW r,
           link[i] \in S, Filtered(q, link, i - 1, S, gone),
           r = IF link[i] \in gone THEN q ELSE Append(q, link[i])
    PROVE  Filtered(r, link, i, S, gone)
<1>0. i - 1 \in Nat /\ \A j \in 1 .. i : j \in 1 .. i - 1 \/ j = i
  OBVIOUS
<1>1. CASE link[i] \in gone
  <2>1. r = q
    BY <1>1
  <2> QED  BY <1>0, <1>1, <2>1 DEF Filtered
<1>2. CASE link[i] \notin gone
  <2>1. r = Append(q, link[i]) /\ q \in Seq(S)
    BY <1>2 DEF Filtered
  <2>2. /\ r \in Seq(S) /\ Len(q) \in Nat /\ Len(r) = Len(q) + 1 /\ r[Len(q) + 1] = link[i]
        /\ \A k \in 1 .. Len(q) : r[k] = q[k]
    BY <2>1, AppendAt
  <2> DEFINE m == Len(q)
  <2>3. /\ \A k \in 1 .. m : q[k] \notin gone /\ \E j \in 1 .. i - 1 : q[k] = link[j]
        /\ \A j \in 1 .. i - 1 : link[j] \notin gone => \E k \in 1 .. m : q[k] = link[j]
        /\ (\A k, l \in 1 .. i - 1 : link[k] = link[l] => k = l) =>
               \A k, l \in 1 .. m : q[k] = q[l] => k = l
    BY DEF Filtered
  <2>4. m \in Nat /\ Len(r) = m + 1 /\ r[m + 1] = link[i] /\ \A k \in 1 .. m : r[k] = q[k]
    BY <2>2
  <2> HIDE DEF m
  <2>5. \A k \in 1 .. m + 1 : r[k] \notin gone /\ \E j \in 1 .. i : r[k] = link[j]
    BY <1>0, <1>2, <2>3, <2>4
  <2>6. \A j \in 1 .. i : link[j] \notin gone => \E k \in 1 .. m + 1 : r[k] = link[j]
    <3> SUFFICES ASSUME NEW j \in 1 .. i, link[j] \notin gone
                 PROVE  \E k \in 1 .. m + 1 : r[k] = link[j]
      OBVIOUS
    <3>1. CASE j = i
      <4>1. m + 1 \in 1 .. m + 1 /\ r[m + 1] = link[j]
        BY <2>4, <3>1
      <4> QED  BY <4>1
    <3>2. CASE j \in 1 .. i - 1
      <4>1. PICK k \in 1 .. m : q[k] = link[j]
        BY <2>3, <3>2
      <4>2. k \in 1 .. m + 1 /\ r[k] = link[j]
        BY <2>4, <4>1
      <4> QED  BY <4>2
    <3> QED  BY <1>0, <3>1, <3>2
  <2>7. ASSUME \A k, l \in 1 .. i : link[k] = link[l] => k = l
        PROVE  \A k, l \in 1 .. m + 1 : r[k] = r[l] => k = l
    <3>1. \A k, l \in 1 .. m : q[k] = q[l] => k = l
      BY <1>0, <2>3, <2>7
    <3>2. \A k \in 1 .. m : q[k] # link[i]
      BY <1>0, <2>3, <2>7
    <3> QED  BY <2>4, <3>1, <3>2
  <2> QED  BY <2>2, <2>4, <2>5, <2>6, <2>7 DEF Filtered
<1> QED  BY <1>1, <1>2

\* link without the elements in gone, by recursion.
Purged(link, gone) ==
    LET kept[i \in 0 .. Len(link)] ==
          IF i = 0 THEN <<>>
          ELSE IF link[i] \in gone THEN kept[i - 1] ELSE Append(kept[i - 1], link[i])
    IN  kept[Len(link)]

LEMMA PurgedLink ==
    ASSUME NEW S, NEW link \in Seq(S), NEW gone
    PROVE  /\ Purged(link, gone) \in Seq(S)
           /\ Range(Purged(link, gone)) = Range(link) \ gone
           /\ IsInjective(link) => IsInjective(Purged(link, gone))
<1> DEFINE n == Len(link)
           kept == CHOOSE kept : kept = [i \in 0 .. n |->
                      IF i = 0 THEN <<>>
                      ELSE IF link[i] \in gone THEN kept[i - 1] ELSE Append(kept[i - 1], link[i])]
           Step == [i \in 1 .. n |-> [q \in Seq(S) |->
                      IF link[i] \in gone THEN q ELSE Append(q, link[i])]]
<1>n. n \in Nat /\ DOMAIN link = 1 .. n /\ \A i \in 1 .. n : link[i] \in S
  OBVIOUS
<1>1. Purged(link, gone) = kept[n]
  BY DEF Purged
<1> HIDE DEF n
<1>2. \E f : f = [i \in 0 .. n |->
                      IF i = 0 THEN <<>>
                      ELSE IF link[i] \in gone THEN f[i - 1] ELSE Append(f[i - 1], link[i])]
  <2>1. Step \in [1 .. n -> [Seq(S) -> Seq(S)]]
    BY <1>n
  <2>2. <<>> \in Seq(S)
    OBVIOUS
  <2>3. \A i \in 1 .. n, q \in Seq(S) :
           Step[i][q] = IF link[i] \in gone THEN q ELSE Append(q, link[i])
    OBVIOUS
  <2> HIDE DEF Step
  <2>4. PICK f \in [0 .. n -> Seq(S)] :
           f[0] = <<>> /\ \A i \in 1 .. n : f[i] = Step[i][f[i - 1]]
    <3> DEFINE X == Seq(S)
               base == <<>>
    <3>1. Step \in [1 .. n -> [X -> X]]
      BY <2>1
    <3>2. base \in X
      BY <2>2
    <3>3. n \in Nat
      BY <1>n
    <3> HIDE DEF X, base
    <3>4. \E f \in [0 .. n -> X] : Follows(f, n, base, Step)
      BY <3>1, <3>2, <3>3, RecursiveFunction
    <3> QED  BY <3>4 DEF X, base, Follows
  <2>a. \A i \in 1 .. n : i # 0 /\ i - 1 \in 0 .. n /\ f[i - 1] \in Seq(S)
    BY <1>n, <2>4
  <2>5. \A i \in 1 .. n :
           f[i] = IF link[i] \in gone THEN f[i - 1] ELSE Append(f[i - 1], link[i])
    <3> TAKE i \in 1 .. n
    <3> DEFINE q == f[i - 1]
    <3>1. q \in Seq(S) /\ f[i] = Step[i][q]
      BY <2>4, <2>a
    <3> HIDE DEF q
    <3>2. f[i] = IF link[i] \in gone THEN q ELSE Append(q, link[i])
      BY <2>3, <3>1
    <3> QED  BY <3>2 DEF q
  <2>6. f = [i \in 0 .. n |-> f[i]] /\ \A i \in 0 .. n : i = 0 \/ i \in 1 .. n
    BY <1>n, <2>4
  <2>7. f = [i \in 0 .. n |->
                      IF i = 0 THEN <<>>
                      ELSE IF link[i] \in gone THEN f[i - 1] ELSE Append(f[i - 1], link[i])]
    <3>1. \A i \in 0 .. n : f[i] = IF i = 0 THEN <<>>
             ELSE IF link[i] \in gone THEN f[i - 1] ELSE Append(f[i - 1], link[i])
      BY <2>4, <2>5, <2>6, <2>a
    <3> QED  BY <2>6, <3>1
  <2> QED  BY <2>7
<1>3. kept = [i \in 0 .. n |->
                      IF i = 0 THEN <<>>
                      ELSE IF link[i] \in gone THEN kept[i - 1] ELSE Append(kept[i - 1], link[i])]
  BY <1>2
<1> HIDE DEF kept
<1>4. kept[0] = <<>>
  BY <1>3, <1>n
<1>5. \A i \in 1 .. n :
         kept[i] = IF link[i] \in gone THEN kept[i - 1] ELSE Append(kept[i - 1], link[i])
  <2>1. \A i \in 1 .. n : i \in 0 .. n /\ i # 0
    BY <1>n
  <2> QED  BY <1>3, <2>1
<1> DEFINE P == {i \in 0 .. n : Filtered(kept[i], link, i, S, gone)}
<1>6. 0 \in P
  <2>1. Filtered(<<>>, link, 0, S, gone)
    BY DEF Filtered
  <2> QED  BY <1>n, <1>4, <2>1
<1>7. ASSUME NEW i \in 1 .. n, i - 1 \in P
      PROVE  i \in P
  <2>1. Filtered(kept[i - 1], link, i - 1, S, gone)
    BY <1>7
  <2>2. link[i] \in S /\ i \in Nat \ {0}
    BY <1>n
  <2>3. Filtered(kept[i], link, i, S, gone)
    BY <1>5, <2>1, <2>2, FilteredStep
  <2> QED  BY <1>n, <2>3
<1>8. Filtered(kept[n], link, n, S, gone)
  <2>1. n \in P
    <3> HIDE DEF P
    <3>1. \A i \in 0 .. n : i \in P
      BY <1>n, <1>6, <1>7, UpTo
    <3> QED  BY <1>n, <3>1
  <2> QED  BY <2>1
<1>9. kept[n] \in Seq(S) /\ DOMAIN kept[n] = 1 .. Len(kept[n])
  BY <1>8 DEF Filtered
<1>10. Range(kept[n]) = Range(link) \ gone
  <2>1. ASSUME NEW c \in Range(kept[n]) PROVE c \in Range(link) \ gone
    <3>1. PICK k \in 1 .. Len(kept[n]) : c = kept[n][k]
      BY <1>9, <2>1 DEF Range
    <3> QED  BY <1>n, <1>8, <3>1 DEF Range, Filtered
  <2>2. ASSUME NEW c \in Range(link), c \notin gone PROVE c \in Range(kept[n])
    <3>1. PICK j \in 1 .. n : c = link[j]
      BY <1>n, <2>2 DEF Range
    <3>2. PICK k \in 1 .. Len(kept[n]) : kept[n][k] = c
      BY <1>8, <2>2, <3>1 DEF Filtered
    <3> QED  BY <1>9, <3>2 DEF Range
  <2> QED  BY <2>1, <2>2
<1>11. IsInjective(link) => IsInjective(kept[n])
  BY <1>n, <1>8, <1>9 DEF IsInjective, Filtered
<1> QED  BY <1>1, <1>9, <1>10, <1>11

\* The elements of a finite set in some order.
LEMMA SetToSeqLink ==
    ASSUME NEW S, NEW T \in SUBSET S, IsFiniteSet(T)
    PROVE  SetToSeq(T) \in Seq(S) /\ Range(SetToSeq(T)) = T /\ IsInjective(SetToSeq(T))
<1>1. Cardinality(T) \in Nat /\ ExistsBijection(1 .. Cardinality(T), T)
  BY FS_CardinalityType
<1> DEFINE n == Cardinality(T)
<1>2. \E f \in [1 .. n -> T] : IsInjective(f)
  BY <1>1 DEF ExistsBijection, Bijection, Injection, IsInjective
<1> DEFINE f == CHOOSE f \in [1 .. n -> T] : IsInjective(f)
<1>3. f \in [1 .. n -> T] /\ IsInjective(f)
  BY <1>2
<1>4. SetToSeq(T) = f
  BY DEF SetToSeq
<1> HIDE DEF f
<1>5. f \in Seq(S)
  BY <1>1, <1>3
<1>6. Range(f) = T
  <2>1. IsFiniteSet(1 .. n) /\ Cardinality(1 .. n) = n
    BY <1>1, FS_Interval
  <2>2. f \in Injection(1 .. n, T)
    BY <1>3 DEF Injection
  <2>3. f \in Surjection(1 .. n, T)
    BY <2>1, <2>2, FS_Injection
  <2> QED  BY <1>3, <2>3 DEF Surjection, Range
<1> QED  BY <1>3, <1>4, <1>5, <1>6
=============================================================================
