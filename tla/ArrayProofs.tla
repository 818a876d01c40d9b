----------------------------- MODULE ArrayProofs -----------------------------
(***************************************************************************)
(* Arrays and bitsets in their memory, for every size and word, any number *)
(* of blocks and any use of the arrays.                                    *)
(***************************************************************************)
EXTENDS Bitset, NumberProofs, SequenceTheorems

-----------------------------------------------------------------------------
(* Parts of sequences.                                                     *)

\* The first k.
LEMMA Beginning ==
  ASSUME NEW S, NEW s \in Seq(S), NEW k \in 0 .. Len(s)
  PROVE  /\ SubSeq(s, 1, k) \in Seq(S) /\ Len(SubSeq(s, 1, k)) = k
         /\ \A i \in 1 .. k : SubSeq(s, 1, k)[i] = s[i]
<1>1. Len(s) \in Nat /\ s \in [1 .. Len(s) -> S]
  BY LenProperties
<1>2. k \in Int /\ 1 \in Int /\ \A i \in 1 .. k : s[i] \in S
  BY <1>1
<1>3. /\ SubSeq(s, 1, k) \in Seq(S)
      /\ Len(SubSeq(s, 1, k)) = IF 1 <= k THEN k - 1 + 1 ELSE 0
      /\ \A i \in 1 .. k - 1 + 1 : SubSeq(s, 1, k)[i] = s[1 + i - 1]
  BY <1>2, SubSeqProperties
<1> QED BY <1>1, <1>3

\* All behind the first k.
LEMMA Ending ==
  ASSUME NEW S, NEW s \in Seq(S), NEW k \in 0 .. Len(s)
  PROVE  /\ SubSeq(s, k + 1, Len(s)) \in Seq(S)
         /\ Len(SubSeq(s, k + 1, Len(s))) = Len(s) - k
         /\ \A i \in 1 .. Len(s) - k : SubSeq(s, k + 1, Len(s))[i] = s[k + i]
<1> DEFINE n == Len(s)
           m == k + 1
<1>1. n \in Nat /\ s \in [1 .. n -> S]
  BY LenProperties
<1>2. m \in Int /\ n \in Int /\ \A i \in m .. n : s[i] \in S
  BY <1>1
<1>3. /\ SubSeq(s, m, n) \in Seq(S)
      /\ Len(SubSeq(s, m, n)) = IF m <= n THEN n - m + 1 ELSE 0
      /\ \A i \in 1 .. n - m + 1 : SubSeq(s, m, n)[i] = s[m + i - 1]
  <2> HIDE DEF m, n
  <2> QED BY <1>2, SubSeqProperties
<1>4. Len(SubSeq(s, m, n)) = n - k
  <2>1. m = k + 1 /\ k \in 0 .. n
    OBVIOUS
  <2> HIDE DEF m, n
  <2> QED BY <1>1, <1>3, <2>1
<1>5. \A i \in 1 .. n - k : SubSeq(s, m, n)[i] = s[k + i]
  <2> TAKE i \in 1 .. n - k
  <2>1. i \in 1 .. n - m + 1 /\ m + i - 1 = k + i
    BY <1>1
  <2> QED BY <1>3, <2>1
<1> QED BY <1>3, <1>4, <1>5

\* t is s with e put in behind the first k.
Parts(t, s, k, e) ==
  /\ Len(t) = Len(s) + Len(e)
  /\ \A i \in 1 .. k : t[i] = s[i]
  /\ \A i \in 1 .. Len(e) : t[k + i] = e[i]
  /\ \A i \in 1 .. Len(s) - k : t[k + Len(e) + i] = s[k + i]

\* Something between the first k of a sequence and those behind.
LEMMA Between ==
  ASSUME NEW S, NEW s \in Seq(S), NEW k \in 0 .. Len(s), NEW e \in Seq(S)
  PROVE  LET t == SubSeq(s, 1, k) \o e \o SubSeq(s, k + 1, Len(s))
         IN  t \in Seq(S) /\ Parts(t, s, k, e)
<1> DEFINE t == SubSeq(s, 1, k) \o e \o SubSeq(s, k + 1, Len(s))
           a == SubSeq(s, 1, k)
           c == SubSeq(s, k + 1, Len(s))
           u == a \o e
<1>1. Len(s) \in Nat /\ Len(e) \in Nat
  BY LenProperties
<1>2. a \in Seq(S) /\ Len(a) = k /\ \A i \in 1 .. k : a[i] = s[i]
  BY Beginning
<1>3. /\ c \in Seq(S) /\ Len(c) = Len(s) - k
      /\ \A i \in 1 .. Len(s) - k : c[i] = s[k + i]
  BY <1>1, Ending
<1> HIDE DEF a, c
<1>4. /\ u \in Seq(S) /\ Len(u) = Len(a) + Len(e)
      /\ \A i \in 1 .. Len(a) + Len(e) :
           u[i] = IF i <= Len(a) THEN a[i] ELSE e[i - Len(a)]
  BY <1>2, ConcatProperties
<1>5. t = u \o c
  BY DEF a, c
<1> HIDE DEF t, u
<1>6. /\ t \in Seq(S) /\ Len(t) = Len(u) + Len(c)
      /\ \A i \in 1 .. Len(u) + Len(c) :
           t[i] = IF i <= Len(u) THEN u[i] ELSE c[i - Len(u)]
  <2>1. u \in Seq(S) /\ c \in Seq(S)
    BY <1>3, <1>4
  <2> QED BY <1>5, <2>1, ConcatProperties
<1>7. Len(t) = Len(s) + Len(e)
  BY <1>1, <1>2, <1>3, <1>4, <1>5, <1>6
<1>8. \A i \in 1 .. k : t[i] = s[i]
  BY <1>1, <1>2, <1>3, <1>4, <1>5, <1>6
<1>9. \A i \in 1 .. Len(e) : t[k + i] = e[i]
  <2> TAKE i \in 1 .. Len(e)
  <2>1. k + i \in 1 .. Len(u) /\ k + i > k /\ (k + i) - k = i
    BY <1>1, <1>2, <1>4
  <2>2. u[k + i] = e[i]
    BY <1>2, <1>4, <2>1
  <2>3. k + i \in 1 .. Len(u) + Len(c)
    BY <1>1, <1>2, <1>3, <1>4, <2>1
  <2> QED BY <1>5, <1>6, <2>1, <2>2, <2>3
<1>10. \A i \in 1 .. Len(s) - k : t[k + Len(e) + i] = s[k + i]
  <2> TAKE i \in 1 .. Len(s) - k
  <2> DEFINE j == k + Len(e) + i
  <2>1. /\ j \in 1 .. Len(u) + Len(c) /\ j > Len(u) /\ j - Len(u) = i
        /\ Len(u) \in Nat /\ Len(c) \in Nat
    BY <1>1, <1>2, <1>3, <1>4
  <2> HIDE DEF j
  <2>2. t[j] = IF j <= Len(u) THEN u[j] ELSE c[j - Len(u)]
    BY <1>6, <2>1
  <2>3. ~(j <= Len(u))
    BY <2>1
  <2>4. t[j] = c[i]
    BY <2>1, <2>2, <2>3
  <2> QED BY <1>3, <2>4 DEF j
<1> QED BY <1>5, <1>6, <1>7, <1>8, <1>9, <1>10 DEF Parts, t

\* There is only one.
LEMMA SameParts ==
  ASSUME NEW S, NEW s \in Seq(S), NEW k \in 0 .. Len(s), NEW e \in Seq(S),
         NEW t \in Seq(S), NEW u \in Seq(S), Parts(t, s, k, e), Parts(u, s, k, e)
  PROVE  t = u
<1> DEFINE n == Len(e)
           l == Len(s) - k
<1>1. n \in Nat /\ l \in Nat /\ k \in Nat /\ Len(s) = k + l
  BY LenProperties
<1>2. /\ Len(t) = Len(s) + n /\ Len(u) = Len(s) + n
      /\ \A i \in 1 .. k : t[i] = u[i]
      /\ \A i \in 1 .. n : t[k + i] = u[k + i]
      /\ \A i \in 1 .. l : t[k + n + i] = u[k + n + i]
  BY DEF Parts
<1> HIDE DEF n, l
<1>3. Len(t) = k + l + n /\ Len(u) = k + l + n
  BY <1>1, <1>2
<1>4. ASSUME NEW j \in 1 .. Len(t)
      PROVE  t[j] = u[j]
  <2>1. CASE j <= k
    BY <1>2, <2>1
  <2>2. CASE j > k /\ j <= k + n
    <3>1. j - k \in 1 .. n /\ j = k + (j - k)
      BY <1>1, <2>2
    <3> QED BY <1>2, <3>1
  <2>3. CASE j > k + n
    <3>1. j - (k + n) \in 1 .. l /\ j = k + n + (j - (k + n))
      BY <1>1, <1>3, <2>3
    <3> QED BY <1>2, <3>1
  <2> QED BY <1>1, <1>3, <2>1, <2>2, <2>3
<1> QED BY <1>3, <1>4, SeqEqual

\* All but the one at place k.
LEMMA Without ==
  ASSUME NEW S, NEW s \in Seq(S), NEW k \in 1 .. Len(s)
  PROVE  LET t == SubSeq(s, 1, k - 1) \o SubSeq(s, k + 1, Len(s))
         IN  /\ t \in Seq(S) /\ Len(t) = Len(s) - 1
             /\ \A i \in 1 .. k - 1 : t[i] = s[i]
             /\ \A i \in k .. Len(s) - 1 : t[i] = s[i + 1]
<1> DEFINE a == SubSeq(s, 1, k - 1)
           c == SubSeq(s, k + 1, Len(s))
           t == a \o c
<1>1. Len(s) \in Nat /\ k - 1 \in 0 .. Len(s) /\ k \in 0 .. Len(s)
  BY LenProperties
<1>2. a \in Seq(S) /\ Len(a) = k - 1 /\ \A i \in 1 .. k - 1 : a[i] = s[i]
  BY <1>1, Beginning
<1>3. /\ c \in Seq(S) /\ Len(c) = Len(s) - k
      /\ \A i \in 1 .. Len(s) - k : c[i] = s[k + i]
  BY <1>1, Ending
<1> HIDE DEF a, c
<1>4. /\ t \in Seq(S) /\ Len(t) = Len(a) + Len(c)
      /\ \A i \in 1 .. Len(a) + Len(c) :
           t[i] = IF i <= Len(a) THEN a[i] ELSE c[i - Len(a)]
  <2>1. a \in Seq(S) /\ c \in Seq(S)
    BY <1>2, <1>3
  <2> QED BY <2>1, ConcatProperties
<1> HIDE DEF t
<1>5. Len(t) = Len(s) - 1 /\ \A i \in 1 .. k - 1 : t[i] = s[i]
  BY <1>1, <1>2, <1>3, <1>4
<1>6. \A i \in k .. Len(s) - 1 : t[i] = s[i + 1]
  <2> TAKE i \in k .. Len(s) - 1
  <2> DEFINE j == i - (k - 1)
  <2>1. j \in 1 .. Len(s) - k /\ k + j = i + 1
    BY <1>1
  <2>2. i \in 1 .. Len(a) + Len(c) /\ i > Len(a) /\ i - Len(a) = j
    BY <1>1, <1>2, <1>3
  <2>3. Len(a) \in Nat
    BY <1>1, <1>2
  <2> HIDE DEF j
  <2>4. t[i] = c[j]
    BY <1>4, <2>2, <2>3
  <2> QED BY <1>3, <2>1, <2>4
<1> QED BY <1>4, <1>5, <1>6 DEF t, a, c

\* Something in front.
LEMMA InFront ==
  ASSUME NEW S, NEW s \in Seq(S), NEW e \in S
  PROVE  /\ <<e>> \o s \in Seq(S) /\ Len(<<e>> \o s) = Len(s) + 1
         /\ (<<e>> \o s)[1] = e
         /\ \A i \in 1 .. Len(s) : (<<e>> \o s)[i + 1] = s[i]
<1> DEFINE d == <<e>>
           t == d \o s
<1>1. d \in Seq(S) /\ Len(d) = 1 /\ d[1] = e /\ Len(s) \in Nat
  BY LenProperties
<1> HIDE DEF d
<1>2. /\ t \in Seq(S) /\ Len(t) = Len(d) + Len(s)
      /\ \A i \in 1 .. Len(d) + Len(s) :
           t[i] = IF i <= Len(d) THEN d[i] ELSE s[i - Len(d)]
  BY <1>1, ConcatProperties
<1> HIDE DEF t
<1>3. \A i \in 1 .. Len(s) : t[i + 1] = s[i]
  <2> TAKE i \in 1 .. Len(s)
  <2>1. i + 1 \in 1 .. Len(d) + Len(s) /\ i + 1 > Len(d) /\ i + 1 - Len(d) = i
    BY <1>1
  <2> QED BY <1>2, <2>1
<1>4. t \in Seq(S) /\ Len(t) = Len(s) + 1 /\ t[1] = e
  BY <1>1, <1>2
<1> QED BY <1>3, <1>4 DEF t, d

-----------------------------------------------------------------------------
(* cstdlib_allocator's list.                                               *)

Address == Nat \ {NULL}

\* A list of live allocations, each once.
IsLive(list) == list \in Seq(Address) /\ IsInjective(list)

\* What Min chooses.
LEMMA MinOf ==
  ASSUME NEW S \in SUBSET Nat, S # {}
  PROVE  Min(S) \in S /\ \A y \in S : Min(S) <= y
<1>1. \E m \in S : \A y \in S : m <= y
  BY LeastNatural
<1> QED BY <1>1 DEF Min

\* malloc's address is one that nobody holds: there is one more than there are
\* allocations.
LEMMA MallocFresh ==
  ASSUME NEW list \in Seq(Address)
  PROVE  Malloc(list) \in Address \ Range(list)
<1> DEFINE n == Len(list)
           R == Range(list)
           S == (1 .. n + 1) \ R
<1>1. n \in Nat /\ list \in [1 .. n -> Address]
  BY LenProperties
<1>2. IsFiniteSet(1 .. n) /\ Cardinality(1 .. n) = n
  <2> HIDE DEF n
  <2>1. IsFiniteSet(1 .. n)
    BY <1>1, FS_Interval
  <2>2. Cardinality(1 .. n) = IF 1 > n THEN 0 ELSE n - 1 + 1
    BY <1>1, FS_Interval
  <2> QED BY <1>1, <2>1, <2>2
<1>3. IsFiniteSet(1 .. n + 1) /\ Cardinality(1 .. n + 1) = n + 1
  <2> HIDE DEF n
  <2>1. IsFiniteSet(1 .. n + 1)
    BY <1>1, FS_Interval
  <2>2. Cardinality(1 .. n + 1) = IF 1 > n + 1 THEN 0 ELSE n + 1 - 1 + 1
    BY <1>1, FS_Interval
  <2> QED BY <1>1, <2>1, <2>2
<1>4. list \in Surjection(1 .. n, R)
  BY <1>1 DEF Surjection, Range
<1> HIDE DEF R
<1>5. IsFiniteSet(R) /\ Cardinality(R) <= n
  BY <1>2, <1>4, FS_Surjection
<1>6. S # {}
  <2> SUFFICES ASSUME 1 .. n + 1 \subseteq R
               PROVE  FALSE
    OBVIOUS
  <2>1. Cardinality(1 .. n + 1) <= Cardinality(R)
    BY <1>5, FS_Subset
  <2>2. Cardinality(R) \in Nat
    BY <1>5, FS_CardinalityType
  <2> QED BY <1>1, <1>3, <1>5, <2>1, <2>2
<1>7. S \in SUBSET Nat /\ Malloc(list) = Min(S)
  BY <1>1 DEF Malloc, R
<1>8. Malloc(list) \in S
  <2> HIDE DEF S
  <2> QED BY <1>6, <1>7, MinOf
<1> QED BY <1>1, <1>8 DEF R, Address, NULL

\* ALLOC puts it in front.
LEMMA AllocatedOK ==
  ASSUME NEW list, IsLive(list)
  PROVE  /\ IsLive(Allocated(list)) /\ Malloc(list) \in Address \ Range(list)
         /\ Range(Allocated(list)) = Range(list) \cup {Malloc(list)}
         /\ Head(Allocated(list)) = Malloc(list)
<1> DEFINE n == Len(list)
           p == Malloc(list)
           s == <<p>> \o list
<1>1. p \in Address \ Range(list)
  BY MallocFresh DEF IsLive
<1> HIDE DEF p
<1>2. n \in Nat /\ list \in [1 .. n -> Address] /\ list \in Seq(Address)
  BY LenProperties DEF IsLive
<1>3. /\ s \in Seq(Address) /\ Len(s) = n + 1 /\ s[1] = p
      /\ \A i \in 1 .. n : s[i + 1] = list[i]
  BY <1>1, <1>2, InFront
<1>4. DOMAIN s = 1 .. n + 1
  BY <1>3, LenProperties
<1> HIDE DEF s
<1>5. \A i \in 2 .. n + 1 : i - 1 \in 1 .. n /\ s[i] = list[i - 1]
  BY <1>2, <1>3
<1>6. Range(s) = Range(list) \cup {p}
  <2>1. \A i \in 1 .. n + 1 : s[i] \in Range(list) \cup {p}
    BY <1>2, <1>3, <1>5 DEF Range
  <2>2. \A i \in 1 .. n : list[i] \in Range(s)
    BY <1>2, <1>3, <1>4 DEF Range
  <2>3. p \in Range(s)
    BY <1>2, <1>3, <1>4 DEF Range
  <2> QED BY <1>2, <1>4, <2>1, <2>2, <2>3 DEF Range
<1>7. IsInjective(s)
  <2> SUFFICES ASSUME NEW i \in 1 .. n + 1, NEW j \in 1 .. n + 1, s[i] = s[j]
               PROVE  i = j
    BY <1>4 DEF IsInjective
  <2>1. \A k \in 2 .. n + 1 : s[k] # p
    BY <1>1, <1>2, <1>5 DEF Range
  <2>2. \A k, l \in 1 .. n : list[k] = list[l] => k = l
    BY <1>2 DEF IsLive, IsInjective
  <2>3. CASE i = 1
    <3>1. s[j] = p
      BY <1>3, <2>3
    <3>2. j \notin 2 .. n + 1
      BY <2>1, <3>1
    <3> QED BY <1>2, <2>3, <3>2
  <2>4. CASE j = 1
    <3>1. s[i] = p
      BY <1>3, <2>4
    <3>2. i \notin 2 .. n + 1
      BY <2>1, <3>1
    <3> QED BY <1>2, <2>4, <3>2
  <2>5. CASE i # 1 /\ j # 1
    <3>1. i \in 2 .. n + 1 /\ j \in 2 .. n + 1
      BY <1>2, <2>5
    <3>2. i - 1 \in 1 .. n /\ j - 1 \in 1 .. n /\ list[i - 1] = list[j - 1]
      BY <1>5, <3>1
    <3>3. i - 1 = j - 1
      BY <2>2, <3>2
    <3> QED BY <3>1, <3>3
  <2> QED BY <2>3, <2>4, <2>5
<1>8. Head(s) = s[1]
  OBVIOUS
<1> QED BY <1>1, <1>3, <1>6, <1>7, <1>8 DEF Allocated, IsLive, p, s

\* FREE takes out the one place an allocation has.
LEMMA FreedOK ==
  ASSUME NEW list, IsLive(list), NEW p
  PROVE  IsLive(Freed(list, p)) /\ Range(Freed(list, p)) = Range(list) \ {p}
<1> DEFINE n == Len(list)
<1>1. n \in Nat /\ list \in [1 .. n -> Address] /\ list \in Seq(Address)
  BY LenProperties DEF IsLive
<1>2. CASE ~\E i \in 1 .. n : list[i] = p
  <2>1. Freed(list, p) = list /\ p \notin Range(list)
    BY <1>1, <1>2 DEF Freed, RemoveFirst, Range
  <2> QED BY <2>1
<1>3. CASE \E i \in 1 .. n : list[i] = p
  <2> DEFINE I == {i \in 1 .. n : list[i] = p}
             k == Min(I)
             s == SubSeq(list, 1, k - 1) \o SubSeq(list, k + 1, n)
  <2>1. Freed(list, p) = s
    BY <1>3 DEF Freed, RemoveFirst, RemoveAt, SelectInSeq
  <2>2. k \in I
    <3>1. I \in SUBSET Nat /\ I # {}
      BY <1>1, <1>3
    <3> HIDE DEF I
    <3> QED BY <3>1, MinOf
  <2>3. k \in 1 .. n /\ list[k] = p
    BY <2>2
  <2> HIDE DEF k, I
  <2>4. /\ s \in Seq(Address) /\ Len(s) = n - 1
        /\ \A i \in 1 .. k - 1 : s[i] = list[i]
        /\ \A i \in k .. n - 1 : s[i] = list[i + 1]
    BY <1>1, <2>3, Without
  <2>6. \A i \in 1 .. n - 1 : s[i] = IF i < k THEN list[i] ELSE list[i + 1]
    <3> HIDE DEF s
    <3> QED BY <1>1, <2>3, <2>4
  <2>7. DOMAIN s = 1 .. n - 1
    BY <2>4, LenProperties
  <2> HIDE DEF s
  <2>8. \A i, j \in 1 .. n : list[i] = list[j] => i = j
    BY <1>1 DEF IsLive, IsInjective
  <2>9. IsInjective(s)
    BY <1>1, <2>3, <2>6, <2>7, <2>8 DEF IsInjective
  <2>10. Range(s) = Range(list) \ {p}
    <3>1. \A i \in 1 .. n - 1 : s[i] \in Range(list) /\ s[i] # p
      BY <1>1, <2>3, <2>6, <2>8 DEF Range
    <3>2. ASSUME NEW i \in 1 .. n, list[i] # p
          PROVE  list[i] \in Range(s)
      <4>1. CASE i < k
        BY <1>1, <2>3, <2>6, <2>7, <4>1 DEF Range
      <4>2. CASE i > k
        <5>1. i - 1 \in 1 .. n - 1 /\ s[i - 1] = list[i]
          BY <1>1, <2>3, <2>6, <4>2
        <5> QED BY <2>7, <5>1 DEF Range
      <4> QED BY <1>1, <2>3, <3>2, <4>1, <4>2
    <3> QED BY <1>1, <2>7, <3>1, <3>2 DEF Range
  <2> QED BY <2>1, <2>4, <2>9, <2>10 DEF IsLive
<1> QED BY <1>2, <1>3

-----------------------------------------------------------------------------
(* Memory.  What is held: each block of the arena, its data, and the data  *)
(* of each array of cstdlib_allocator; an array in the arena has a part of *)
(* a block that nothing else has.                                          *)

Names == {"code", "other", "words"}
Block == [self : Address, data : Address, used : Nat]
Cell == Vals \cup {Junk} \cup SUBSET (0 .. WordSize - 1)

IsArray(a) ==
  /\ a = [allocator |-> a.allocator, size |-> a.size, count |-> a.count,
          at |-> a.at, cells |-> a.cells]
  /\ a.allocator \in {"arena", "cstdlib"}
  /\ a.size \in Nat /\ a.size > 1
  /\ a.count \in Nat /\ a.count <= a.size
  /\ a.cells \in Seq(Cell) /\ Len(a.cells) = a.count
  /\ a.at = Nowhere \/ a.at \in [base : Address, offset : Nat]

Shaped(m) ==
  /\ m = [live |-> m.live, blocks |-> m.blocks, arrays |-> m.arrays,
          status |-> m.status]
  /\ m.arrays = [x \in Names |-> m.arrays[x]]

IsMemory(m) ==
  /\ Shaped(m) /\ IsLive(m.live) /\ m.blocks \in Seq(Block)
  /\ \A x \in Names : IsArray(m.arrays[x])

OnHeap(a) == a.allocator = "cstdlib" /\ a.at # Nowhere

HeldBy(m) ==
  {m.blocks[i].self : i \in DOMAIN m.blocks}
    \cup {m.blocks[i].data : i \in DOMAIN m.blocks}
    \cup {m.arrays[x].at.base : x \in {y \in Names : OnHeap(m.arrays[y])}}

\* Nothing is held twice.
OwnMemory(m) ==
  /\ \A x, y \in Names :
       /\ OnHeap(m.arrays[x]) /\ OnHeap(m.arrays[y])
       /\ m.arrays[x].at.base = m.arrays[y].at.base
       => x = y
  /\ \A x \in Names, i \in DOMAIN m.blocks :
       OnHeap(m.arrays[x]) => m.arrays[x].at.base \notin
                                {m.blocks[i].self, m.blocks[i].data}
  /\ \A i, j \in DOMAIN m.blocks : m.blocks[i].data = m.blocks[j].data => i = j

\* Array a lies in front of what was given out up to n.
EndsBefore(a, n) == a.at.offset + a.size <= n

OwnRegions(m) ==
  /\ \A x \in Names :
       InArena(m.arrays[x]) =>
         \E i \in DOMAIN m.blocks :
            /\ m.arrays[x].at.base = m.blocks[i].data
            /\ EndsBefore(m.arrays[x], m.blocks[i].used)
  /\ \A x, y \in Names :
       /\ x # y /\ InArena(m.arrays[x]) /\ InArena(m.arrays[y])
       /\ m.arrays[x].at.base = m.arrays[y].at.base
       => \/ EndsBefore(m.arrays[x], m.arrays[y].at.offset)
          \/ EndsBefore(m.arrays[y], m.arrays[x].at.offset)

MemoryOK(m) ==
  /\ IsMemory(m) /\ Range(m.live) = HeldBy(m)
  /\ OwnMemory(m) /\ OwnRegions(m)

\* One array is replaced.
With(m, x, a) == [m EXCEPT !.arrays[x] = a]

\* Only array x is replaced.
LEMMA Replaced ==
  ASSUME NEW m, Shaped(m), NEW x \in Names, NEW a, NEW r, r = With(m, x, a)
  PROVE  /\ Shaped(r) /\ r.live = m.live /\ r.blocks = m.blocks
         /\ r.status = m.status
         /\ r.arrays[x] = a /\ \A y \in Names \ {x} : r.arrays[y] = m.arrays[y]
<1>1. r = [live |-> m.live, blocks |-> m.blocks,
           arrays |-> [m.arrays EXCEPT ![x] = a], status |-> m.status]
  BY DEF Shaped, With
<1>2. m.arrays = [y \in Names |-> m.arrays[y]]
  BY DEF Shaped
<1>3. /\ r.arrays = [y \in Names |-> r.arrays[y]]
      /\ r.arrays[x] = a /\ \A y \in Names \ {x} : r.arrays[y] = m.arrays[y]
  BY <1>1, <1>2
<1>4. /\ r.live = m.live /\ r.blocks = m.blocks /\ r.status = m.status
      /\ r = [live |-> r.live, blocks |-> r.blocks, arrays |-> r.arrays,
              status |-> r.status]
  BY <1>1
<1> QED BY <1>3, <1>4 DEF Shaped

\* A new block is in front, and holds what nobody held.
LEMMA AddBlockOK ==
  ASSUME NEW m, MemoryOK(m), NEW r, r = AddBlock(m)
  PROVE  /\ MemoryOK(r) /\ r.arrays = m.arrays /\ r.status = m.status
         /\ Len(r.blocks) = Len(m.blocks) + 1 /\ r.blocks[1].used = 0
<1> DEFINE self == Allocated(m.live)
           data == Allocated(self)
           b == [self |-> Head(self), data |-> Head(data), used |-> 0]
           n == Len(m.blocks)
<1>1. r = [live |-> data, blocks |-> <<b>> \o m.blocks, arrays |-> m.arrays,
           status |-> m.status]
  BY DEF AddBlock, MemoryOK, IsMemory, Shaped
<1>2. /\ IsLive(self) /\ Head(self) \in Address \ Range(m.live)
      /\ Range(self) = Range(m.live) \cup {Head(self)}
  BY AllocatedOK DEF MemoryOK, IsMemory
<1>3. /\ IsLive(data) /\ Head(data) \in Address \ Range(self)
      /\ Range(data) = Range(self) \cup {Head(data)}
  <2> HIDE DEF self
  <2> QED BY <1>2, AllocatedOK
<1>4. b \in Block
  BY <1>2, <1>3 DEF Block
<1>5. b.self = Head(self) /\ b.data = Head(data) /\ b.used = 0
  OBVIOUS
<1> HIDE DEF self, data, b
<1>6. n \in Nat /\ m.blocks \in Seq(Block) /\ DOMAIN m.blocks = 1 .. n
  BY LenProperties DEF MemoryOK, IsMemory
<1>7. /\ r.blocks \in Seq(Block) /\ Len(r.blocks) = n + 1 /\ r.blocks[1] = b
      /\ \A i \in 1 .. n : r.blocks[i + 1] = m.blocks[i]
  BY <1>1, <1>4, <1>6, InFront
<1>8. DOMAIN r.blocks = 1 .. n + 1
  BY <1>7, LenProperties
<1>9. \A i \in DOMAIN r.blocks :
        \/ i = 1 /\ r.blocks[i] = b
        \/ \E j \in DOMAIN m.blocks : i = j + 1 /\ r.blocks[i] = m.blocks[j]
  <2> TAKE i \in DOMAIN r.blocks
  <2>1. i \in 1 .. n + 1
    BY <1>8
  <2>2. CASE i = 1
    BY <1>7, <2>2
  <2>3. CASE i # 1
    <3>1. i - 1 \in 1 .. n /\ i = (i - 1) + 1
      BY <1>6, <2>1, <2>3
    <3> QED BY <1>6, <1>7, <3>1
  <2> QED BY <2>2, <2>3
<1> HIDE DEF n
<1>10. r.arrays = m.arrays /\ r.live = data /\ r.status = m.status
  BY <1>1
<1>11. IsMemory(r)
  BY <1>1, <1>3, <1>7, <1>10 DEF MemoryOK, IsMemory, Shaped
<1>12. HeldBy(r) = HeldBy(m) \cup {b.self, b.data}
  <2>1. \A i \in DOMAIN r.blocks : r.blocks[i].self \in HeldBy(m) \cup {b.self}
    BY <1>9 DEF HeldBy
  <2>2. \A i \in DOMAIN r.blocks : r.blocks[i].data \in HeldBy(m) \cup {b.data}
    BY <1>9 DEF HeldBy
  <2>3. \A i \in DOMAIN m.blocks : m.blocks[i].self \in HeldBy(r)
                          /\ m.blocks[i].data \in HeldBy(r)
    <3> TAKE i \in DOMAIN m.blocks
    <3>1. i + 1 \in DOMAIN r.blocks /\ r.blocks[i + 1] = m.blocks[i]
      BY <1>6, <1>7, <1>8
    <3> QED BY <3>1 DEF HeldBy
  <2>4. b.self \in HeldBy(r) /\ b.data \in HeldBy(r)
    <3>1. 1 \in DOMAIN r.blocks
      BY <1>6, <1>8
    <3> QED BY <1>7, <3>1 DEF HeldBy
  <2> DEFINE others == {m.arrays[x].at.base :
                          x \in {y \in Names : OnHeap(m.arrays[y])}}
  <2>5. others \subseteq HeldBy(m) /\ others \subseteq HeldBy(r)
    BY <1>10 DEF HeldBy
  <2>6. HeldBy(r) \subseteq HeldBy(m) \cup {b.self, b.data}
    <3> SUFFICES ASSUME NEW p \in HeldBy(r)
                 PROVE  p \in HeldBy(m) \cup {b.self, b.data}
      OBVIOUS
    <3>1. p \in others \/ \E i \in DOMAIN r.blocks :
                            p = r.blocks[i].self \/ p = r.blocks[i].data
      BY <1>10 DEF HeldBy
    <3> HIDE DEF others
    <3> QED BY <2>1, <2>2, <2>5, <3>1
  <2>7. HeldBy(m) \subseteq HeldBy(r)
    <3> SUFFICES ASSUME NEW p \in HeldBy(m)
                 PROVE  p \in HeldBy(r)
      OBVIOUS
    <3>1. p \in others \/ \E i \in DOMAIN m.blocks :
                            p = m.blocks[i].self \/ p = m.blocks[i].data
      BY DEF HeldBy
    <3> HIDE DEF others
    <3> QED BY <2>3, <2>5, <3>1
  <2> QED BY <2>4, <2>6, <2>7
<1>13. Range(r.live) = HeldBy(r)
  BY <1>2, <1>3, <1>5, <1>10, <1>12 DEF MemoryOK
<1>14. b.self \notin HeldBy(m) /\ b.data \notin HeldBy(m)
  BY <1>2, <1>3, <1>5 DEF MemoryOK
<1>15. OwnMemory(r)
  <2>1. \A x \in Names : OnHeap(m.arrays[x]) =>
          m.arrays[x].at.base \notin {b.self, b.data}
    BY <1>14 DEF HeldBy
  <2>2. \A x \in Names, i \in DOMAIN r.blocks : OnHeap(m.arrays[x]) =>
          m.arrays[x].at.base \notin {r.blocks[i].self, r.blocks[i].data}
    BY <1>9, <2>1 DEF MemoryOK, OwnMemory
  <2>3. \A i \in DOMAIN m.blocks : m.blocks[i].data # b.data
    BY <1>14 DEF HeldBy
  <2>4. \A i, j \in DOMAIN r.blocks : r.blocks[i].data = r.blocks[j].data => i = j
    BY <1>9, <2>3 DEF MemoryOK, OwnMemory
  <2> QED BY <1>10, <2>2, <2>4 DEF MemoryOK, OwnMemory
<1>16. OwnRegions(r)
  <2> SUFFICES ASSUME NEW x \in Names, InArena(m.arrays[x])
               PROVE  \E i \in DOMAIN r.blocks :
                        /\ m.arrays[x].at.base = r.blocks[i].data
                        /\ EndsBefore(m.arrays[x], r.blocks[i].used)
    BY <1>10 DEF MemoryOK, OwnRegions
  <2>1. PICK i \in 1 .. n : /\ m.arrays[x].at.base = m.blocks[i].data
                           /\ EndsBefore(m.arrays[x], m.blocks[i].used)
    BY <1>6 DEF MemoryOK, OwnRegions
  <2>2. i + 1 \in DOMAIN r.blocks /\ r.blocks[i + 1] = m.blocks[i]
    BY <1>6, <1>7, <1>8
  <2> QED BY <2>1, <2>2
<1> QED BY <1>5, <1>7, <1>10, <1>11, <1>13, <1>15, <1>16 DEF MemoryOK, n

\* More of the first block is given out.
LEMMA TakeOK ==
  ASSUME NEW m, MemoryOK(m), m.blocks # << >>, NEW n \in Nat,
         NEW r, r = [m EXCEPT !.blocks[1].used = @ + n]
  PROVE  /\ MemoryOK(r) /\ r.arrays = m.arrays /\ r.status = m.status
         /\ DOMAIN r.blocks = DOMAIN m.blocks
         /\ 1 \in DOMAIN m.blocks /\ m.blocks[1] \in Block
         /\ r.blocks[1].used = m.blocks[1].used + n
         /\ \A i \in DOMAIN m.blocks :
              /\ r.blocks[i].self = m.blocks[i].self
              /\ r.blocks[i].data = m.blocks[i].data
              /\ m.blocks[i].used <= r.blocks[i].used
<1> DEFINE l == Len(m.blocks)
           b == [m.blocks[1] EXCEPT !.used = m.blocks[1].used + n]
<1>1. r = [live |-> m.live, blocks |-> [m.blocks EXCEPT ![1] = b],
           arrays |-> m.arrays, status |-> m.status]
  BY DEF MemoryOK, IsMemory, Shaped
<1>2. /\ m.blocks \in Seq(Block) /\ l \in Nat /\ l >= 1 /\ DOMAIN m.blocks = 1 .. l
      /\ m.blocks \in [1 .. l -> Block]
  BY EmptySeq, LenProperties DEF MemoryOK, IsMemory
<1>3. /\ m.blocks[1] \in Block /\ b \in Block /\ b.self = m.blocks[1].self
      /\ b.data = m.blocks[1].data /\ b.used = m.blocks[1].used + n
  BY <1>2 DEF Block
<1> HIDE DEF b
<1>4. /\ r.arrays = m.arrays /\ r.live = m.live /\ r.status = m.status
      /\ r.blocks = [m.blocks EXCEPT ![1] = b]
  BY <1>1
<1>5. /\ r.blocks \in Seq(Block) /\ DOMAIN r.blocks = 1 .. l
      /\ r.blocks[1] = b /\ \A i \in 2 .. l : r.blocks[i] = m.blocks[i]
  BY <1>2, <1>3, <1>4, ExceptSeq, LenProperties
<1>6. \A i \in DOMAIN m.blocks :
        /\ r.blocks[i].self = m.blocks[i].self
        /\ r.blocks[i].data = m.blocks[i].data
        /\ m.blocks[i].used <= r.blocks[i].used
        /\ m.blocks[i].used \in Nat /\ r.blocks[i].used \in Nat
  <2> TAKE i \in DOMAIN m.blocks
  <2>1. m.blocks[i].used \in Nat
    BY <1>2 DEF Block
  <2>2. CASE i = 1
    BY <1>3, <1>5, <2>1, <2>2
  <2>3. CASE i # 1
    BY <1>2, <1>5, <2>1, <2>3
  <2> QED BY <2>2, <2>3
<1>7. DOMAIN r.blocks = DOMAIN m.blocks
  BY <1>2, <1>5
<1>8. IsMemory(r)
  BY <1>1, <1>4, <1>5 DEF MemoryOK, IsMemory, Shaped
<1>9. HeldBy(r) = HeldBy(m)
  <2>1. /\ {r.blocks[i].self : i \in DOMAIN r.blocks}
             = {m.blocks[i].self : i \in DOMAIN m.blocks}
        /\ {r.blocks[i].data : i \in DOMAIN r.blocks}
             = {m.blocks[i].data : i \in DOMAIN m.blocks}
    BY <1>6, <1>7
  <2> QED BY <1>4, <2>1 DEF HeldBy
<1>10. OwnMemory(r)
  BY <1>4, <1>6, <1>7 DEF MemoryOK, OwnMemory
<1>11. OwnRegions(r)
  <2>1. ASSUME NEW x \in Names, InArena(m.arrays[x])
        PROVE  \E i \in DOMAIN r.blocks :
                 /\ m.arrays[x].at.base = r.blocks[i].data
                 /\ EndsBefore(m.arrays[x], r.blocks[i].used)
    <3> DEFINE a == m.arrays[x]
    <3>1. PICK i \in DOMAIN m.blocks : /\ a.at.base = m.blocks[i].data
                                     /\ EndsBefore(a, m.blocks[i].used)
      BY <2>1 DEF MemoryOK, OwnRegions
    <3>2. a.size \in Nat /\ a.at.offset \in Nat
      BY <2>1 DEF MemoryOK, IsMemory, IsArray, InArena
    <3>3. EndsBefore(a, r.blocks[i].used)
      BY <1>6, <3>1, <3>2 DEF EndsBefore
    <3> QED BY <1>6, <1>7, <3>1, <3>3
  <2> QED BY <1>4, <2>1 DEF MemoryOK, OwnRegions
<1> QED BY <1>2, <1>3, <1>4, <1>5, <1>6, <1>7, <1>8, <1>9, <1>10, <1>11
        DEF MemoryOK

\* A request is met in the first block: behind all that the block has already
\* given out.
LEMMA ArenaAllocOK ==
  ASSUME NEW m, MemoryOK(m), m.blocks # << >>, NEW n \in Nat,
         NEW r, r = ArenaAlloc(m, n), NEW p, p = ArenaPointer(m, n)
  PROVE  /\ MemoryOK(r) /\ r.arrays = m.arrays /\ r.status = m.status
         /\ 1 \in DOMAIN r.blocks /\ r.blocks # << >>
         /\ p = [base |-> p.base, offset |-> p.offset]
         /\ p.base = r.blocks[1].data /\ p.base \in Address /\ p.offset \in Nat
         /\ r.blocks[1].used = p.offset + n
         /\ \A x \in Names :
              InArena(m.arrays[x]) /\ m.arrays[x].at.base = p.base
                => EndsBefore(m.arrays[x], p.offset)
<1> DEFINE q == Placed(m, n)
<1>1. /\ MemoryOK(q) /\ q.arrays = m.arrays /\ q.status = m.status
      /\ q.blocks # << >>
  <2>1. m.blocks \in Seq(Block) /\ Len(m.blocks) \in Nat
    BY LenProperties DEF MemoryOK, IsMemory
  <2>2. CASE n > Left(m)
    <3>1. q = AddBlock(m)
      BY <2>2 DEF Placed
    <3> HIDE DEF q
    <3>2. /\ MemoryOK(q) /\ q.arrays = m.arrays /\ q.status = m.status
          /\ Len(q.blocks) = Len(m.blocks) + 1
      BY <3>1, AddBlockOK
    <3>3. q.blocks # << >>
      BY <2>1, <3>2, EmptySeq
    <3> QED BY <2>1, <3>2, <3>3
  <2>3. CASE ~(n > Left(m))
    BY <2>1, <2>3 DEF Placed
  <2> QED BY <2>2, <2>3
<1>2. /\ r = [q EXCEPT !.blocks[1].used = @ + n]
      /\ p = [base |-> Head(q.blocks).data, offset |-> Head(q.blocks).used]
  BY DEF ArenaAlloc, ArenaPointer
<1> HIDE DEF q
<1>3. /\ MemoryOK(r) /\ r.arrays = q.arrays /\ r.status = q.status
      /\ DOMAIN r.blocks = DOMAIN q.blocks
      /\ 1 \in DOMAIN q.blocks /\ q.blocks[1] \in Block
      /\ r.blocks[1].used = q.blocks[1].used + n
      /\ r.blocks[1].data = q.blocks[1].data
  BY <1>1, <1>2, TakeOK
<1>4. Head(q.blocks) = q.blocks[1]
  BY <1>1
<1>5. p.base = q.blocks[1].data /\ p.offset = q.blocks[1].used
      /\ p = [base |-> p.base, offset |-> p.offset]
  BY <1>2, <1>4
<1>6. p.base \in Address /\ p.offset \in Nat
  BY <1>3, <1>5 DEF Block
<1>7. ASSUME NEW x \in Names, InArena(m.arrays[x]),
             m.arrays[x].at.base = p.base
      PROVE  EndsBefore(m.arrays[x], p.offset)
  <2>1. PICK i \in DOMAIN q.blocks : /\ m.arrays[x].at.base = q.blocks[i].data
                                   /\ EndsBefore(m.arrays[x], q.blocks[i].used)
    BY <1>1, <1>7 DEF MemoryOK, OwnRegions
  <2>2. i = 1
    BY <1>1, <1>3, <1>5, <1>7, <2>1 DEF MemoryOK, OwnMemory
  <2> QED BY <1>5, <2>1, <2>2
<1>8. r.blocks # << >>
  BY <1>3
<1> QED BY <1>1, <1>3, <1>5, <1>6, <1>7, <1>8

-----------------------------------------------------------------------------
(* An array is moved, given up, or filled.                                 *)

\* What does not touch the places of arrays leaves memory as it is.
LEMMA SamePlaces ==
  ASSUME NEW m, MemoryOK(m), NEW r, IsMemory(r),
         r.live = m.live, r.blocks = m.blocks,
         \A x \in Names : /\ r.arrays[x].allocator = m.arrays[x].allocator
                          /\ r.arrays[x].size = m.arrays[x].size
                          /\ r.arrays[x].at = m.arrays[x].at
  PROVE  MemoryOK(r)
<1>1. \A x \in Names : OnHeap(r.arrays[x]) <=> OnHeap(m.arrays[x])
  BY DEF OnHeap
<1>2. HeldBy(r) = HeldBy(m)
  <2>1. {y \in Names : OnHeap(r.arrays[y])} = {y \in Names : OnHeap(m.arrays[y])}
    BY <1>1
  <2>2. {r.arrays[x].at.base : x \in {y \in Names : OnHeap(r.arrays[y])}}
          = {m.arrays[x].at.base : x \in {y \in Names : OnHeap(m.arrays[y])}}
    BY <2>1
  <2> QED BY <2>2 DEF HeldBy
<1>3. OwnMemory(r)
  BY <1>1 DEF MemoryOK, OwnMemory
<1>4. OwnRegions(r)
  <2>1. \A x \in Names : InArena(r.arrays[x]) <=> InArena(m.arrays[x])
    BY DEF InArena
  <2>2. \A x \in Names : \A n : EndsBefore(r.arrays[x], n)
                                <=> EndsBefore(m.arrays[x], n)
    BY DEF EndsBefore
  <2> QED BY <2>1, <2>2 DEF MemoryOK, OwnRegions
<1> QED BY <1>2, <1>3, <1>4 DEF MemoryOK

\* An array in the arena moves behind what the first block has given out, or
\* leaves what it has.
LEMMA ArenaMove ==
  ASSUME NEW m, MemoryOK(m), NEW x \in Names, m.arrays[x].allocator = "arena",
         NEW b, IsArray(b), b.allocator = "arena",
         \/ b.at = Nowhere
         \/ /\ 1 \in DOMAIN m.blocks /\ b.at.base = m.blocks[1].data
            /\ EndsBefore(b, m.blocks[1].used)
            /\ \A y \in Names : InArena(m.arrays[y])
                                  /\ m.arrays[y].at.base = b.at.base
                                => EndsBefore(m.arrays[y], b.at.offset),
         NEW r, r = With(m, x, b)
  PROVE  MemoryOK(r)
<1>0. Shaped(m)
  BY DEF MemoryOK, IsMemory
<1>1. /\ IsMemory(r) /\ r.live = m.live /\ r.blocks = m.blocks
      /\ r.arrays[x] = b /\ \A y \in Names \ {x} : r.arrays[y] = m.arrays[y]
  BY <1>0, Replaced DEF MemoryOK, IsMemory
<1>2. \A y \in Names : OnHeap(r.arrays[y]) <=> OnHeap(m.arrays[y])
  BY <1>1 DEF OnHeap
<1>3. ~OnHeap(m.arrays[x])
  BY DEF OnHeap
<1>4. HeldBy(r) = HeldBy(m)
  <2>1. {y \in Names : OnHeap(r.arrays[y])} = {y \in Names : OnHeap(m.arrays[y])}
    BY <1>2
  <2>2. \A y \in {z \in Names : OnHeap(m.arrays[z])} : r.arrays[y] = m.arrays[y]
    BY <1>1, <1>3
  <2>3. {r.arrays[y].at.base : y \in {z \in Names : OnHeap(r.arrays[z])}}
          = {m.arrays[y].at.base : y \in {z \in Names : OnHeap(m.arrays[z])}}
    BY <2>1, <2>2
  <2> QED BY <1>1, <2>3 DEF HeldBy
<1>5. OwnMemory(r)
  BY <1>1, <1>2, <1>3 DEF MemoryOK, OwnMemory
<1>6. OwnRegions(r)
  BY <1>1 DEF MemoryOK, OwnRegions, InArena
<1> QED BY <1>1, <1>4, <1>5, <1>6 DEF MemoryOK

\* An array of cstdlib_allocator moves to memory that nobody held, or leaves
\* what it has; what it had is free.
LEMMA HeapMove ==
  ASSUME NEW m, MemoryOK(m), NEW x \in Names, m.arrays[x].allocator = "cstdlib",
         NEW b, IsArray(b), b.allocator = "cstdlib",
         b.at = Nowhere \/ b.at.base \notin HeldBy(m),
         NEW r, IsMemory(r), r.blocks = m.blocks, r.arrays[x] = b,
         \A y \in Names \ {x} : r.arrays[y] = m.arrays[y],
         \A p : p \in Range(r.live) <=>
                \/ OnHeap(b) /\ p = b.at.base
                \/ /\ p \in HeldBy(m)
                   /\ ~(OnHeap(m.arrays[x]) /\ p = m.arrays[x].at.base)
  PROVE  MemoryOK(r)
<1> DEFINE B(k) == {k.blocks[i].self : i \in DOMAIN k.blocks}
                     \cup {k.blocks[i].data : i \in DOMAIN k.blocks}
           H(k) == {k.arrays[y].at.base : y \in {z \in Names : OnHeap(k.arrays[z])}}
<1>1. HeldBy(r) = B(m) \cup H(r) /\ HeldBy(m) = B(m) \cup H(m)
  BY DEF HeldBy
<1>2. \A p : p \in H(m) <=> \E y \in Names : OnHeap(m.arrays[y])
                                           /\ p = m.arrays[y].at.base
  OBVIOUS
<1>3. \A p : p \in H(r) <=> \E y \in Names : OnHeap(r.arrays[y])
                                           /\ p = r.arrays[y].at.base
  OBVIOUS
<1>4. \A p : OnHeap(m.arrays[x]) /\ p = m.arrays[x].at.base => p \notin B(m)
  BY DEF MemoryOK, OwnMemory
<1> HIDE DEF B, H
<1>5. \A p : p \in H(r) <=>
             \/ OnHeap(b) /\ p = b.at.base
             \/ /\ p \in H(m)
                /\ ~(OnHeap(m.arrays[x]) /\ p = m.arrays[x].at.base)
  <2> TAKE p
  <2>1. CASE OnHeap(b) /\ p = b.at.base
    BY <1>3, <2>1
  <2>2. CASE ~(OnHeap(b) /\ p = b.at.base)
    <3>1. p \in H(r) <=> \E y \in Names \ {x} : OnHeap(m.arrays[y])
                                             /\ p = m.arrays[y].at.base
      BY <1>3, <2>2
    <3>2. p \in H(m) /\ ~(OnHeap(m.arrays[x]) /\ p = m.arrays[x].at.base) <=>
          \E y \in Names \ {x} : OnHeap(m.arrays[y])
                                                  /\ p = m.arrays[y].at.base
      BY <1>2 DEF MemoryOK, OwnMemory
    <3> QED BY <2>2, <3>1, <3>2
  <2> QED BY <2>1, <2>2
<1>6. Range(r.live) = HeldBy(r)
  BY <1>1, <1>4, <1>5
<1>7. \A y \in Names \ {x} : OnHeap(m.arrays[y]) => m.arrays[y].at.base \in HeldBy(m)
  BY DEF HeldBy
<1>8. \A i \in DOMAIN m.blocks : /\ m.blocks[i].self \in HeldBy(m)
                               /\ m.blocks[i].data \in HeldBy(m)
  BY DEF HeldBy
<1>9. OnHeap(b) => b.at.base \notin HeldBy(m)
  BY DEF OnHeap
<1>10. OwnMemory(r)
  BY <1>7, <1>8, <1>9 DEF MemoryOK, OwnMemory
<1>11. OwnRegions(r)
  <2>1. ~InArena(b)
    BY DEF InArena
  <2> QED BY <2>1 DEF MemoryOK, OwnRegions
<1> QED BY <1>6, <1>10, <1>11 DEF MemoryOK

\* A request ran over a block.
Overruns(m) == \E i \in DOMAIN m.blocks : m.blocks[i].used > BlockSize

\* The only cause for which an access fails.
Goes(m, r) ==
  r.status = m.status \/ (r.status = "undefined" /\ Overruns(r))

\* The smaller of two.
LEMMA MinOfTwo ==
  ASSUME NEW a \in Nat, NEW b \in Nat, a <= b
  PROVE  Min({a, b}) = a
<1> DEFINE S == {a, b}
<1>1. \E x \in S : \A y \in S : x <= y
  OBVIOUS
<1>2. Min(S) \in S /\ \A y \in S : Min(S) <= y
  BY <1>1 DEF Min
<1> QED BY <1>2

\* A natural is no less than zero.
LEMMA MaxOfTwo ==
  ASSUME NEW a \in Nat
  PROVE  Max({0, a}) = a
<1> DEFINE S == {0, a}
<1>1. \E x \in S : \A y \in S : x >= y
  OBVIOUS
<1>2. Max(S) \in S /\ \A y \in S : Max(S) >= y
  BY <1>1 DEF Max
<1> QED BY <1>2

\* An array that has memory has room for what its size says, in a block that
\* was not run over.
LEMMA RoomIs ==
  ASSUME NEW a, IsArray(a), a.at # Nowhere,
         a.allocator = "arena" => EndsBefore(a, BlockSize)
  PROVE  Room(a) = a.size
<1>1. CASE a.allocator = "cstdlib"
  BY <1>1 DEF Room
<1>2. CASE a.allocator = "arena"
  <2> DEFINE left == BlockSize - a.at.offset
  <2>1. /\ a.at.offset \in Nat /\ a.size \in Nat /\ BlockSize \in Nat
        /\ a.at.offset + a.size <= BlockSize
    BY <1>2, ArenaAssumption DEF IsArray, EndsBefore
  <2>2. left \in Nat /\ a.size <= left
    BY <2>1
  <2>3. Room(a) = Max({0, Min({a.size, left})})
    BY <1>2 DEF Room
  <2> HIDE DEF left
  <2> QED BY <2>1, <2>2, <2>3, MinOfTwo, MaxOfTwo
<1> QED BY <1>1, <1>2 DEF IsArray

\* Within a block that was not run over an array has the room of its size.
LEMMA RoomInMemory ==
  ASSUME NEW m, MemoryOK(m), NEW x \in Names, m.arrays[x].at # Nowhere,
         ~Overruns(m)
  PROVE  Room(m.arrays[x]) = m.arrays[x].size
<1> DEFINE a == m.arrays[x]
<1>1. IsArray(a) /\ m.blocks \in Seq(Block)
  BY DEF MemoryOK, IsMemory
<1>2. ASSUME a.allocator = "arena"
      PROVE  EndsBefore(a, BlockSize)
  <2>1. PICK i \in DOMAIN m.blocks : EndsBefore(a, m.blocks[i].used)
    BY <1>2 DEF MemoryOK, OwnRegions, InArena
  <2>2. m.blocks[i] \in Block
    BY <1>1, ElementOfSeq, LenProperties
  <2>4. m.blocks[i].used \in Nat /\ ~(m.blocks[i].used > BlockSize)
    BY <2>2 DEF Overruns, Block
  <2>3. a.at.offset \in Nat /\ a.size \in Nat
    BY <1>1 DEF IsArray
  <2> QED BY <2>1, <2>3, <2>4, ArenaAssumption DEF EndsBefore
<1> QED BY <1>1, <1>2, RoomIs

\* Failing changes the status only.
LEMMA FailsOK ==
  ASSUME NEW m, Shaped(m), NEW s, NEW r, r = Fails(m, s)
  PROVE  /\ Shaped(r) /\ r.live = m.live /\ r.blocks = m.blocks
         /\ r.arrays = m.arrays /\ r.status = s
         /\ MemoryOK(m) => MemoryOK(r)
<1>1. r = [live |-> m.live, blocks |-> m.blocks, arrays |-> m.arrays,
           status |-> s]
  BY DEF Shaped, Fails
<1>2. /\ r.live = m.live /\ r.blocks = m.blocks /\ r.arrays = m.arrays
      /\ r.status = s
      /\ r = [live |-> r.live, blocks |-> r.blocks, arrays |-> r.arrays,
              status |-> r.status]
  BY <1>1
<1>3. Shaped(r)
  BY <1>2 DEF Shaped
<1>4. MemoryOK(m) => IsMemory(r)
  BY <1>2, <1>3 DEF MemoryOK, IsMemory
<1> QED BY <1>2, <1>3, <1>4, SamePlaces

\* Accesses within the size of an array fail in a block that was run over, and
\* nowhere else.
LEMMA TouchedOK ==
  ASSUME NEW m, MemoryOK(m), NEW x \in Names, NEW n \in Nat,
         n <= m.arrays[x].size, m.arrays[x].at # Nowhere,
         NEW r, r = Touched(m, x, n)
  PROVE  /\ MemoryOK(r) /\ r.live = m.live /\ r.blocks = m.blocks
         /\ r.arrays = m.arrays /\ Goes(m, r)
<1>1. CASE n > Room(m.arrays[x])
  <2>1. Overruns(m)
    <3> SUFFICES ASSUME ~Overruns(m)
                 PROVE  FALSE
      OBVIOUS
    <3>1. m.arrays[x].size \in Nat
      BY DEF MemoryOK, IsMemory, IsArray
    <3> QED BY <1>1, <3>1, RoomInMemory
  <2>2. r = Fails(m, "undefined") /\ Shaped(m)
    BY <1>1 DEF Touched, MemoryOK, IsMemory
  <2> QED BY <2>1, <2>2, FailsOK DEF Goes, Overruns
<1>2. CASE ~(n > Room(m.arrays[x]))
  BY <1>2 DEF Touched, Goes
<1> QED BY <1>1, <1>2

-----------------------------------------------------------------------------
(* Growing.                                                                *)

\* The array holds what it held, in memory twice as large, or in its first.
Extended(a, b) ==
  /\ b.allocator = a.allocator /\ b.count = a.count /\ b.cells = a.cells
  /\ b.size = IF a.at = Nowhere THEN a.size ELSE 2 * a.size
  /\ b.at # Nowhere

\* What extend makes of the array.
Grown(a, size, at) == [a EXCEPT !.size = size, !.at = at]
SizeFor(a) == IF a.at = Nowhere THEN a.size ELSE 2 * a.size

\* It is an array that holds what it held.
LEMMA GrownIs ==
  ASSUME NEW a, IsArray(a), NEW at \in [base : Address, offset : Nat],
         NEW b, b = Grown(a, SizeFor(a), at)
  PROVE  /\ IsArray(b) /\ Extended(a, b) /\ b.at = at /\ b.size = SizeFor(a)
         /\ SizeFor(a) \in Nat
<1>1. a = [allocator |-> a.allocator, size |-> a.size, count |-> a.count,
           at |-> a.at, cells |-> a.cells]
  BY DEF IsArray
<1>2. b = [allocator |-> a.allocator, size |-> SizeFor(a), count |-> a.count,
           at |-> at, cells |-> a.cells]
  BY <1>1 DEF Grown
<1>3. /\ b.allocator = a.allocator /\ b.size = SizeFor(a) /\ b.count = a.count
      /\ b.at = at /\ b.cells = a.cells
      /\ b = [allocator |-> b.allocator, size |-> b.size, count |-> b.count,
              at |-> b.at, cells |-> b.cells]
  BY <1>2
<1>4. SizeFor(a) \in Nat /\ SizeFor(a) > 1 /\ a.count <= SizeFor(a)
  BY DEF SizeFor, IsArray
<1>5. at # Nowhere
  BY DEF Nowhere, Address
<1> QED BY <1>3, <1>4, <1>5 DEF IsArray, Extended, SizeFor

\* The place that an array is given is in its allocator.
LEMMA ExtendIs ==
  ASSUME NEW m, NEW x, NEW a, a = m.arrays[x], NEW q, NEW b, NEW g,
         q = Given(m, a.allocator, SizeFor(a)),
         b = Grown(a, SizeFor(a), Pointer(m, a.allocator, SizeFor(a))),
         g = With(q, x, b)
  PROVE  Extend(m, x) =
           IF a.at = Nowhere THEN g
           ELSE IF a.size > Min({Room(a), Room(b)}) THEN Fails(g, "undefined")
           ELSE Released(g, a)
BY DEF Extend, Grown, SizeFor, With

\* extend, in the arena: the old data stays in it.
LEMMA ExtendInArena ==
  ASSUME NEW m, MemoryOK(m), m.blocks # << >>, NEW x \in Names,
         m.arrays[x].allocator = "arena", NEW r, r = Extend(m, x)
  PROVE  /\ MemoryOK(r) /\ r.blocks # << >> /\ Goes(m, r)
         /\ \A y \in Names \ {x} : r.arrays[y] = m.arrays[y]
         /\ Extended(m.arrays[x], r.arrays[x])
<1> DEFINE a == m.arrays[x]
           n == SizeFor(a)
           p == ArenaPointer(m, n)
           q == ArenaAlloc(m, n)
           b == Grown(a, n, p)
           g == With(q, x, b)
<1>1. IsArray(a) /\ n \in Nat
  BY DEF MemoryOK, IsMemory, IsArray, SizeFor
<1>2. r = IF a.at = Nowhere THEN g
          ELSE IF a.size > Min({Room(a), Room(b)}) THEN Fails(g, "undefined")
          ELSE Released(g, a)
  <2>1. q = Given(m, a.allocator, n) /\ p = Pointer(m, a.allocator, n)
    BY DEF Given, Pointer
  <2> HIDE DEF q, p
  <2> QED BY <2>1, ExtendIs
<1> HIDE DEF n
<1>3. /\ MemoryOK(q) /\ q.arrays = m.arrays /\ q.status = m.status
      /\ 1 \in DOMAIN q.blocks /\ q.blocks # << >>
      /\ p = [base |-> p.base, offset |-> p.offset]
      /\ p.base = q.blocks[1].data /\ p.base \in Address /\ p.offset \in Nat
      /\ q.blocks[1].used = p.offset + n
      /\ \A y \in Names :
           InArena(m.arrays[y]) /\ m.arrays[y].at.base = p.base
             => EndsBefore(m.arrays[y], p.offset)
  BY <1>1, ArenaAllocOK
<1>4. p \in [base : Address, offset : Nat]
  BY <1>3
<1> HIDE DEF q, p
<1>5. IsArray(b) /\ Extended(a, b) /\ b.at = p /\ b.size = n
  BY <1>1, <1>4, GrownIs DEF n
<1> HIDE DEF b
<1>6. MemoryOK(g)
  <2>1. EndsBefore(b, q.blocks[1].used)
    BY <1>1, <1>3, <1>5 DEF EndsBefore
  <2>2. q.arrays[x].allocator = "arena" /\ b.allocator = "arena"
    BY <1>3, <1>5 DEF Extended
  <2> QED BY <1>3, <1>5, <2>1, <2>2, ArenaMove
<1>7. /\ g.live = q.live /\ g.blocks = q.blocks /\ g.status = m.status
      /\ g.arrays[x] = b /\ \A y \in Names \ {x} : g.arrays[y] = m.arrays[y]
      /\ Shaped(g)
  BY <1>3, Replaced DEF MemoryOK, IsMemory
<1> HIDE DEF g
<1>8. CASE a.at = Nowhere
  BY <1>2, <1>3, <1>5, <1>6, <1>7, <1>8 DEF Goes
<1>9. CASE a.at # Nowhere /\ a.size > Min({Room(a), Room(b)})
  <2>1. r = Fails(g, "undefined")
    BY <1>2, <1>9
  <2>2. /\ MemoryOK(r) /\ r.blocks = g.blocks /\ r.arrays = g.arrays
        /\ r.status = "undefined"
    BY <1>6, <1>7, <2>1, FailsOK
  <2>3. Overruns(g)
    <3> SUFFICES ASSUME ~Overruns(g)
                 PROVE  FALSE
      OBVIOUS
    <3>1. Room(b) = b.size
      BY <1>5, <1>6, <1>7, RoomInMemory DEF Extended
    <3>2. ~Overruns(q)
      BY <1>7 DEF Overruns
    <3>3. Room(a) = a.size
      BY <1>3, <1>9, <3>2, RoomInMemory
    <3>4. a.size \in Nat /\ b.size = 2 * a.size
      BY <1>1, <1>5, <1>9 DEF Extended, IsArray
    <3>5. Min({a.size, b.size}) = a.size
      BY <3>4, MinOfTwo
    <3> QED BY <1>9, <3>1, <3>3, <3>4, <3>5
  <2> QED BY <1>3, <1>5, <1>7, <2>2, <2>3 DEF Goes, Overruns
<1>10. CASE a.at # Nowhere /\ ~(a.size > Min({Room(a), Room(b)}))
  <2>1. r = g
    BY <1>2, <1>10 DEF Released
  <2> QED BY <1>3, <1>5, <1>6, <1>7, <2>1 DEF Goes
<1> QED BY <1>8, <1>9, <1>10

\* extend, with cstdlib_allocator: the old data is freed.
LEMMA ExtendOnHeap ==
  ASSUME NEW m, MemoryOK(m), NEW x \in Names,
         m.arrays[x].allocator = "cstdlib", NEW r, r = Extend(m, x)
  PROVE  /\ MemoryOK(r) /\ r.blocks = m.blocks /\ r.status = m.status
         /\ \A y \in Names \ {x} : r.arrays[y] = m.arrays[y]
         /\ Extended(m.arrays[x], r.arrays[x])
<1> DEFINE a == m.arrays[x]
           n == SizeFor(a)
           c == Malloc(m.live)
           p == [base |-> c, offset |-> 0]
           q == [m EXCEPT !.live = Allocated(@)]
           b == Grown(a, n, p)
           g == With(q, x, b)
<1>1. IsArray(a) /\ IsLive(m.live) /\ Shaped(m)
  BY DEF MemoryOK, IsMemory
<1>2. r = IF a.at = Nowhere THEN g
          ELSE IF a.size > Min({Room(a), Room(b)}) THEN Fails(g, "undefined")
          ELSE Released(g, a)
  <2>1. q = Given(m, a.allocator, n) /\ p = Pointer(m, a.allocator, n)
    BY DEF Given, Pointer
  <2> HIDE DEF q, p
  <2> QED BY <2>1, ExtendIs
<1>3. /\ IsLive(q.live) /\ c \in Address \ Range(m.live)
      /\ Range(q.live) = Range(m.live) \cup {c}
      /\ Shaped(q) /\ q.blocks = m.blocks /\ q.arrays = m.arrays
      /\ q.status = m.status
  <2>1. q = [live |-> Allocated(m.live), blocks |-> m.blocks,
             arrays |-> m.arrays, status |-> m.status]
    BY <1>1 DEF Shaped
  <2>2. Shaped(q) /\ q.live = Allocated(m.live) /\ q.blocks = m.blocks
        /\ q.arrays = m.arrays /\ q.status = m.status
    <3>1. q.live = Allocated(m.live) /\ q.blocks = m.blocks
          /\ q.arrays = m.arrays /\ q.status = m.status
          /\ q = [live |-> q.live, blocks |-> q.blocks, arrays |-> q.arrays,
                  status |-> q.status]
      BY <2>1
    <3> QED BY <1>1, <3>1 DEF Shaped
  <2> HIDE DEF q
  <2> QED BY <1>1, <2>2, AllocatedOK
<1> HIDE DEF q, c, n
<1>4. p \in [base : Address, offset : Nat] /\ p.base = c
  BY <1>3
<1> HIDE DEF p
<1>5. IsArray(b) /\ Extended(a, b) /\ b.at = p
  BY <1>1, <1>4, GrownIs DEF n
<1> HIDE DEF b
<1>6. OnHeap(b) /\ b.allocator = "cstdlib" /\ b.at.base = c
  BY <1>4, <1>5 DEF Extended, OnHeap
<1>7. /\ Shaped(g) /\ g.live = q.live /\ g.blocks = m.blocks
      /\ g.status = m.status /\ g.arrays[x] = b
      /\ \A y \in Names \ {x} : g.arrays[y] = m.arrays[y]
  BY <1>3, Replaced
<1> HIDE DEF g
<1>8. /\ IsMemory(g) /\ Range(g.live) = HeldBy(m) \cup {c}
      /\ c \notin HeldBy(m)
  BY <1>3, <1>5, <1>7 DEF MemoryOK, IsMemory
<1>9. CASE a.at = Nowhere
  <2>1. r = g
    BY <1>2, <1>9
  <2>2. MemoryOK(g)
    <3>1. ~OnHeap(a)
      BY <1>9 DEF OnHeap
    <3>2. \A o : o \in Range(g.live) <=>
                 \/ OnHeap(b) /\ o = b.at.base
                 \/ o \in HeldBy(m) /\ ~(OnHeap(a) /\ o = a.at.base)
      BY <1>6, <1>8, <3>1
    <3>3. b.at = Nowhere \/ b.at.base \notin HeldBy(m)
      BY <1>6, <1>8
    <3> QED BY <1>5, <1>6, <1>7, <1>8, <3>2, <3>3, HeapMove
  <2> QED BY <1>5, <1>7, <2>1, <2>2
<1>10. CASE a.at # Nowhere
  <2>1. OnHeap(a)
    BY <1>10 DEF OnHeap
  <2>2. Room(a) = a.size /\ Room(b) = b.size
    BY <1>1, <1>5, <1>6, <1>10, RoomIs DEF OnHeap
  <2>3. ~(a.size > Min({Room(a), Room(b)}))
    <3>1. a.size \in Nat /\ b.size = 2 * a.size
      BY <1>1, <1>5, <1>10 DEF IsArray, Extended
    <3>2. Min({a.size, b.size}) = a.size
      BY <3>1, MinOfTwo
    <3> QED BY <2>2, <3>1, <3>2
  <2>4. a.at.base \in HeldBy(m)
    BY <2>1 DEF HeldBy
  <2>5. IsAllocated(g.live, a.at.base)
    BY <1>8, <2>4 DEF IsAllocated
  <2>6. r = [g EXCEPT !.live = Freed(@, a.at.base)]
    BY <1>2, <1>10, <2>1, <2>3, <2>5 DEF Released, OnHeap
  <2>7. r = [live |-> Freed(g.live, a.at.base), blocks |-> g.blocks,
             arrays |-> g.arrays, status |-> g.status]
    BY <1>7, <2>6 DEF Shaped
  <2>8. /\ r.live = Freed(g.live, a.at.base) /\ r.blocks = g.blocks
        /\ r.arrays = g.arrays /\ r.status = g.status
        /\ r = [live |-> r.live, blocks |-> r.blocks, arrays |-> r.arrays,
                status |-> r.status]
    BY <2>7
  <2>9. /\ IsLive(r.live) /\ Range(r.live) = Range(g.live) \ {a.at.base}
    BY <1>8, <2>8, FreedOK DEF IsMemory
  <2>10. IsMemory(r)
    BY <1>8, <2>8, <2>9 DEF IsMemory, Shaped
  <2>11. MemoryOK(r)
    <3>1. c # a.at.base
      BY <1>8, <2>4
    <3>2. \A o : o \in Range(r.live) <=>
                 \/ OnHeap(b) /\ o = b.at.base
                 \/ o \in HeldBy(m) /\ ~(OnHeap(a) /\ o = a.at.base)
      BY <1>6, <1>8, <2>1, <2>9, <3>1
    <3>3. b.at = Nowhere \/ b.at.base \notin HeldBy(m)
      BY <1>6, <1>8
    <3>4. r.blocks = m.blocks /\ r.arrays[x] = b
          /\ \A y \in Names \ {x} : r.arrays[y] = m.arrays[y]
      BY <1>7, <2>8
    <3> QED BY <1>5, <1>6, <2>10, <3>2, <3>3, <3>4, HeapMove
  <2> QED BY <1>5, <1>7, <2>8, <2>11
<1> QED BY <1>9, <1>10

\* extend: every array but this one stays, and this one holds what it held.
LEMMA ExtendOK ==
  ASSUME NEW m, MemoryOK(m), m.blocks # << >>, NEW x \in Names,
         NEW r, r = Extend(m, x)
  PROVE  /\ MemoryOK(r) /\ r.blocks # << >> /\ Goes(m, r)
         /\ \A y \in Names \ {x} : r.arrays[y] = m.arrays[y]
         /\ Extended(m.arrays[x], r.arrays[x])
<1>1. CASE m.arrays[x].allocator = "arena"
  BY <1>1, ExtendInArena
<1>2. CASE m.arrays[x].allocator = "cstdlib"
  BY <1>2, ExtendOnHeap DEF Goes
<1> QED BY <1>1, <1>2 DEF MemoryOK, IsMemory, IsArray

\* Only array x may have moved, all hold what they held, and no access failed
\* but in a block that was run over.
Ready(m, r, x) ==
  /\ MemoryOK(r) /\ r.blocks # << >> /\ Goes(m, r)
  /\ \A y \in Names \ {x} : r.arrays[y] = m.arrays[y]
  /\ r.arrays[x].allocator = m.arrays[x].allocator
  /\ r.arrays[x].count = m.arrays[x].count
  /\ r.arrays[x].cells = m.arrays[x].cells

\* Memory while the program runs: what was never allocated holds nothing.
Sound(m) ==
  /\ MemoryOK(m) /\ m.blocks # << >> /\ m.status = "running"
  /\ \A x \in Names : m.arrays[x].at = Nowhere => m.arrays[x].count = 0

\* ensure_capacity makes room for one more.
LEMMA EnsureCapacityOK ==
  ASSUME NEW m, Sound(m), NEW x \in Names, NEW r, r = EnsureCapacity(m, x)
  PROVE  /\ Ready(m, r, x) /\ r.arrays[x].at # Nowhere
         /\ r.arrays[x].count < r.arrays[x].size
<1> DEFINE a == m.arrays[x]
<1>1. /\ a.count \in Nat /\ a.size \in Nat /\ a.count <= a.size /\ a.size > 1
      /\ a.at = Nowhere => a.count = 0
  BY DEF Sound, MemoryOK, IsMemory, IsArray
<1>2. CASE a.at = Nowhere \/ a.count >= a.size - 1
  <2>1. r = Extend(m, x)
    BY <1>2 DEF EnsureCapacity
  <2>2. /\ MemoryOK(r) /\ r.blocks # << >> /\ Goes(m, r)
        /\ \A y \in Names \ {x} : r.arrays[y] = m.arrays[y]
        /\ Extended(a, r.arrays[x])
    BY <2>1, ExtendOK DEF Sound
  <2>3. a.count < r.arrays[x].size
    BY <1>1, <1>2, <2>2 DEF Extended
  <2> QED BY <2>2, <2>3 DEF Ready, Extended
<1>3. CASE ~(a.at = Nowhere \/ a.count >= a.size - 1)
  <2>1. r = m
    BY <1>3 DEF EnsureCapacity
  <2> QED BY <1>1, <1>3, <2>1 DEF Ready, Sound, Goes
<1> QED BY <1>2, <1>3

\* One test and one turn of the loop that makes room for n more.
RoomNext(m, x, n) ==
  IF m.status = "running" /\ m.arrays[x].count + n > m.arrays[x].size
  THEN Extend(m, x) ELSE m

\* The loop is a sequence of them.
LEMMA EnsureRoomDef ==
  ASSUME NEW m, NEW x, NEW n \in Nat
  PROVE  \E after : /\ after = [k \in 0 .. n + 1 |->
                                 IF k = 0 THEN m
                                 ELSE RoomNext(after[k - 1], x, n)]
                   /\ EnsureRoom(m, x, n) = after[n + 1]
<1> DEFINE Is(f, l) == f = [k \in 0 .. l |-> IF k = 0 THEN m
                                             ELSE RoomNext(f[k - 1], x, n)]
           Bad == {l \in Nat : ~ \E f : Is(f, l)}
<1>1. Bad = {}
  <2> SUFFICES ASSUME Bad # {}
               PROVE  FALSE
    OBVIOUS
  <2>1. Bad \in SUBSET Nat
    OBVIOUS
  <2>2. PICK l \in Bad : \A y \in Bad : l <= y
    <3> HIDE DEF Bad
    <3> QED BY <2>1, LeastNatural
  <2>3. CASE l = 0
    <3>1. Is([k \in 0 .. 0 |-> m], 0)
      OBVIOUS
    <3> QED BY <2>2, <2>3, <3>1
  <2>4. CASE l > 0
    <3>1. l - 1 \in Nat /\ l - 1 \notin Bad
      BY <2>2, <2>4
    <3>2. PICK f : Is(f, l - 1)
      BY <3>1
    <3> DEFINE g == [k \in 0 .. l |-> IF k = l THEN RoomNext(f[l - 1], x, n)
                                      ELSE f[k]]
    <3>3. ASSUME NEW k \in 0 .. l
          PROVE  g[k] = IF k = 0 THEN m ELSE RoomNext(g[k - 1], x, n)
      BY <2>4, <3>1, <3>2
    <3>4. Is(g, l)
      BY <3>3
    <3> QED BY <2>2, <3>4
  <2> QED BY <2>1, <2>2, <2>3, <2>4
<1>2. \E f : Is(f, n + 1)
  <2>1. n + 1 \in Nat
    OBVIOUS
  <2>2. n + 1 \notin Bad
    <3> HIDE DEF Bad
    <3> QED BY <1>1
  <2> QED BY <2>1, <2>2
<1> DEFINE after == CHOOSE f : Is(f, n + 1)
<1>3. Is(after, n + 1)
  BY <1>2
<1>4. EnsureRoom(m, x, n) = after[n + 1]
  BY DEF EnsureRoom, RoomNext
<1> QED BY <1>3, <1>4

\* What the loop has reached after k turns: with every turn but the first
\* there is room for at least one more.
Reached(m, s, x, n, k) ==
  /\ Ready(m, s, x)
  /\ m.arrays[x].at # Nowhere => s.arrays[x].at # Nowhere
  /\ s.status = "running" =>
       \/ s.arrays[x].count + n <= s.arrays[x].size
       \/ /\ s.arrays[x].count + k - 1 <= s.arrays[x].size
          /\ k > 0 => s.arrays[x].at # Nowhere

\* One more turn of the loop keeps what it has reached.
LEMMA RoomNextOK ==
  ASSUME NEW m, MemoryOK(m), m.status = "running", NEW x \in Names,
         NEW n \in Nat, NEW k \in Nat, NEW s, Reached(m, s, x, n, k),
         NEW r, r = RoomNext(s, x, n)
  PROVE  Reached(m, r, x, n, k + 1)
<1> DEFINE a == s.arrays[x]
           b == r.arrays[x]
<1>1. a.count \in Nat /\ a.size \in Nat /\ a.count <= a.size /\ a.size > 1
  BY DEF Reached, Ready, MemoryOK, IsMemory, IsArray
<1>2. CASE s.status = "running" /\ a.count + n > a.size
  <2>1. r = Extend(s, x)
    BY <1>2 DEF RoomNext
  <2>2. /\ MemoryOK(r) /\ r.blocks # << >> /\ Goes(s, r)
        /\ \A y \in Names \ {x} : r.arrays[y] = s.arrays[y]
        /\ Extended(a, b)
    BY <2>1, ExtendOK DEF Reached, Ready
  <2>3. Goes(m, r)
    BY <1>2, <2>2 DEF Goes
  <2>4. Ready(m, r, x) /\ b.at # Nowhere
    BY <2>2, <2>3 DEF Reached, Ready, Extended
  <2>5. b.count + (k + 1) - 1 <= b.size
    <3>1. b.count = a.count /\ b.size = IF a.at = Nowhere THEN a.size ELSE 2 * a.size
      BY <2>2 DEF Extended
    <3>2. CASE k = 0
      BY <1>1, <3>1, <3>2
    <3>3. CASE k > 0
      BY <1>1, <1>2, <3>1, <3>3 DEF Reached
    <3> QED BY <3>2, <3>3
  <2> QED BY <2>4, <2>5 DEF Reached
<1>3. CASE ~(s.status = "running" /\ a.count + n > a.size)
  <2>1. r = s
    BY <1>3 DEF RoomNext
  <2> QED BY <1>1, <1>3, <2>1 DEF Reached
<1> QED BY <1>2, <1>3

\* extend_before and extend_after make room for all of the other array, unless
\* a block was run over.
LEMMA EnsureRoomOK ==
  ASSUME NEW m, Sound(m), NEW x \in Names, NEW n \in Nat,
         NEW r, r = EnsureRoom(m, x, n)
  PROVE  /\ Ready(m, r, x)
         /\ m.arrays[x].at # Nowhere => r.arrays[x].at # Nowhere
         /\ r.status = "running" => r.arrays[x].count + n <= r.arrays[x].size
<1>1. PICK after : /\ after = [k \in 0 .. n + 1 |->
                               IF k = 0 THEN m ELSE RoomNext(after[k - 1], x, n)]
                  /\ r = after[n + 1]
  BY EnsureRoomDef
<1>2. after[0] = m /\ \A k \in 0 .. n : after[k + 1] = RoomNext(after[k], x, n)
  <2>1. \A k \in 0 .. n + 1 : after[k] = IF k = 0 THEN m
                                         ELSE RoomNext(after[k - 1], x, n)
    BY <1>1
  <2>2. ASSUME NEW k \in 0 .. n
        PROVE  after[k + 1] = RoomNext(after[k], x, n)
    <3>1. k + 1 \in 0 .. n + 1 /\ k + 1 # 0 /\ (k + 1) - 1 = k
      OBVIOUS
    <3> QED BY <2>1, <3>1
  <2> QED BY <2>1, <2>2
<1> DEFINE Bad == {k \in 0 .. n + 1 : ~Reached(m, after[k], x, n, k)}
<1>3. Bad = {}
  <2> SUFFICES ASSUME Bad # {}
               PROVE  FALSE
    OBVIOUS
  <2>1. PICK k \in Bad : \A y \in Bad : k <= y
    <3>1. Bad \in SUBSET Nat
      OBVIOUS
    <3> HIDE DEF Bad
    <3> QED BY <3>1, LeastNatural
  <2>2. CASE k = 0
    <3>1. Reached(m, m, x, n, 0)
      <4>0. IsArray(m.arrays[x])
        BY DEF Sound, MemoryOK, IsMemory
      <4>1. m.arrays[x].count + 0 - 1 <= m.arrays[x].size
        BY <4>0 DEF IsArray
      <4> QED BY <4>1 DEF Reached, Ready, Sound, Goes
    <3> QED BY <1>2, <2>1, <2>2, <3>1
  <2>3. CASE k > 0
    <3>1. k - 1 \in 0 .. n /\ k - 1 \notin Bad /\ (k - 1) + 1 = k
      BY <2>1, <2>3
    <3>2. Reached(m, after[k - 1], x, n, k - 1)
      BY <3>1
    <3>3. after[k] = RoomNext(after[k - 1], x, n)
      BY <1>2, <3>1
    <3>4. MemoryOK(m) /\ m.status = "running"
      BY DEF Sound
    <3>5. PICK j \in Nat : j = k - 1
      BY <3>1
    <3>6. PICK s : s = after[j]
      OBVIOUS
    <3>7. PICK t : t = RoomNext(s, x, n)
      OBVIOUS
    <3>8. Reached(m, s, x, n, j)
      BY <3>2, <3>5, <3>6
    <3>9. Reached(m, t, x, n, j + 1)
      BY <3>4, <3>7, <3>8, RoomNextOK
    <3>10. t = after[k] /\ j + 1 = k
      BY <3>1, <3>3, <3>5, <3>6, <3>7
    <3> QED BY <2>1, <3>9, <3>10
  <2> QED BY <2>1, <2>2, <2>3
<1>4. Reached(m, r, x, n, n + 1)
  <2>1. n + 1 \in 0 .. n + 1 /\ n + 1 \notin Bad
    BY <1>3
  <2> QED BY <1>1, <2>1
<1>5. r.arrays[x].count \in Nat /\ r.arrays[x].size \in Nat
  BY <1>4 DEF Reached, Ready, MemoryOK, IsMemory, IsArray
<1> QED BY <1>4, <1>5 DEF Reached

-----------------------------------------------------------------------------
(* The operations.                                                         *)

\* Nothing but array x has changed, and what it holds is cells.
Did(m, r, x, cells) ==
  /\ MemoryOK(r) /\ r.blocks # << >>
  /\ \A y \in Names \ {x} : r.arrays[y] = m.arrays[y]
  /\ r.arrays[x].allocator = m.arrays[x].allocator
  /\ r.arrays[x].cells = cells

\* An array that holds c.
Holding(a, c) == [a EXCEPT !.cells = c, !.count = Len(c)]

\* It has the fields of an array.
LEMMA HoldingIs ==
  ASSUME NEW a, IsArray(a), NEW c, NEW b, b = Holding(a, c)
  PROVE  b = [allocator |-> a.allocator, size |-> a.size, count |-> Len(c),
              at |-> a.at, cells |-> c]
<1>1. a = [allocator |-> a.allocator, size |-> a.size, count |-> a.count,
           at |-> a.at, cells |-> a.cells]
  BY DEF IsArray
<1> QED BY <1>1 DEF Holding

\* Array x is filled with c, where it is.
Fills(m, r, x, c) ==
  /\ MemoryOK(r) /\ r.live = m.live /\ r.blocks = m.blocks
  /\ r.status = m.status
  /\ \A y \in Names \ {x} : r.arrays[y] = m.arrays[y]
  /\ r.arrays[x].allocator = m.arrays[x].allocator
  /\ r.arrays[x].size = m.arrays[x].size
  /\ r.arrays[x].at = m.arrays[x].at
  /\ r.arrays[x].cells = c /\ r.arrays[x].count = Len(c)

\* An array is filled up to its size.
LEMMA FilledOK ==
  ASSUME NEW m, MemoryOK(m), NEW x \in Names, NEW c \in Seq(Cell),
         Len(c) <= m.arrays[x].size, NEW r, r = Filled(m, x, c)
  PROVE  Fills(m, r, x, c)
<1> DEFINE a == m.arrays[x]
           b == Holding(a, c)
<1>1. Shaped(m) /\ IsArray(a)
  BY DEF MemoryOK, IsMemory
<1>2. r = With(m, x, b)
  BY <1>1 DEF Filled, With, Holding, Shaped
<1>3. b = [allocator |-> a.allocator, size |-> a.size, count |-> Len(c),
           at |-> a.at, cells |-> c]
  BY <1>1, HoldingIs
<1>4. /\ b.allocator = a.allocator /\ b.size = a.size /\ b.count = Len(c)
      /\ b.at = a.at /\ b.cells = c
      /\ b = [allocator |-> b.allocator, size |-> b.size, count |-> b.count,
              at |-> b.at, cells |-> b.cells]
  BY <1>3
<1>5. Len(c) \in Nat
  BY LenProperties
<1>6. IsArray(b)
  BY <1>1, <1>4, <1>5 DEF IsArray
<1> HIDE DEF b
<1>7. /\ Shaped(r) /\ r.live = m.live /\ r.blocks = m.blocks
      /\ r.status = m.status
      /\ r.arrays[x] = b /\ \A y \in Names \ {x} : r.arrays[y] = m.arrays[y]
  BY <1>1, <1>2, Replaced
<1>8. IsMemory(r)
  BY <1>6, <1>7 DEF MemoryOK, IsMemory
<1>9. MemoryOK(r)
  BY <1>4, <1>7, <1>8, SamePlaces
<1> QED BY <1>4, <1>7, <1>9 DEF Fills

\* An access fails, or nothing happens.
LEMMA TouchedKeeps ==
  ASSUME NEW m, MemoryOK(m), NEW x, NEW n, NEW r, r = Touched(m, x, n)
  PROVE  /\ MemoryOK(r) /\ r.blocks = m.blocks /\ r.arrays = m.arrays
         /\ r.status = m.status \/ r.status = "undefined"
<1>1. Shaped(m)
  BY DEF MemoryOK, IsMemory
<1> QED BY <1>1, FailsOK DEF Touched

\* What has room is filled and written: q is what was made ready.
Wrote(m, q, r, x, c) ==
  /\ Did(m, r, x, c) /\ r.arrays[x].count = Len(c)
  /\ r.arrays[x].at = q.arrays[x].at
  /\ r.status \in {"running", "undefined"}

\* Writing what was made ready gives the cells that are written.
LEMMA Written ==
  ASSUME NEW m, NEW q, m.status = "running", NEW x \in Names, Ready(m, q, x),
         NEW c \in Seq(Cell), Len(c) <= q.arrays[x].size, NEW n \in Nat,
         NEW r, r = Touched(Filled(q, x, c), x, n)
  PROVE  Wrote(m, q, r, x, c)
<1> DEFINE f == Filled(q, x, c)
<1>1. /\ MemoryOK(f) /\ f.blocks = q.blocks
      /\ f.status = q.status
      /\ \A y \in Names \ {x} : f.arrays[y] = q.arrays[y]
      /\ f.arrays[x].allocator = q.arrays[x].allocator
      /\ f.arrays[x].at = q.arrays[x].at
      /\ f.arrays[x].cells = c /\ f.arrays[x].count = Len(c)
  <2>1. Fills(q, f, x, c)
    BY FilledOK DEF Ready
  <2> QED BY <2>1 DEF Fills
<1> HIDE DEF f
<1>2. /\ MemoryOK(r) /\ r.blocks = f.blocks /\ r.arrays = f.arrays
      /\ r.status = f.status \/ r.status = "undefined"
  BY <1>1, TouchedKeeps DEF f
<1>3. r.status \in {"running", "undefined"}
  BY <1>1, <1>2 DEF Ready, Goes
<1> QED BY <1>1, <1>2, <1>3 DEF Wrote, Did, Ready

\* Within what has been made ready it fails in a block that was run over, and
\* nowhere else.
LEMMA WrittenWithin ==
  ASSUME NEW m, NEW q, m.status = "running", NEW x \in Names, Ready(m, q, x),
         NEW c \in Seq(Cell), Len(c) <= q.arrays[x].size,
         NEW n \in Nat, n <= q.arrays[x].size, q.arrays[x].at # Nowhere,
         NEW r, r = Touched(Filled(q, x, c), x, n)
  PROVE  Goes(m, r)
<1> DEFINE f == Filled(q, x, c)
<1>1. /\ MemoryOK(f) /\ f.blocks = q.blocks /\ f.status = q.status
      /\ n <= f.arrays[x].size /\ f.arrays[x].at # Nowhere
  <2>1. Fills(q, f, x, c)
    BY FilledOK DEF Ready
  <2> QED BY <2>1 DEF Fills
<1> HIDE DEF f
<1>2. Goes(f, r) /\ r.blocks = f.blocks
  BY <1>1, TouchedOK DEF f
<1>3. /\ Overruns(q) <=> Overruns(r)
      /\ Overruns(f) <=> Overruns(r)
  BY <1>1, <1>2 DEF Overruns
<1> QED BY <1>1, <1>2, <1>3 DEF Ready, Goes

\* Nothing at all is ready.
LEMMA ReadyItself ==
  ASSUME NEW m, Sound(m), NEW x
  PROVE  Ready(m, m, x)
BY DEF Ready, Sound, Goes

\* push
LEMMA PushOK ==
  ASSUME NEW m, Sound(m), NEW x \in Names, NEW v \in Cell,
         NEW r, r = Push(m, x, v)
  PROVE  /\ Did(m, r, x, Append(m.arrays[x].cells, v)) /\ Goes(m, r)
         /\ r.arrays[x].at # Nowhere
<1> DEFINE q == EnsureCapacity(m, x)
           a == q.arrays[x]
           c == Append(a.cells, v)
<1>1. /\ Ready(m, q, x) /\ a.at # Nowhere /\ a.count < a.size
  BY EnsureCapacityOK
<1>2. r = Touched(Filled(q, x, c), x, a.count + 1)
  BY DEF Push
<1> HIDE DEF q
<1>3. IsArray(a) /\ a.cells = m.arrays[x].cells
  BY <1>1 DEF Ready, MemoryOK, IsMemory
<1>4. /\ a.cells \in Seq(Cell) /\ Len(a.cells) = a.count /\ a.count \in Nat
      /\ a.size \in Nat
  BY <1>3 DEF IsArray
<1>5. c \in Seq(Cell) /\ Len(c) = a.count + 1
  BY <1>4, AppendProperties
<1> HIDE DEF c
<1>6. Len(c) <= a.size /\ a.count + 1 \in Nat /\ a.count + 1 <= a.size
  BY <1>1, <1>4, <1>5
<1>7. Did(m, r, x, c) /\ r.arrays[x].at = a.at /\ Goes(m, r)
  <2> DEFINE n == a.count + 1
  <2>1. n \in Nat /\ r = Touched(Filled(q, x, c), x, n) /\ m.status = "running"
    BY <1>2, <1>6 DEF Sound
  <2> HIDE DEF n
  <2>2. Wrote(m, q, r, x, c)
    BY <1>1, <1>5, <1>6, <2>1, Written
  <2>3. n <= a.size
    BY <1>6 DEF n
  <2>4. Goes(m, r)
    BY <1>1, <1>5, <1>6, <2>1, <2>3, WrittenWithin
  <2> QED BY <2>2, <2>4 DEF Wrote
<1> QED BY <1>1, <1>3, <1>6, <1>7 DEF c

\* pop and drop
LEMMA PopOK ==
  ASSUME NEW m, Sound(m), NEW x \in Names, NEW r, r = Pop(m, x)
  PROVE  /\ MemoryOK(r) /\ r.blocks # << >>
         /\ m.arrays[x].count = 0 => /\ r.status = "aborted"
                                     /\ r.arrays = m.arrays
         /\ m.arrays[x].count > 0 =>
              /\ Did(m, r, x, Front(m.arrays[x].cells)) /\ Goes(m, r)
              /\ r.arrays[x].at # Nowhere
<1> DEFINE a == m.arrays[x]
           c == Front(a.cells)
<1>1. /\ IsArray(a) /\ Shaped(m) /\ MemoryOK(m) /\ m.blocks # << >>
      /\ a.at = Nowhere => a.count = 0
      /\ m.status = "running"
  BY DEF Sound, MemoryOK, IsMemory
<1>2. /\ a.cells \in Seq(Cell) /\ Len(a.cells) = a.count /\ a.count \in Nat
      /\ a.size \in Nat /\ a.count <= a.size
  BY <1>1 DEF IsArray
<1>3. CASE a.count = 0
  <2>1. r = Fails(m, "aborted")
    BY <1>3 DEF Pop
  <2> QED BY <1>1, <1>3, <2>1, FailsOK
<1>4. CASE a.count > 0
  <2>1. r = Touched(Filled(m, x, c), x, a.count)
    BY <1>4 DEF Pop
  <2>2. c \in Seq(Cell) /\ Len(c) = a.count - 1
    <3>1. c = SubSeq(a.cells, 1, a.count - 1)
      BY <1>2 DEF Front
    <3>2. a.count - 1 \in 0 .. Len(a.cells)
      BY <1>2, <1>4
    <3> HIDE DEF c
    <3> QED BY <1>2, <3>1, <3>2, Beginning
  <2> HIDE DEF c
  <2>3. Len(c) <= a.size
    BY <1>2, <2>2
  <2>4. Did(m, r, x, c) /\ r.arrays[x].at = a.at /\ Goes(m, r)
    <3>1. Ready(m, m, x)
      BY ReadyItself
    <3> DEFINE n == a.count
    <3>2. /\ n \in Nat /\ n <= m.arrays[x].size
          /\ r = Touched(Filled(m, x, c), x, n)
      BY <1>2, <2>1
    <3> HIDE DEF n
    <3>3. /\ c \in Seq(Cell) /\ Len(c) <= m.arrays[x].size
          /\ m.status = "running" /\ m.arrays[x].at # Nowhere
      BY <1>1, <1>2, <1>4, <2>2, <2>3
    <3>4. Wrote(m, m, r, x, c)
      BY <3>1, <3>2, <3>3, Written
    <3>5. Goes(m, r)
      BY <3>1, <3>2, <3>3, WrittenWithin
    <3> QED BY <3>4, <3>5 DEF Wrote
  <2> QED BY <1>1, <1>2, <1>4, <2>4 DEF c, Did
<1> QED BY <1>2, <1>3, <1>4

\* A function on the first n naturals is a sequence.
LEMMA IsSequence ==
  ASSUME NEW S, NEW n \in Nat, NEW f \in [1 .. n -> S]
  PROVE  f \in Seq(S) /\ Len(f) = n
<1>1. f \in Seq(S)
  BY SeqDef
<1>2. Len(f) \in Nat /\ DOMAIN f = 1 .. Len(f) /\ DOMAIN f = 1 .. n
  BY <1>1, LenProperties
<1> QED BY <1>1, <1>2

\* t is made of cells, and s with e put in.
Spliced(t, s, k, e) == t \in Seq(Cell) /\ Parts(t, s, k, e)

\* insert_before and insert_after
Inserts(m, r, x, index, at, v) ==
  /\ Did(m, r, x, r.arrays[x].cells)
  /\ index >= m.arrays[x].count => /\ r.status = "aborted"
                                   /\ r.arrays[x].count = m.arrays[x].count
  /\ index < m.arrays[x].count =>
       /\ Goes(m, r) /\ r.arrays[x].at # Nowhere
       /\ Spliced(r.arrays[x].cells, m.arrays[x].cells, at, <<v>>)

\* insert_before and insert_after put the value in at its place.
LEMMA InsertOK ==
  ASSUME NEW m, Sound(m), NEW x \in Names, NEW v \in Cell,
         NEW index \in Nat, NEW at \in {index, index + 1},
         NEW r, r = Insert(m, x, index, at, v)
  PROVE  Inserts(m, r, x, index, at, v)
<1> DEFINE q == EnsureCapacity(m, x)
           a == q.arrays[x]
           cell(j) == IF j < at THEN a.cells[j + 1]
                      ELSE IF j = at THEN v ELSE a.cells[j]
           c == [j \in 1 .. a.count + 1 |-> cell(j - 1)]
<1>1. /\ Ready(m, q, x) /\ a.at # Nowhere /\ a.count < a.size
  BY EnsureCapacityOK
<1>2. r = IF index >= a.count THEN Fails(q, "aborted")
          ELSE Touched(Filled(q, x, c), x, a.count + 1)
  BY DEF Insert
<1> HIDE DEF q
<1>3. /\ IsArray(a) /\ a.cells = m.arrays[x].cells /\ a.count = m.arrays[x].count
      /\ MemoryOK(q) /\ q.blocks # << >> /\ Shaped(q) /\ m.status = "running"
  BY <1>1 DEF Ready, MemoryOK, IsMemory, Sound
<1>4. /\ a.cells \in Seq(Cell) /\ Len(a.cells) = a.count /\ a.count \in Nat
      /\ a.size \in Nat /\ \A i \in 1 .. a.count : a.cells[i] \in Cell
  BY <1>3, ElementOfSeq DEF IsArray
<1>5. CASE index >= a.count
  <2>1. r = Fails(q, "aborted")
    BY <1>2, <1>5
  <2>2. MemoryOK(r) /\ r.blocks = q.blocks /\ r.arrays = q.arrays
        /\ r.status = "aborted"
    BY <1>3, <2>1, FailsOK
  <2> QED BY <1>1, <1>3, <1>4, <1>5, <2>2 DEF Did, Ready, Inserts
<1>6. CASE index < a.count
  <2> DEFINE n == a.count + 1
  <2>1. n \in Nat /\ n <= a.size /\ at \in 0 .. a.count
    BY <1>1, <1>4, <1>6
  <2>2. r = Touched(Filled(q, x, c), x, n)
    BY <1>2, <1>4, <1>6
  <2>3. \A j \in 1 .. n : cell(j - 1) \in Cell
    BY <1>4, <2>1
  <2>4. c \in [1 .. n -> Cell]
    BY <2>3
  <2>5. \A j \in 1 .. n : c[j] = IF j <= at THEN a.cells[j]
                                 ELSE IF j = at + 1 THEN v ELSE a.cells[j - 1]
    BY <1>4, <2>1
  <2>6. n = a.count + 1
    OBVIOUS
  <2> HIDE DEF c, n
  <2>7. c \in Seq(Cell) /\ Len(c) = n
    BY <2>1, <2>4, IsSequence
  <2>8. Len(c) <= a.size
    BY <2>1, <2>7
  <2>9. Wrote(m, q, r, x, c)
    BY <1>1, <1>3, <2>1, <2>2, <2>7, <2>8, Written
  <2>10. Goes(m, r)
    BY <1>1, <1>3, <2>1, <2>2, <2>7, <2>8, WrittenWithin
  <2>11. Spliced(c, a.cells, at, <<v>>)
    <3>1. Len(<<v>>) = 1 /\ <<v>>[1] = v
      OBVIOUS
    <3>2. \A i \in 1 .. at : c[i] = a.cells[i]
      BY <1>4, <2>1, <2>5, <2>6
    <3>3. \A i \in 1 .. 1 : c[at + i] = <<v>>[i]
      BY <1>4, <2>1, <2>5, <2>6
    <3>4. ASSUME NEW i \in 1 .. a.count - at
          PROVE  c[at + 1 + i] = a.cells[at + i]
      <4>1. /\ at + 1 + i \in 1 .. n /\ ~(at + 1 + i <= at)
            /\ at + 1 + i # at + 1 /\ (at + 1 + i) - 1 = at + i
        BY <1>4, <2>1, <2>6
      <4> QED BY <2>5, <4>1
    <3> QED BY <1>4, <2>6, <2>7, <3>1, <3>2, <3>3, <3>4 DEF Spliced, Parts
  <2> QED BY <1>1, <1>3, <1>4, <1>6, <2>9, <2>10, <2>11 DEF Wrote, Did, Inserts
<1> QED BY <1>3, <1>4, <1>5, <1>6

\* The larger of two.
LEMMA LargerOf ==
  ASSUME NEW a \in Nat, NEW b \in Nat
  PROVE  Max({a, b}) = IF a >= b THEN a ELSE b
<1> DEFINE S == {a, b}
<1>1. \E x \in S : \A y \in S : x >= y
  OBVIOUS
<1>2. Max(S) \in S /\ \A y \in S : Max(S) >= y
  BY <1>1 DEF Max
<1> QED BY <1>2

\* extend_before and extend_after: an array that was never allocated and has
\* the room is written through no pointer, and behind the end of the code is a
\* gap.
Extends(m, r, x, at, b) ==
  /\ Did(m, r, x, r.arrays[x].cells)
  /\ r.status \in {"running", "undefined"}
  /\ \/ Goes(m, r) \/ r.arrays[x].at = Nowhere
     \/ /\ at > m.arrays[x].count
        /\ r.arrays[x].count = m.arrays[x].count + Len(b)
  /\ r.status = "running" /\ r.arrays[x].at = Nowhere
       => r.arrays[x].count = 0
  /\ r.status = "running" /\ at <= m.arrays[x].count
       => Spliced(r.arrays[x].cells, m.arrays[x].cells, at, b)
  /\ Len(b) = 0 => r = m

\* They put the nodes in at their place.
LEMMA ExtendAtOK ==
  ASSUME NEW m, Sound(m), NEW x \in Names, NEW b \in Seq(Cell),
         NEW at \in 0 .. m.arrays[x].count + 1, NEW r, r = ExtendAt(m, x, at, b)
  PROVE  Extends(m, r, x, at, b)
<1> DEFINE n == Len(b)
           q == EnsureRoom(m, x, n)
           a == q.arrays[x]
           cell(j) == IF at <= j /\ j < at + n THEN b[j - at + 1]
                      ELSE IF j < at
                      THEN IF j < a.count THEN a.cells[j + 1] ELSE Junk
                      ELSE a.cells[j - n + 1]
           c == [j \in 1 .. a.count + n |-> cell(j - 1)]
           end == Max({a.count, at}) + n
<1>1. n \in Nat /\ \A i \in 1 .. n : b[i] \in Cell
  BY LenProperties, ElementOfSeq
<1>2. r = IF n = 0 THEN m
          ELSE IF q.status # "running" THEN q
          ELSE Touched(Filled(q, x, c), x, end)
  BY DEF ExtendAt
<1>3. /\ Ready(m, q, x)
      /\ m.arrays[x].at # Nowhere => a.at # Nowhere
      /\ q.status = "running" => a.count + n <= a.size
  BY <1>1, EnsureRoomOK
<1> HIDE DEF q
<1>4. /\ IsArray(a) /\ a.cells = m.arrays[x].cells /\ a.count = m.arrays[x].count
      /\ MemoryOK(q) /\ q.blocks # << >> /\ m.status = "running"
      /\ m.arrays[x].at = Nowhere => m.arrays[x].count = 0
  BY <1>3 DEF Ready, MemoryOK, IsMemory, Sound
<1>5. /\ a.cells \in Seq(Cell) /\ Len(a.cells) = a.count /\ a.count \in Nat
      /\ a.size \in Nat /\ \A i \in 1 .. a.count : a.cells[i] \in Cell
  BY <1>4, ElementOfSeq DEF IsArray
<1>6. CASE n = 0
  <2>1. r = m
    BY <1>2, <1>6
  <2>2. Spliced(m.arrays[x].cells, m.arrays[x].cells, at, b)
        \/ at > m.arrays[x].count
    BY <1>4, <1>5, <1>6 DEF Spliced, Parts
  <2> QED BY <1>4, <1>5, <2>1, <2>2 DEF Did, Sound, Goes, Extends
<1>7. CASE n # 0 /\ q.status # "running"
  <2>1. r = q
    BY <1>2, <1>7
  <2> QED BY <1>1, <1>3, <1>4, <1>7, <2>1 DEF Did, Ready, Goes, Extends
<1>8. CASE n # 0 /\ q.status = "running"
  <2>1. r = Touched(Filled(q, x, c), x, end)
    BY <1>2, <1>8
  <2>2. \A j \in 1 .. a.count + n : cell(j - 1) \in Cell
    <3> SUFFICES ASSUME NEW j \in 1 .. a.count + n
                 PROVE  cell(j - 1) \in Cell
      OBVIOUS
    <3>1. CASE at <= j - 1 /\ j - 1 < at + n
      <4>1. (j - 1) - at + 1 \in 1 .. n
        BY <1>1, <1>4, <1>5, <3>1
      <4> QED BY <1>1, <3>1, <4>1
    <3>2. CASE j - 1 < at
      <4>1. j - 1 < a.count => (j - 1) + 1 \in 1 .. a.count
        BY <1>1, <1>4, <1>5, <3>2
      <4> QED BY <1>4, <1>5, <3>2, <4>1 DEF Cell
    <3>3. CASE j - 1 >= at + n
      <4>1. (j - 1) - n + 1 \in 1 .. a.count
        BY <1>1, <1>4, <1>5, <3>3
      <4>2. ~(j - 1 < at) /\ ~(j - 1 < at + n)
        BY <1>1, <1>4, <1>5, <3>3
      <4> QED BY <1>5, <4>1, <4>2
    <3> QED BY <1>1, <1>4, <1>5, <3>1, <3>2, <3>3
  <2>3. c \in [1 .. a.count + n -> Cell]
    BY <2>2
  <2>4. ASSUME at <= a.count
        PROVE  /\ \A i \in 1 .. at : c[i] = a.cells[i]
               /\ \A i \in 1 .. n : c[at + i] = b[i]
               /\ \A i \in 1 .. a.count - at : c[at + n + i] = a.cells[at + i]
    <3>0. at \in Nat
      BY <1>4, <1>5
    <3>1. ASSUME NEW i \in 1 .. at
          PROVE  c[i] = a.cells[i]
      <4>1. /\ i \in 1 .. a.count + n /\ i - 1 < at /\ i - 1 < a.count
            /\ ~(at <= i - 1) /\ (i - 1) + 1 = i
        BY <1>1, <1>5, <2>4, <3>0
      <4> QED BY <4>1
    <3>2. ASSUME NEW i \in 1 .. n
          PROVE  c[at + i] = b[i]
      <4>1. /\ at + i \in 1 .. a.count + n
            /\ at <= at + i - 1 /\ at + i - 1 < at + n
            /\ (at + i - 1) - at + 1 = i
        BY <1>1, <1>5, <2>4, <3>0
      <4> QED BY <4>1
    <3>3. ASSUME NEW i \in 1 .. a.count - at
          PROVE  c[at + n + i] = a.cells[at + i]
      <4> DEFINE j == at + n + i
      <4>1. /\ j \in 1 .. a.count + n /\ (j - 1) - n + 1 = at + i
        BY <1>1, <1>5, <2>4, <3>0
      <4>2. ~(j - 1 < at + n) /\ ~(j - 1 < at)
        BY <1>1, <1>5, <3>0
      <4> HIDE DEF j
      <4>3. c[j] = cell(j - 1)
        BY <4>1
      <4>4. cell(j - 1) = a.cells[at + i]
        BY <4>1, <4>2
      <4> QED BY <4>3, <4>4 DEF j
    <3> QED BY <3>1, <3>2, <3>3
  <2> HIDE DEF c
  <2>5. a.count + n \in Nat
    BY <1>1, <1>5
  <2>6. c \in Seq(Cell) /\ Len(c) = a.count + n
    BY <2>3, <2>5, IsSequence
  <2>7. end = (IF a.count >= at THEN a.count ELSE at) + n /\ end \in Nat
    <3>1. at \in Nat
      BY <1>4, <1>5
    <3>2. Max({a.count, at}) = IF a.count >= at THEN a.count ELSE at
      BY <1>5, <3>1, LargerOf
    <3> QED BY <1>1, <1>5, <3>1, <3>2
  <2> HIDE DEF end
  <2>8. Len(c) <= a.size
    BY <1>3, <1>8, <2>6
  <2>9. Wrote(m, q, r, x, c)
    BY <1>3, <1>4, <2>1, <2>6, <2>7, <2>8, Written
  <2>10. ASSUME at <= m.arrays[x].count, a.at # Nowhere
         PROVE  Goes(m, r)
    <3>1. end <= a.size
      BY <1>1, <1>3, <1>4, <1>5, <1>8, <2>7, <2>10
    <3> QED BY <1>3, <1>4, <2>1, <2>6, <2>7, <2>8, <2>10, <3>1, WrittenWithin
  <2>11. ASSUME at <= m.arrays[x].count
         PROVE  Spliced(c, a.cells, at, b)
    BY <1>4, <1>5, <2>4, <2>6, <2>11 DEF Spliced, Parts
  <2>12. a.at = Nowhere => r.status = "undefined"
    <3> SUFFICES ASSUME a.at = Nowhere
                 PROVE  r.status = "undefined"
      OBVIOUS
    <3> DEFINE f == Filled(q, x, c)
    <3>1. f.arrays[x].at = Nowhere /\ MemoryOK(f)
      <4>1. Fills(q, f, x, c)
        BY <1>4, <2>6, <2>8, FilledOK
      <4> QED BY <4>1 DEF Fills
    <3> HIDE DEF f
    <3>2. end > Room(f.arrays[x])
      <4>1. end > 0
        BY <1>1, <1>4, <1>5, <1>8, <2>7
      <4> QED BY <3>1, <4>1 DEF Room
    <3>3. r = Fails(f, "undefined") /\ Shaped(f)
      BY <2>1, <3>1, <3>2 DEF Touched, f, MemoryOK, IsMemory
    <3> QED BY <3>3, FailsOK
  <2>13. /\ Did(m, r, x, r.arrays[x].cells) /\ r.arrays[x].cells = c
         /\ r.arrays[x].count = a.count + n /\ r.arrays[x].at = a.at
         /\ r.status \in {"running", "undefined"}
    BY <2>6, <2>9 DEF Wrote, Did
  <2>14. at <= m.arrays[x].count \/ at > m.arrays[x].count
    BY <1>4, <1>5
  <2> QED BY <1>4, <1>8, <2>10, <2>11, <2>12, <2>13, <2>14 DEF Extends
<1> QED BY <1>6, <1>7, <1>8

\* clear
LEMMA ClearOK ==
  ASSUME NEW m, Sound(m), NEW x \in Names, NEW r, r = Clear(m, x)
  PROVE  Did(m, r, x, << >>) /\ r.arrays[x].count = 0 /\ r.status = "running"
<1> DEFINE c == << >>
<1>1. c \in Seq(Cell) /\ Len(c) = 0
  BY EmptySeq
<1>2. r = Filled(m, x, c)
  BY DEF Clear
<1> HIDE DEF c
<1>3. MemoryOK(m) /\ IsArray(m.arrays[x])
  BY DEF Sound, MemoryOK, IsMemory
<1>4. Len(c) <= m.arrays[x].size
  BY <1>1, <1>3 DEF IsArray
<1>5. Fills(m, r, x, c)
  BY <1>1, <1>2, <1>3, <1>4, FilledOK
<1> QED BY <1>1, <1>5 DEF Fills, Did, Sound, c

\* t is s without its last, which has taken place k.
LastAt(t, s, k) ==
  /\ t \in Seq(Cell) /\ Len(t) = Len(s) - 1
  /\ \A i \in 1 .. Len(s) - 1 : t[i] = IF i = k THEN s[Len(s)] ELSE s[i]

\* t is s without what was at place k.
Removed(t, s, k) ==
  /\ t \in Seq(Cell) /\ Len(t) = Len(s) - 1
  /\ \A i \in 1 .. Len(s) - 1 : t[i] = IF i < k THEN s[i] ELSE s[i + 1]

\* unordered_remove
LEMMA UnorderedRemoveOK ==
  ASSUME NEW m, Sound(m), NEW x \in Names, NEW index \in Nat,
         NEW r, r = UnorderedRemove(m, x, index)
  PROVE  /\ index >= m.arrays[x].count => r = m
         /\ index < m.arrays[x].count =>
              /\ Did(m, r, x, r.arrays[x].cells) /\ Goes(m, r)
              /\ r.arrays[x].at # Nowhere
              /\ LastAt(r.arrays[x].cells, m.arrays[x].cells, index + 1)
<1> DEFINE a == m.arrays[x]
           q == Pop(m, x)
           b == q.arrays[x]
           c == [i \in DOMAIN b.cells |->
                   IF i = index + 1 THEN Last(a.cells) ELSE b.cells[i]]
           l == Len(a.cells)
<1>1. /\ IsArray(a) /\ MemoryOK(m) /\ m.blocks # << >> /\ m.status = "running"
  BY DEF Sound, MemoryOK, IsMemory
<1>2. /\ a.cells \in Seq(Cell) /\ l = a.count /\ a.count \in Nat
      /\ a.size \in Nat /\ \A i \in 1 .. l : a.cells[i] \in Cell
  BY <1>1, ElementOfSeq DEF IsArray
<1>3. CASE index >= a.count
  BY <1>2, <1>3 DEF UnorderedRemove
<1>4. CASE index < a.count
  <2>1. r = [q EXCEPT !.arrays[x].cells = c]
    BY <1>2, <1>4 DEF UnorderedRemove
  <2>2. /\ Did(m, q, x, Front(a.cells)) /\ Goes(m, q) /\ b.at # Nowhere
    BY <1>2, <1>4, PopOK
  <2> HIDE DEF q
  <2>3. /\ MemoryOK(q) /\ Shaped(q) /\ IsArray(b) /\ b.cells = Front(a.cells)
    BY <2>2 DEF Did, MemoryOK, IsMemory
  <2>4. /\ b.cells \in Seq(Cell) /\ Len(b.cells) = l - 1
        /\ \A i \in 1 .. l - 1 : b.cells[i] = a.cells[i]
    <3>1. b.cells = SubSeq(a.cells, 1, l - 1)
      BY <2>3 DEF Front
    <3>2. l - 1 \in 0 .. l
      BY <1>2, <1>4
    <3> HIDE DEF b
    <3> QED BY <1>2, <3>1, <3>2, Beginning
  <2>5. Last(a.cells) = a.cells[l]
    BY DEF Last
  <2>6. l \in Nat /\ l > 0 /\ DOMAIN b.cells = 1 .. l - 1
    BY <1>2, <1>4, <2>4, LenProperties
  <2>7. \A i \in 1 .. l - 1 : c[i] = IF i = index + 1 THEN a.cells[l]
                                    ELSE a.cells[i]
    BY <2>4, <2>5, <2>6
  <2>8. c \in [1 .. l - 1 -> Cell]
    <3>1. DOMAIN c = 1 .. l - 1 /\ c = [i \in DOMAIN c |-> c[i]]
      BY <2>6
    <3>2. \A i \in 1 .. l - 1 : c[i] \in Cell
      <4> TAKE i \in 1 .. l - 1
      <4>1. i \in 1 .. l /\ l \in 1 .. l
        BY <2>6
      <4>2. a.cells[i] \in Cell /\ a.cells[l] \in Cell
        BY <1>2, <4>1
      <4> HIDE DEF c
      <4> QED BY <2>7, <4>2
    <3> HIDE DEF c
    <3> QED BY <3>1, <3>2
  <2> HIDE DEF c
  <2>9. c \in Seq(Cell) /\ Len(c) = l - 1
    <3>1. l - 1 \in Nat
      BY <2>6
    <3> QED BY <2>8, <3>1, IsSequence
  <2>10. b.count = Len(c) /\ Len(c) <= b.size
    BY <2>3, <2>4, <2>9 DEF IsArray
  <2>11. r = Filled(q, x, c)
    <3>1. b = [allocator |-> b.allocator, size |-> b.size, count |-> b.count,
               at |-> b.at, cells |-> b.cells]
      BY <2>3 DEF IsArray
    <3>2. PICK d : d = b
      OBVIOUS
    <3>3. [d EXCEPT !.cells = c] = [d EXCEPT !.cells = c, !.count = Len(c)]
      BY <2>10, <3>1, <3>2
    <3>4. r = [q EXCEPT !.arrays[x] = [d EXCEPT !.cells = c]]
      BY <2>1, <3>2
    <3>5. Filled(q, x, c)
            = [q EXCEPT !.arrays[x] = [d EXCEPT !.cells = c, !.count = Len(c)]]
      BY <3>2 DEF Filled
    <3> QED BY <3>3, <3>4, <3>5
  <2>12. Fills(q, r, x, c)
    BY <2>3, <2>9, <2>10, <2>11, FilledOK
  <2>13. Did(m, r, x, c) /\ Goes(m, r)
    BY <2>2, <2>12 DEF Fills, Did, Goes, Overruns
  <2>14. LastAt(c, a.cells, index + 1)
    BY <2>7, <2>9 DEF LastAt
  <2> QED BY <1>2, <1>4, <2>2, <2>12, <2>13, <2>14 DEF Fills
<1> QED BY <1>2, <1>3, <1>4

\* ordered_remove
LEMMA OrderedRemoveOK ==
  ASSUME NEW m, Sound(m), NEW x \in Names, NEW index \in Nat,
         NEW r, r = OrderedRemove(m, x, index)
  PROVE  /\ index >= m.arrays[x].count => r = m
         /\ index < m.arrays[x].count =>
              /\ Did(m, r, x, r.arrays[x].cells) /\ Goes(m, r)
              /\ r.arrays[x].at # Nowhere
              /\ Removed(r.arrays[x].cells, m.arrays[x].cells, index + 1)
<1> DEFINE a == m.arrays[x]
           cell(j) == IF j < index THEN a.cells[j + 1] ELSE a.cells[j + 2]
           c == [j \in 1 .. a.count - 1 |-> cell(j - 1)]
           n == a.count
<1>1. /\ IsArray(a) /\ MemoryOK(m) /\ m.blocks # << >> /\ m.status = "running"
      /\ a.at = Nowhere => a.count = 0
  BY DEF Sound, MemoryOK, IsMemory
<1>2. /\ a.cells \in Seq(Cell) /\ Len(a.cells) = n /\ n \in Nat
      /\ a.size \in Nat /\ n <= a.size /\ \A i \in 1 .. n : a.cells[i] \in Cell
  BY <1>1, ElementOfSeq DEF IsArray
<1>3. CASE index >= n
  BY <1>2, <1>3 DEF OrderedRemove
<1>4. CASE index < n
  <2>1. r = Touched(Filled(m, x, c), x, n)
    <3>1. ~(index >= a.count)
      BY <1>2, <1>4
    <3> QED BY <3>1 DEF OrderedRemove
  <2>2. \A j \in 1 .. n - 1 : c[j] = IF j < index + 1 THEN a.cells[j]
                                    ELSE a.cells[j + 1]
    BY <1>2
  <2>3. c \in [1 .. n - 1 -> Cell]
    <3>1. ASSUME NEW j \in 1 .. n - 1
          PROVE  cell(j - 1) \in Cell
      <4>1. (j - 1) + 1 \in 1 .. n /\ (j - 1) + 2 \in 1 .. n
        BY <1>2
      <4> QED BY <1>2, <4>1
    <3> QED BY <3>1
  <2> HIDE DEF c
  <2>4. c \in Seq(Cell) /\ Len(c) = n - 1
    <3>1. n - 1 \in Nat
      BY <1>2, <1>4
    <3> HIDE DEF n
    <3> QED BY <2>3, <3>1, IsSequence
  <2>5. /\ Ready(m, m, x) /\ Len(c) <= m.arrays[x].size
        /\ n <= m.arrays[x].size /\ m.arrays[x].at # Nowhere
    BY <1>1, <1>2, <1>4, <2>4, ReadyItself
  <2>6. n \in Nat
    BY <1>2
  <2> HIDE DEF n
  <2>7. Wrote(m, m, r, x, c)
    BY <1>1, <2>1, <2>4, <2>5, <2>6, Written
  <2>8. Goes(m, r)
    BY <1>1, <2>1, <2>4, <2>5, <2>6, WrittenWithin
  <2>9. Removed(c, a.cells, index + 1)
    BY <1>2, <2>2, <2>4 DEF Removed
  <2> QED BY <1>2, <1>4, <2>5, <2>7, <2>8, <2>9 DEF Wrote, Did, n
<1> QED BY <1>2, <1>3, <1>4

\* A new array has no memory.
LEMMA NewIs ==
  ASSUME NEW allocator \in {"arena", "cstdlib"}, NEW b, b = NewArray(allocator)
  PROVE  /\ IsArray(b) /\ b.allocator = allocator /\ b.at = Nowhere
         /\ b.count = 0 /\ b.cells = << >>
<1>1. /\ b.allocator = allocator /\ b.size = InitSize /\ b.count = 0
      /\ b.at = Nowhere /\ b.cells = << >>
      /\ b = [allocator |-> b.allocator, size |-> b.size, count |-> b.count,
              at |-> b.at, cells |-> b.cells]
  BY DEF NewArray
<1>2. b.cells \in Seq(Cell) /\ Len(b.cells) = 0
  BY <1>1, EmptySeq
<1> QED BY <1>1, <1>2, ArrayAssumption DEF IsArray

\* ~Array, and a new array in its place: what it had is free, once.
LEMMA RenewedOK ==
  ASSUME NEW m, MemoryOK(m), NEW x \in Names, NEW r, r = Renewed(m, x)
  PROVE  /\ MemoryOK(r) /\ r.blocks = m.blocks /\ r.status = m.status
         /\ \A y \in Names \ {x} : r.arrays[y] = m.arrays[y]
         /\ r.arrays[x].allocator = m.arrays[x].allocator
         /\ r.arrays[x].at = Nowhere /\ r.arrays[x].count = 0
         /\ r.arrays[x].cells = << >>
<1> DEFINE a == m.arrays[x]
           q == Released(m, a)
           b == NewArray(a.allocator)
<1>1. IsArray(a) /\ Shaped(m) /\ a.allocator \in {"arena", "cstdlib"}
  BY DEF MemoryOK, IsMemory, IsArray
<1>2. /\ IsArray(b) /\ b.allocator = a.allocator /\ b.at = Nowhere
      /\ b.count = 0 /\ b.cells = << >>
  BY <1>1, NewIs
<1>3. r = With(q, x, b)
  BY DEF Renewed, With
<1> HIDE DEF b
<1>4. CASE ~OnHeap(a)
  <2>1. q = m
    BY <1>1, <1>4 DEF Released, OnHeap
  <2>2. /\ Shaped(r) /\ r.live = m.live /\ r.blocks = m.blocks
        /\ r.status = m.status /\ r.arrays[x] = b
        /\ \A y \in Names \ {x} : r.arrays[y] = m.arrays[y]
    BY <1>1, <1>3, <2>1, Replaced
  <2>3. MemoryOK(r)
    <3>1. CASE a.allocator = "arena"
      BY <1>2, <1>3, <2>1, <3>1, ArenaMove
    <3>2. CASE a.allocator = "cstdlib"
      <4>1. IsMemory(r)
        BY <1>2, <2>2 DEF MemoryOK, IsMemory
      <4>2. ~OnHeap(b)
        BY <1>2 DEF OnHeap
      <4>3. \A o : o \in Range(r.live) <=>
                   \/ OnHeap(b) /\ o = b.at.base
                   \/ o \in HeldBy(m) /\ ~(OnHeap(a) /\ o = a.at.base)
        BY <1>4, <2>2, <4>2 DEF MemoryOK
      <4> QED BY <1>2, <2>2, <3>2, <4>1, <4>3, HeapMove
    <3> QED BY <1>1, <3>1, <3>2
  <2> QED BY <1>2, <2>2, <2>3
<1>5. CASE OnHeap(a)
  <2>1. a.at.base \in Range(m.live)
    BY <1>5 DEF MemoryOK, HeldBy
  <2>2. q = [m EXCEPT !.live = Freed(m.live, a.at.base)]
    BY <1>5, <2>1 DEF Released, OnHeap, IsAllocated
  <2>3. q = [live |-> Freed(m.live, a.at.base), blocks |-> m.blocks,
             arrays |-> m.arrays, status |-> m.status]
    BY <1>1, <2>2 DEF Shaped
  <2>4. /\ q.live = Freed(m.live, a.at.base) /\ q.blocks = m.blocks
        /\ q.arrays = m.arrays /\ q.status = m.status
        /\ q = [live |-> q.live, blocks |-> q.blocks, arrays |-> q.arrays,
                status |-> q.status]
    BY <2>3
  <2> HIDE DEF q
  <2>5. Shaped(q)
    BY <1>1, <2>4 DEF Shaped
  <2>6. IsLive(q.live) /\ Range(q.live) = Range(m.live) \ {a.at.base}
    BY <2>4, FreedOK DEF MemoryOK, IsMemory
  <2>7. /\ Shaped(r) /\ r.live = q.live /\ r.blocks = m.blocks
        /\ r.status = m.status /\ r.arrays[x] = b
        /\ \A y \in Names \ {x} : r.arrays[y] = m.arrays[y]
    BY <1>3, <2>4, <2>5, Replaced
  <2>8. IsMemory(r)
    BY <1>2, <2>6, <2>7 DEF MemoryOK, IsMemory
  <2>9. \A o : o \in Range(r.live) <=>
               \/ OnHeap(b) /\ o = b.at.base
               \/ o \in HeldBy(m) /\ ~(OnHeap(a) /\ o = a.at.base)
    BY <1>2, <1>5, <2>6, <2>7 DEF MemoryOK, OnHeap
  <2>10. a.allocator = "cstdlib" /\ b.allocator = "cstdlib"
    BY <1>2, <1>5 DEF OnHeap
  <2>11. MemoryOK(r)
    BY <1>2, <2>7, <2>8, <2>9, <2>10, HeapMove
  <2> QED BY <1>2, <2>7, <2>11
<1> QED BY <1>4, <1>5

\* One block is freed, its data before itself.
FreeBlock(list, b) == Freed(Freed(list, b.data), b.self)

\* The destructor's loop is a sequence of them.
LEMMA DeleteArenaDef ==
  ASSUME NEW m, Shaped(m), Len(m.blocks) \in Nat, NEW r, r = DeleteArena(m)
  PROVE  \E freed :
           /\ freed = [k \in 0 .. Len(m.blocks) |->
                         IF k = 0 THEN m.live
                         ELSE FreeBlock(freed[k - 1], m.blocks[k])]
           /\ r.live = freed[Len(m.blocks)] /\ r.blocks = << >>
           /\ r.arrays = m.arrays /\ r.status = m.status /\ Shaped(r)
<1> DEFINE n == Len(m.blocks)
           Is(f, l) == f = [k \in 0 .. l |->
                              IF k = 0 THEN m.live
                              ELSE FreeBlock(f[k - 1], m.blocks[k])]
           Bad == {l \in Nat : ~ \E f : Is(f, l)}
<1>1. Bad = {}
  <2> SUFFICES ASSUME Bad # {}
               PROVE  FALSE
    OBVIOUS
  <2>1. Bad \in SUBSET Nat
    OBVIOUS
  <2>2. PICK l \in Bad : \A y \in Bad : l <= y
    <3> HIDE DEF Bad
    <3> QED BY <2>1, LeastNatural
  <2>3. CASE l = 0
    <3>1. Is([k \in 0 .. 0 |-> m.live], 0)
      OBVIOUS
    <3> QED BY <2>2, <2>3, <3>1
  <2>4. CASE l > 0
    <3>1. l - 1 \in Nat /\ l - 1 \notin Bad
      BY <2>2, <2>4
    <3>2. PICK f : Is(f, l - 1)
      BY <3>1
    <3> DEFINE g == [k \in 0 .. l |-> IF k = l THEN FreeBlock(f[l - 1], m.blocks[l])
                                      ELSE f[k]]
    <3>3. ASSUME NEW k \in 0 .. l
          PROVE  g[k] = IF k = 0 THEN m.live
                        ELSE FreeBlock(g[k - 1], m.blocks[k])
      BY <2>4, <3>1, <3>2
    <3>4. Is(g, l)
      BY <3>3
    <3> QED BY <2>2, <3>4
  <2> QED BY <2>1, <2>2, <2>3, <2>4
<1>2. \E f : Is(f, n)
  BY <1>1
<1> DEFINE freed == CHOOSE f : Is(f, n)
<1>3. Is(freed, n)
  BY <1>2
<1>4. r = [m EXCEPT !.live = freed[n], !.blocks = << >>]
  BY DEF DeleteArena, FreeBlock
<1> HIDE DEF freed
<1>5. r = [live |-> freed[n], blocks |-> << >>, arrays |-> m.arrays,
           status |-> m.status]
  BY <1>4 DEF Shaped
<1>6. /\ r.live = freed[n] /\ r.blocks = << >> /\ r.arrays = m.arrays
      /\ r.status = m.status
      /\ r = [live |-> r.live, blocks |-> r.blocks, arrays |-> r.arrays,
              status |-> r.status]
  BY <1>5
<1>7. Shaped(r)
  BY <1>6 DEF Shaped
<1> QED BY <1>3, <1>6, <1>7

\* Once the arrays are gone, deleting the arena leaves nothing allocated.
LEMMA DeleteArenaOK ==
  ASSUME NEW m, MemoryOK(m), \A x \in Names : m.arrays[x].at = Nowhere,
         NEW r, r = DeleteArena(m)
  PROVE  /\ MemoryOK(r) /\ r.blocks = << >> /\ r.arrays = m.arrays
         /\ r.status = m.status /\ Range(r.live) = {}
<1> DEFINE n == Len(m.blocks)
           B == m.blocks
<1>1. /\ Shaped(m) /\ IsLive(m.live) /\ n \in Nat /\ DOMAIN B = 1 .. n
  BY LenProperties DEF MemoryOK, IsMemory
<1>2. PICK freed : /\ freed = [k \in 0 .. n |->
                                IF k = 0 THEN m.live
                                ELSE FreeBlock(freed[k - 1], B[k])]
                   /\ r.live = freed[n] /\ r.blocks = << >>
                   /\ r.arrays = m.arrays /\ r.status = m.status /\ Shaped(r)
  BY <1>1, DeleteArenaDef
<1>3. \A k \in 0 .. n : freed[k] = IF k = 0 THEN m.live
                                  ELSE FreeBlock(freed[k - 1], B[k])
  BY <1>2
<1> DEFINE Pieces(k) == {B[i].self : i \in 1 .. k} \cup {B[i].data : i \in 1 .. k}
           Good(k) == /\ IsLive(freed[k])
                      /\ Range(freed[k]) = Range(m.live) \ Pieces(k)
           Bad == {k \in 0 .. n : ~Good(k)}
<1>4. Bad = {}
  <2> SUFFICES ASSUME Bad # {}
               PROVE  FALSE
    OBVIOUS
  <2>1. PICK k \in Bad : \A y \in Bad : k <= y
    <3>1. Bad \in SUBSET Nat
      OBVIOUS
    <3> HIDE DEF Bad
    <3> QED BY <3>1, LeastNatural
  <2>2. CASE k = 0
    <3>1. freed[0] = m.live /\ Pieces(0) = {}
      BY <1>1, <1>3
    <3> QED BY <1>1, <2>1, <2>2, <3>1
  <2>3. CASE k > 0
    <3>1. k - 1 \in 0 .. n /\ k - 1 \notin Bad /\ k \in 1 .. n
      BY <2>1, <2>3
    <3>2. Good(k - 1)
      BY <3>1
    <3>3. freed[k] = Freed(Freed(freed[k - 1], B[k].data), B[k].self)
      BY <1>3, <2>1, <2>3 DEF FreeBlock
    <3> DEFINE list == Freed(freed[k - 1], B[k].data)
    <3>4. IsLive(list) /\ Range(list) = Range(freed[k - 1]) \ {B[k].data}
      BY <3>2, FreedOK
    <3> HIDE DEF list
    <3>5. IsLive(freed[k]) /\ Range(freed[k]) = Range(list) \ {B[k].self}
      BY <3>3, <3>4, FreedOK DEF list
    <3>6. Pieces(k) = Pieces(k - 1) \cup {B[k].data, B[k].self}
      <4>1. \A i : i \in 1 .. k <=> i \in 1 .. k - 1 \/ i = k
        BY <3>1
      <4> QED BY <4>1
    <3>7. Good(k)
      BY <3>2, <3>4, <3>5, <3>6
    <3> QED BY <2>1, <3>7
  <2> QED BY <2>1, <2>2, <2>3
<1>5. Good(n)
  <2>1. n \in 0 .. n
    BY <1>1
  <2>2. n \notin Bad
    <3> HIDE DEF Bad
    <3> QED BY <1>4
  <2> QED BY <2>1, <2>2
<1>6. HeldBy(m) = Pieces(n)
  <2>1. {x \in Names : OnHeap(m.arrays[x])} = {}
    BY DEF OnHeap
  <2> QED BY <1>1, <2>1 DEF HeldBy
<1>7. IsLive(r.live) /\ Range(r.live) = {}
  BY <1>2, <1>5, <1>6 DEF MemoryOK
<1>8. r.blocks \in Seq(Block) /\ DOMAIN r.blocks = {}
  <2>1. r.blocks = << >>
    BY <1>2
  <2> QED BY <2>1, EmptySeq
<1>9. IsMemory(r)
  BY <1>2, <1>7, <1>8 DEF MemoryOK, IsMemory
<1>10. HeldBy(r) = {}
  <2>1. {x \in Names : OnHeap(r.arrays[x])} = {}
    BY <1>2 DEF OnHeap
  <2> QED BY <1>8, <2>1 DEF HeldBy
<1>11. OwnMemory(r) /\ OwnRegions(r)
  BY <1>2, <1>8 DEF OwnMemory, OwnRegions, OnHeap, InArena
<1> QED BY <1>2, <1>7, <1>9, <1>10, <1>11 DEF MemoryOK

-----------------------------------------------------------------------------
(* The invariant.                                                          *)

\* The words of a bitset are words.
WordsOK(m) ==
  \A i \in 1 .. Len(m.arrays["words"].cells) :
     m.arrays["words"].cells[i] \in SUBSET (0 .. WordSize - 1)

Statuses == {"running", "ended", "aborted", "undefined"}

\* What memory is at all times.
Kept(m) ==
  /\ MemoryOK(m) /\ WordsOK(m) /\ m.status \in Statuses
  /\ m.status = "running" => Sound(m)

\* An operation on the code or on the other array keeps it.
LEMMA DidKept ==
  ASSUME NEW m, Sound(m), WordsOK(m), NEW x \in {"code", "other"},
         NEW r, NEW c, Did(m, r, x, c), r.status \in Statuses,
         \/ r.arrays[x].at # Nowhere \/ r.arrays[x].count = 0
         \/ r.status # "running"
  PROVE  Kept(r)
<1>1. r.arrays["words"] = m.arrays["words"]
  BY DEF Did, Names
<1>2. WordsOK(r)
  BY <1>1 DEF WordsOK
<1>3. r.status = "running" => Sound(r)
  BY DEF Did, Sound, Names
<1> QED BY <1>2, <1>3 DEF Kept, Did

\* A request: it fails if it runs over the block.
LEMMA RequestKept ==
  ASSUME NEW m, Sound(m), WordsOK(m), NEW n \in Nat,
         NEW q, q = ArenaAlloc(m, n),
         NEW r, r = IF ArenaPointer(m, n).offset + n <= BlockSize THEN q
                    ELSE Fails(q, "undefined")
  PROVE  Kept(r) /\ Goes(m, r) /\ r.arrays = m.arrays /\ Shaped(r)
<1> DEFINE p == ArenaPointer(m, n)
<1>1. /\ MemoryOK(q) /\ q.arrays = m.arrays /\ q.status = m.status
      /\ 1 \in DOMAIN q.blocks /\ q.blocks # << >>
      /\ q.blocks[1].used = p.offset + n /\ p.offset \in Nat
  BY ArenaAllocOK DEF Sound
<1> HIDE DEF p
<1>2. Shaped(q)
  BY <1>1 DEF MemoryOK, IsMemory
<1>3. CASE p.offset + n <= BlockSize
  <2>1. r = q
    BY <1>3 DEF p
  <2> QED BY <1>1, <1>2, <2>1 DEF Kept, Goes, Sound, WordsOK, Statuses
<1>4. CASE ~(p.offset + n <= BlockSize)
  <2>1. r = Fails(q, "undefined")
    BY <1>4 DEF p
  <2>2. /\ MemoryOK(r) /\ r.blocks = q.blocks /\ r.arrays = q.arrays
        /\ r.status = "undefined" /\ Shaped(r)
    BY <1>1, <1>2, <2>1, FailsOK
  <2>3. Overruns(r)
    <3>1. r.blocks[1].used > BlockSize
      BY <1>1, <1>4, <2>2, ArenaAssumption
    <3> QED BY <1>1, <2>2, <3>1 DEF Overruns
  <2> QED BY <1>1, <2>2, <2>3 DEF Kept, Goes, WordsOK, Statuses
<1> QED BY <1>3, <1>4

\* The end: what is left of the allocations is nothing.
LEMMA EndKept ==
  ASSUME NEW m, Sound(m), NEW r,
         r = Fails(DeleteArena(Renewed(Renewed(Renewed(m, "code"), "other"),
                                       "words")), "ended")
  PROVE  Kept(r) /\ r.status = "ended" /\ Shaped(r) /\ Range(r.live) = {}
<1> DEFINE a == Renewed(m, "code")
           b == Renewed(a, "other")
           c == Renewed(b, "words")
           d == DeleteArena(c)
<1>1. MemoryOK(a) /\ a.arrays["code"].at = Nowhere
  BY RenewedOK DEF Sound, Names
<1> HIDE DEF a
<1>2. /\ MemoryOK(b) /\ b.arrays["other"].at = Nowhere
      /\ b.arrays["code"] = a.arrays["code"]
  BY <1>1, RenewedOK DEF Names
<1> HIDE DEF b
<1>3. /\ MemoryOK(c) /\ c.arrays["words"].at = Nowhere
      /\ c.arrays["words"].cells = << >>
      /\ c.arrays["code"] = b.arrays["code"]
      /\ c.arrays["other"] = b.arrays["other"]
  BY <1>2, RenewedOK DEF Names
<1> HIDE DEF c
<1>4. \A x \in Names : c.arrays[x].at = Nowhere
  BY <1>1, <1>2, <1>3 DEF Names
<1>5. MemoryOK(d) /\ d.arrays = c.arrays /\ Range(d.live) = {}
  BY <1>3, <1>4, DeleteArenaOK
<1>6. r = Fails(d, "ended")
  BY DEF a, b, c
<1> HIDE DEF d
<1>7. Shaped(d)
  BY <1>5 DEF MemoryOK, IsMemory
<1>8. /\ MemoryOK(r) /\ r.arrays = c.arrays /\ r.status = "ended" /\ Shaped(r)
      /\ r.live = d.live
  BY <1>5, <1>6, <1>7, FailsOK
<1>9. WordsOK(r)
  <2>1. Len(r.arrays["words"].cells) = 0
    BY <1>3, <1>8, EmptySeq
  <2> QED BY <2>1 DEF WordsOK
<1> QED BY <1>5, <1>8, <1>9 DEF Kept, Statuses

Doings == [op : Operations \cup {"none"}, start : Nat, n : Nat]

\* Memory is kept, and what failed has failed for a known cause.
Inv == Kept(Memory) /\ FailuresKnown /\ doing \in Doings

\* Memory becomes what an operation makes of it.
LEMMA BecomesIs ==
  ASSUME NEW m, Shaped(m), Becomes(m)
  PROVE  /\ Memory' = m /\ live' = m.live /\ blocks' = m.blocks
         /\ arrays' = m.arrays /\ status' = m.status
<1>1. m = [live |-> m.live, blocks |-> m.blocks, arrays |-> m.arrays,
           status |-> m.status]
  BY DEF Shaped
<1>2. /\ live' = m.live /\ blocks' = m.blocks
      /\ arrays' = m.arrays /\ status' = m.status
  BY DEF Becomes
<1> QED BY <1>1, <1>2 DEF Memory

\* A request that ran over a block is one that the properties see.
LEMMA OverrunsIs ==
  ASSUME NEW m, m.blocks = blocks
  PROVE  Overruns(m) <=> Overrun
BY DEF Overruns, Overrun, Range

\* Nothing is known to fail but in a block that was run over.
LEMMA GoesKnown ==
  ASSUME NEW k, k.status = "running", NEW m, Becomes(m), Goes(k, m)
  PROVE  FailuresKnown'
<1>1. status' = m.status /\ blocks' = m.blocks
  BY DEF Becomes
<1>2. CASE m.status = "running"
  BY <1>1, <1>2 DEF FailuresKnown
<1>3. CASE m.status = "undefined" /\ Overruns(m)
  <2>1. PICK i \in DOMAIN m.blocks : m.blocks[i].used > BlockSize
    BY <1>3 DEF Overruns
  <2>2. \E b \in Range(blocks') : b.used > BlockSize
    BY <1>1, <2>1 DEF Range
  <2>3. Overrun'
    BY <2>2 DEF Overrun
  <2> QED BY <1>1, <1>3, <2>3 DEF FailuresKnown
<1> QED BY <1>2, <1>3 DEF Goes

\* What holds while the program runs.
LEMMA Running ==
  ASSUME Inv, status = "running"
  PROVE  /\ Sound(Memory) /\ WordsOK(Memory) /\ MemoryOK(Memory)
         /\ Memory.status = "running" /\ Memory.arrays = arrays
         /\ Memory.blocks = blocks /\ Memory.live = live
         /\ Code = Memory.arrays["code"] /\ Other = Memory.arrays["other"]
         /\ Words = Memory.arrays["words"]
<1>1. /\ Memory.status = status /\ Memory.arrays = arrays
      /\ Memory.blocks = blocks /\ Memory.live = live
  BY DEF Memory
<1>2. Kept(Memory)
  BY DEF Inv
<1> QED BY <1>1, <1>2 DEF Kept, Code, Other, Words

\* What the three arrays are.
LEMMA ArraysAre ==
  ASSUME NEW m, Sound(m), NEW x \in Names
  PROVE  /\ m.arrays[x].count \in Nat
         /\ m.arrays[x].cells \in Seq(Cell)
         /\ Len(m.arrays[x].cells) = m.arrays[x].count
BY DEF Sound, MemoryOK, IsMemory, IsArray

\* push and push_ref keep the invariant, and so does filling the other array.
LEMMA PushKeeps ==
  ASSUME Inv, status = "running", NEW x \in {"code", "other"}, NEW v \in Vals,
         NEW m, m = Push(Memory, x, v), Becomes(m), doing' = doing
  PROVE  Inv'
<1> PICK k : k = Memory
  OBVIOUS
<1>1. Sound(k) /\ WordsOK(k) /\ k.status = "running"
  BY Running
<1>2. x \in Names /\ v \in Cell /\ m = Push(k, x, v)
  BY DEF Names, Cell
<1>3. /\ Did(k, m, x, Append(k.arrays[x].cells, v)) /\ Goes(k, m)
      /\ m.arrays[x].at # Nowhere
  BY <1>1, <1>2, PushOK
<1>4. Kept(m) /\ Shaped(m)
  <2>1. m.status \in Statuses
    BY <1>1, <1>3 DEF Goes, Statuses
  <2>2. Kept(m)
    BY <1>1, <1>3, <2>1, DidKept
  <2> QED BY <2>2 DEF Kept, MemoryOK, IsMemory
<1>5. Memory' = m
  BY <1>4, BecomesIs
<1>6. Kept(Memory')
  BY <1>4, <1>5
<1>7. FailuresKnown'
  BY <1>1, <1>3, GoesKnown
<1> QED BY <1>6, <1>7 DEF Inv

\* What is kept is the next memory.
LEMMA KeptNext ==
  ASSUME Inv, NEW m, Kept(m), Becomes(m), FailuresKnown', doing' \in Doings
  PROVE  Inv'
<1>1. Shaped(m)
  BY DEF Kept, MemoryOK, IsMemory
<1>2. Kept(Memory')
  BY <1>1, BecomesIs
<1> QED BY <1>2 DEF Inv

\* pop and drop abort when there is nothing.
LEMMA PopKeeps ==
  ASSUME Inv, status = "running", NEW m, m = Pop(Memory, "code"), Becomes(m),
         call'.op \in {"pop", "drop"}, doing' = doing
  PROVE  Inv'
<1> PICK k : k = Memory
  OBVIOUS
<1>1. Sound(k) /\ WordsOK(k) /\ k.status = "running" /\ "code" \in Names
  BY Running DEF Names
<1>2. arrays' = m.arrays /\ status' = m.status
  BY DEF Becomes
<1>3. k.arrays["code"].count \in Nat
  BY <1>1, ArraysAre
<1>4. CASE k.arrays["code"].count = 0
  <2>1. MemoryOK(m) /\ m.status = "aborted" /\ m.arrays = k.arrays
    BY <1>1, <1>4, PopOK
  <2>2. Kept(m)
    BY <1>1, <2>1 DEF Kept, WordsOK, Statuses
  <2>3. FailuresKnown'
    BY <1>2, <1>4, <2>1 DEF FailuresKnown, Code
  <2> QED BY <2>2, <2>3, KeptNext DEF Inv
<1>5. CASE k.arrays["code"].count > 0
  <2>1. /\ Did(k, m, "code", Front(k.arrays["code"].cells)) /\ Goes(k, m)
        /\ m.arrays["code"].at # Nowhere
    BY <1>1, <1>5, PopOK
  <2>2. m.status \in Statuses
    BY <1>1, <2>1 DEF Goes, Statuses
  <2>3. Kept(m)
    BY <1>1, <2>1, <2>2, DidKept
  <2>4. FailuresKnown'
    BY <1>1, <2>1, GoesKnown
  <2> QED BY <2>3, <2>4, KeptNext DEF Inv
<1> QED BY <1>3, <1>4, <1>5

\* clear
LEMMA ClearKeeps ==
  ASSUME Inv, status = "running", NEW m, m = Clear(Memory, "code"), Becomes(m),
         doing' = doing
  PROVE  Inv'
<1> PICK k : k = Memory
  OBVIOUS
<1>1. Sound(k) /\ WordsOK(k) /\ k.status = "running" /\ "code" \in Names
  BY Running DEF Names
<1>2. /\ Did(k, m, "code", << >>) /\ m.arrays["code"].count = 0
      /\ m.status = "running"
  BY <1>1, ClearOK
<1>3. Kept(m)
  BY <1>1, <1>2, DidKept DEF Statuses
<1>4. FailuresKnown'
  BY <1>1, <1>2, GoesKnown DEF Goes
<1> QED BY <1>3, <1>4, KeptNext DEF Inv

\* insert_before and insert_after abort behind the end.
LEMMA InsertKeeps ==
  ASSUME Inv, status = "running", NEW i \in Nat, NEW at \in {i, i + 1},
         NEW v \in Vals, NEW m, m = Insert(Memory, "code", i, at, v), Becomes(m),
         call'.op \in {"insert_before", "insert_after"}, call'.index = i,
         doing' = doing
  PROVE  Inv'
<1> PICK k : k = Memory
  OBVIOUS
<1>1. /\ Sound(k) /\ WordsOK(k) /\ k.status = "running" /\ "code" \in Names
      /\ v \in Cell
  BY Running DEF Names, Cell
<1>2. arrays' = m.arrays /\ status' = m.status
  BY DEF Becomes
<1>3. k.arrays["code"].count \in Nat /\ Inserts(k, m, "code", i, at, v)
  <2>1. Inserts(k, m, "code", i, at, v)
    BY <1>1, InsertOK
  <2> QED BY <1>1, <2>1, ArraysAre
<1>4. CASE i >= k.arrays["code"].count
  <2>1. /\ Did(k, m, "code", m.arrays["code"].cells) /\ m.status = "aborted"
        /\ m.arrays["code"].count = k.arrays["code"].count
    BY <1>3, <1>4 DEF Inserts
  <2>2. Kept(m)
    BY <1>1, <2>1, DidKept DEF Statuses
  <2>3. FailuresKnown'
    BY <1>2, <1>4, <2>1 DEF FailuresKnown, Code
  <2> QED BY <2>2, <2>3, KeptNext DEF Inv
<1>5. CASE i < k.arrays["code"].count
  <2>1. /\ Did(k, m, "code", m.arrays["code"].cells) /\ Goes(k, m)
        /\ m.arrays["code"].at # Nowhere
    BY <1>3, <1>5 DEF Inserts
  <2>2. m.status \in Statuses
    BY <1>1, <2>1 DEF Goes, Statuses
  <2>3. Kept(m)
    BY <1>1, <2>1, <2>2, DidKept
  <2>4. FailuresKnown'
    BY <1>1, <2>1, GoesKnown
  <2> QED BY <2>3, <2>4, KeptNext DEF Inv
<1> QED BY <1>3, <1>4, <1>5

\* extend_before and extend_after fail where the code was never allocated and
\* where there is a gap.
LEMMA ExtendKeeps ==
  ASSUME Inv, status = "running", NEW i \in Nat, i <= Code.count,
         NEW at \in {i, i + 1},
         NEW m, m = ExtendAt(Memory, "code", at, Memory.arrays["other"].cells),
         Becomes(m), call'.index = i, doing' = doing,
         call'.op = IF at = i THEN "extend_before" ELSE "extend_after"
  PROVE  Inv'
<1> PICK k : k = Memory
  OBVIOUS
<1> DEFINE b == k.arrays["other"].cells
           n == k.arrays["code"].count
<1>1. /\ Sound(k) /\ WordsOK(k) /\ k.status = "running"
      /\ "code" \in Names /\ "other" \in Names /\ i <= n
  BY Running DEF Names
<1>2. arrays' = m.arrays /\ status' = m.status
  BY DEF Becomes
<1>3. n \in Nat /\ b \in Seq(Cell) /\ Len(b) = k.arrays["other"].count
  BY <1>1, ArraysAre
<1>4. m = ExtendAt(k, "code", at, b) /\ at \in 0 .. k.arrays["code"].count + 1
  BY <1>1, <1>3
<1> HIDE DEF b
<1>5. Extends(k, m, "code", at, b)
  BY <1>1, <1>3, <1>4, ExtendAtOK
<1>6. Kept(m)
  <2>1. m.status \in Statuses
    BY <1>5 DEF Extends, Statuses
  <2> QED BY <1>1, <1>5, <2>1, DidKept DEF Extends
<1>7. CASE Goes(k, m)
  BY <1>1, <1>6, <1>7, GoesKnown, KeptNext DEF Inv
<1>8. CASE m.arrays["code"].at = Nowhere
  <2>1. Unallocated'
    BY <1>2, <1>8 DEF Unallocated, Code
  <2>2. FailuresKnown'
    BY <1>2, <1>5, <2>1 DEF FailuresKnown, Extends
  <2> QED BY <1>6, <2>2, KeptNext DEF Inv
<1>9. CASE /\ at > n
           /\ m.arrays["code"].count = n + Len(b)
  <2>1. i = n /\ at # i
    BY <1>1, <1>3, <1>9
  <2>2. m.arrays["other"] = k.arrays["other"]
    BY <1>1, <1>5 DEF Extends, Did
  <2>3. GapMade'
    BY <1>2, <1>3, <1>9, <2>1, <2>2 DEF GapMade, Code, Other
  <2>4. FailuresKnown'
    BY <1>2, <1>5, <2>3 DEF FailuresKnown, Extends
  <2> QED BY <1>6, <2>4, KeptNext DEF Inv
<1> QED BY <1>5, <1>7, <1>8, <1>9 DEF Extends

\* unordered_remove and ordered_remove
LEMMA RemoveKeeps ==
  ASSUME Inv, status = "running", NEW i \in Nat, NEW m,
         \/ m = UnorderedRemove(Memory, "code", i)
         \/ m = OrderedRemove(Memory, "code", i),
         Becomes(m), doing' = doing
  PROVE  Inv'
<1> PICK k : k = Memory
  OBVIOUS
<1>1. Sound(k) /\ WordsOK(k) /\ k.status = "running" /\ "code" \in Names
  BY Running DEF Names
<1>2. k.arrays["code"].count \in Nat
  BY <1>1, ArraysAre
<1>3. CASE i >= k.arrays["code"].count
  <2>1. m = k
    BY <1>1, <1>3, UnorderedRemoveOK, OrderedRemoveOK
  <2> QED BY <1>1, <2>1, GoesKnown, KeptNext DEF Inv, Goes
<1>4. CASE i < k.arrays["code"].count
  <2>1. /\ Did(k, m, "code", m.arrays["code"].cells) /\ Goes(k, m)
        /\ m.arrays["code"].at # Nowhere
    BY <1>1, <1>4, UnorderedRemoveOK, OrderedRemoveOK
  <2>2. m.status \in Statuses
    BY <1>1, <2>1 DEF Goes, Statuses
  <2>3. Kept(m)
    BY <1>1, <2>1, <2>2, DidKept
  <2>4. FailuresKnown'
    BY <1>1, <2>1, GoesKnown
  <2> QED BY <2>3, <2>4, KeptNext DEF Inv
<1> QED BY <1>2, <1>3, <1>4

\* The other array is given up.
LEMMA RenewKeeps ==
  ASSUME Inv, status = "running", NEW m, m = Renewed(Memory, "other"),
         Becomes(m), doing' = doing
  PROVE  Inv'
<1> PICK k : k = Memory
  OBVIOUS
<1>1. /\ Sound(k) /\ WordsOK(k) /\ k.status = "running" /\ "other" \in Names
      /\ MemoryOK(k) /\ k.blocks # << >>
  BY Running DEF Names, Sound
<1>2. /\ MemoryOK(m) /\ m.blocks = k.blocks /\ m.status = k.status
      /\ \A y \in Names \ {"other"} : m.arrays[y] = k.arrays[y]
      /\ m.arrays["other"].allocator = k.arrays["other"].allocator
      /\ m.arrays["other"].count = 0
  BY <1>1, RenewedOK
<1>3. Did(k, m, "other", m.arrays["other"].cells)
  BY <1>1, <1>2 DEF Did
<1>4. Kept(m)
  BY <1>1, <1>2, <1>3, DidKept DEF Statuses
<1> QED BY <1>1, <1>2, <1>4, GoesKnown, KeptNext DEF Inv, Goes

\* The arena serves others.
LEMMA RequestKeeps ==
  ASSUME Inv, NEW n \in Nat, Request(n), doing' = doing
  PROVE  Inv'
<1> PICK k : k = Memory
  OBVIOUS
<1> DEFINE q == ArenaAlloc(k, n)
<1>1. PICK m : m = IF ArenaPointer(k, n).offset + n <= BlockSize THEN q
                   ELSE Fails(q, "undefined")
  OBVIOUS
<1>2. Becomes(m) /\ status = "running"
  BY <1>1 DEF Request
<1>3. Sound(k) /\ WordsOK(k) /\ k.status = "running"
  BY <1>2, Running
<1>4. Kept(m) /\ Goes(k, m)
  BY <1>1, <1>3, RequestKept
<1> QED BY <1>2, <1>3, <1>4, GoesKnown, KeptNext DEF Inv

\* Everything is given up.
LEMMA EndKeeps ==
  ASSUME Inv, End, doing' = doing
  PROVE  Inv'
<1> PICK k : k = Memory
  OBVIOUS
<1>1. PICK m : m = Fails(DeleteArena(Renewed(Renewed(Renewed(k, "code"),
                                     "other"), "words")), "ended")
  OBVIOUS
<1>2. Becomes(m) /\ status = "running"
  BY <1>1 DEF End
<1>3. Sound(k)
  BY <1>2, Running
<1>4. Kept(m) /\ m.status = "ended"
  BY <1>1, <1>3, EndKept
<1>5. FailuresKnown'
  BY <1>2, <1>4 DEF FailuresKnown, Becomes
<1> QED BY <1>2, <1>4, <1>5, KeptNext DEF Inv

\* A question leaves memory alone.
LEMMA AskKeeps ==
  ASSUME Inv, status = "running", Becomes(Memory), doing' \in Doings
  PROVE  Inv'
<1> PICK k : k = Memory
  OBVIOUS
<1>1. Kept(k) /\ k.status = "running" /\ Becomes(k)
  BY Running DEF Inv
<1> QED BY <1>1, GoesKnown, KeptNext DEF Goes

\* Every use of the arrays keeps the invariant.
LEMMA ArraysKeep ==
  ASSUME Inv, ArraysNext, doing' = doing
  PROVE  Inv'
<1>0. /\ Memory.arrays["other"] = Other /\ Memory.arrays["code"] = Code
      /\ doing' \in Doings
  BY DEF Memory, Code, Other, Inv
<1>1. ASSUME NEW v \in Vals, DoPush(v)
      PROVE  Inv'
  BY <1>1, PushKeeps DEF DoPush, Does
<1>2. ASSUME NEW v \in Vals, DoIndexOf(v)
      PROVE  Inv'
  BY <1>0, <1>2, AskKeeps DEF DoIndexOf, Answers
<1>3. ASSUME NEW v \in Vals, Fill(v)
      PROVE  Inv'
  BY <1>3, PushKeeps DEF Fill, Does
<1>4. CASE DoPop
  BY <1>4, PopKeeps DEF DoPop, Answers, Told
<1>5. CASE DoDrop
  BY <1>5, PopKeeps DEF DoDrop, Does, Told
<1>6. CASE DoClear
  BY <1>6, ClearKeeps DEF DoClear, Does
<1>7. CASE Renew
  BY <1>7, RenewKeeps DEF Renew, Does
<1>8. CASE End
  BY <1>8, EndKeeps
<1>9. ASSUME NEW i \in Indices, DoExtend(i)
      PROVE  Inv'
  <2>1. status = "running"
    BY <1>9 DEF DoExtend, Does
  <2>2. Code.count \in Nat
    BY <1>0, <2>1, Running, ArraysAre DEF Names
  <2>3. i \in Nat /\ i <= Code.count
    BY <2>2 DEF Indices
  <2>4. CASE Does("extend_before", i, 0, ExtendBefore(Memory, "code", i, "other"))
    <3>1. PICK m : m = ExtendAt(Memory, "code", i, Memory.arrays["other"].cells)
      OBVIOUS
    <3>2. Becomes(m) /\ call'.index = i /\ call'.op = "extend_before"
      BY <2>4, <3>1 DEF Does, Told, ExtendBefore
    <3> QED BY <2>1, <2>3, <3>1, <3>2, ExtendKeeps
  <2>5. CASE Does("extend_after", i, 0, ExtendAfter(Memory, "code", i, "other"))
    <3>1. PICK m :
            m = ExtendAt(Memory, "code", i + 1, Memory.arrays["other"].cells)
      OBVIOUS
    <3>2. Becomes(m) /\ call'.index = i /\ call'.op = "extend_after"
      BY <2>5, <3>1 DEF Does, Told, ExtendAfter
    <3>3. PICK at : at = i + 1
      OBVIOUS
    <3>4. at \in {i, i + 1} /\ at # i
      BY <2>3, <3>3
    <3> QED BY <2>1, <2>3, <3>1, <3>2, <3>3, <3>4, ExtendKeeps
  <2> QED BY <1>9, <2>4, <2>5 DEF DoExtend
<1>10. ASSUME NEW i \in Indices, DoRemove(i)
       PROVE  Inv'
  <2>1. status = "running"
    BY <1>10 DEF DoRemove, Answers
  <2>2. Code.count \in Nat
    BY <1>0, <2>1, Running, ArraysAre DEF Names
  <2>3. i \in Nat
    BY <2>2 DEF Indices
  <2> QED BY <1>10, <2>1, <2>3, RemoveKeeps DEF DoRemove, Answers
<1>11. ASSUME NEW i \in Indices, NEW v \in Vals, DoInsert(i, v)
       PROVE  Inv'
  <2>1. status = "running"
    BY <1>11 DEF DoInsert, Does
  <2>2. Code.count \in Nat
    BY <1>0, <2>1, Running, ArraysAre DEF Names
  <2>3. i \in Nat
    BY <2>2 DEF Indices
  <2>4. CASE Does("insert_before", i, v, InsertBefore(Memory, "code", i, v))
    <3>1. PICK m : m = Insert(Memory, "code", i, i, v)
      OBVIOUS
    <3>2. Becomes(m) /\ call'.index = i /\ call'.op = "insert_before"
      BY <2>4, <3>1 DEF Does, Told, InsertBefore
    <3> QED BY <2>1, <2>3, <3>1, <3>2, InsertKeeps
  <2>5. CASE Does("insert_after", i, v, InsertAfter(Memory, "code", i, v))
    <3>1. PICK m : m = Insert(Memory, "code", i, i + 1, v)
      OBVIOUS
    <3>2. Becomes(m) /\ call'.index = i /\ call'.op = "insert_after"
      BY <2>5, <3>1 DEF Does, Told, InsertAfter
    <3> QED BY <2>1, <2>3, <3>1, <3>2, InsertKeeps
  <2> QED BY <1>11, <2>4, <2>5 DEF DoInsert
<1>12. ASSUME NEW n \in Requests, Request(n)
       PROVE  Inv'
  BY <1>12, RequestKeeps, RequestsAssumption
<1> QED BY <1>1, <1>2, <1>3, <1>4, <1>5, <1>6, <1>7, <1>8, <1>9, <1>10, <1>11,
           <1>12 DEF ArraysNext

\* ensure's next word is empty.
LEMMA EnsureKeeps ==
  ASSUME Inv, Ensure
  PROVE  Inv' /\ (Words.cells)' = Append(Words.cells, {})
<1> PICK k : k = Memory
  OBVIOUS
<1> DEFINE e == {}
<1>1. PICK m : m = Push(k, "words", e)
  OBVIOUS
<1>2. Becomes(m) /\ status = "running" /\ doing' = doing
  BY <1>1 DEF Ensure
<1>3. /\ Sound(k) /\ WordsOK(k) /\ k.status = "running" /\ "words" \in Names
  BY <1>2, Running DEF Names
<1>4. e \in Cell /\ e \in SUBSET (0 .. WordSize - 1)
  BY DEF Cell
<1> HIDE DEF e
<1> DEFINE s == k.arrays["words"].cells
           t == Append(s, e)
<1>5. /\ Did(k, m, "words", t) /\ Goes(k, m) /\ m.arrays["words"].at # Nowhere
  BY <1>1, <1>3, <1>4, PushOK
<1>6. s \in Seq(Cell) /\ Len(s) \in Nat
  <2>1. s \in Seq(Cell)
    BY <1>3, ArraysAre
  <2> QED BY <2>1, LenProperties
<1>7. WordsOK(m)
  <2>1. /\ Len(t) = Len(s) + 1 /\ \A i \in 1 .. Len(s) : t[i] = s[i]
        /\ t[Len(s) + 1] = e
    BY <1>4, <1>6, AppendProperties
  <2>2. \A i \in 1 .. Len(s) + 1 : i \in 1 .. Len(s) \/ i = Len(s) + 1
    BY <1>6
  <2>3. m.arrays["words"].cells = t
    BY <1>5 DEF Did
  <2> HIDE DEF t
  <2> QED BY <1>3, <1>4, <2>1, <2>2, <2>3 DEF WordsOK
<1>8. Kept(m)
  <2>1. m.status = "running" => Sound(m)
    BY <1>3, <1>5 DEF Did, Sound, Names
  <2>2. m.status \in Statuses
    BY <1>3, <1>5 DEF Goes, Statuses
  <2> QED BY <1>5, <1>7, <2>1, <2>2 DEF Kept, Did
<1>9. FailuresKnown'
  BY <1>2, <1>3, <1>5, GoesKnown
<1>10. Inv'
  BY <1>2, <1>8, <1>9, KeptNext DEF Inv
<1>11. (Words.cells)' = t
  BY <1>2, <1>5 DEF Becomes, Did, Words
<1>12. t = Append(Words.cells, {})
  BY <1>2, Running DEF e
<1> QED BY <1>10, <1>11, <1>12

\* The word and the bit that a call is at.
LEMMA EnsuredIs ==
  ASSUME Inv, Ensured
  PROVE  /\ WordOf(doing.n) \in Nat /\ WordOf(doing.n) + 1 <= Words.count
         /\ Words.count \in Nat /\ Len(Words.cells) = Words.count
         /\ Words.cells \in Seq(Cell) /\ Words.at # Nowhere
         /\ Words.count <= Words.size
         /\ Bit \in 0 .. WordSize - 1 /\ Word \in SUBSET (0 .. WordSize - 1)
         /\ doing.n \in Nat /\ status = "running"
<1>1. status = "running" /\ ~Missing(doing.n) /\ doing.n \in Nat
  BY DEF Ensured, Inv, Doings
<1>2. /\ Sound(Memory) /\ WordsOK(Memory) /\ Words = Memory.arrays["words"]
  BY <1>1, Running
<1>3. IsArray(Words) /\ (Words.at = Nowhere => Words.count = 0)
  BY <1>2 DEF Sound, MemoryOK, IsMemory, Names
<1>4. /\ Words.count \in Nat /\ Len(Words.cells) = Words.count
      /\ Words.cells \in Seq(Cell) /\ Words.count <= Words.size
  BY <1>3 DEF IsArray
<1>5. WordOf(doing.n) \in Nat /\ Bit \in 0 .. WordSize - 1
  BY <1>1, BitsetAssumption DEF WordOf, Bit, BitOf
<1>6. WordOf(doing.n) + 1 <= Words.count
  BY <1>1, <1>4, <1>5 DEF Missing
<1>7. Word \in SUBSET (0 .. WordSize - 1)
  <2>1. WordOf(doing.n) + 1 \in 1 .. Len(Words.cells)
    BY <1>4, <1>5, <1>6
  <2> QED BY <1>2, <2>1 DEF WordsOK, Word
<1> QED BY <1>1, <1>3, <1>4, <1>5, <1>6, <1>7

\* A call that only reads returns.
LEMMA AnswerKeeps ==
  ASSUME Inv, Ensured, NEW m,
         m = Touched(Memory, "words", WordOf(doing.n) + 1), Becomes(m),
         doing' \in Doings
  PROVE  Inv' /\ arrays' = arrays
<1> PICK k : k = Memory
  OBVIOUS
<1> DEFINE n == WordOf(doing.n) + 1
<1>1. /\ Sound(k) /\ Kept(k) /\ WordsOK(k) /\ k.status = "running"
      /\ MemoryOK(k) /\ "words" \in Names /\ k.arrays = arrays
      /\ k.arrays["words"] = Words
  BY Running, EnsuredIs DEF Names, Inv
<1>2. n \in Nat /\ n <= Words.size /\ Words.at # Nowhere
  <2>1. Words.size \in Nat
    BY <1>1 DEF MemoryOK, IsMemory, IsArray
  <2> QED BY <2>1, EnsuredIs
<1> HIDE DEF n
<1>3. /\ MemoryOK(m) /\ m.blocks = k.blocks
      /\ m.arrays = k.arrays /\ Goes(k, m)
  <2>1. n <= k.arrays["words"].size /\ k.arrays["words"].at # Nowhere
    BY <1>1, <1>2
  <2>2. m = Touched(k, "words", n)
    BY DEF n
  <2> QED BY <1>1, <1>2, <2>1, <2>2, TouchedOK
<1>4. Kept(m)
  BY <1>1, <1>3 DEF Kept, Goes, WordsOK, Statuses, Sound
<1>5. FailuresKnown'
  BY <1>1, <1>3, GoesKnown
<1> QED BY <1>1, <1>3, <1>4, <1>5, KeptNext DEF Becomes

\* One cell of array x is rewritten.
Rewritten(k, x, i, w) == [k EXCEPT !.arrays[x].cells[i] = w]

\* The array then holds its cells, but for that one.
Rewrites(k, x, i, w, c) ==
  /\ Rewritten(k, x, i, w) = Filled(k, x, c)
  /\ c \in Seq(Cell) /\ Len(c) = k.arrays[x].count
  /\ \A j \in 1 .. Len(c) : c[j] = IF j = i THEN w ELSE k.arrays[x].cells[j]

\* It is the array filled with its cells, but for that one.
LEMMA RewrittenIs ==
  ASSUME NEW k, MemoryOK(k), NEW x \in Names, NEW i \in 1 .. k.arrays[x].count,
         NEW w \in Cell, NEW c, c = [k.arrays[x].cells EXCEPT ![i] = w]
  PROVE  Rewrites(k, x, i, w, c)
<1> DEFINE a == k.arrays[x]
<1>1. IsArray(a)
  BY DEF MemoryOK, IsMemory
<1>2. /\ a.cells \in Seq(Cell) /\ Len(a.cells) = a.count
      /\ a = [allocator |-> a.allocator, size |-> a.size, count |-> a.count,
              at |-> a.at, cells |-> a.cells]
  BY <1>1 DEF IsArray
<1>3. /\ c \in Seq(Cell) /\ Len(c) = Len(a.cells)
      /\ \A j \in 1 .. Len(a.cells) : c[j] = IF j = i THEN w ELSE a.cells[j]
  BY <1>2, ExceptSeq
<1>4. PICK d : d = a
  OBVIOUS
<1>5. [d EXCEPT !.cells = c] = [d EXCEPT !.cells = c, !.count = Len(c)]
  BY <1>2, <1>3, <1>4
<1>6. [k EXCEPT !.arrays[x].cells[i] = w]
        = [k EXCEPT !.arrays[x] = [d EXCEPT !.cells = c]]
  BY <1>4
<1>7. Filled(k, x, c)
        = [k EXCEPT !.arrays[x] = [d EXCEPT !.cells = c, !.count = Len(c)]]
  BY <1>4 DEF Filled
<1> QED BY <1>2, <1>3, <1>5, <1>6, <1>7 DEF Rewritten, Rewrites

\* A call that rewrites the word returns.
LEMMA RewriteKeeps ==
  ASSUME Inv, Ensured, NEW word \in SUBSET (0 .. WordSize - 1), Rewrite(word)
  PROVE  /\ Inv'
         /\ (Words.cells)' = [Words.cells EXCEPT ![WordOf(doing.n) + 1] = word]
<1> PICK k : k = Memory
  OBVIOUS
<1> PICK n : n = WordOf(doing.n) + 1
  OBVIOUS
<1> DEFINE c == [k.arrays["words"].cells EXCEPT ![n] = word]
           q == Rewritten(k, "words", n, word)
<1>1. PICK m : m = Touched(q, "words", n)
  OBVIOUS
<1>2. /\ Becomes(m) /\ status = "running" /\ doing' = Idle
  <2>1. q = [Memory EXCEPT !.arrays.words.cells[WordOf(doing.n) + 1] = word]
    BY DEF Rewritten
  <2> QED BY <1>1, <2>1 DEF Rewrite, Return, Answers
<1>3. /\ Sound(k) /\ Kept(k) /\ WordsOK(k) /\ k.status = "running"
      /\ MemoryOK(k) /\ "words" \in Names /\ k.arrays["words"] = Words
  BY Running, EnsuredIs DEF Names, Inv
<1>4. n \in Nat /\ n \in 1 .. Words.count /\ n <= Words.size /\ Words.at # Nowhere
  <2>1. Words.size \in Nat
    BY <1>3 DEF MemoryOK, IsMemory, IsArray
  <2> QED BY <2>1, EnsuredIs
<1>5. word \in Cell
  BY DEF Cell
<1>6. /\ q = Filled(k, "words", c) /\ c \in Seq(Cell)
      /\ Len(c) = Words.count
      /\ \A j \in 1 .. Len(c) : c[j] = IF j = n THEN word ELSE Words.cells[j]
  <2>1. n \in 1 .. k.arrays["words"].count
    BY <1>3, <1>4
  <2>2. PICK d : d = c
    OBVIOUS
  <2>3. d = [k.arrays["words"].cells EXCEPT ![n] = word]
    BY <2>2
  <2> HIDE DEF c
  <2>4. Rewrites(k, "words", n, word, d)
    BY <1>3, <1>5, <2>1, <2>3, RewrittenIs
  <2> QED BY <1>3, <2>2, <2>4 DEF Rewrites
<1> HIDE DEF c, q
<1>7. m = Touched(Filled(k, "words", c), "words", n)
  BY <1>1, <1>6
<1>8. /\ Ready(k, k, "words") /\ Len(c) <= k.arrays["words"].size
      /\ n <= k.arrays["words"].size /\ k.arrays["words"].at # Nowhere
  BY <1>3, <1>4, <1>6, EnsuredIs, ReadyItself
<1>9. Wrote(k, k, m, "words", c)
  BY <1>3, <1>4, <1>6, <1>7, <1>8, Written
<1>10. Goes(k, m)
  BY <1>3, <1>4, <1>6, <1>7, <1>8, WrittenWithin
<1>11. Kept(m)
  <2>1. MemoryOK(m) /\ m.arrays["words"].cells = c /\ m.status \in Statuses
    BY <1>9 DEF Wrote, Did, Statuses
  <2>2. WordsOK(m)
    BY <1>3, <1>6, <2>1, EnsuredIs DEF WordsOK
  <2>3. m.status = "running" => Sound(m)
    BY <1>3, <1>8, <1>9 DEF Wrote, Did, Sound, Names
  <2> QED BY <2>1, <2>2, <2>3 DEF Kept
<1>12. FailuresKnown'
  BY <1>2, <1>3, <1>10, GoesKnown
<1>13. doing' \in Doings
  BY <1>2 DEF Idle, Doings
<1>14. Inv'
  BY <1>2, <1>11, <1>12, <1>13, KeptNext
<1>15. (Words.cells)' = c
  BY <1>2, <1>9 DEF Becomes, Wrote, Did, Words
<1>16. c = [Words.cells EXCEPT ![WordOf(doing.n) + 1] = word]
  BY <1>3 DEF c
<1> QED BY <1>14, <1>15, <1>16

\* Every call of a bitset keeps the invariant.
LEMMA BitsetKeeps ==
  ASSUME Inv, BitsetNext
  PROVE  Inv'
<1>1. Idle \in Doings
  BY DEF Idle, Doings
<1>2. ASSUME NEW op \in Operations, NEW n \in Bits, Begin(op, n)
      PROVE  Inv'
  <2>1. doing' = [op |-> op, start |-> n, n |-> n] /\ n \in Nat
    BY <1>2, BitsetAssumption DEF Begin
  <2>2. doing' \in Doings
    BY <2>1 DEF Doings
  <2>3. UNCHANGED arraysVars
    BY <1>2 DEF Begin
  <2>4. Kept(Memory') /\ FailuresKnown'
    <3>1. Memory' = Memory
      BY <2>3 DEF Memory, arraysVars
    <3>2. FailuresKnown'
      BY <2>3 DEF Inv, FailuresKnown, arraysVars, Overrun, Unallocated, GapMade,
                  Code, Other
    <3> QED BY <3>1, <3>2 DEF Inv
  <2> QED BY <2>2, <2>4 DEF Inv
<1>3. CASE Ensure
  BY <1>3, EnsureKeeps
<1>4. CASE SetBit
  BY <1>4, RewriteKeeps, EnsuredIs DEF SetBit
<1>5. CASE ClearBit
  BY <1>5, RewriteKeeps, EnsuredIs DEF ClearBit
<1>6. CASE ToggleBit
  BY <1>6, RewriteKeeps, EnsuredIs DEF ToggleBit
<1>7. CASE GetBit
  BY <1>1, <1>7, AnswerKeeps DEF GetBit, Return, Answers
<1>8. CASE Find
  BY <1>1, <1>8, AnswerKeeps DEF Find, Searching, Return, Answers
<1>9. CASE LookFurther
  <2>1. UNCHANGED arraysVars /\ doing' = [doing EXCEPT !.n = @ + 1]
        /\ doing \in Doings
    BY <1>9 DEF LookFurther, Inv
  <2>2. doing' \in Doings
    BY <2>1 DEF Doings
  <2>4. Kept(Memory') /\ FailuresKnown'
    <3>1. Memory' = Memory
      BY <2>1 DEF Memory, arraysVars
    <3>2. FailuresKnown'
      BY <2>1 DEF Inv, FailuresKnown, arraysVars, Overrun, Unallocated, GapMade,
                  Code, Other
    <3> QED BY <3>1, <3>2 DEF Inv
  <2> QED BY <2>2, <2>4 DEF Inv
<1>10. CASE BitsSet
  BY <1>10, AskKeeps DEF BitsSet, Answers, Inv
<1> QED BY <1>2, <1>3, <1>4, <1>5, <1>6, <1>7, <1>8, <1>9, <1>10
        DEF BitsetNext, Perform

\* An arena with its first block, and arrays without memory.
LEMMA InitKeeps ==
  ASSUME Init
  PROVE  Inv
<1>1. PICK a \in {"arena", "cstdlib"}, b \in {"arena", "cstdlib"} :
        arrays = [code |-> NewArray(a), other |-> NewArray(b),
                  words |-> NewArray("cstdlib")]
  BY DEF Init, ArraysInit
<1>2. /\ arrays = [x \in Names |-> arrays[x]]
      /\ arrays["code"] = NewArray(a) /\ arrays["other"] = NewArray(b)
      /\ arrays["words"] = NewArray("cstdlib")
  BY <1>1 DEF Names
<1>3. \A x \in Names : /\ IsArray(arrays[x]) /\ arrays[x].at = Nowhere
                       /\ arrays[x].count = 0 /\ arrays[x].cells = << >>
  <2>1. \A x \in Names : \E c \in {"arena", "cstdlib"} : arrays[x] = NewArray(c)
    BY <1>2 DEF Names
  <2> QED BY <2>1, NewIs
<1> PICK m : m = [live |-> << >>, blocks |-> << >>, arrays |-> arrays,
                  status |-> "running"]
  OBVIOUS
<1>4. /\ m.live = << >> /\ m.blocks = << >> /\ m.arrays = arrays
      /\ m.status = "running"
      /\ m = [live |-> m.live, blocks |-> m.blocks, arrays |-> m.arrays,
              status |-> m.status]
  OBVIOUS
<1>5. /\ m.live \in Seq(Address) /\ DOMAIN m.live = {}
      /\ m.blocks \in Seq(Block) /\ DOMAIN m.blocks = {} /\ Len(m.blocks) = 0
  BY <1>4, EmptySeq
<1>6. IsMemory(m)
  BY <1>2, <1>3, <1>4, <1>5 DEF IsMemory, Shaped, IsLive, IsInjective
<1>7. \A x \in Names : ~OnHeap(m.arrays[x]) /\ ~InArena(m.arrays[x])
  BY <1>3, <1>4 DEF OnHeap, InArena
<1>8. HeldBy(m) = {} /\ Range(m.live) = {}
  <2>1. {x \in Names : OnHeap(m.arrays[x])} = {}
    BY <1>7
  <2> QED BY <1>5, <2>1 DEF HeldBy, Range
<1>9. MemoryOK(m)
  BY <1>5, <1>6, <1>7, <1>8 DEF MemoryOK, OwnMemory, OwnRegions
<1> PICK r : r = AddBlock(m)
  OBVIOUS
<1>10. /\ MemoryOK(r) /\ r.arrays = m.arrays /\ r.status = m.status
       /\ Len(r.blocks) = Len(m.blocks) + 1
  BY <1>9, AddBlockOK
<1>11. Memory = r
  <2>1. PICK e : e = [live |-> << >>, blocks |-> << >>]
    OBVIOUS
  <2>2. live = AddBlock(e).live /\ blocks = AddBlock(e).blocks
        /\ status = "running"
    BY <2>1 DEF Init, ArraysInit
  <2>3. AddBlock(e).live = r.live /\ AddBlock(e).blocks = r.blocks
    BY <1>4, <2>1 DEF AddBlock
  <2>4. r = [live |-> r.live, blocks |-> r.blocks, arrays |-> r.arrays,
             status |-> r.status]
    BY <1>10 DEF MemoryOK, IsMemory, Shaped
  <2> QED BY <1>4, <1>10, <2>2, <2>3, <2>4 DEF Memory
<1>12. r.blocks # << >>
  <2>1. Len(r.blocks) = 1
    BY <1>5, <1>10
  <2> QED BY <2>1, EmptySeq
<1>13. Sound(r)
  BY <1>3, <1>4, <1>10, <1>12 DEF Sound
<1>14. WordsOK(r)
  <2>1. Len(r.arrays["words"].cells) = 0
    BY <1>3, <1>4, <1>10, EmptySeq DEF Names
  <2> QED BY <2>1 DEF WordsOK
<1>15. Kept(Memory)
  BY <1>10, <1>11, <1>13, <1>14 DEF Kept, Sound, Statuses
<1>16. FailuresKnown
  BY DEF Init, ArraysInit, FailuresKnown
<1>17. doing \in Doings
  BY DEF Init, Idle, Doings
<1> QED BY <1>15, <1>16, <1>17 DEF Inv

\* No step of the program or of the tests breaks the invariant.
LEMMA NextKeeps ==
  ASSUME Inv, [Next]_vars
  PROVE  Inv'
<1>1. CASE UNCHANGED vars
  <2>1. UNCHANGED <<arraysVars, doing>>
    BY <1>1 DEF vars
  <2>2. Memory' = Memory /\ doing' = doing
    BY <2>1 DEF Memory, arraysVars
  <2>3. FailuresKnown'
    BY <2>1 DEF Inv, FailuresKnown, arraysVars, Overrun, Unallocated, GapMade,
                Code, Other
  <2> QED BY <2>2, <2>3 DEF Inv
<1>2. CASE user = "program" /\ ArraysNext /\ UNCHANGED doing
  BY <1>2, ArraysKeep
<1>3. CASE user = "test" /\ BitsetNext
  BY <1>3, BitsetKeeps
<1> QED BY <1>1, <1>2, <1>3 DEF Next

\* Memory is kept, whatever the arrays are used for.
THEOREM MemoryIsKept == Spec => []Inv
<1>1. Init => Inv
  BY InitKeeps
<1>2. Inv /\ [Next]_vars => Inv'
  BY NextKeeps
<1> QED BY <1>1, <1>2, PTL DEF Spec

\* What is known of memory, in the terms of the properties.
LEMMA MemoryIs ==
  ASSUME Inv
  PROVE  /\ MemoryOK(Memory) /\ Memory.blocks = blocks /\ Memory.live = live
         /\ Memory.arrays = arrays
         /\ arrays = [x \in Names |-> arrays[x]] /\ DOMAIN arrays = Names
         /\ Code = arrays["code"] /\ Other = arrays["other"]
         /\ Memory.status = status
<1>1. MemoryOK(Memory)
  BY DEF Inv, Kept
<1>2. /\ Memory.blocks = blocks /\ Memory.live = live /\ Memory.arrays = arrays
      /\ Memory.status = status
  BY DEF Memory
<1>3. arrays = [x \in Names |-> arrays[x]]
  BY <1>1, <1>2 DEF MemoryOK, IsMemory, Shaped
<1> QED BY <1>1, <1>2, <1>3 DEF Code, Other

\* The list of live allocations is what the arrays and the arena hold, each
\* once, after every call: nothing is leaked, and nothing is freed that is held
\* or freed twice.
THEOREM ListAlwaysExact == Spec => []ListExact
<1>1. Inv => ListExact
  <2> SUFFICES ASSUME Inv
               PROVE  ListExact
    OBVIOUS
  <2>1. IsInjective(live) /\ Range(live) = HeldBy(Memory)
    BY MemoryIs DEF MemoryOK, IsMemory, IsLive
  <2>2. Held = HeldBy(Memory)
    <3>1. Range(blocks) = {blocks[i] : i \in DOMAIN blocks}
      BY DEF Range
    <3>2. UNION {{b.self, b.data} : b \in Range(blocks)}
            = {blocks[i].self : i \in DOMAIN blocks}
                \cup {blocks[i].data : i \in DOMAIN blocks}
      BY <3>1
    <3>3. {a.at.base : a \in {c \in Range(arrays) :
                                c.allocator = "cstdlib" /\ c.at # Nowhere}}
            = {arrays[x].at.base : x \in {y \in Names : OnHeap(arrays[y])}}
      BY MemoryIs DEF Range, OnHeap
    <3>4. Held = ({blocks[i].self : i \in DOMAIN blocks}
                    \cup {blocks[i].data : i \in DOMAIN blocks})
                 \cup {arrays[x].at.base : x \in {y \in Names : OnHeap(arrays[y])}}
      <4> DEFINE F == UNION {{b.self, b.data} : b \in Range(blocks)}
                 G == {a.at.base : a \in {c \in Range(arrays) :
                                 c.allocator = "cstdlib" /\ c.at # Nowhere}}
      <4>1. Held = F \cup G
        BY DEF Held
      <4> HIDE DEF F, G
      <4>2. F = {blocks[i].self : i \in DOMAIN blocks}
                  \cup {blocks[i].data : i \in DOMAIN blocks}
        BY <3>2 DEF F
      <4>3. G = {arrays[x].at.base : x \in {y \in Names : OnHeap(arrays[y])}}
        BY <3>3 DEF G
      <4> QED BY <4>1, <4>2, <4>3
    <3>5. PICK k : k = Memory
      OBVIOUS
    <3>6. k.blocks = blocks /\ k.arrays = arrays
      BY <3>5, MemoryIs
    <3> QED BY <3>4, <3>5, <3>6 DEF HeldBy
  <2> QED BY <2>1, <2>2 DEF ListExact
<1> QED BY <1>1, MemoryIsKept, PTL

\* The two arrays never share memory of the arena, whatever is asked of it, and
\* lie within their blocks until a request runs over one (arena.cpp:28).
THEOREM RegionsAlwaysApart == Spec => []RegionsApart
<1>1. Inv => RegionsApart
  <2> SUFFICES ASSUME Inv
               PROVE  RegionsApart
    OBVIOUS
  <2>1. /\ OwnRegions(Memory) /\ Memory.arrays = arrays
        /\ \A x \in Names : IsArray(arrays[x])
        /\ Memory.blocks \in Seq(Block)
    BY MemoryIs DEF MemoryOK, IsMemory
  <2>2. ASSUME InArena(Code), InArena(Other), Code.at.base = Other.at.base
        PROVE  Extent(Code) \cap Extent(Other) = {}
    <3>1. EndsBefore(Code, Other.at.offset) \/ EndsBefore(Other, Code.at.offset)
      BY <2>1, <2>2, MemoryIs DEF OwnRegions, Names
    <3>2. IsArray(Code) /\ IsArray(Other)
      BY <2>1, MemoryIs DEF Names
    <3>3. /\ Code.size \in Nat /\ Other.size \in Nat
          /\ Code.at.offset \in Nat /\ Other.at.offset \in Nat
      BY <2>2, <3>2 DEF IsArray, InArena
    <3> QED BY <3>1, <3>3 DEF EndsBefore, Extent
  <2>3. ASSUME NEW x \in Names, InArena(arrays[x]), ~Overrun
        PROVE  Extent(arrays[x]) \subseteq 0 .. BlockSize - 1
    <3>1. PICK i \in DOMAIN blocks : EndsBefore(arrays[x], blocks[i].used)
      BY <2>1, <2>3, MemoryIs DEF OwnRegions
    <3>2. blocks[i].used \in Nat
      <4>1. blocks \in Seq(Block)
        BY <2>1, MemoryIs
      <4>2. blocks[i] \in Block
        BY <4>1, ElementOfSeq, LenProperties
      <4> QED BY <4>2 DEF Block
    <3>3. blocks[i].used <= BlockSize
      <4>1. blocks[i] \in Range(blocks)
        BY DEF Range
      <4> QED BY <2>3, <3>2, <4>1, ArenaAssumption DEF Overrun
    <3>4. arrays[x].size \in Nat /\ arrays[x].at.offset \in Nat
      BY <2>1, <2>3 DEF IsArray, InArena
    <3> QED BY <3>1, <3>2, <3>3, <3>4, ArenaAssumption DEF EndsBefore, Extent
  <2>4. \A a \in Range(arrays) : \E x \in Names : a = arrays[x]
    BY MemoryIs DEF Range
  <2> QED BY <2>2, <2>3, <2>4 DEF RegionsApart
<1> QED BY <1>1, MemoryIsKept, PTL

\* No access leaves the memory that is there and no assert fails, but for the
\* causes that are listed.
THEOREM FailuresAlwaysKnown == Spec => []FailuresKnown
<1>1. Inv => FailuresKnown
  BY DEF Inv
<1> QED BY <1>1, MemoryIsKept, PTL

-----------------------------------------------------------------------------
(* The code is a list.                                                     *)

\* What is spliced is the parts with what was put between them.
LEMMA SplicedIs ==
  ASSUME NEW s \in Seq(Cell), NEW k \in 0 .. Len(s), NEW e \in Seq(Cell),
         NEW t, Spliced(t, s, k, e)
  PROVE  t = SubSeq(s, 1, k) \o e \o SubSeq(s, k + 1, Len(s))
<1> DEFINE u == SubSeq(s, 1, k) \o e \o SubSeq(s, k + 1, Len(s))
<1>1. u \in Seq(Cell) /\ Parts(u, s, k, e)
  BY Between
<1>2. t \in Seq(Cell) /\ Parts(t, s, k, e)
  BY DEF Spliced
<1> HIDE DEF u
<1>3. t = u
  BY <1>1, <1>2, SameParts
<1> QED BY <1>3 DEF u

\* The last has taken the place of the one that is gone.
LEMMA LastAtIs ==
  ASSUME NEW s \in Seq(Cell), NEW k \in 1 .. Len(s), NEW t, LastAt(t, s, k)
  PROVE  t = Front([s EXCEPT ![k] = Last(s)])
<1> PICK r : r = [s EXCEPT ![k] = Last(s)]
  OBVIOUS
<1>1. Len(s) \in Nat /\ Len(s) - 1 \in 0 .. Len(s) /\ Last(s) = s[Len(s)]
      /\ Last(s) \in Cell
  BY LenProperties, ElementOfSeq DEF Last
<1>2. /\ r \in Seq(Cell) /\ Len(r) = Len(s)
      /\ \A i \in 1 .. Len(s) : r[i] = IF i = k THEN s[Len(s)] ELSE s[i]
  BY <1>1, ExceptSeq
<1>3. /\ Front(r) \in Seq(Cell) /\ Len(Front(r)) = Len(s) - 1
      /\ \A i \in 1 .. Len(s) - 1 : Front(r)[i] = r[i]
  BY <1>1, <1>2, Beginning DEF Front
<1>4. /\ t \in Seq(Cell) /\ Len(t) = Len(s) - 1
      /\ \A i \in 1 .. Len(s) - 1 : t[i] = IF i = k THEN s[Len(s)] ELSE s[i]
  BY DEF LastAt
<1>5. ASSUME NEW i \in 1 .. Len(t)
      PROVE  t[i] = Front(r)[i]
  <2>1. i \in 1 .. Len(s) /\ i \in 1 .. Len(s) - 1
    BY <1>1, <1>4
  <2> QED BY <1>2, <1>3, <1>4, <2>1
<1>6. t = Front(r)
  BY <1>3, <1>4, <1>5, SeqEqual
<1> QED BY <1>6

\* All behind the one that is gone have moved down.
LEMMA RemovedIs ==
  ASSUME NEW s \in Seq(Cell), NEW k \in 1 .. Len(s), NEW t, Removed(t, s, k)
  PROVE  t = RemoveAt(s, k)
<1> PICK u : u = RemoveAt(s, k)
  OBVIOUS
<1>1. Len(s) \in Nat
  BY LenProperties
<1>2. /\ u \in Seq(Cell) /\ Len(u) = Len(s) - 1
      /\ \A i \in 1 .. k - 1 : u[i] = s[i]
      /\ \A i \in k .. Len(s) - 1 : u[i] = s[i + 1]
  BY Without DEF RemoveAt
<1>3. /\ t \in Seq(Cell) /\ Len(t) = Len(s) - 1
      /\ \A i \in 1 .. Len(s) - 1 : t[i] = IF i < k THEN s[i] ELSE s[i + 1]
  BY DEF Removed
<1>4. \A i \in 1 .. Len(t) : t[i] = u[i]
  BY <1>1, <1>2, <1>3
<1> QED BY <1>2, <1>3, <1>4, SeqEqual

\* The first place where a value is found, or none.
LEMMA IndexOfIs ==
  ASSUME NEW a, IsArray(a), NEW v
  PROVE  /\ IndexOf(a, v) \in 0 .. Len(a.cells) \cup {-1}
         /\ \A j \in 0 .. Len(a.cells) :
              j < Len(a.cells) /\ a.cells[j + 1] = v
                => IndexOf(a, v) # -1 /\ IndexOf(a, v) <= j
         /\ IndexOf(a, v) # -1 =>
              /\ IndexOf(a, v) < Len(a.cells)
              /\ a.cells[IndexOf(a, v) + 1] = v
<1> DEFINE found == {i \in 1 .. a.count : a.cells[i] = v}
<1>1. a.count \in Nat /\ Len(a.cells) = a.count
  BY DEF IsArray
<1>2. CASE found = {}
  <2>1. IndexOf(a, v) = -1
    BY <1>2 DEF IndexOf
  <2>2. ASSUME NEW j \in 0 .. Len(a.cells), j < Len(a.cells),
               a.cells[j + 1] = v
        PROVE  FALSE
    <3>1. j + 1 \in 1 .. a.count
      BY <1>1, <2>2
    <3> QED BY <1>2, <2>2, <3>1
  <2> QED BY <2>1, <2>2
<1>3. CASE found # {}
  <2>1. PICK n : n = Min(found)
    OBVIOUS
  <2>2. n \in found /\ \A y \in found : n <= y
    <3>1. found \in SUBSET Nat
      BY <1>1
    <3> QED BY <1>3, <2>1, <3>1, MinOf
  <2>3. IndexOf(a, v) = n - 1
    BY <1>3, <2>1 DEF IndexOf
  <2>4. n \in 1 .. a.count /\ a.cells[n] = v /\ n - 1 # -1
    BY <1>1, <2>2
  <2>5. ASSUME NEW j \in 0 .. Len(a.cells), j < Len(a.cells),
               a.cells[j + 1] = v
        PROVE  n - 1 <= j
    <3>1. j + 1 \in found
      BY <1>1, <2>5
    <3>2. n <= j + 1
      BY <2>2, <3>1
    <3> QED BY <1>1, <2>4, <2>5, <3>2
  <2> HIDE DEF found
  <2> QED BY <1>1, <2>3, <2>4, <2>5
<1> QED BY <1>2, <1>3

\* What an operation on the code makes of the lists.
LEMMA CodeBecomes ==
  ASSUME NEW k, k.arrays = arrays, NEW m, NEW c, Did(k, m, "code", c), Becomes(m)
  PROVE  /\ (Code.cells)' = c /\ (Other.cells)' = Other.cells
         /\ status' = m.status
BY DEF Did, Becomes, Code, Other, Names

\* The lists as they are.
LEMMA ListsAre ==
  ASSUME Inv, status = "running"
  PROVE  /\ Code.cells \in Seq(Cell) /\ Other.cells \in Seq(Cell)
         /\ Code.count \in Nat /\ Len(Code.cells) = Code.count
         /\ Other.count \in Nat /\ Len(Other.cells) = Other.count
         /\ IsArray(Code)
<1> PICK k : k = Memory
  OBVIOUS
<1>1. /\ MemoryOK(k) /\ Code = k.arrays["code"] /\ Other = k.arrays["other"]
  BY Running
<1>2. IsArray(Code) /\ IsArray(Other)
  BY <1>1 DEF MemoryOK, IsMemory, Names
<1> QED BY <1>2 DEF IsArray

\* push and push_ref
LEMMA PushLists ==
  ASSUME Inv, NEW v \in Vals, DoPush(v)
  PROVE  List!Push(v)
<1> PICK k : k = Memory
  OBVIOUS
<1>1. PICK m : m = Push(k, "code", v)
  OBVIOUS
<1>2. /\ status = "running" /\ Becomes(m)
      /\ \E op \in {"push", "push_ref"} : Told(op, 0, v, << >>)
  BY <1>1 DEF DoPush, Does, NoAnswer
<1>3. Sound(k) /\ k.arrays = arrays /\ v \in Cell /\ "code" \in Names
  BY <1>2, Running DEF Cell, Names
<1>4. Did(k, m, "code", Append(k.arrays["code"].cells, v))
  BY <1>1, <1>3, PushOK
<1>5. Did(k, m, "code", Append(Code.cells, v))
  BY <1>3, <1>4 DEF Code
<1>6. (Code.cells)' = Append(Code.cells, v) /\ (Other.cells)' = Other.cells
  BY <1>2, <1>3, <1>5, CodeBecomes
<1> QED BY <1>2, <1>6 DEF Told, List!Push, List!Does, List!Said

\* pop and drop, of what is not empty.
LEMMA PopLists ==
  ASSUME Inv, DoPop \/ DoDrop, status' = "running"
  PROVE  List!Pop
<1> PICK k : k = Memory
  OBVIOUS
<1>1. PICK m : m = Pop(k, "code")
  OBVIOUS
<1>2. /\ status = "running" /\ Becomes(m)
      /\ \/ Told("pop", 0, 0, IF Code.count = 0 THEN << >>
                              ELSE << Last(Code.cells) >>)
         \/ Told("drop", 0, 0, << >>)
  BY <1>1 DEF DoPop, DoDrop, Does, Answers, NoAnswer, Value
<1>3. /\ Sound(k) /\ k.arrays = arrays /\ "code" \in Names
      /\ k.arrays["code"] = Code
  BY <1>2, Running DEF Names
<1>4. Code.count > 0
  <2>1. m.status = "running"
    BY <1>2 DEF Becomes
  <2>2. Code.count # 0
    BY <1>1, <1>3, <2>1, PopOK
  <2> QED BY <1>2, <2>2, ListsAre
<1>5. Did(k, m, "code", Front(Code.cells))
  BY <1>1, <1>3, <1>4, PopOK
<1>6. (Code.cells)' = Front(Code.cells) /\ (Other.cells)' = Other.cells
  BY <1>2, <1>3, <1>5, CodeBecomes
<1>7. Code.cells # << >>
  <2>1. Len(Code.cells) # 0
    BY <1>2, <1>4, ListsAre
  <2> QED BY <2>1, EmptySeq
<1>8. Code.count # 0
  BY <1>2, <1>4, ListsAre
<1> QED BY <1>2, <1>6, <1>7, <1>8
        DEF Told, List!Pop, List!Does, List!Said, Last, List!Last, Front,
            List!Front

\* clear
LEMMA ClearLists ==
  ASSUME Inv, DoClear
  PROVE  List!Clear
<1> PICK k : k = Memory
  OBVIOUS
<1>1. PICK m : m = Clear(k, "code")
  OBVIOUS
<1>2. /\ status = "running" /\ Becomes(m) /\ Told("clear", 0, 0, << >>)
  BY <1>1 DEF DoClear, Does, NoAnswer
<1>3. Sound(k) /\ k.arrays = arrays /\ "code" \in Names
  BY <1>2, Running DEF Names
<1>4. Did(k, m, "code", << >>)
  BY <1>1, <1>3, ClearOK
<1>5. (Code.cells)' = << >> /\ (Other.cells)' = Other.cells
  BY <1>2, <1>3, <1>4, CodeBecomes
<1> QED BY <1>2, <1>5 DEF Told, List!Clear, List!Does, List!Said

\* insert_before and insert_after, of what is within the code.
LEMMA InsertLists ==
  ASSUME Inv, NEW i \in Indices, NEW v \in Vals, DoInsert(i, v),
         status' = "running"
  PROVE  List!Insert(i, v)
<1> PICK k : k = Memory
  OBVIOUS
<1>0. PICK at \in {i, i + 1} :
        /\ status = "running" /\ Becomes(Insert(k, "code", i, at, v))
        /\ \/ at = i /\ Told("insert_before", i, v, << >>)
           \/ at = i + 1 /\ Told("insert_after", i, v, << >>)
  BY DEF DoInsert, Does, InsertBefore, InsertAfter, NoAnswer
<1>1. PICK m : /\ m = Insert(k, "code", i, at, v)
               /\ status = "running" /\ Becomes(m)
  BY <1>0
<1>2. /\ Sound(k) /\ k.arrays = arrays /\ v \in Cell /\ "code" \in Names
      /\ k.arrays["code"] = Code
  BY <1>1, Running DEF Cell, Names
<1>3. /\ Code.cells \in Seq(Cell) /\ Len(Code.cells) = Code.count
      /\ Code.count \in Nat /\ i \in Nat
  BY <1>1, ListsAre DEF Indices
<1>4. Inserts(k, m, "code", i, at, v)
  BY <1>1, <1>2, <1>3, InsertOK
<1>5. i < Code.count
  <2>1. m.status = "running"
    BY <1>1 DEF Becomes
  <2> QED BY <1>2, <1>3, <1>4, <2>1 DEF Inserts
<1>6. /\ Did(k, m, "code", m.arrays["code"].cells)
      /\ Spliced(m.arrays["code"].cells, Code.cells, at, <<v>>)
  BY <1>2, <1>3, <1>4, <1>5 DEF Inserts
<1>7. m.arrays["code"].cells = InsertAt(Code.cells, at + 1, v)
  <2>1. at \in 0 .. Len(Code.cells) /\ <<v>> \in Seq(Cell)
    BY <1>2, <1>3, <1>5
  <2>2. m.arrays["code"].cells
          = SubSeq(Code.cells, 1, at) \o <<v>>
              \o SubSeq(Code.cells, at + 1, Len(Code.cells))
    BY <1>3, <1>6, <2>1, SplicedIs
  <2>3. (at + 1) - 1 = at
    BY <2>1
  <2> QED BY <2>2, <2>3 DEF InsertAt
<1>8. /\ (Code.cells)' = InsertAt(Code.cells, at + 1, v)
      /\ (Other.cells)' = Other.cells
  BY <1>1, <1>2, <1>6, <1>7, CodeBecomes
<1>9. i < Len(Code.cells) /\ (i + 1) + 1 = i + 2
  BY <1>3, <1>5
<1>10. CASE at = i /\ Told("insert_before", i, v, << >>)
  BY <1>8, <1>9, <1>10
     DEF Told, List!Insert, List!Does, List!Said, InsertAt, List!InsertAt
<1>11. CASE at = i + 1 /\ Told("insert_after", i, v, << >>)
  BY <1>8, <1>9, <1>11
     DEF Told, List!Insert, List!Does, List!Said, InsertAt, List!InsertAt
<1> QED BY <1>0, <1>10, <1>11

\* extend_before and extend_after, where there is a place to extend at.
LEMMA ExtendLists ==
  ASSUME Inv, NEW i \in Indices, DoExtend(i), status' = "running", ~AfterEnd
  PROVE  List!Extend(i)
<1> PICK k : k = Memory
  OBVIOUS
<1> PICK b : b = Other.cells
  OBVIOUS
<1>1. status = "running"
  BY DEF DoExtend, Does
<1>2. /\ Sound(k) /\ k.arrays = arrays /\ "code" \in Names
      /\ k.arrays["code"] = Code /\ k.arrays["other"] = Other
  BY <1>1, Running DEF Names
<1>0. PICK at \in {i, i + 1} :
        /\ Becomes(ExtendAt(k, "code", at, b))
        /\ \/ at = i /\ Told("extend_before", i, 0, << >>)
           \/ at = i + 1 /\ Told("extend_after", i, 0, << >>)
  BY <1>2 DEF DoExtend, Does, ExtendBefore, ExtendAfter, NoAnswer
<1>3. PICK m : m = ExtendAt(k, "code", at, b) /\ Becomes(m)
  BY <1>0
<1>4. /\ Code.cells \in Seq(Cell) /\ Len(Code.cells) = Code.count
      /\ Code.count \in Nat /\ i \in 0 .. Code.count
      /\ b \in Seq(Cell) /\ Len(b) = Other.count /\ Other.count \in Nat
  BY <1>1, ListsAre DEF Indices
<1>5. Extends(k, m, "code", at, b)
  <2>1. at \in 0 .. k.arrays["code"].count + 1
    BY <1>2, <1>4
  <2> QED BY <1>2, <1>3, <1>4, <2>1, ExtendAtOK
<1>6. m.status = "running"
  BY <1>3 DEF Becomes
<1>7. CASE at <= Code.count
  <2>1. /\ Did(k, m, "code", m.arrays["code"].cells)
        /\ Spliced(m.arrays["code"].cells, Code.cells, at, b)
    BY <1>2, <1>5, <1>6, <1>7 DEF Extends
  <2>2. m.arrays["code"].cells
          = SubSeq(Code.cells, 1, at) \o b
              \o SubSeq(Code.cells, at + 1, Len(Code.cells))
    <3>1. at \in 0 .. Len(Code.cells)
      BY <1>4, <1>7
    <3> QED BY <1>4, <2>1, <3>1, SplicedIs
  <2>3. /\ (Code.cells)' = List!Spliced(at) /\ (Other.cells)' = Other.cells
    <3>1. (Code.cells)' = m.arrays["code"].cells /\ (Other.cells)' = Other.cells
      BY <1>2, <1>3, <2>1, CodeBecomes
    <3> QED BY <2>2, <3>1 DEF List!Spliced
  <2>4. at = i + 1 => i < Len(Code.cells)
    BY <1>4, <1>7
  <2> HIDE DEF List!Spliced
  <2> QED BY <1>0, <2>3, <2>4 DEF Told, List!Extend, List!Does, List!Said
<1>8. CASE at > Code.count
  <2>1. at = i + 1 /\ i = Code.count /\ Told("extend_after", i, 0, << >>)
    BY <1>0, <1>4, <1>8
  <2>2. call'.op = "extend_after" /\ call'.index = Code.count
    BY <2>1 DEF Told
  <2>3. Len(b) = 0
    BY <1>4, <2>2 DEF AfterEnd
  <2>4. m = k
    BY <1>5, <2>3 DEF Extends
  <2>5. (Code.cells)' = Code.cells /\ (Other.cells)' = Other.cells
    BY <1>2, <1>3, <2>4 DEF Becomes, Code, Other
  <2>6. Other.cells = << >>
    BY <1>4, <2>3, EmptySeq
  <2> QED BY <2>1, <2>5, <2>6 DEF Told, List!Extend, List!Does, List!Said
<1>9. at \in Nat
  BY <1>4
<1> QED BY <1>4, <1>7, <1>8, <1>9

\* unordered_remove and ordered_remove, with the answer whether there was
\* something.
LEMMA RemoveLists ==
  ASSUME Inv, NEW i \in Indices, DoRemove(i)
  PROVE  List!RemoveIt(i)
<1> PICK k : k = Memory
  OBVIOUS
<1> PICK u, o : u = UnorderedRemove(k, "code", i)
                /\ o = OrderedRemove(k, "code", i)
  OBVIOUS
<1>1. /\ status = "running"
      /\ \/ /\ Becomes(u)
            /\ Told("unordered_remove", i, 0, Truth(i < Code.count))
         \/ /\ Becomes(o)
            /\ Told("ordered_remove", i, 0, Truth(i < Code.count))
  BY DEF DoRemove, Answers
<1>2. /\ Sound(k) /\ k.arrays = arrays /\ "code" \in Names
      /\ k.arrays["code"] = Code
  BY <1>1, Running DEF Names
<1>3. /\ Code.cells \in Seq(Cell) /\ Len(Code.cells) = Code.count
      /\ Code.count \in Nat /\ i \in 0 .. Code.count /\ i \in Nat
  BY <1>1, ListsAre DEF Indices
<1>4. CASE i < Code.count
  <2>1. /\ Did(k, u, "code", u.arrays["code"].cells)
        /\ LastAt(u.arrays["code"].cells, Code.cells, i + 1)
    BY <1>2, <1>3, <1>4, UnorderedRemoveOK
  <2>2. /\ Did(k, o, "code", o.arrays["code"].cells)
        /\ Removed(o.arrays["code"].cells, Code.cells, i + 1)
    BY <1>2, <1>3, <1>4, OrderedRemoveOK
  <2>3. i + 1 \in 1 .. Len(Code.cells)
    BY <1>3, <1>4
  <2>4. u.arrays["code"].cells
          = Front([Code.cells EXCEPT ![i + 1] = Last(Code.cells)])
    BY <1>3, <2>1, <2>3, LastAtIs
  <2>5. o.arrays["code"].cells = RemoveAt(Code.cells, i + 1)
    BY <1>3, <2>2, <2>3, RemovedIs
  <2>6. i < Len(Code.cells) /\ Truth(i < Code.count) = << 1 >>
        /\ List!Truth(i < Len(Code.cells)) = << 1 >>
    BY <1>3, <1>4 DEF Truth, List!Truth
  <2>7. CASE Becomes(u) /\ Told("unordered_remove", i, 0, << 1 >>)
    <3>1. /\ (Code.cells)' = u.arrays["code"].cells
          /\ (Other.cells)' = Other.cells
      BY <1>2, <2>1, <2>7, CodeBecomes
    <3> HIDE DEF List!Truth
    <3> QED BY <2>4, <2>6, <2>7, <3>1
            DEF Told, List!RemoveIt, List!Said, Front, List!Front, Last,
                List!Last
  <2>8. CASE Becomes(o) /\ Told("ordered_remove", i, 0, << 1 >>)
    <3>1. /\ (Code.cells)' = o.arrays["code"].cells
          /\ (Other.cells)' = Other.cells
      BY <1>2, <2>2, <2>8, CodeBecomes
    <3> HIDE DEF List!Truth
    <3> QED BY <2>5, <2>6, <2>8, <3>1
            DEF Told, List!RemoveIt, List!Said, RemoveAt, List!RemoveAt
  <2> QED BY <1>1, <2>6, <2>7, <2>8
<1>5. CASE i >= Code.count
  <2>1. u = k /\ o = k
    BY <1>2, <1>3, <1>5, UnorderedRemoveOK, OrderedRemoveOK
  <2>2. (Code.cells)' = Code.cells /\ (Other.cells)' = Other.cells
    BY <1>1, <1>2, <2>1 DEF Becomes, Code, Other
  <2>3. ~(i < Len(Code.cells)) /\ Truth(i < Code.count) = << 0 >>
        /\ List!Truth(i < Len(Code.cells)) = << 0 >>
    BY <1>3, <1>5 DEF Truth, List!Truth
  <2> HIDE DEF List!Truth
  <2> QED BY <1>1, <2>2, <2>3 DEF Told, List!RemoveIt, List!Said
<1> QED BY <1>3, <1>4, <1>5

\* index_of
LEMMA IndexOfLists ==
  ASSUME Inv, NEW v \in Vals, DoIndexOf(v)
  PROVE  List!IndexOf(v)
<1>1. PICK i : i = IndexOf(Code, v)
  OBVIOUS
<1>2. status = "running" /\ Becomes(Memory) /\ Told("index_of", 0, v, << i >>)
  BY <1>1 DEF DoIndexOf, Answers, Value
<1>3. (Code.cells)' = Code.cells /\ (Other.cells)' = Other.cells
  BY <1>2 DEF Becomes, Memory, Code, Other
<1>4. /\ i \in 0 .. Len(Code.cells) \cup {-1}
      /\ \A j \in 0 .. Len(Code.cells) :
           j < Len(Code.cells) /\ Code.cells[j + 1] = v => i # -1 /\ i <= j
      /\ i # -1 => i < Len(Code.cells) /\ Code.cells[i + 1] = v
  BY <1>1, <1>2, ListsAre, IndexOfIs
<1>5. i \in List!Places \cup {-1}
  BY <1>4 DEF List!Places
<1>6. \A j \in List!Places : List!Is(j, v) => i # -1 /\ i <= j
  BY <1>4 DEF List!Places, List!Is
<1>7. i # -1 => List!Is(i, v)
  BY <1>4 DEF List!Is
<1>8. List!Said("index_of", 0, v, << i >>)
  BY <1>2 DEF Told, List!Said
<1> HIDE DEF List!Places, List!Is, List!Said
<1> QED BY <1>3, <1>5, <1>6, <1>7, <1>8 DEF List!IndexOf

\* The other array is filled.
LEMMA FillLists ==
  ASSUME Inv, NEW v \in Vals, Fill(v)
  PROVE  List!Fill(v)
<1> PICK k : k = Memory
  OBVIOUS
<1>1. PICK m : m = Push(k, "other", v)
  OBVIOUS
<1>2. status = "running" /\ Becomes(m) /\ Told("fill", 0, v, << >>)
  BY <1>1 DEF Fill, Does, NoAnswer
<1>3. /\ Sound(k) /\ k.arrays = arrays /\ v \in Cell /\ "other" \in Names
      /\ k.arrays["other"] = Other
  BY <1>2, Running DEF Cell, Names
<1>4. Did(k, m, "other", Append(Other.cells, v))
  BY <1>1, <1>3, PushOK
<1>5. (Code.cells)' = Code.cells /\ (Other.cells)' = Append(Other.cells, v)
  BY <1>2, <1>3, <1>4 DEF Did, Becomes, Code, Other, Names
<1> QED BY <1>2, <1>5 DEF Told, List!Fill, List!Does, List!Said

\* The other array is given up.
LEMMA RenewLists ==
  ASSUME Inv, Renew
  PROVE  List!Renew
<1> PICK k : k = Memory
  OBVIOUS
<1>1. PICK m : m = Renewed(k, "other")
  OBVIOUS
<1>2. status = "running" /\ Becomes(m) /\ Told("renew", 0, 0, << >>)
  BY <1>1 DEF Renew, Does, NoAnswer
<1>3. MemoryOK(k) /\ k.arrays = arrays /\ "other" \in Names
  BY <1>2, Running DEF Names
<1>4. /\ \A y \in Names \ {"other"} : m.arrays[y] = k.arrays[y]
      /\ m.arrays["other"].cells = << >>
  BY <1>1, <1>3, RenewedOK
<1>5. (Code.cells)' = Code.cells /\ (Other.cells)' = << >>
  BY <1>2, <1>3, <1>4 DEF Becomes, Code, Other, Names
<1> QED BY <1>2, <1>5 DEF Told, List!Renew, List!Does, List!Said

\* What else is asked of the arena is not seen.
LEMMA RequestLists ==
  ASSUME Inv, NEW n \in Requests, Request(n)
  PROVE  UNCHANGED <<Code.cells, Other.cells, call>>
<1> PICK k : k = Memory
  OBVIOUS
<1> DEFINE q == ArenaAlloc(k, n)
<1>1. PICK m : m = IF ArenaPointer(k, n).offset + n <= BlockSize THEN q
                   ELSE Fails(q, "undefined")
  OBVIOUS
<1>2. Becomes(m) /\ status = "running" /\ UNCHANGED call
  BY <1>1 DEF Request
<1>3. Sound(k) /\ WordsOK(k) /\ k.arrays = arrays /\ n \in Nat
  BY <1>2, Running, RequestsAssumption
<1>4. m.arrays = k.arrays
  BY <1>1, <1>3, RequestKept
<1>5. arrays' = arrays
  BY <1>2, <1>3, <1>4 DEF Becomes
<1> QED BY <1>2, <1>5 DEF Code, Other

\* Every use of the arrays is one of a list.
LEMMA ArraysList ==
  ASSUME Inv, ArraysNext
  PROVE  [ListStep]_<<Code.cells, Other.cells, call>>
<1> SUFFICES ASSUME status' = "running", ~AfterEnd
             PROVE  List!Next \/ UNCHANGED <<Code.cells, Other.cells, call>>
  BY DEF ListStep
<1>1. CASE \E v \in Vals : DoPush(v) \/ DoIndexOf(v) \/ Fill(v)
  <2>1. PICK v \in Vals : List!Push(v) \/ List!Fill(v) \/ List!IndexOf(v)
    BY <1>1, PushLists, IndexOfLists, FillLists
  <2> QED BY <2>1 DEF List!Next
<1>2. CASE DoPop \/ DoDrop
  <2>1. List!Pop
    BY <1>2, PopLists
  <2> QED BY <2>1 DEF List!Next
<1>3. CASE DoClear
  <2>1. List!Clear
    BY <1>3, ClearLists
  <2> QED BY <2>1 DEF List!Next
<1>4. CASE Renew
  <2>1. List!Renew
    BY <1>4, RenewLists
  <2> QED BY <2>1 DEF List!Next
<1>5. CASE End
  <2>1. status' = "ended"
    BY <1>5 DEF End, Becomes, Fails
  <2> QED BY <2>1
<1>6. CASE \E i \in Indices : \/ DoExtend(i) \/ DoRemove(i)
                             \/ \E v \in Vals : DoInsert(i, v)
  <2>1. PICK i \in Indices : \/ DoExtend(i) \/ DoRemove(i)
                             \/ \E v \in Vals : DoInsert(i, v)
    BY <1>6
  <2>2. i \in List!Places
    <3>1. status = "running"
      BY <2>1 DEF DoExtend, DoRemove, DoInsert, Does, Answers
    <3> QED BY <3>1, ListsAre DEF List!Places, Indices
  <2>3. \/ List!Extend(i) \/ List!RemoveIt(i)
        \/ \E v \in Vals : List!Insert(i, v)
    BY <2>1, ExtendLists, RemoveLists, InsertLists
  <2> HIDE DEF List!Places
  <2> QED BY <2>2, <2>3 DEF List!Next
<1>7. CASE \E n \in Requests : Request(n)
  BY <1>7, RequestLists
<1> QED BY <1>1, <1>2, <1>3, <1>4, <1>5, <1>6, <1>7 DEF ArraysNext

\* The arrays are lists: while all is defined every call does to the code and
\* to the other array what ListSpec's does to its lists, and answers what the
\* list says, for values that are moved when the code grows, for nodes put in
\* from memory of either kind, and whatever else the arena gives out. Nodes
\* extended after the end of the code are the exception.
THEOREM ArraysAreLists == Spec => IsList
<1>1. Init => List!Init
  BY DEF Init, ArraysInit, NewArray, Code, Other, List!Init
<1>2. Inv /\ [Next]_vars
        => [user = "program" => ListStep]_<<Code.cells, Other.cells, call>>
  <2> SUFFICES ASSUME Inv, [Next]_vars, user = "program"
               PROVE  [ListStep]_<<Code.cells, Other.cells, call>>
    OBVIOUS
  <2>1. CASE UNCHANGED vars
    BY <2>1 DEF vars, arraysVars, Code, Other
  <2>2. CASE ArraysNext
    BY <2>2, ArraysList
  <2> QED BY <2>1, <2>2 DEF Next
<1> QED BY <1>1, <1>2, MemoryIsKept, PTL DEF Spec, IsList

-----------------------------------------------------------------------------
(* The bitset is a set.                                                    *)

\* A number is its word and its bit.
LEMMA Divided ==
  ASSUME NEW n \in Nat
  PROVE  /\ WordOf(n) \in Nat /\ BitOf(n) \in 0 .. WordSize - 1
         /\ n = WordOf(n) * WordSize + BitOf(n)
<1> PICK w \in Nat \ {0} : w = WordSize
  BY BitsetAssumption
<1>1. n \div w \in Nat /\ n % w \in 0 .. w - 1 /\ n = w * (n \div w) + (n % w)
  OBVIOUS
<1>2. w * (n \div w) = (n \div w) * w
  BY <1>1
<1> QED BY <1>1, <1>2 DEF WordOf, BitOf

\* A word and a bit are those of one number.
LEMMA Composed ==
  ASSUME NEW e \in Nat, NEW b \in 0 .. WordSize - 1,
         NEW n, n = e * WordSize + b
  PROVE  n \in Nat /\ WordOf(n) = e /\ BitOf(n) = b
<1> PICK w \in Nat \ {0} : w = WordSize
  BY BitsetAssumption
<1>1. n \in Nat /\ n = w * e + b
  OBVIOUS
<1>2. n % w = b
  BY <1>1, RemainderUnique
<1> PICK d : d = n \div w
  OBVIOUS
<1>3. d \in Nat /\ n = w * d + (n % w)
  BY <1>1
<1>4. w * (d - e) = 0
  BY <1>1, <1>2, <1>3
<1>5. d = e
  BY <1>3, <1>4
<1> QED BY <1>1, <1>2, <1>5 DEF WordOf, BitOf

\* The numbers in the first k words.
Within(words, k) ==
  {n \in Nat : WordOf(n) < k /\ BitOf(n) \in words[WordOf(n) + 1]}

\* What a bitset of these words holds.
Members(a) ==
  {n \in {e * WordSize + b : e \in 0 .. a.count - 1, b \in 0 .. WordSize - 1} :
     BitOf(n) \in a.cells[WordOf(n) + 1]}

\* It is what is in its words.
LEMMA MembersAre ==
  ASSUME NEW a, a.count \in Nat
  PROVE  Members(a) = Within(a.cells, a.count)
<1> DEFINE S == {e * WordSize + b : e \in 0 .. a.count - 1,
                                    b \in 0 .. WordSize - 1}
<1>1. ASSUME NEW n \in S
      PROVE  n \in Nat /\ WordOf(n) < a.count
  <2>1. PICK e \in 0 .. a.count - 1, b \in 0 .. WordSize - 1 :
          n = e * WordSize + b
    BY <1>1
  <2>2. e \in Nat
    OBVIOUS
  <2> QED BY <2>1, <2>2, Composed
<1>2. ASSUME NEW n \in Nat, WordOf(n) < a.count
      PROVE  n \in S
  <2>1. WordOf(n) \in 0 .. a.count - 1
    BY <1>2, Divided
  <2>2. BitOf(n) \in 0 .. WordSize - 1 /\ n = WordOf(n) * WordSize + BitOf(n)
    BY Divided
  <2> QED BY <2>1, <2>2
<1>3. Members(a) = {n \in S : BitOf(n) \in a.cells[WordOf(n) + 1]}
  BY DEF Members
<1> HIDE DEF S
<1> QED BY <1>1, <1>2, <1>3 DEF Within

\* The numbers of one word are as many as its bits.
LEMMA OneWord ==
  ASSUME NEW e \in Nat, NEW word \in SUBSET (0 .. WordSize - 1)
  PROVE  LET T == {n \in Nat : WordOf(n) = e /\ BitOf(n) \in word}
         IN  IsFiniteSet(T) /\ Cardinality(T) = Cardinality(word)
<1> DEFINE T == {n \in Nat : WordOf(n) = e /\ BitOf(n) \in word}
           f == [b \in word |-> e * WordSize + b]
<1>1. IsFiniteSet(word)
  <2>1. IsFiniteSet(0 .. WordSize - 1)
    BY BitsetAssumption, FS_Interval
  <2> QED BY <2>1, FS_Subset
<1>2. \A b \in word : f[b] \in T /\ BitOf(f[b]) = b
  <2> TAKE b \in word
  <2>1. b \in 0 .. WordSize - 1 /\ f[b] = e * WordSize + b
    OBVIOUS
  <2> HIDE DEF f
  <2> QED BY <2>1, Composed
<1>3. \A n \in T : n = f[BitOf(n)]
  BY Divided
<1>4. f \in Bijection(word, T)
  <2>1. f \in [word -> T]
    BY <1>2
  <2> HIDE DEF f, T
  <2>2. \A b, c \in word : f[b] = f[c] => b = c
    BY <1>2
  <2>3. \A n \in T : \E b \in word : f[b] = n
    BY <1>3 DEF T
  <2> QED BY <2>1, <2>2, <2>3 DEF Bijection, Injection, Surjection, IsInjective
<1>5. ExistsBijection(word, T)
  BY <1>4 DEF ExistsBijection
<1> HIDE DEF T
<1>6. IsFiniteSet(T) /\ Cardinality(T) = Cardinality(word)
  BY <1>1, <1>5, FS_Bijection
<1> QED BY <1>6 DEF T

\* Words that words are.
AreWords(words) ==
  /\ words \in Seq(Cell)
  /\ \A i \in 1 .. Len(words) : words[i] \in SUBSET (0 .. WordSize - 1)

\* The first k words are those before, and one.
LEMMA OneMore ==
  ASSUME NEW words, AreWords(words), NEW k \in 1 .. Len(words),
         IsFiniteSet(Within(words, k - 1))
  PROVE  /\ IsFiniteSet(Within(words, k))
         /\ Cardinality(Within(words, k))
              = Cardinality(Within(words, k - 1)) + Cardinality(words[k])
<1> DEFINE A == Within(words, k - 1)
           T == {n \in Nat : WordOf(n) = k - 1 /\ BitOf(n) \in words[k]}
<1>1. k - 1 \in Nat /\ words[k] \in SUBSET (0 .. WordSize - 1) /\ k \in Int
  BY LenProperties DEF AreWords
<1>2. IsFiniteSet(T) /\ Cardinality(T) = Cardinality(words[k])
  BY <1>1, OneWord
<1>3. \A n \in Nat : /\ n \in T <=> /\ WordOf(n) = k - 1
                                    /\ BitOf(n) \in words[WordOf(n) + 1]
                     /\ WordOf(n) < k <=> WordOf(n) < k - 1 \/ WordOf(n) = k - 1
  <2> TAKE n \in Nat
  <2>1. WordOf(n) \in Nat
    BY Divided
  <2>2. WordOf(n) = k - 1 => WordOf(n) + 1 = k
    BY <1>1, <2>1
  <2>3. n \in T <=> WordOf(n) = k - 1 /\ BitOf(n) \in words[k]
    OBVIOUS
  <2> QED BY <1>1, <2>1, <2>2, <2>3
<1> HIDE DEF T
<1>4. T \subseteq Nat
  BY DEF T
<1>5. Within(words, k) = A \cup T
  BY <1>3, <1>4 DEF Within
<1>6. A \cap T = {}
  <2> SUFFICES ASSUME NEW n \in A, n \in T
               PROVE  FALSE
    OBVIOUS
  <2>1. n \in Nat /\ WordOf(n) < k - 1 /\ WordOf(n) = k - 1
    BY <1>3, <1>4 DEF Within
  <2> QED BY <1>1, <2>1
<1> HIDE DEF A
<1>7. /\ IsFiniteSet(A \cup T)
      /\ Cardinality(A \cup T)
           = Cardinality(A) + Cardinality(T) - Cardinality(A \cap T)
  BY <1>2, FS_Union DEF A
<1>8. Cardinality(A \cap T) = 0
  BY <1>6, FS_EmptySet
<1>9. Cardinality(A) \in Nat /\ Cardinality(T) \in Nat
  BY <1>2, FS_CardinalityType DEF A
<1> QED BY <1>2, <1>5, <1>7, <1>8, <1>9 DEF A

\* Adding up the words is counting the numbers in them.
LEMMA OnesAre ==
  ASSUME NEW words, AreWords(words), NEW n \in Nat, n = Len(words),
         NEW f, f = [i \in 0 .. n |-> IF i = 0 THEN 0
                                      ELSE f[i - 1] + Cardinality(words[i])]
  PROVE  /\ IsFiniteSet(Within(words, n))
         /\ f[n] = Cardinality(Within(words, n))
<1> DEFINE Good(k) == /\ IsFiniteSet(Within(words, k))
                      /\ f[k] = Cardinality(Within(words, k))
           Bad == {k \in 0 .. n : ~Good(k)}
<1>1. Bad = {}
  <2> SUFFICES ASSUME Bad # {}
               PROVE  FALSE
    OBVIOUS
  <2>1. PICK k \in Bad : \A y \in Bad : k <= y
    <3>1. Bad \in SUBSET Nat
      OBVIOUS
    <3> HIDE DEF Bad
    <3> QED BY <3>1, LeastNatural
  <2>2. CASE k = 0
    <3>1. Within(words, 0) = {}
      <4> SUFFICES ASSUME NEW m \in Within(words, 0)
                   PROVE  FALSE
        OBVIOUS
      <4>1. m \in Nat /\ WordOf(m) < 0
        BY DEF Within
      <4> QED BY <4>1, Divided
    <3>2. f[0] = 0
      OBVIOUS
    <3>3. Good(0)
      BY <3>1, <3>2, FS_EmptySet
    <3> QED BY <2>1, <2>2, <3>3
  <2>3. CASE k > 0
    <3>1. k \in 1 .. n /\ k - 1 \in 0 .. n /\ ~(k <= k - 1)
      BY <2>1, <2>3
    <3>2. k - 1 \notin Bad
      <4> HIDE DEF Bad
      <4> QED BY <2>1, <3>1
    <3>3. Good(k - 1)
      BY <3>1, <3>2
    <3>4. f[k] = f[k - 1] + Cardinality(words[k])
      BY <3>1
    <3>5. Good(k)
      BY <3>1, <3>3, <3>4, OneMore
    <3> QED BY <2>1, <3>5
  <2> QED BY <2>1, <2>2, <2>3
<1>2. n \in 0 .. n
  OBVIOUS
<1> QED BY <1>1, <1>2

\* The loop of bits_set.
LEMMA OnesExist ==
  ASSUME NEW words, NEW n \in Nat
  PROVE  \E f : f = [i \in 0 .. n |-> IF i = 0 THEN 0
                                      ELSE f[i - 1] + Cardinality(words[i])]
<1> DEFINE Is(f, l) == f = [i \in 0 .. l |->
                              IF i = 0 THEN 0
                              ELSE f[i - 1] + Cardinality(words[i])]
           Bad == {l \in Nat : ~ \E f : Is(f, l)}
<1>1. Bad = {}
  <2> SUFFICES ASSUME Bad # {}
               PROVE  FALSE
    OBVIOUS
  <2>1. Bad \in SUBSET Nat
    OBVIOUS
  <2>2. PICK l \in Bad : \A y \in Bad : l <= y
    <3> HIDE DEF Bad
    <3> QED BY <2>1, LeastNatural
  <2>3. CASE l = 0
    <3>1. Is([i \in 0 .. 0 |-> 0], 0)
      OBVIOUS
    <3> QED BY <2>2, <2>3, <3>1
  <2>4. CASE l > 0
    <3>1. l - 1 \in Nat /\ l - 1 \notin Bad
      BY <2>2, <2>4
    <3>2. PICK f : Is(f, l - 1)
      BY <3>1
    <3> DEFINE g == [i \in 0 .. l |-> IF i = l
                                      THEN f[l - 1] + Cardinality(words[l])
                                      ELSE f[i]]
    <3>3. ASSUME NEW i \in 0 .. l
          PROVE  g[i] = IF i = 0 THEN 0
                        ELSE g[i - 1] + Cardinality(words[i])
      BY <2>4, <3>1, <3>2
    <3>4. Is(g, l)
      BY <3>3
    <3> QED BY <2>2, <3>4
  <2> QED BY <2>1, <2>2, <2>3, <2>4
<1> QED BY <1>1

\* What bits_set adds up to.
LEMMA OnesIs ==
  ASSUME NEW words, AreWords(words), NEW n \in Nat, n = Len(words)
  PROVE  LET ones[i \in 0 .. n] ==
               IF i = 0 THEN 0 ELSE ones[i - 1] + Cardinality(words[i])
         IN  /\ IsFiniteSet(Within(words, n))
             /\ ones[n] = Cardinality(Within(words, n))
<1> DEFINE Is(f) == f = [i \in 0 .. n |-> IF i = 0 THEN 0
                                      ELSE f[i - 1] + Cardinality(words[i])]
           ones == CHOOSE f : Is(f)
<1>1. Is(ones)
  BY OnesExist
<1> HIDE DEF ones
<1>2. /\ IsFiniteSet(Within(words, n))
      /\ ones[n] = Cardinality(Within(words, n))
  BY <1>1, OnesAre
<1> QED BY <1>2 DEF ones

\* Words as they are kept.
LEMMA WordsAre ==
  ASSUME NEW m, Kept(m), NEW a, a = m.arrays["words"]
  PROVE  /\ a.count \in Nat /\ Len(a.cells) = a.count /\ AreWords(a.cells)
         /\ Members(a) = Within(a.cells, Len(a.cells))
         /\ IsFiniteSet(Members(a))
<1>1. IsArray(a) /\ WordsOK(m)
  BY DEF Kept, MemoryOK, IsMemory, Names
<1>2. a.count \in Nat /\ Len(a.cells) = a.count /\ AreWords(a.cells)
  BY <1>1 DEF IsArray, WordsOK, AreWords
<1>3. Members(a) = Within(a.cells, a.count)
  BY <1>2, MembersAre
<1>4. IsFiniteSet(Within(a.cells, a.count))
  BY <1>2, OnesIs
<1> QED BY <1>2, <1>3, <1>4

\* What a bitset holds is what is in its words, before and after a step.
LEMMA ContentsAre ==
  ASSUME Inv, Inv'
  PROVE  /\ AreWords(Words.cells) /\ Len(Words.cells) = Words.count
         /\ Words.count \in Nat
         /\ Contents = Within(Words.cells, Len(Words.cells))
         /\ Contents' = Within((Words.cells)', Len((Words.cells)'))
         /\ IsFiniteSet(Contents)
<1>1. PICK k : k = Memory
  OBVIOUS
<1>2. PICK m : m = Memory'
  OBVIOUS
<1>3. Kept(k) /\ Kept(m)
  BY <1>1, <1>2 DEF Inv
<1>4. Words = k.arrays["words"] /\ Words' = m.arrays["words"]
  BY <1>1, <1>2 DEF Memory, Words
<1>5. /\ Contents = Members(Words)
      /\ Contents' = Members(Words')
  BY DEF Contents, Elements, Members
<1>6. PICK a : a = Words
  OBVIOUS
<1>7. PICK b : b = Words'
  OBVIOUS
<1>8. /\ Members(b) = Within(b.cells, Len(b.cells))
      /\ Members(a) = Within(a.cells, Len(a.cells))
      /\ a.count \in Nat /\ Len(a.cells) = a.count /\ AreWords(a.cells)
      /\ IsFiniteSet(Members(a))
  BY <1>3, <1>4, <1>6, <1>7, WordsAre
<1> QED BY <1>5, <1>6, <1>7, <1>8

\* An empty word holds nothing more.
LEMMA WithinGrown ==
  ASSUME NEW s, AreWords(s), NEW t, t = Append(s, {})
  PROVE  Within(t, Len(t)) = Within(s, Len(s))
<1>1. s \in Seq(Cell) /\ Len(s) \in Nat
  BY LenProperties DEF AreWords
<1>2. PICK e : e = {}
  OBVIOUS
<1>3. e \in Cell
  BY <1>2 DEF Cell
<1>4. /\ Len(t) = Len(s) + 1 /\ \A i \in 1 .. Len(s) : t[i] = s[i]
      /\ t[Len(s) + 1] = e
  BY <1>1, <1>2, <1>3, AppendProperties
<1>5. ASSUME NEW n \in Nat
      PROVE  n \in Within(t, Len(t)) <=> n \in Within(s, Len(s))
  <2>1. WordOf(n) \in Nat
    BY Divided
  <2>2. CASE WordOf(n) < Len(s)
    <3>1. WordOf(n) + 1 \in 1 .. Len(s) /\ WordOf(n) < Len(t)
      BY <1>1, <1>4, <2>1, <2>2
    <3> QED BY <1>4, <2>2, <3>1 DEF Within
  <2>3. CASE WordOf(n) = Len(s)
    <3>1. BitOf(n) \notin t[WordOf(n) + 1] /\ ~(WordOf(n) < Len(s))
      BY <1>1, <1>2, <1>4, <2>3
    <3> QED BY <3>1 DEF Within
  <2>4. CASE WordOf(n) > Len(s)
    <3>1. ~(WordOf(n) < Len(s)) /\ ~(WordOf(n) < Len(t))
      BY <1>1, <1>4, <2>1, <2>4
    <3> QED BY <3>1 DEF Within
  <2> QED BY <1>1, <2>1, <2>2, <2>3, <2>4
<1>6. Within(t, Len(t)) \subseteq Nat /\ Within(s, Len(s)) \subseteq Nat
  BY DEF Within
<1> QED BY <1>5, <1>6

\* t holds what s does, but for n, which it holds if its bit is in word.
Changed(t, s, n, word) ==
  /\ n \in Within(t, Len(t)) <=> BitOf(n) \in word
  /\ \A x : x # n => (x \in Within(t, Len(t)) <=> x \in Within(s, Len(s)))

\* Words that are the same but for one bit.
Rebit(s, n, word) ==
  \A b : b # BitOf(n) => (b \in word <=> b \in s[WordOf(n) + 1])

\* A word that is rewritten in one bit changes one number.
LEMMA WithinRewritten ==
  ASSUME NEW s, AreWords(s), NEW n \in Nat, WordOf(n) < Len(s),
         NEW word \in SUBSET (0 .. WordSize - 1),
         Rebit(s, n, word), NEW t, t = [s EXCEPT ![WordOf(n) + 1] = word]
  PROVE  Changed(t, s, n, word)
<1> PICK e : e = WordOf(n)
  OBVIOUS
<1>1. s \in Seq(Cell) /\ Len(s) \in Nat /\ e \in Nat /\ e + 1 \in 1 .. Len(s)
      /\ word \in Cell
  <2>1. s \in Seq(Cell)
    BY DEF AreWords
  <2>2. Len(s) \in Nat
    BY <2>1, LenProperties
  <2>3. e \in Nat /\ e < Len(s)
    BY Divided
  <2>4. word \in Cell
    BY DEF Cell
  <2> QED BY <2>1, <2>2, <2>3, <2>4
<1>2. /\ Len(t) = Len(s)
      /\ \A i \in 1 .. Len(s) : t[i] = IF i = e + 1 THEN word ELSE s[i]
  BY <1>1, ExceptSeq
<1>3. n \in Within(t, Len(t)) <=> BitOf(n) \in word
  <2>1. t[e + 1] = word
    BY <1>1, <1>2
  <2> QED BY <1>2, <2>1 DEF Within
<1>4. ASSUME NEW x \in Nat, x # n
      PROVE  x \in Within(t, Len(t)) <=> x \in Within(s, Len(s))
  <2>1. WordOf(x) \in Nat
    BY Divided
  <2>2. CASE WordOf(x) = e
    <3>1. BitOf(x) # BitOf(n)
      <4>1. /\ x = WordOf(x) * WordSize + BitOf(x)
            /\ n = WordOf(n) * WordSize + BitOf(n)
        BY Divided
      <4> QED BY <1>4, <2>2, <4>1
    <3>2. t[WordOf(x) + 1] = word /\ s[WordOf(x) + 1] = s[WordOf(n) + 1]
      BY <1>1, <1>2, <2>2
    <3>3. BitOf(x) \in t[WordOf(x) + 1] <=> BitOf(x) \in s[WordOf(x) + 1]
      BY <3>1, <3>2 DEF Rebit
    <3> QED BY <1>2, <3>3 DEF Within
  <2>3. CASE WordOf(x) # e
    <3>1. WordOf(x) < Len(s) => t[WordOf(x) + 1] = s[WordOf(x) + 1]
      BY <1>1, <1>2, <2>1, <2>3
    <3> QED BY <1>2, <3>1 DEF Within
  <2> QED BY <2>2, <2>3
<1>5. Within(t, Len(t)) \subseteq Nat /\ Within(s, Len(s)) \subseteq Nat
  BY DEF Within
<1> QED BY <1>3, <1>4, <1>5 DEF Changed

\* What a call that looks for a bit has passed.
Searched ==
  /\ user = "program" => doing = Idle
  /\ doing.op # "none" => doing.start \in Bits /\ doing.start <= doing.n
  /\ doing.op \notin {"next_set", "next_clear"} => doing.n = doing.start
  /\ doing.op = "next_set" =>
       \A b \in doing.start .. doing.n - 1 : b \notin Contents
  /\ doing.op = "next_clear" =>
       \A b \in doing.start .. doing.n - 1 : b \in Contents

\* Idle has nothing to have passed.
LEMMA IdleSearched ==
  ASSUME doing' = Idle
  PROVE  Searched'
<1>1. doing'.op = "none" /\ doing'.n = doing'.start
  BY DEF Idle
<1> QED BY <1>1 DEF Searched, Idle

\* The bit that a call is at is set if the set has its number.
LEMMA IsSetIs ==
  ASSUME Inv, Inv', Ensured
  PROVE  IsSet <=> doing.n \in Contents
<1>1. /\ doing.n \in Nat /\ WordOf(doing.n) + 1 <= Words.count
      /\ WordOf(doing.n) \in Nat
  BY EnsuredIs
<1>2. Contents = Within(Words.cells, Words.count) /\ Words.count \in Nat
  BY ContentsAre
<1>3. WordOf(doing.n) < Words.count
  BY <1>1, <1>2
<1> QED BY <1>1, <1>2, <1>3 DEF Within, IsSet, Bit, Word

\* ensure changes nothing that is in the set.
LEMMA EnsureSets ==
  ASSUME Inv, Ensure, Searched, UNCHANGED user
  PROVE  Inv' /\ Searched' /\ UNCHANGED <<Contents, call>>
<1>1. Inv' /\ (Words.cells)' = Append(Words.cells, {})
  BY EnsureKeeps
<1>2. PICK s : s = Words.cells
  OBVIOUS
<1>3. PICK t : t = (Words.cells)'
  OBVIOUS
<1>4. /\ AreWords(s) /\ Contents = Within(s, Len(s))
      /\ Contents' = Within(t, Len(t)) /\ t = Append(s, {})
  BY <1>1, <1>2, <1>3, ContentsAre
<1>5. Contents' = Contents
  BY <1>4, WithinGrown
<1>6. UNCHANGED <<call, doing>>
  BY DEF Ensure
<1>7. Searched'
  BY <1>5, <1>6 DEF Searched, Idle
<1> QED BY <1>1, <1>5, <1>6, <1>7

\* A word that is rewritten in the bit that a call is at.
LEMMA RewriteSets ==
  ASSUME Inv, Ensured, Searched, doing.op \in {"set", "clear", "toggle"},
         NEW word \in SUBSET (0 .. WordSize - 1), Rewrite(word),
         \A b : b # Bit => (b \in word <=> b \in Word)
  PROVE  /\ Inv' /\ Searched' /\ doing.n \in Bits
         /\ doing.n \in Contents' <=> Bit \in word
         /\ \A x : x # doing.n => (x \in Contents' <=> x \in Contents)
         /\ call' = [op |-> doing.op, index |-> doing.n, value |-> 0,
                     answer |-> << >>]
<1>1. /\ Inv'
      /\ (Words.cells)' = [Words.cells EXCEPT ![WordOf(doing.n) + 1] = word]
  BY RewriteKeeps
<1>2. PICK s : s = Words.cells
  OBVIOUS
<1>3. PICK t : t = (Words.cells)'
  OBVIOUS
<1>4. PICK n : n = doing.n
  OBVIOUS
<1>5. /\ AreWords(s) /\ Contents = Within(s, Len(s))
      /\ Contents' = Within(t, Len(t))
      /\ t = [s EXCEPT ![WordOf(n) + 1] = word]
  BY <1>1, <1>2, <1>3, <1>4, ContentsAre
<1>6. n \in Nat /\ WordOf(n) < Len(s)
  <2>1. /\ doing.n \in Nat /\ WordOf(doing.n) + 1 <= Words.count
        /\ WordOf(doing.n) \in Nat /\ Words.count \in Nat
        /\ Len(Words.cells) = Words.count
    BY EnsuredIs
  <2> QED BY <1>2, <1>4, <2>1
<1>7. Rebit(s, n, word)
  BY <1>2, <1>4 DEF Bit, Word, Rebit
<1>8. Changed(t, s, n, word)
  BY <1>5, <1>6, <1>7, WithinRewritten
<1>9. /\ doing' = Idle
      /\ call' = [op |-> doing.op, index |-> doing.start, value |-> 0,
                  answer |-> << >>]
  BY DEF Rewrite, Return, Answers, Told, NoAnswer
<1>10. doing.start = doing.n /\ doing.start \in Bits
  BY DEF Searched
<1>11. Searched'
  BY <1>9, IdleSearched
<1> QED BY <1>1, <1>4, <1>5, <1>8, <1>9, <1>10, <1>11 DEF Bit, Changed

\* set
LEMMA SetSets ==
  ASSUME Inv, SetBit, Searched
  PROVE  Inv' /\ Searched' /\ AsSet!Next
<1>1. Ensured /\ doing.op = "set" /\ Rewrite(Word \cup {Bit})
  BY DEF SetBit
<1>2. PICK word : word = Word \cup {Bit}
  OBVIOUS
<1>3. word \in SUBSET (0 .. WordSize - 1)
  BY <1>1, <1>2, EnsuredIs
<1>4. \A b : b # Bit => (b \in word <=> b \in Word)
  BY <1>2
<1>5. /\ Inv' /\ Searched' /\ doing.n \in Bits
      /\ doing.n \in Contents' <=> Bit \in word
      /\ \A x : x # doing.n => (x \in Contents' <=> x \in Contents)
      /\ call' = [op |-> "set", index |-> doing.n, value |-> 0,
                  answer |-> << >>]
  BY <1>1, <1>2, <1>3, <1>4, RewriteSets
<1>6. Contents' = Contents \cup {doing.n}
  BY <1>2, <1>5
<1>7. AsSet!Set(doing.n)
  BY <1>5, <1>6 DEF AsSet!Set, AsSet!Said
<1> QED BY <1>5, <1>7 DEF AsSet!Next

\* clear
LEMMA ClearSets ==
  ASSUME Inv, ClearBit, Searched
  PROVE  Inv' /\ Searched' /\ AsSet!Next
<1>1. Ensured /\ doing.op = "clear" /\ Rewrite(Word \ {Bit})
  BY DEF ClearBit
<1>2. PICK word : word = Word \ {Bit}
  OBVIOUS
<1>3. word \in SUBSET (0 .. WordSize - 1)
  BY <1>1, <1>2, EnsuredIs
<1>4. \A b : b # Bit => (b \in word <=> b \in Word)
  BY <1>2
<1>5. /\ Inv' /\ Searched' /\ doing.n \in Bits
      /\ doing.n \in Contents' <=> Bit \in word
      /\ \A x : x # doing.n => (x \in Contents' <=> x \in Contents)
      /\ call' = [op |-> "clear", index |-> doing.n, value |-> 0,
                  answer |-> << >>]
  BY <1>1, <1>2, <1>3, <1>4, RewriteSets
<1>6. Contents' = Contents \ {doing.n}
  BY <1>2, <1>5
<1>7. AsSet!Clear(doing.n)
  BY <1>5, <1>6 DEF AsSet!Clear, AsSet!Said
<1> QED BY <1>5, <1>7 DEF AsSet!Next

\* toggle
LEMMA ToggleSets ==
  ASSUME Inv, ToggleBit, Searched
  PROVE  Inv' /\ Searched' /\ AsSet!Next
<1>1. PICK word : word = IF IsSet THEN Word \ {Bit} ELSE Word \cup {Bit}
  OBVIOUS
<1>2. Ensured /\ doing.op = "toggle" /\ Rewrite(word)
  BY <1>1 DEF ToggleBit
<1>3. word \in SUBSET (0 .. WordSize - 1)
  BY <1>1, <1>2, EnsuredIs
<1>4. /\ \A b : b # Bit => (b \in word <=> b \in Word)
      /\ Bit \in word <=> ~IsSet
  BY <1>1
<1>5. /\ Inv' /\ Searched' /\ doing.n \in Bits
      /\ doing.n \in Contents' <=> Bit \in word
      /\ \A x : x # doing.n => (x \in Contents' <=> x \in Contents)
      /\ call' = [op |-> "toggle", index |-> doing.n, value |-> 0,
                  answer |-> << >>]
  BY <1>2, <1>3, <1>4, RewriteSets
<1>6. IsSet <=> doing.n \in Contents
  BY <1>2, <1>5, IsSetIs
<1>7. Contents' = IF doing.n \in Contents THEN Contents \ {doing.n}
                  ELSE Contents \cup {doing.n}
  BY <1>4, <1>5, <1>6
<1>8. AsSet!Toggle(doing.n)
  BY <1>5, <1>7 DEF AsSet!Toggle, AsSet!Said
<1> QED BY <1>5, <1>8 DEF AsSet!Next

\* What is the same array is the same set.
LEMMA SameContents ==
  ASSUME arrays' = arrays
  PROVE  Contents' = Contents
BY DEF Contents, Elements, Words

\* get
LEMMA GetSets ==
  ASSUME Inv, GetBit, Searched
  PROVE  Inv' /\ Searched' /\ AsSet!Next
<1>1. /\ Ensured /\ doing.op = "get" /\ doing' = Idle
      /\ Becomes(Touched(Memory, "words", WordOf(doing.n) + 1))
      /\ call' = [op |-> "get", index |-> doing.start, value |-> 0,
                  answer |-> Truth(IsSet)]
  BY DEF GetBit, Return, Answers, Told
<1>2. Inv' /\ arrays' = arrays
  BY <1>1, AnswerKeeps DEF Idle, Doings
<1>3. Contents' = Contents /\ Searched'
  BY <1>1, <1>2, SameContents, IdleSearched
<1>4. IsSet <=> doing.n \in Contents
  BY <1>1, <1>2, IsSetIs
<1>5. doing.start = doing.n /\ doing.n \in Bits
  BY <1>1 DEF Searched
<1>6. Truth(IsSet) = IF doing.n \in Contents THEN << 1 >> ELSE << 0 >>
  BY <1>4 DEF Truth
<1>7. AsSet!Get(doing.n)
  BY <1>1, <1>3, <1>5, <1>6 DEF AsSet!Get, AsSet!Said
<1> QED BY <1>2, <1>3, <1>5, <1>7 DEF AsSet!Next

\* SetSpec counts as its module does.
LEMMA CountsAlike == \A S : AsSet!Cardinality(S) = Cardinality(S)
BY DEF AsSet!Cardinality, Cardinality

\* The answer of next_set and next_clear: of next_clear's bits there are no
\* more before it than there are in the set.
LEMMA FindSets ==
  ASSUME Inv, Find, Searched
  PROVE  Inv' /\ Searched' /\ AsSet!Next
<1> DEFINE b == doing.n
           n == doing.start
<1>1. /\ Ensured /\ doing.op \in {"next_set", "next_clear"} /\ doing' = Idle
      /\ IsSet = (doing.op = "next_set")
      /\ Becomes(Touched(Memory, "words", WordOf(doing.n) + 1))
      /\ call' = [op |-> doing.op, index |-> n, value |-> 0, answer |-> << b >>]
  BY DEF Find, Searching, Found, Return, Answers, Told, Value
<1>2. Inv' /\ arrays' = arrays
  BY <1>1, AnswerKeeps DEF Idle, Doings
<1>3. Contents' = Contents /\ Searched'
  BY <1>1, <1>2, SameContents, IdleSearched
<1>4. (doing.op = "next_set") <=> b \in Contents
  BY <1>1, <1>2, IsSetIs
<1>5. n \in Bits /\ n <= b /\ n \in Nat /\ b \in Nat
  BY <1>1, BitsetAssumption DEF Searched, Inv, Doings
<1>6. CASE doing.op = "next_set"
  <2>1. b \in Contents /\ (n .. b - 1) \cap Contents = {}
    BY <1>4, <1>6 DEF Searched
  <2>2. AsSet!NextSet(n)
    BY <1>1, <1>3, <1>5, <1>6, <2>1 DEF AsSet!NextSet, AsSet!Said
  <2> QED BY <1>2, <1>3, <1>5, <2>2 DEF AsSet!Next
<1>7. CASE doing.op = "next_clear"
  <2>1. b \notin Contents /\ n .. b - 1 \subseteq Contents
    BY <1>4, <1>7 DEF Searched
  <2>2. b \in n .. n + Cardinality(Contents)
    <3>1. PICK S : S = n .. b - 1
      OBVIOUS
    <3>2. IsFiniteSet(Contents) /\ S \in SUBSET Contents
      BY <1>2, <2>1, <3>1, ContentsAre
    <3>3. Cardinality(S) <= Cardinality(Contents)
      BY <3>2, FS_Subset
    <3>4. Cardinality(Contents) \in Nat
      BY <3>2, FS_CardinalityType
    <3>5. Cardinality(S) = b - n
      <4>1. n \in Int /\ b - 1 \in Int
        BY <1>5
      <4>2. Cardinality(n .. b - 1) = IF n > b - 1 THEN 0 ELSE b - 1 - n + 1
        BY <4>1, FS_Interval
      <4> QED BY <1>5, <3>1, <4>2
    <3> QED BY <1>5, <3>3, <3>4, <3>5
  <2>3. AsSet!NextClear(n)
    BY <1>1, <1>3, <1>7, <2>1, <2>2, CountsAlike DEF AsSet!NextClear, AsSet!Said
  <2> QED BY <1>2, <1>3, <1>5, <2>3 DEF AsSet!Next
<1> QED BY <1>1, <1>6, <1>7

\* bits_set
LEMMA BitsSetSets ==
  ASSUME Inv, BitsSet, Searched, UNCHANGED user
  PROVE  Inv' /\ Searched' /\ AsSet!Next
<1> DEFINE ones == CHOOSE f : f = [i \in 0 .. Words.count |->
                                     IF i = 0 THEN 0
                                     ELSE f[i - 1] + Cardinality(Words.cells[i])]
<1>1. /\ doing = Idle /\ doing' = doing /\ Becomes(Memory) /\ status = "running"
      /\ call' = [op |-> "bits_set", index |-> 0, value |-> 0,
                  answer |-> << ones[Words.count] >>]
  BY DEF BitsSet, Answers, Told, Value
<1>2. Inv'
  BY <1>1, AskKeeps DEF Inv
<1>3. arrays' = arrays
  BY <1>1 DEF Becomes, Memory
<1>4. Contents' = Contents /\ Searched'
  BY <1>1, <1>3, SameContents, IdleSearched
<1>5. ones[Words.count] = Cardinality(Contents)
  <2>1. PICK s : s = Words.cells
    OBVIOUS
  <2>2. PICK n : n = Words.count
    OBVIOUS
  <2>3. /\ AreWords(s) /\ Len(s) = n /\ n \in Nat
        /\ Contents = Within(s, n)
    BY <1>2, <2>1, <2>2, ContentsAre
  <2> DEFINE g == CHOOSE f : f = [i \in 0 .. n |->
                                    IF i = 0 THEN 0
                                    ELSE f[i - 1] + Cardinality(s[i])]
  <2>4. g[n] = Cardinality(Within(s, n))
    BY <2>3, OnesIs
  <2>5. ones[Words.count] = g[n]
    BY <2>1, <2>2
  <2> HIDE DEF g, ones
  <2> QED BY <2>3, <2>4, <2>5
<1> HIDE DEF ones
<1>6. AsSet!BitsSet
  BY <1>1, <1>4, <1>5, CountsAlike DEF AsSet!BitsSet, AsSet!Said
<1> QED BY <1>2, <1>4, <1>6 DEF AsSet!Next

\* A call begins with nothing passed.
LEMMA BeginSets ==
  ASSUME Inv, NEW op \in Operations, NEW n \in Bits, Begin(op, n),
         user = "test", UNCHANGED user
  PROVE  Searched' /\ UNCHANGED <<Contents, call>>
<1>1. doing' = [op |-> op, start |-> n, n |-> n] /\ n \in Nat
      /\ UNCHANGED arraysVars
  BY BitsetAssumption DEF Begin
<1>2. doing'.start = n /\ doing'.n = n /\ n <= n
  BY <1>1
<1>3. \A b \in n .. n - 1 : FALSE
  BY <1>1
<1>4. Searched'
  BY <1>2, <1>3 DEF Searched
<1>5. Contents' = Contents
  BY <1>1, SameContents DEF arraysVars
<1> QED BY <1>1, <1>4, <1>5 DEF arraysVars

\* next_set and next_clear go on by one bit, which was not what they look for.
LEMMA LookSets ==
  ASSUME Inv, Inv', LookFurther, Searched, user = "test", UNCHANGED user
  PROVE  Searched' /\ UNCHANGED <<Contents, call>>
<1>1. /\ Ensured /\ doing.op \in {"next_set", "next_clear"}
      /\ IsSet # (doing.op = "next_set")
      /\ doing' = [doing EXCEPT !.n = @ + 1] /\ UNCHANGED arraysVars
  BY DEF LookFurther, Searching, Found, IsSet
<1>2. Contents' = Contents
  BY <1>1, SameContents DEF arraysVars
<1>3. (doing.op = "next_set") <=> doing.n \notin Contents
  <2>1. IsSet \in BOOLEAN /\ (IsSet <=> doing.n \in Contents)
    BY <1>1, IsSetIs DEF IsSet
  <2> QED BY <1>1, <2>1
<1>4. /\ doing'.op = doing.op /\ doing'.start = doing.start
      /\ doing'.n = doing.n + 1
      /\ doing.n \in Nat /\ doing.start \in Nat
  BY <1>1 DEF Inv, Doings
<1>5. /\ doing.start \in Bits /\ doing.start <= doing.n
  BY <1>1 DEF Searched
<1>6. \A b \in doing.start .. doing.n + 1 - 1 :
        b = doing.n \/ b \in doing.start .. doing.n - 1
  BY <1>4, <1>5
<1>7. CASE doing.op = "next_set"
  <2>1. \A b \in doing.start .. doing.n + 1 - 1 : b \notin Contents
    BY <1>3, <1>6, <1>7 DEF Searched
  <2> QED BY <1>1, <1>2, <1>4, <1>5, <1>7, <2>1 DEF Searched, arraysVars
<1>8. CASE doing.op = "next_clear"
  <2>1. \A b \in doing.start .. doing.n + 1 - 1 : b \in Contents
    BY <1>3, <1>6, <1>8 DEF Searched
  <2> QED BY <1>1, <1>2, <1>4, <1>5, <1>8, <2>1 DEF Searched, arraysVars
<1> QED BY <1>1, <1>7, <1>8

\* Every step of a call of a bitset is one of a set, or none.
LEMMA BitsetSets ==
  ASSUME Inv, Inv', Searched, BitsetNext, user = "test", UNCHANGED user
  PROVE  Searched' /\ [AsSet!Next]_<<Contents, call>>
<1>1. CASE \E op \in Operations, n \in Bits : Begin(op, n)
  BY <1>1, BeginSets
<1>2. CASE Ensure
  BY <1>2, EnsureSets
<1>3. CASE SetBit
  BY <1>3, SetSets
<1>4. CASE ClearBit
  BY <1>4, ClearSets
<1>5. CASE ToggleBit
  BY <1>5, ToggleSets
<1>6. CASE GetBit
  BY <1>6, GetSets
<1>7. CASE LookFurther
  BY <1>7, LookSets
<1>8. CASE Find
  BY <1>8, FindSets
<1>9. CASE BitsSet
  BY <1>9, BitsSetSets
<1> QED BY <1>1, <1>2, <1>3, <1>4, <1>5, <1>6, <1>7, <1>8, <1>9
        DEF BitsetNext, Perform

\* What a call has passed is what it was not looking for, and no call is under
\* way while the program runs.
LEMMA SearchedKept == Spec => []Searched
<1>1. Init => Searched
  BY DEF Init, Idle, Searched
<1>2. Inv /\ Inv' /\ Searched /\ [Next]_vars => Searched'
  <2> SUFFICES ASSUME Inv, Inv', Searched, [Next]_vars
               PROVE  Searched'
    OBVIOUS
  <2>1. CASE UNCHANGED vars
    <3>1. UNCHANGED <<arrays, user, doing>>
      BY <2>1 DEF vars, arraysVars
    <3>2. Contents' = Contents
      BY <3>1, SameContents
    <3> QED BY <3>1, <3>2 DEF Searched, Idle
  <2>2. CASE user = "program" /\ UNCHANGED <<user, doing>>
    <3>1. doing' = Idle
      BY <2>2 DEF Searched
    <3> QED BY <3>1, IdleSearched
  <2>3. CASE user = "test" /\ BitsetNext /\ UNCHANGED user
    BY <2>3, BitsetSets
  <2> QED BY <2>1, <2>2, <2>3 DEF Next
<1> QED BY <1>1, <1>2, MemoryIsKept, PTL DEF Spec

\* A bitset is a set: every call does to it what SetSpec's does to its set, and
\* every answer is the set's, across the words that any call adds: bits_set
\* counts it, and next_set and next_clear find the first.
THEOREM BitsetIsSet == Spec => IsBitset
<1>1. Init => AsSet!Init
  <2> SUFFICES ASSUME Init
               PROVE  AsSet!Init
    OBVIOUS
  <2>1. Words.count = 0 /\ call = [op |-> "none"]
    BY DEF Init, ArraysInit, NewArray, Words
  <2>2. Elements = {}
    BY <2>1 DEF Elements
  <2> QED BY <2>1, <2>2 DEF AsSet!Init, Contents
<1>2. Inv /\ Inv' /\ Searched /\ [Next]_vars
        => [user = "test" => AsSet!Next]_<<Contents, call>>
  <2> SUFFICES ASSUME Inv, Inv', Searched, [Next]_vars, user = "test"
               PROVE  [AsSet!Next]_<<Contents, call>>
    OBVIOUS
  <2>1. CASE UNCHANGED vars
    BY <2>1, SameContents DEF vars, arraysVars
  <2>2. CASE BitsetNext /\ UNCHANGED user
    BY <2>2, BitsetSets
  <2> QED BY <2>1, <2>2 DEF Next
<1> QED BY <1>1, <1>2, MemoryIsKept, SearchedKept, PTL DEF Spec, IsBitset
=============================================================================
