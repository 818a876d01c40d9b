---------------------------- MODULE NumberProofs ----------------------------
(***************************************************************************)
(* Facts about numbers that the other proofs share: least elements, so     *)
(* that the CHOOSE in Min has something to choose, and remainders, for the *)
(* probes of a table that wrap around its end.                             *)
(***************************************************************************)
EXTENDS Integers, FiniteSets, TLAPS, FiniteSetTheorems

\* There are m + 1 naturals up to m.
LEMMA FirstNaturals ==
  ASSUME NEW m \in Nat
  PROVE  IsFiniteSet(0 .. m) /\ Cardinality(0 .. m) = m + 1
<1>1. IsFiniteSet(0 .. m)
  BY FS_Interval
<1>2. Cardinality(0 .. m) = IF 0 > m THEN 0 ELSE m - 0 + 1
  BY FS_Interval
<1> QED BY <1>1, <1>2

\* A nonempty set of naturals has a least element: of the finite initial
\* parts of the set, a smallest one ends there.
LEMMA LeastNatural ==
  ASSUME NEW S \in SUBSET Nat, S # {}
  PROVE  \E m \in S : \A y \in S : m <= y
<1> DEFINE Part(x) == S \cap (0 .. x)
           Parts == {Part(x) : x \in S}
<1>1. \A x \in S : IsFiniteSet(Part(x))
  <2> TAKE x \in S
  <2>1. IsFiniteSet(0 .. x)
    BY FS_Interval
  <2> QED BY <2>1, FS_Subset
<1>2. Parts \subseteq FiniteSubsetsOf(S) /\ Parts # {}
  BY <1>1 DEF FiniteSubsetsOf
<1>3. PICK P \in Parts :
        \A Q \in Parts : <<Q, P>> \notin StrictSubsetOrdering(S)
  <2> HIDE DEF Parts
  <2>1. IsWellFoundedOn(StrictSubsetOrdering(S), FiniteSubsetsOf(S))
    BY FS_StrictSubsetOrderingWellFounded
  <2> QED BY <1>2, <2>1, WFMin
<1>4. PICK m \in S : P = Part(m)
  BY <1>3
<1>5. ASSUME NEW y \in S, y < m
      PROVE  FALSE
  <2>1. Part(y) \in Parts /\ Part(y) \subseteq Part(m) /\ m \in Part(m) \ Part(y)
    BY <1>5
  <2>2. <<Part(y), Part(m)>> \in StrictSubsetOrdering(S)
    BY <2>1 DEF StrictSubsetOrdering
  <2> QED BY <1>3, <1>4, <2>1, <2>2
<1>6. \A y \in S : m <= y
  BY <1>5
<1> QED BY <1>4, <1>6

\* How far a probe of n slots that starts at hash h has to go to reach slot i.
Dist(n, h, i) == (i - h) % n

\* Going on from h by the remainder of a distance leads to the place that far
\* away, around the end or not: a probe stops where its loop condition held.
LEMMA DistArrives ==
  ASSUME NEW n \in Nat, n > 0, NEW h \in Nat, NEW i \in 0 .. n - 1
  PROVE  Dist(n, h, i) \in Nat /\ (h + Dist(n, h, i)) % n = i
<1> DEFINE r == Dist(n, h, i)
<1> DEFINE q == (i - h) \div n
<1>1. r \in 0 .. n - 1 /\ q \in Int /\ i - h = n * q + r
  BY DEF Dist
<1> HIDE DEF q, r
<1> DEFINE m == h + r
           e == m \div n
           d == m % n
<1>2. m \in Int /\ m = i - n * q
  BY <1>1
<1> HIDE DEF m
<1>3. e \in Int /\ d \in 0 .. n - 1 /\ m = n * e + d
  BY <1>2
<1> HIDE DEF e, d
<1>4. n * (e + q) = i - d
  BY <1>1, <1>2, <1>3
<1>5. e + q = 0
  <2> DEFINE k == e + q
  <2>1. k \in Int /\ n * k = i - d
    BY <1>1, <1>3, <1>4
  <2> HIDE DEF k
  <2>2. n * k < n /\ n * k > -n
    BY <1>3, <2>1
  <2>3. ~(k >= 1)
    BY <2>1, <2>2
  <2>4. ~(k <= -1)
    BY <2>1, <2>2
  <2>5. k = 0
    BY <2>1, <2>3, <2>4
  <2> QED BY <2>5 DEF k
<1>6. d = i
  BY <1>3, <1>4, <1>5
<1> QED BY <1>1, <1>6 DEF d, m, r

\* There is one way to divide with a remainder below the divisor.
LEMMA RemainderUnique ==
  ASSUME NEW n \in Nat, n > 0, NEW q \in Int, NEW r \in 0 .. n - 1,
         NEW m, m = n * q + r
  PROVE  m % n = r
<1> DEFINE e == m \div n
           d == m % n
<1>1. m \in Int /\ r \in Int
  OBVIOUS
<1>2. e \in Int /\ d \in 0 .. n - 1 /\ m = n * e + d
  BY <1>1
<1> HIDE DEF e, d
<1> DEFINE k == e - q
<1>3. k \in Int /\ n * k = r - d
  BY <1>1, <1>2
<1> HIDE DEF k
<1>4. n * k < n /\ n * k > -n
  BY <1>1, <1>2, <1>3
<1>5. ~(k >= 1)
  BY <1>3, <1>4
<1>6. ~(k <= -1)
  BY <1>3, <1>4
<1>7. k = 0
  BY <1>3, <1>5, <1>6
<1>8. r = d
  BY <1>1, <1>2, <1>3, <1>7
<1> QED BY <1>8 DEF d

\* Walking from where h leads, around the end or not, for no more steps than
\* lead to i, passes only slots that are no farther from h than i.
LEMMA ProbeWalk ==
  ASSUME NEW n \in Nat, n > 0, NEW h \in Nat, NEW i \in 0 .. n - 1,
         NEW d \in 0 .. (i - (h % n) + n) % n
  PROVE  /\ ((h % n) + d) % n \in 0 .. n - 1
         /\ Dist(n, h, ((h % n) + d) % n) <= Dist(n, h, i)
<1> DEFINE H == h % n
           q == h \div n
           D == Dist(n, h, i)
           e == (i - h) \div n
           f == (H + d) \div n
           j == (H + d) % n
           w == i - H + n
<1>1. H \in 0 .. n - 1 /\ q \in Int /\ h = n * q + H
  OBVIOUS
<1>2. D \in 0 .. n - 1 /\ e \in Int /\ i - h = n * e + D
  BY DEF Dist
<1>3. d \in 0 .. w % n
  OBVIOUS
<1> HIDE DEF H, q, D, e
<1>4. w \in Int /\ w = n * (e + q + 1) + D
  BY <1>1, <1>2
<1> HIDE DEF w
<1>5. w % n = D
  <2> DEFINE k == e + q + 1
  <2>1. k \in Int /\ w = n * k + D
    BY <1>1, <1>2, <1>4
  <2> HIDE DEF k
  <2> QED BY <1>2, <2>1, RemainderUnique
<1>6. d \in 0 .. n - 1 /\ d <= D
  BY <1>2, <1>3, <1>5
<1>7. f \in Int /\ j \in 0 .. n - 1 /\ H + d = n * f + j
  BY <1>1, <1>6
<1> HIDE DEF f, j
<1>8. Dist(n, h, j) = d
  <2> DEFINE k == - f - q
             m == j - h
  <2>1. k \in Int /\ m = n * k + d
    BY <1>1, <1>6, <1>7
  <2>2. Dist(n, h, j) = m % n
    BY DEF Dist
  <2> HIDE DEF k, m
  <2>3. m % n = d
    BY <1>6, <2>1, RemainderUnique
  <2> QED BY <2>2, <2>3
<1> QED BY <1>6, <1>7, <1>8 DEF H, D, j
=============================================================================
