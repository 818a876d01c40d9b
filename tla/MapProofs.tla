----------------------------- MODULE MapProofs -----------------------------
(***************************************************************************)
(* A Hash_Table used without remove is a map, and used with it loses no    *)
(* key but the one removed, for every hash function and every size.        *)
(*                                                                         *)
(* First the operations on a table: the count stays the number of entries, *)
(* every probe ends, every entry stays where a lookup finds it, and        *)
(* growing moves the entries without losing or doubling a key.  These rest *)
(* on each other: put adds one to count for an entry that is new only if   *)
(* its probe stops at a slot that is not occupied, there is such a slot    *)
(* only because count stays two below size, and that this bound says       *)
(* anything about slots is the exactness of count.  Then the invariant     *)
(* that the calls keep, and what it makes of the answers.                  *)
(***************************************************************************)
EXTENDS HashTable, NumberProofs

\* What every operation on a table keeps.
TableOK(t) ==
  /\ t = [size |-> t.size, count |-> t.count, hashes |-> t.hashes,
          keys |-> t.keys, values |-> t.values]
  /\ t.size \in Nat /\ t.size > 2
  /\ t.hashes \in [Slots(t) -> Nat]
  /\ t.count = Cardinality(OccupiedSlots(t))
  /\ t.count <= t.size - 2

\* No key was ever removed.
NoTombstones(t) == \A i \in Slots(t) : t.hashes[i] # REMOVED

-----------------------------------------------------------------------------
(* Slots.                                                                  *)

\* Occupied slots can be counted.
LEMMA OccupiedFinite ==
  ASSUME NEW t, t.size \in Nat
  PROVE  /\ IsFiniteSet(Slots(t)) /\ Cardinality(Slots(t)) = t.size
         /\ IsFiniteSet(OccupiedSlots(t))
         /\ Cardinality(OccupiedSlots(t)) \in Nat
<1>1. IsFiniteSet(Slots(t)) /\ Cardinality(Slots(t)) = t.size
  BY FS_Interval DEF Slots
<1>2. OccupiedSlots(t) \in SUBSET Slots(t)
  BY DEF OccupiedSlots
<1> QED BY <1>1, <1>2, FS_Subset, FS_CardinalityType

\* A table always has a slot that is not occupied.
LEMMA RoomLeft ==
  ASSUME NEW t, TableOK(t)
  PROVE  \E i \in Slots(t) : ~Occupied(t.hashes[i])
<1> SUFFICES ASSUME \A i \in Slots(t) : Occupied(t.hashes[i])
             PROVE  FALSE
  OBVIOUS
<1>1. OccupiedSlots(t) = Slots(t)
  BY DEF OccupiedSlots
<1> QED BY <1>1, OccupiedFinite DEF TableOK

\* The hash that is stored is never one of the two marks.
LEMMA StoredHash ==
  ASSUME NEW k, Hash(k) \in Nat
  PROVE  GetHash(k) \in Nat /\ Occupied(GetHash(k))
BY DEF GetHash, Occupied, FirstValidHash

\* Two slots at the same distance are the same.
LEMMA DistInjective ==
  ASSUME NEW n \in Nat, n > 0, NEW h \in Nat,
         NEW i \in 0 .. n - 1, NEW j \in 0 .. n - 1,
         Dist(n, h, i) = Dist(n, h, j)
  PROVE  i = j
BY DistArrives

\* A probe that does not go on forever ends at the nearest slot that stops it.
LEMMA ProbeStops ==
  ASSUME NEW n \in Nat, n > 0, NEW h \in Nat, NEW stops \in SUBSET (0 .. n - 1),
         stops # {}
  PROVE  /\ ProbeFrom(n, h, stops) \in stops
         /\ \A j \in stops : Dist(n, h, ProbeFrom(n, h, stops)) <= Dist(n, h, j)
<1> DEFINE ds == {Dist(n, h, i) : i \in stops}
<1>1. ds \in SUBSET Nat /\ ds # {}
  <2>1. \A i \in stops : Dist(n, h, i) \in Nat
    BY DistArrives
  <2> QED BY <2>1
<1>2. Min(ds) \in ds /\ \A d \in ds : Min(ds) <= d
  <2> HIDE DEF ds
  <2> QED BY <1>1, LeastNatural DEF Min
<1>3. PICK i \in stops : Min(ds) = Dist(n, h, i)
  BY <1>2
<1>4. (h + Min(ds)) % n = i
  <2> HIDE DEF ds
  <2> QED BY <1>3, DistArrives
<1>5. ProbeFrom(n, h, stops) = (h + Min(ds)) % n
  BY <1>1 DEF ProbeFrom, Dist
<1>6. ProbeFrom(n, h, stops) = i
  BY <1>4, <1>5
<1>7. \A j \in stops : Dist(n, h, i) <= Dist(n, h, j)
  <2> TAKE j \in stops
  <2>1. Dist(n, h, j) \in ds
    OBVIOUS
  <2> HIDE DEF ds
  <2> QED BY <1>2, <1>3, <2>1
<1> QED BY <1>6, <1>7

\* put stops at the entry of its key, or at a slot that is not occupied: at
\* the nearest of them.
LEMMA PutStops ==
  ASSUME NEW t, TableOK(t), NEW k, GetHash(k) \in Nat
  PROVE  /\ PutSlot(t, k) \in Slots(t)
         /\ Matches(t, k, PutSlot(t, k)) \/ ~Occupied(t.hashes[PutSlot(t, k)])
         /\ \A j \in Slots(t) :
              Matches(t, k, j) \/ ~Occupied(t.hashes[j]) =>
                Dist(t.size, GetHash(k), PutSlot(t, k))
                  <= Dist(t.size, GetHash(k), j)
<1> DEFINE stops == {i \in Slots(t) : Matches(t, k, i) \/ ~Occupied(t.hashes[i])}
<1>1. stops # {} /\ stops \in SUBSET (0 .. t.size - 1)
  BY RoomLeft DEF Slots
<1> DEFINE s == ProbeFrom(t.size, GetHash(k), stops)
<1>2. /\ s \in stops
      /\ \A j \in stops : Dist(t.size, GetHash(k), s) <= Dist(t.size, GetHash(k), j)
  <2> HIDE DEF stops
  <2> QED BY <1>1, ProbeStops DEF TableOK
<1>3. PutSlot(t, k) = s
  BY DEF PutSlot
<1> HIDE DEF s
<1> QED BY <1>2, <1>3

\* So does what a lookup finds.
LEMMA GetStops ==
  ASSUME NEW t, TableOK(t), NEW k, GetHash(k) \in Nat, Found(t, k)
  PROVE  GetSlot(t, k) \in Slots(t) /\ Matches(t, k, GetSlot(t, k))
<1> DEFINE stops == {i \in Slots(t) : Matches(t, k, i) \/ t.hashes[i] = EMPTY}
<1>1. GetSlot(t, k) = ProbeFrom(t.size, GetHash(k), stops)
  BY DEF GetSlot
<1>2. GetSlot(t, k) # NoSlot /\ Matches(t, k, GetSlot(t, k))
  BY DEF Found
<1>3. stops # {} /\ stops \in SUBSET (0 .. t.size - 1)
  BY <1>1, <1>2 DEF ProbeFrom, Slots
<1>4. GetSlot(t, k) \in stops
  <2> HIDE DEF stops
  <2> QED BY <1>1, <1>3, ProbeStops DEF TableOK
<1> QED BY <1>2, <1>4

-----------------------------------------------------------------------------
(* The operations.                                                         *)

\* A new table has no entries.
LEMMA NewTableOK == TableOK(NewTable) /\ NoTombstones(NewTable)
<1>1. /\ NewTable.size = InitSize /\ NewTable.count = 0
      /\ NewTable.hashes = [i \in 0 .. InitSize - 1 |-> EMPTY]
      /\ NewTable = [size |-> NewTable.size, count |-> NewTable.count,
                     hashes |-> NewTable.hashes, keys |-> NewTable.keys,
                     values |-> NewTable.values]
  BY DEF NewTable, EmptyTable
<1>2. InitSize \in Nat /\ InitSize > 2
  BY SizeAssumption
<1>3. OccupiedSlots(NewTable) = {}
  BY <1>1 DEF OccupiedSlots, Slots, Occupied, EMPTY, FirstValidHash
<1>4. NewTable.hashes \in [Slots(NewTable) -> Nat]
  BY <1>1 DEF Slots, EMPTY
<1>5. NoTombstones(NewTable)
  BY <1>1 DEF NoTombstones, Slots, EMPTY, REMOVED
<1>6. NewTable.count = Cardinality(OccupiedSlots(NewTable))
  BY <1>1, <1>3, FS_EmptySet
<1> QED BY <1>1, <1>2, <1>4, <1>5, <1>6 DEF TableOK

\* Growing keeps the count exact, whichever slots the entries land on: it
\* makes no more entries than there were, in twice the slots.
LEMMA GrowOK ==
  ASSUME NEW t, TableOK(t)
  PROVE  /\ TableOK(Grow(t)) /\ NoTombstones(Grow(t))
         /\ Grow(t).count <= Grow(t).size - 3
<1> DEFINE land == NewSlots(t)
           New == 0 .. 2 * t.size - 1
           from == [s \in New |-> {i \in OccupiedSlots(t) : land[i] = s}]
           hit == {s \in New : from[s] # {}}
           g == Grow(t)
<1>1. /\ t.size \in Nat /\ t.size > 2 /\ t.count <= t.size - 2
      /\ t.hashes \in [Slots(t) -> Nat]
      /\ t.count = Cardinality(OccupiedSlots(t))
  BY DEF TableOK
<1>2. /\ g = [size |-> g.size, count |-> g.count, hashes |-> g.hashes,
              keys |-> g.keys, values |-> g.values]
      /\ g.size = 2 * t.size /\ g.count = Cardinality(hit)
      /\ g.hashes = [s \in New |-> IF from[s] = {} THEN EMPTY
                                   ELSE t.hashes[Min(from[s])]]
  BY DEF Grow
<1>3. ASSUME NEW s \in hit
      PROVE  Min(from[s]) \in OccupiedSlots(t)
  <2>1. from[s] \in SUBSET OccupiedSlots(t)
    OBVIOUS
  <2>2. OccupiedSlots(t) \in SUBSET Nat
    BY <1>1 DEF OccupiedSlots, Slots
  <2>3. from[s] # {}
    OBVIOUS
  <2> HIDE DEF from
  <2>4. Min(from[s]) \in from[s]
    BY <2>1, <2>2, <2>3, LeastNatural DEF Min
  <2> QED BY <2>1, <2>4
<1>4. Cardinality(hit) <= t.count
  <2> DEFINE S == {i \in OccupiedSlots(t) : land[i] \in New}
             f == [i \in S |-> land[i]]
  <2>1. IsFiniteSet(OccupiedSlots(t)) /\ S \in SUBSET OccupiedSlots(t)
    BY <1>1, OccupiedFinite
  <2>2. IsFiniteSet(S) /\ Cardinality(S) <= t.count
    <3> HIDE DEF S
    <3> QED BY <1>1, <2>1, FS_Subset
  <2>3. f \in Surjection(S, hit)
    <3> HIDE DEF land
    <3>1. \A i \in S : land[i] \in hit
      OBVIOUS
    <3>2. \A s \in hit : \E i \in S : land[i] = s
      OBVIOUS
    <3> HIDE DEF S, hit
    <3> QED BY <3>1, <3>2 DEF Surjection
  <2>4. Cardinality(hit) <= Cardinality(S) /\ IsFiniteSet(hit)
    <3> HIDE DEF f, S, hit
    <3> QED BY <2>2, <2>3, FS_Surjection
  <2>5. Cardinality(hit) \in Nat /\ Cardinality(S) \in Nat /\ t.count \in Nat
    <3> HIDE DEF S, hit
    <3> QED BY <1>1, <2>2, <2>4, FS_CardinalityType, OccupiedFinite
  <2> HIDE DEF S, hit
  <2> QED BY <2>2, <2>4, <2>5
<1>5. \A s \in New : IF s \in hit THEN /\ Occupied(g.hashes[s])
                                       /\ g.hashes[s] \in Nat
                                  ELSE g.hashes[s] = EMPTY
  <2> TAKE s \in New
  <2>1. CASE s \in hit
    <3>1. g.hashes[s] = t.hashes[Min(from[s])]
      BY <1>2, <2>1
    <3> HIDE DEF from, hit
    <3> QED BY <1>1, <1>3, <2>1, <3>1 DEF OccupiedSlots
  <2>2. CASE s \notin hit
    BY <1>2, <2>2
  <2> QED BY <2>1, <2>2
<1>6. Slots(g) = New /\ hit \subseteq New
  BY <1>2 DEF Slots
<1>7. DOMAIN g.hashes = New /\ g.hashes = [s \in New |-> g.hashes[s]]
  BY <1>2
<1> HIDE DEF g, hit, New, from, land
<1>8. OccupiedSlots(g) = hit
  BY <1>5, <1>6 DEF OccupiedSlots, Occupied, EMPTY, FirstValidHash
<1>9. g.hashes \in [Slots(g) -> Nat]
  BY <1>5, <1>6, <1>7 DEF EMPTY
<1>10. NoTombstones(g)
  BY <1>5, <1>6 DEF NoTombstones, Occupied, EMPTY, REMOVED, FirstValidHash
<1>11. g.size \in Nat /\ g.size > 2 /\ g.count <= g.size - 3
  <2>1. g.size \in Nat /\ g.count = Cardinality(OccupiedSlots(g))
    BY <1>1, <1>2, <1>8
  <2>2. g.count \in Nat /\ t.count \in Nat
    BY <1>1, <2>1, OccupiedFinite
  <2>3. g.count <= t.count
    BY <1>2, <1>4
  <2> QED BY <1>1, <1>2, <2>2, <2>3
<1>12. TableOK(g)
  <2>1. g.count \in Nat
    BY <1>2, <1>8, <1>11, OccupiedFinite
  <2> QED BY <1>2, <1>8, <1>9, <1>11, <2>1 DEF TableOK
<1> QED BY <1>10, <1>11, <1>12 DEF g

\* ensure_capacity leaves room for one entry more.
LEMMA EnsureOK ==
  ASSUME NEW t, TableOK(t)
  PROVE  /\ TableOK(EnsureCapacity(t))
         /\ EnsureCapacity(t).count <= EnsureCapacity(t).size - 3
         /\ NoTombstones(t) => NoTombstones(EnsureCapacity(t))
<1>1. t.count \in Nat /\ t.size \in Nat
  BY OccupiedFinite DEF TableOK
<1>2. CASE t.count >= t.size - 2
  BY <1>2, GrowOK DEF EnsureCapacity
<1>3. CASE ~(t.count >= t.size - 2)
  BY <1>1, <1>3 DEF EnsureCapacity
<1> QED BY <1>2, <1>3

\* put keeps the count exact: it adds an entry where there was none.
LEMMA PutOK ==
  ASSUME NEW t, TableOK(t), NEW k, Hash(k) \in Nat, NEW v
  PROVE  /\ TableOK(Put(t, k, v))
         /\ NoTombstones(t) => NoTombstones(Put(t, k, v))
<1> DEFINE u == EnsureCapacity(t)
           i == PutSlot(u, k)
           p == Put(t, k, v)
           h == GetHash(k)
<1>1. /\ TableOK(u) /\ u.count <= u.size - 3
      /\ NoTombstones(t) => NoTombstones(u)
  BY EnsureOK
<1>2. h \in Nat /\ Occupied(h)
  BY StoredHash
<1> HIDE DEF u, h
<1>3. i \in Slots(u) /\ (Matches(u, k, i) \/ ~Occupied(u.hashes[i]))
  BY <1>1, <1>2, PutStops DEF h
<1> HIDE DEF i
<1>4. /\ u = [size |-> u.size, count |-> u.count, hashes |-> u.hashes,
              keys |-> u.keys, values |-> u.values]
      /\ u.size \in Nat /\ u.size > 2 /\ u.hashes \in [Slots(u) -> Nat]
      /\ u.count = Cardinality(OccupiedSlots(u)) /\ u.count \in Nat
      /\ IsFiniteSet(OccupiedSlots(u))
  BY <1>1, OccupiedFinite DEF TableOK
<1>5. CASE Matches(u, k, i)
  <2>1. /\ p = [size |-> u.size, count |-> u.count, hashes |-> u.hashes,
                keys |-> u.keys, values |-> [u.values EXCEPT ![i] = v]]
    BY <1>4, <1>5 DEF Put, u, i
  <2>2. p.size = u.size /\ p.count = u.count /\ p.hashes = u.hashes
    BY <2>1
  <2>3. Slots(p) = Slots(u) /\ OccupiedSlots(p) = OccupiedSlots(u)
    BY <2>2 DEF Slots, OccupiedSlots
  <2>4. p = [size |-> p.size, count |-> p.count, hashes |-> p.hashes,
             keys |-> p.keys, values |-> p.values]
    BY <2>1
  <2> HIDE DEF p
  <2>5. TableOK(p)
    BY <1>1, <1>4, <2>2, <2>3, <2>4 DEF TableOK
  <2> QED BY <1>1, <2>2, <2>3, <2>5 DEF NoTombstones, p
<1>6. CASE ~Matches(u, k, i)
  <2>1. /\ p = [size |-> u.size, count |-> u.count + 1,
                hashes |-> [u.hashes EXCEPT ![i] = h],
                keys |-> [u.keys EXCEPT ![i] = k],
                values |-> [u.values EXCEPT ![i] = v]]
    BY <1>4, <1>6 DEF Put, u, i, h
  <2>2. /\ p.size = u.size /\ p.count = u.count + 1
        /\ p.hashes = [u.hashes EXCEPT ![i] = h]
    BY <2>1
  <2>3. p = [size |-> p.size, count |-> p.count, hashes |-> p.hashes,
             keys |-> p.keys, values |-> p.values]
    BY <2>1
  <2> HIDE DEF p
  <2>4. Slots(p) = Slots(u)
    BY <2>2 DEF Slots
  <2>5. i \notin OccupiedSlots(u)
    BY <1>3, <1>6 DEF OccupiedSlots
  <2>6. OccupiedSlots(p) = OccupiedSlots(u) \cup {i}
    BY <1>2, <1>3, <1>4, <2>2, <2>4 DEF OccupiedSlots
  <2>7. Cardinality(OccupiedSlots(p)) = Cardinality(OccupiedSlots(u)) + 1
    BY <1>4, <2>5, <2>6, FS_AddElement
  <2>8. p.hashes \in [Slots(p) -> Nat]
    BY <1>2, <1>3, <1>4, <2>2, <2>4
  <2>9. p.count <= p.size - 2
    BY <1>1, <1>4, <2>2
  <2>10. TableOK(p)
    BY <1>4, <2>2, <2>3, <2>7, <2>8, <2>9 DEF TableOK
  <2>11. NoTombstones(u) => NoTombstones(p)
    BY <1>2, <1>4, <2>2, <2>4
       DEF NoTombstones, Occupied, REMOVED, FirstValidHash
  <2> QED BY <1>1, <2>10, <2>11 DEF p
<1> QED BY <1>5, <1>6

\* put_if_contains changes values only, although it may grow.
LEMMA PutIfContainsOK ==
  ASSUME NEW t, TableOK(t), NEW k, NEW v
  PROVE  /\ TableOK(PutIfContains(t, k, v))
         /\ NoTombstones(t) => NoTombstones(PutIfContains(t, k, v))
<1> DEFINE u == EnsureCapacity(t)
           i == PutSlot(u, k)
           p == [u EXCEPT !.values[i] = v]
<1>1. TableOK(u) /\ (NoTombstones(t) => NoTombstones(u))
  BY EnsureOK
<1> HIDE DEF u, i
<1>2. p = [size |-> u.size, count |-> u.count, hashes |-> u.hashes,
           keys |-> u.keys, values |-> [u.values EXCEPT ![i] = v]]
  BY <1>1 DEF TableOK
<1>3. /\ p.size = u.size /\ p.count = u.count /\ p.hashes = u.hashes
      /\ p = [size |-> p.size, count |-> p.count, hashes |-> p.hashes,
              keys |-> p.keys, values |-> p.values]
  BY <1>2
<1> HIDE DEF p
<1>4. Slots(p) = Slots(u) /\ OccupiedSlots(p) = OccupiedSlots(u)
  BY <1>3 DEF Slots, OccupiedSlots
<1>5. TableOK(p)
  BY <1>1, <1>3, <1>4 DEF TableOK
<1>6. NoTombstones(u) => NoTombstones(p)
  BY <1>3, <1>4 DEF NoTombstones
<1>7. PutIfContains(t, k, v) \in {t, u, p}
  BY DEF PutIfContains, u, i, p
<1> QED BY <1>1, <1>5, <1>6, <1>7

\* remove takes one entry away and counts it.
LEMMA RemoveOK ==
  ASSUME NEW t, TableOK(t), NEW k, Hash(k) \in Nat
  PROVE  TableOK(Remove(t, k))
<1> DEFINE i == GetSlot(t, k)
           p == Remove(t, k)
<1>1. CASE ~Found(t, k)
  BY <1>1 DEF Remove
<1>2. CASE Found(t, k)
  <2>1. i \in Slots(t) /\ t.hashes[i] = GetHash(k)
    BY <1>2, StoredHash, GetStops DEF Matches
  <2>2. /\ t = [size |-> t.size, count |-> t.count, hashes |-> t.hashes,
                keys |-> t.keys, values |-> t.values]
        /\ t.size \in Nat /\ t.size > 2 /\ t.hashes \in [Slots(t) -> Nat]
        /\ t.count = Cardinality(OccupiedSlots(t)) /\ t.count \in Nat
        /\ IsFiniteSet(OccupiedSlots(t)) /\ t.count <= t.size - 2
    BY OccupiedFinite DEF TableOK
  <2>3. p = [t EXCEPT !.hashes[i] = REMOVED, !.count = @ - 1]
    BY <1>2 DEF Remove
  <2> HIDE DEF i, p
  <2>4. p = [size |-> t.size, count |-> t.count - 1,
             hashes |-> [t.hashes EXCEPT ![i] = REMOVED],
             keys |-> t.keys, values |-> t.values]
    BY <2>2, <2>3
  <2>5. /\ p.size = t.size /\ p.count = t.count - 1
        /\ p.hashes = [t.hashes EXCEPT ![i] = REMOVED]
        /\ p = [size |-> p.size, count |-> p.count, hashes |-> p.hashes,
                keys |-> p.keys, values |-> p.values]
    BY <2>4
  <2>6. Slots(p) = Slots(t)
    BY <2>5 DEF Slots
  <2>7. i \in OccupiedSlots(t)
    BY <2>1, StoredHash DEF OccupiedSlots
  <2>8. OccupiedSlots(p) = OccupiedSlots(t) \ {i}
    BY <2>1, <2>2, <2>5, <2>6
       DEF OccupiedSlots, Occupied, REMOVED, FirstValidHash
  <2>9. Cardinality(OccupiedSlots(p)) = Cardinality(OccupiedSlots(t)) - 1
    BY <2>2, <2>7, <2>8, FS_RemoveElement
  <2>10. p.hashes \in [Slots(p) -> Nat]
    BY <2>1, <2>2, <2>5, <2>6 DEF REMOVED
  <2>11. p.count <= p.size - 2
    BY <2>2, <2>5
  <2>12. TableOK(p)
    BY <2>2, <2>5, <2>9, <2>10, <2>11 DEF TableOK
  <2> QED BY <2>12 DEF p
<1> QED BY <1>1, <1>2

-----------------------------------------------------------------------------
(* Where the entries are.                                                  *)

\* The keys a user puts, which the table tells apart by what they are.
KeysOK(K) ==
  /\ \A k \in K : Hash(k) \in Nat
  /\ \A j, k \in K : Eq(j, k) <=> j = k

\* Every entry is where a lookup of its key comes by: the slots that are no
\* farther from its hash are not EMPTY.
Placed(t, K) ==
  /\ t.keys = [i \in Slots(t) |-> t.keys[i]]
  /\ t.values = [i \in Slots(t) |-> t.values[i]]
  /\ \A i \in OccupiedSlots(t) :
       t.keys[i] \in K /\ t.hashes[i] = GetHash(t.keys[i])
  /\ \A i \in OccupiedSlots(t), j \in Slots(t) :
       Dist(t.size, t.hashes[i], j) <= Dist(t.size, t.hashes[i], i)
         => t.hashes[j] # EMPTY

\* No key has two entries.
Apart(t) ==
  \A i, j \in OccupiedSlots(t) : t.keys[i] = t.keys[j] => i = j

HasKey(t, k) == \E i \in OccupiedSlots(t) : t.keys[i] = k
Holds(t, k, v) ==
  \E i \in OccupiedSlots(t) : t.keys[i] = k /\ t.values[i] = v

\* A slot matches a key if it holds an entry of that key.
LEMMA MatchesKey ==
  ASSUME NEW t, NEW K, KeysOK(K), Placed(t, K), NEW k \in K,
         NEW i \in Slots(t)
  PROVE  Matches(t, k, i) <=> i \in OccupiedSlots(t) /\ t.keys[i] = k
<1>1. GetHash(k) \in Nat /\ Occupied(GetHash(k))
  BY StoredHash DEF KeysOK
<1>2. CASE i \in OccupiedSlots(t)
  <2>1. t.keys[i] \in K /\ t.hashes[i] = GetHash(t.keys[i])
    BY <1>2 DEF Placed
  <2>2. Eq(t.keys[i], k) <=> t.keys[i] = k
    BY <2>1 DEF KeysOK
  <2> QED BY <1>2, <2>1, <2>2 DEF Matches
<1>3. CASE i \notin OccupiedSlots(t)
  BY <1>1, <1>3 DEF Matches, OccupiedSlots
<1> QED BY <1>2, <1>3

\* A lookup finds exactly the keys that have an entry, and stops at one.
LEMMA FoundIffHasKey ==
  ASSUME NEW t, TableOK(t), NEW K, KeysOK(K), Placed(t, K), NEW k \in K
  PROVE  /\ Found(t, k) <=> HasKey(t, k)
         /\ Found(t, k) => /\ GetSlot(t, k) \in OccupiedSlots(t)
                           /\ t.keys[GetSlot(t, k)] = k
<1>1. GetHash(k) \in Nat
  BY StoredHash DEF KeysOK
<1>2. ASSUME Found(t, k)
      PROVE  /\ GetSlot(t, k) \in OccupiedSlots(t)
             /\ t.keys[GetSlot(t, k)] = k
  <2>1. GetSlot(t, k) \in Slots(t) /\ Matches(t, k, GetSlot(t, k))
    BY <1>1, <1>2, GetStops
  <2> QED BY <2>1, MatchesKey
<1>3. ASSUME HasKey(t, k)
      PROVE  Found(t, k)
  <2> DEFINE stops == {i \in Slots(t) : Matches(t, k, i)
                                         \/ t.hashes[i] = EMPTY}
             s == ProbeFrom(t.size, GetHash(k), stops)
  <2>1. PICK i \in OccupiedSlots(t) : t.keys[i] = k
    BY <1>3 DEF HasKey
  <2>2. i \in Slots(t) /\ Matches(t, k, i) /\ t.hashes[i] = GetHash(k)
    BY <2>1, MatchesKey DEF OccupiedSlots, Placed
  <2>3. stops \in SUBSET (0 .. t.size - 1) /\ i \in stops
    BY <2>2 DEF Slots
  <2>4. t.size \in Nat /\ t.size > 0
    BY DEF TableOK
  <2>5. /\ s \in stops
        /\ Dist(t.size, GetHash(k), s) <= Dist(t.size, GetHash(k), i)
    <3> HIDE DEF stops
    <3> QED BY <1>1, <2>3, <2>4, ProbeStops
  <2>6. s \in Slots(t) /\ t.hashes[s] # EMPTY
    BY <2>1, <2>2, <2>5 DEF Placed
  <2>7. Matches(t, k, s) /\ s # NoSlot
    BY <2>4, <2>5, <2>6 DEF Slots, NoSlot
  <2>8. GetSlot(t, k) = s
    BY DEF GetSlot
  <2>9. ~IsVoid(t)
    <3>1. OccupiedSlots(t) # {} /\ IsFiniteSet(OccupiedSlots(t))
      BY <2>1, <2>4, OccupiedFinite
    <3> QED BY <3>1, FS_EmptySet DEF IsVoid, TableOK
  <2> HIDE DEF s
  <2> QED BY <2>7, <2>8, <2>9 DEF Found
<1>4. Found(t, k) => HasKey(t, k)
  BY <1>2 DEF HasKey
<1> QED BY <1>2, <1>3, <1>4

\* If no key has two entries, what a lookup gives is what the key holds.
LEMMA ValueIffHolds ==
  ASSUME NEW t, TableOK(t), NEW K, KeysOK(K), Placed(t, K), NEW k \in K,
         Apart(t), NEW v
  PROVE  Holds(t, k, v) <=> Found(t, k) /\ ValueAt(t, k) = v
<1>1. ASSUME Holds(t, k, v)
      PROVE  Found(t, k) /\ ValueAt(t, k) = v
  <2>1. PICK i \in OccupiedSlots(t) : t.keys[i] = k /\ t.values[i] = v
    BY <1>1 DEF Holds
  <2>2. Found(t, k)
    BY <2>1, FoundIffHasKey DEF HasKey
  <2>3. GetSlot(t, k) \in OccupiedSlots(t) /\ t.keys[GetSlot(t, k)] = k
    BY <2>2, FoundIffHasKey
  <2>4. GetSlot(t, k) = i
    BY <2>1, <2>3 DEF Apart
  <2> QED BY <2>1, <2>2, <2>4 DEF ValueAt
<1>2. ASSUME Found(t, k), ValueAt(t, k) = v
      PROVE  Holds(t, k, v)
  <2>1. GetSlot(t, k) \in OccupiedSlots(t) /\ t.keys[GetSlot(t, k)] = k
    BY <1>2, FoundIffHasKey
  <2> QED BY <1>2, <2>1 DEF Holds, ValueAt
<1> QED BY <1>1, <1>2

-----------------------------------------------------------------------------
(* Growing: where the entries land.                                        *)

New(t) == 0 .. 2 * t.size - 1

\* The entries of the first n slots have landed: the entries of a key on one
\* slot, and no slot is free between a hash and where its entry landed.
Landed(t, land, n) ==
  /\ land \in [Slots(t) -> New(t) \cup {NoSlot}]
  /\ \A i \in Slots(t) : land[i] # NoSlot <=> i < n /\ i \in OccupiedSlots(t)
  /\ \A i, j \in Slots(t) :
       land[i] # NoSlot /\ land[j] # NoSlot =>
         (land[i] = land[j] <=> t.keys[i] = t.keys[j])
  /\ \A i \in Slots(t), s \in New(t) :
       /\ land[i] # NoSlot
       /\ Dist(2 * t.size, t.hashes[i], s) <= Dist(2 * t.size, t.hashes[i], land[i])
       => \E j \in Slots(t) : land[j] = s

\* What the loop of growing does with the entry of slot e.
Same(t, land, e) ==
  {i \in Slots(t) : /\ land[i] # NoSlot
                    /\ t.hashes[i] = t.hashes[e]
                    /\ Eq(t.keys[i], t.keys[e])}
Target(t, land, e) ==
  ProbeFrom(2 * t.size, t.hashes[e],
            New(t) \ {land[i] : i \in Slots(t) \ Same(t, land, e)})
LandNext(t, land, e) ==
  IF ~Occupied(t.hashes[e]) THEN land
  ELSE [land EXCEPT ![e] = Target(t, land, e)]

\* NewSlots does that slot after slot.
LEMMA NewSlotsDef ==
  ASSUME NEW t, t.size \in Nat
  PROVE  \E after : /\ after = [n \in 0 .. t.size |->
                                 IF n = 0 THEN [i \in Slots(t) |-> NoSlot]
                                 ELSE LandNext(t, after[n - 1], n - 1)]
                   /\ NewSlots(t) = after[t.size]
<1> DEFINE Is(f, k) == f = [n \in 0 .. k |->
                              IF n = 0 THEN [i \in Slots(t) |-> NoSlot]
                              ELSE LandNext(t, f[n - 1], n - 1)]
           Bad == {k \in Nat : ~ \E f : Is(f, k)}
<1>1. Bad = {}
  <2> SUFFICES ASSUME Bad # {}
               PROVE  FALSE
    OBVIOUS
  <2>1. Bad \in SUBSET Nat
    OBVIOUS
  <2>2. PICK k \in Bad : \A y \in Bad : k <= y
    <3> HIDE DEF Bad
    <3> QED BY <2>1, LeastNatural
  <2>3. CASE k = 0
    <3>1. Is([n \in 0 .. 0 |-> [i \in Slots(t) |-> NoSlot]], 0)
      OBVIOUS
    <3> QED BY <2>2, <2>3, <3>1
  <2>4. CASE k > 0
    <3>1. k - 1 \in Nat /\ k - 1 \notin Bad
      BY <2>2, <2>4
    <3>2. PICK f : Is(f, k - 1)
      BY <3>1
    <3> DEFINE g == [n \in 0 .. k |-> IF n = k THEN LandNext(t, f[k - 1], k - 1)
                                      ELSE f[n]]
    <3>3. ASSUME NEW n \in 0 .. k
          PROVE  g[n] = IF n = 0 THEN [i \in Slots(t) |-> NoSlot]
                        ELSE LandNext(t, g[n - 1], n - 1)
      BY <2>4, <3>1, <3>2
    <3>4. Is(g, k)
      BY <3>3
    <3> QED BY <2>2, <3>4
  <2> QED BY <2>1, <2>2, <2>3, <2>4
<1>2. \E f : Is(f, t.size)
  BY <1>1
<1> DEFINE after == CHOOSE f : Is(f, t.size)
<1>3. Is(after, t.size)
  BY <1>2
<1>4. NewSlots(t) = after[t.size]
  BY DEF NewSlots, LandNext, Target, Same, New
<1> QED BY <1>3, <1>4

\* The slots of the new table are not all taken: there are twice as many.
LEMMA NewSlotFree ==
  ASSUME NEW t, t.size \in Nat, t.size > 0, NEW land, NEW S \in SUBSET Slots(t)
  PROVE  New(t) \ {land[i] : i \in S} # {}
<1> DEFINE R == {land[i] : i \in S}
           f == [i \in S |-> land[i]]
<1> SUFFICES ASSUME New(t) \subseteq R
             PROVE  FALSE
  OBVIOUS
<1>1. IsFiniteSet(New(t)) /\ Cardinality(New(t)) = 2 * t.size
  <2> DEFINE m == 2 * t.size - 1
  <2>1. m \in Nat /\ m + 1 = 2 * t.size /\ New(t) = 0 .. m
    BY DEF New
  <2> HIDE DEF m
  <2>2. IsFiniteSet(0 .. m) /\ Cardinality(0 .. m) = m + 1
    BY <2>1, FirstNaturals
  <2> QED BY <2>1, <2>2
<1>2. IsFiniteSet(S) /\ Cardinality(S) <= t.size
  BY OccupiedFinite, FS_Subset
<1>3. f \in Surjection(S, R)
  BY DEF Surjection
<1>4. IsFiniteSet(R) /\ Cardinality(R) <= Cardinality(S)
  <2> HIDE DEF f, R
  <2> QED BY <1>2, <1>3, FS_Surjection
<1>5. Cardinality(New(t)) <= Cardinality(R)
  <2> HIDE DEF R
  <2> QED BY <1>4, FS_Subset
<1>6. Cardinality(R) \in Nat /\ Cardinality(S) \in Nat
  BY <1>2, <1>4, FS_CardinalityType
<1> HIDE DEF R
<1> QED BY <1>1, <1>2, <1>4, <1>5, <1>6

\* An entry lands on the slot of its key, or else on the first free one.
LEMMA LandStep ==
  ASSUME NEW t, TableOK(t), NEW K, KeysOK(K), Placed(t, K),
         NEW e \in Slots(t), NEW land, Landed(t, land, e)
  PROVE  Landed(t, LandNext(t, land, e), e + 1)
<1>1. CASE ~Occupied(t.hashes[e])
  <2>1. e \notin OccupiedSlots(t) /\ LandNext(t, land, e) = land
    BY <1>1 DEF OccupiedSlots, LandNext
  <2>2. \A i \in Slots(t) : i < e + 1 /\ i \in OccupiedSlots(t)
                              <=> i < e /\ i \in OccupiedSlots(t)
    BY <2>1 DEF Slots, TableOK
  <2> QED BY <2>1, <2>2 DEF Landed
<1>2. CASE Occupied(t.hashes[e])
  <2> DEFINE same == Same(t, land, e)
             others == {land[i] : i \in Slots(t) \ same}
             h == t.hashes[e]
             n == 2 * t.size
             q == Target(t, land, e)
             m == [land EXCEPT ![e] = q]
  <2>1. e \in OccupiedSlots(t) /\ h \in Nat /\ n \in Nat /\ n > 0
    BY <1>2 DEF OccupiedSlots, TableOK
  <2>2. same = {i \in Slots(t) : land[i] # NoSlot /\ t.keys[i] = t.keys[e]}
    <3>1. ASSUME NEW i \in Slots(t), land[i] # NoSlot
          PROVE  t.hashes[i] = t.hashes[e] /\ Eq(t.keys[i], t.keys[e])
                   <=> t.keys[i] = t.keys[e]
      <4>1. i \in OccupiedSlots(t)
        BY <3>1 DEF Landed
      <4>2. /\ t.keys[i] \in K /\ t.hashes[i] = GetHash(t.keys[i])
            /\ t.keys[e] \in K /\ t.hashes[e] = GetHash(t.keys[e])
        BY <2>1, <4>1 DEF Placed
      <4>3. Eq(t.keys[i], t.keys[e]) <=> t.keys[i] = t.keys[e]
        BY <4>2 DEF KeysOK
      <4> QED BY <4>2, <4>3
    <3> QED BY <3>1 DEF Same
  <2>3. New(t) \ others # {} /\ New(t) \ others \in SUBSET (0 .. n - 1)
    <3>1. Slots(t) \ same \in SUBSET Slots(t) /\ t.size \in Nat /\ t.size > 0
      BY DEF TableOK
    <3> HIDE DEF same
    <3> QED BY <3>1, NewSlotFree DEF New
  <2>4. /\ q \in New(t) \ others
        /\ \A s \in New(t) \ others : Dist(n, h, q) <= Dist(n, h, s)
    <3>1. q = ProbeFrom(n, h, New(t) \ others)
      BY DEF Target
    <3> HIDE DEF q, others, n, h
    <3> QED BY <2>1, <2>3, <3>1, ProbeStops
  <2> HIDE DEF same, h, n, q
  <2>5. ASSUME NEW i \in same
        PROVE  q = land[i]
    <3>1. i \in Slots(t) /\ land[i] # NoSlot /\ t.keys[i] = t.keys[e]
      BY <2>2
    <3>2. land[i] \in New(t) \ others
      <4>1. land[i] \in New(t)
        BY <3>1 DEF Landed
      <4>2. ASSUME NEW j \in Slots(t) \ same, land[j] = land[i]
            PROVE  FALSE
        <5>1. t.keys[j] = t.keys[i]
          BY <3>1, <4>2 DEF Landed
        <5> QED BY <2>2, <3>1, <4>2, <5>1
      <4> QED BY <4>1, <4>2
    <3>3. t.hashes[i] = h
      BY DEF Same, same, h
    <3>4. Dist(n, h, q) <= Dist(n, h, land[i])
      BY <2>4, <3>2
    <3>5. PICK j \in Slots(t) : land[j] = q
      BY <2>4, <3>1, <3>3, <3>4 DEF Landed, n
    <3>6. q # NoSlot
      BY <2>1, <2>4 DEF New, NoSlot, n
    <3>7. j \in same
      BY <2>4, <3>5
    <3>8. t.keys[j] = t.keys[i]
      BY <2>2, <3>1, <3>7
    <3> QED BY <3>1, <3>5, <3>6, <3>8 DEF Landed
  <2>6. ASSUME NEW i \in Slots(t), land[i] # NoSlot
        PROVE  land[i] = q <=> t.keys[i] = t.keys[e]
    <3>1. land[i] = q => i \in same
      BY <2>4
    <3> QED BY <2>2, <2>5, <2>6, <3>1
  <2>7. ASSUME NEW s \in New(t), Dist(n, h, s) <= Dist(n, h, q), s # q
        PROVE  \E j \in Slots(t) : land[j] = s
    <3>1. CASE s \in others
      BY <3>1
    <3>2. CASE s \notin others
      <4>1. q \in 0 .. n - 1 /\ s \in 0 .. n - 1
        BY <2>4 DEF New, n
      <4>2. Dist(n, h, q) <= Dist(n, h, s)
        BY <2>4, <3>2
      <4>3. Dist(n, h, q) \in Nat /\ Dist(n, h, s) \in Nat
        BY <2>1, <4>1, DistArrives
      <4>4. Dist(n, h, q) = Dist(n, h, s)
        BY <2>7, <4>2, <4>3
      <4> QED BY <2>1, <2>7, <4>1, <4>4, DistInjective
    <3> QED BY <3>1, <3>2
  <2>8. /\ LandNext(t, land, e) = m
        /\ m \in [Slots(t) -> New(t) \cup {NoSlot}]
        /\ m[e] = q /\ q \in New(t) /\ q # NoSlot
        /\ \A i \in Slots(t) \ {e} : m[i] = land[i]
    <3>1. LandNext(t, land, e) = m
      BY <1>2 DEF LandNext, q
    <3>2. q \in New(t) /\ q # NoSlot
      BY <2>1, <2>4 DEF New, NoSlot, n
    <3>3. land \in [Slots(t) -> New(t) \cup {NoSlot}]
      BY DEF Landed
    <3> QED BY <3>1, <3>2, <3>3
  <2>9. land[e] = NoSlot
    <3>1. ~(e < e)
      BY DEF Slots, TableOK
    <3> QED BY <3>1 DEF Landed
  <2> HIDE DEF m
  <2>10. \A i \in Slots(t) : m[i] # NoSlot
                              <=> i < e + 1 /\ i \in OccupiedSlots(t)
    <3> TAKE i \in Slots(t)
    <3>1. i \in Nat /\ e \in Nat
      BY DEF Slots, TableOK
    <3>2. CASE i = e
      BY <2>1, <2>8, <3>1, <3>2
    <3>3. CASE i # e
      <4>1. i < e + 1 <=> i < e
        BY <3>1, <3>3
      <4> QED BY <2>8, <3>3, <4>1 DEF Landed
    <3> QED BY <3>2, <3>3
  <2>11. ASSUME NEW i \in Slots(t), NEW j \in Slots(t),
                m[i] # NoSlot, m[j] # NoSlot
         PROVE  m[i] = m[j] <=> t.keys[i] = t.keys[j]
    <3>1. CASE i = e /\ j = e
      BY <3>1
    <3>2. CASE i = e /\ j # e
      BY <2>6, <2>8, <2>11, <3>2
    <3>3. CASE i # e /\ j = e
      BY <2>6, <2>8, <2>11, <3>3
    <3>4. CASE i # e /\ j # e
      BY <2>8, <2>11, <3>4 DEF Landed
    <3> QED BY <3>1, <3>2, <3>3, <3>4
  <2>12. ASSUME NEW i \in Slots(t), NEW s \in New(t), m[i] # NoSlot,
                Dist(n, t.hashes[i], s) <= Dist(n, t.hashes[i], m[i])
         PROVE  \E j \in Slots(t) : m[j] = s
    <3>1. \A j \in Slots(t) : land[j] = s => m[j] = s
      BY <2>1, <2>8, <2>9 DEF New, NoSlot, n
    <3>2. CASE i = e
      BY <2>7, <2>8, <2>12, <3>1, <3>2 DEF h
    <3>3. CASE i # e
      BY <2>8, <2>12, <3>1, <3>3 DEF Landed, n
    <3> QED BY <3>2, <3>3
  <2> QED BY <2>8, <2>10, <2>11, <2>12 DEF Landed, n
<1> QED BY <1>1, <1>2

\* When growing is done, every entry has landed.
LEMMA NewSlotsLanded ==
  ASSUME NEW t, TableOK(t), NEW K, KeysOK(K), Placed(t, K)
  PROVE  Landed(t, NewSlots(t), t.size)
<1>1. t.size \in Nat
  BY DEF TableOK
<1>2. PICK after : /\ after = [n \in 0 .. t.size |->
                               IF n = 0 THEN [i \in Slots(t) |-> NoSlot]
                               ELSE LandNext(t, after[n - 1], n - 1)]
                   /\ NewSlots(t) = after[t.size]
  BY <1>1, NewSlotsDef
<1> DEFINE Bad == {n \in 0 .. t.size : ~Landed(t, after[n], n)}
<1>3. Bad = {}
  <2> SUFFICES ASSUME Bad # {}
               PROVE  FALSE
    OBVIOUS
  <2>1. Bad \in SUBSET Nat
    BY <1>1
  <2>2. PICK k \in Bad : \A y \in Bad : k <= y
    <3> HIDE DEF Bad
    <3> QED BY <2>1, LeastNatural
  <2>3. CASE k = 0
    <3>1. after[0] = [i \in Slots(t) |-> NoSlot]
      BY <1>1, <1>2
    <3>2. \A i \in Slots(t) : ~(i < 0)
      BY <1>1 DEF Slots
    <3>3. Landed(t, after[0], 0)
      BY <3>1, <3>2 DEF Landed
    <3> QED BY <2>2, <2>3, <3>3
  <2>4. CASE k > 0
    <3>1. /\ k \in 0 .. t.size /\ k - 1 \in 0 .. t.size /\ k - 1 \notin Bad
          /\ (k - 1) + 1 = k
      BY <1>1, <2>2, <2>4
    <3>2. Landed(t, after[k - 1], k - 1) /\ k - 1 \in Slots(t)
      BY <1>1, <2>4, <3>1 DEF Slots
    <3>3. after[k] = LandNext(t, after[k - 1], k - 1)
      BY <1>2, <2>4, <3>1
    <3>4. Landed(t, LandNext(t, after[k - 1], k - 1), (k - 1) + 1)
      BY <3>2, LandStep
    <3> QED BY <2>2, <3>1, <3>3, <3>4
  <2> QED BY <1>1, <2>2, <2>3, <2>4
<1>4. Landed(t, after[t.size], t.size)
  BY <1>1, <1>3
<1> QED BY <1>2, <1>4

\* What a grown table holds, slot by slot.
LEMMA GrownSlots ==
  ASSUME NEW t, TableOK(t), NEW K, KeysOK(K), Placed(t, K),
         NEW g, g = Grow(t), NEW land, land = NewSlots(t)
  PROVE  /\ Slots(g) = New(t) /\ g.size = 2 * t.size
         /\ g.keys = [s \in Slots(g) |-> g.keys[s]]
         /\ g.values = [s \in Slots(g) |-> g.values[s]]
         /\ \A s \in Slots(g) :
              s \in OccupiedSlots(g) <=> \E i \in OccupiedSlots(t) : land[i] = s
         /\ \A i \in OccupiedSlots(t) :
              /\ land[i] \in Slots(g) /\ land[i] # NoSlot
              /\ g.hashes[land[i]] = t.hashes[i] /\ g.keys[land[i]] = t.keys[i]
              /\ Apart(t) => g.values[land[i]] = t.values[i]
<1> DEFINE from == [s \in New(t) |-> {i \in OccupiedSlots(t) : land[i] = s}]
<1>1. Landed(t, land, t.size) /\ t.size \in Nat /\ t.size > 2
  BY NewSlotsLanded DEF TableOK
<1>2. /\ g.size = 2 * t.size
      /\ g.hashes = [s \in New(t) |-> IF from[s] = {} THEN EMPTY
                                      ELSE t.hashes[Min(from[s])]]
      /\ g.keys = [s \in New(t) |-> IF from[s] = {} THEN ZeroKey
                                    ELSE t.keys[Min(from[s])]]
      /\ g.values = [s \in New(t) |-> IF from[s] = {} THEN ZeroValue
                                      ELSE t.values[Max(from[s])]]
  BY DEF Grow, New
<1>3. Slots(g) = New(t)
  BY <1>2 DEF Slots, New
<1>4. ASSUME NEW i \in OccupiedSlots(t)
      PROVE  /\ i \in Slots(t) /\ i \in Nat /\ i < t.size
             /\ land[i] \in New(t) /\ land[i] # NoSlot
  <2>1. i \in Slots(t) /\ i \in Nat /\ i < t.size
    BY <1>1 DEF OccupiedSlots, Slots
  <2> QED BY <1>1, <2>1 DEF Landed
<1>5. ASSUME NEW i \in OccupiedSlots(t)
      PROVE  /\ from[land[i]] \in SUBSET Nat /\ i \in from[land[i]]
             /\ \A j \in from[land[i]] : /\ j \in OccupiedSlots(t)
                                         /\ t.keys[j] = t.keys[i]
                                         /\ t.hashes[j] = t.hashes[i]
  <2>1. ASSUME NEW j \in from[land[i]]
        PROVE  /\ j \in OccupiedSlots(t) /\ j \in Nat
               /\ t.keys[j] = t.keys[i] /\ t.hashes[j] = t.hashes[i]
    <3>1. j \in OccupiedSlots(t) /\ land[j] = land[i]
      BY <1>4
    <3>2. t.keys[j] = t.keys[i]
      BY <1>1, <1>4, <3>1 DEF Landed
    <3>3. t.hashes[j] = GetHash(t.keys[j]) /\ t.hashes[i] = GetHash(t.keys[i])
      BY <3>1 DEF Placed
    <3> QED BY <1>4, <3>1, <3>2, <3>3
  <2>2. i \in from[land[i]]
    BY <1>4
  <2> HIDE DEF from
  <2> QED BY <2>1, <2>2
<1>6. ASSUME NEW i \in OccupiedSlots(t)
      PROVE  /\ g.hashes[land[i]] = t.hashes[i] /\ g.keys[land[i]] = t.keys[i]
             /\ Apart(t) => g.values[land[i]] = t.values[i]
  <2> DEFINE F == from[land[i]]
  <2>1. F \in SUBSET Nat /\ i \in F
    BY <1>5
  <2>2. Min(F) \in F
    <3> HIDE DEF F
    <3> QED BY <2>1, LeastNatural DEF Min
  <2>3. /\ g.hashes[land[i]] = t.hashes[Min(F)]
        /\ g.keys[land[i]] = t.keys[Min(F)]
        /\ g.values[land[i]] = t.values[Max(F)]
    <3>1. land[i] \in New(t) /\ F # {}
      BY <1>4, <2>1
    <3> HIDE DEF from
    <3> QED BY <1>2, <3>1
  <2>4. ASSUME Apart(t)
        PROVE  Max(F) = i
    <3>1. \A j \in F : j = i
      BY <1>5, <2>4 DEF Apart
    <3> HIDE DEF F
    <3>2. F = {i}
      BY <2>1, <3>1
    <3>3. i \in Nat
      BY <1>4
    <3> QED BY <3>2, <3>3 DEF Max
  <2>5. \A j \in F : t.keys[j] = t.keys[i] /\ t.hashes[j] = t.hashes[i]
    BY <1>5
  <2> HIDE DEF F
  <2> QED BY <2>2, <2>3, <2>4, <2>5
<1>7. ASSUME NEW s \in Slots(g)
      PROVE  s \in OccupiedSlots(g) <=> \E i \in OccupiedSlots(t) : land[i] = s
  <2>1. CASE \E i \in OccupiedSlots(t) : land[i] = s
    <3>1. PICK i \in OccupiedSlots(t) : land[i] = s
      BY <2>1
    <3>2. Occupied(g.hashes[s])
      BY <1>6, <3>1 DEF OccupiedSlots
    <3> QED BY <2>1, <3>2 DEF OccupiedSlots
  <2>2. CASE ~\E i \in OccupiedSlots(t) : land[i] = s
    <3>1. from[s] = {} /\ s \in New(t)
      BY <1>3, <2>2
    <3>2. g.hashes[s] = EMPTY
      BY <1>2, <3>1
    <3> QED BY <2>2, <3>2 DEF OccupiedSlots, Occupied, EMPTY, FirstValidHash
  <2> QED BY <2>1, <2>2
<1>8. /\ g.keys = [s \in Slots(g) |-> g.keys[s]]
      /\ g.values = [s \in Slots(g) |-> g.values[s]]
  BY <1>2, <1>3
<1> QED BY <1>2, <1>3, <1>4, <1>6, <1>7, <1>8

\* Growing loses no entry, brings the entries of a key together, and leaves
\* every entry where a lookup finds it.
LEMMA GrowPlaced ==
  ASSUME NEW t, TableOK(t), NEW K, KeysOK(K), Placed(t, K),
         NEW g, g = Grow(t)
  PROVE  /\ Placed(g, K) /\ Apart(g)
         /\ \A k : HasKey(g, k) <=> HasKey(t, k)
         /\ Apart(t) => \A k, v : Holds(g, k, v) <=> Holds(t, k, v)
<1> DEFINE land == NewSlots(t)
<1>1. /\ Slots(g) = New(t) /\ g.size = 2 * t.size
      /\ g.keys = [s \in Slots(g) |-> g.keys[s]]
      /\ g.values = [s \in Slots(g) |-> g.values[s]]
      /\ \A s \in Slots(g) :
           s \in OccupiedSlots(g) <=> \E i \in OccupiedSlots(t) : land[i] = s
      /\ \A i \in OccupiedSlots(t) :
           /\ land[i] \in Slots(g) /\ land[i] # NoSlot
           /\ g.hashes[land[i]] = t.hashes[i] /\ g.keys[land[i]] = t.keys[i]
           /\ Apart(t) => g.values[land[i]] = t.values[i]
  BY GrownSlots
<1>2. Landed(t, land, t.size)
  BY NewSlotsLanded
<1> HIDE DEF land
<1>3. ASSUME NEW s \in OccupiedSlots(g)
      PROVE  \E i \in OccupiedSlots(t) :
               /\ land[i] = s /\ i \in Slots(t)
               /\ g.hashes[s] = t.hashes[i] /\ g.keys[s] = t.keys[i]
               /\ Apart(t) => g.values[s] = t.values[i]
  <2>1. s \in Slots(g)
    BY DEF OccupiedSlots
  <2>2. PICK i \in OccupiedSlots(t) : land[i] = s
    BY <1>1, <2>1
  <2>3. i \in Slots(t)
    BY DEF OccupiedSlots
  <2> QED BY <1>1, <2>2, <2>3
<1>4. \A i \in OccupiedSlots(t) : land[i] \in OccupiedSlots(g)
  BY <1>1
<1>5. ASSUME NEW s \in OccupiedSlots(g), NEW r \in Slots(g),
             Dist(g.size, g.hashes[s], r) <= Dist(g.size, g.hashes[s], s)
      PROVE  g.hashes[r] # EMPTY
  <2>1. PICK i \in OccupiedSlots(t) :
          land[i] = s /\ i \in Slots(t) /\ g.hashes[s] = t.hashes[i]
    BY <1>3
  <2>2. land[i] # NoSlot
    BY <1>1
  <2>3. PICK j \in Slots(t) : land[j] = r
    BY <1>1, <1>2, <1>5, <2>1, <2>2 DEF Landed
  <2>4. r # NoSlot
    BY <1>1 DEF New, NoSlot, TableOK
  <2>5. j \in OccupiedSlots(t)
    BY <1>2, <2>3, <2>4 DEF Landed
  <2>6. r \in OccupiedSlots(g)
    BY <1>4, <2>3, <2>5
  <2> QED BY <2>6 DEF OccupiedSlots, Occupied, EMPTY, FirstValidHash
<1>6. Placed(g, K)
  <2>1. ASSUME NEW s \in OccupiedSlots(g)
        PROVE  g.keys[s] \in K /\ g.hashes[s] = GetHash(g.keys[s])
    BY <1>3 DEF Placed
  <2> QED BY <1>1, <1>5, <2>1 DEF Placed
<1>7. Apart(g)
  <2> SUFFICES ASSUME NEW s \in OccupiedSlots(g), NEW r \in OccupiedSlots(g),
                      g.keys[s] = g.keys[r]
               PROVE  s = r
    BY DEF Apart
  <2>1. PICK i \in OccupiedSlots(t) :
          land[i] = s /\ i \in Slots(t) /\ g.keys[s] = t.keys[i]
    BY <1>3
  <2>2. PICK j \in OccupiedSlots(t) :
          land[j] = r /\ j \in Slots(t) /\ g.keys[r] = t.keys[j]
    BY <1>3
  <2>3. land[i] # NoSlot /\ land[j] # NoSlot
    BY <1>1
  <2>4. t.keys[i] = t.keys[j]
    BY <2>1, <2>2
  <2>5. land[i] = land[j]
    BY <1>2, <2>1, <2>2, <2>3, <2>4 DEF Landed
  <2> QED BY <2>1, <2>2, <2>5
<1>8. ASSUME NEW k
      PROVE  HasKey(g, k) <=> HasKey(t, k)
  <2>1. HasKey(g, k) => HasKey(t, k)
    BY <1>3 DEF HasKey
  <2>2. HasKey(t, k) => HasKey(g, k)
    BY <1>1, <1>4 DEF HasKey
  <2> QED BY <2>1, <2>2
<1>9. ASSUME Apart(t), NEW k, NEW v
      PROVE  Holds(g, k, v) <=> Holds(t, k, v)
  <2>1. Holds(g, k, v) => Holds(t, k, v)
    BY <1>3, <1>9 DEF Holds
  <2>2. ASSUME Holds(t, k, v)
        PROVE  Holds(g, k, v)
    <3>1. PICK i \in OccupiedSlots(t) : t.keys[i] = k /\ t.values[i] = v
      BY <2>2 DEF Holds
    <3>2. /\ land[i] \in OccupiedSlots(g)
          /\ g.keys[land[i]] = k /\ g.values[land[i]] = v
      BY <1>1, <1>4, <1>9, <3>1
    <3> QED BY <3>2 DEF Holds
  <2> QED BY <2>1, <2>2
<1> QED BY <1>6, <1>7, <1>8, <1>9

\* So does making room, whether the table grows or not.
LEMMA EnsurePlaced ==
  ASSUME NEW t, TableOK(t), NEW K, KeysOK(K), Placed(t, K),
         NEW u, u = EnsureCapacity(t)
  PROVE  /\ Placed(u, K) /\ (Apart(t) => Apart(u))
         /\ \A k : HasKey(u, k) <=> HasKey(t, k)
         /\ Apart(t) => \A k, v : Holds(u, k, v) <=> Holds(t, k, v)
<1>1. CASE t.count >= t.size - 2
  BY <1>1, GrowPlaced DEF EnsureCapacity
<1>2. CASE ~(t.count >= t.size - 2)
  BY <1>2 DEF EnsureCapacity
<1> QED BY <1>1, <1>2

-----------------------------------------------------------------------------
(* What the operations do to the entries.                                  *)

\* A new table has none.
LEMMA NewTablePlaced ==
  ASSUME NEW K
  PROVE  /\ Placed(NewTable, K) /\ Apart(NewTable)
         /\ \A k : ~HasKey(NewTable, k)
<1>1. /\ Slots(NewTable) = 0 .. InitSize - 1
      /\ NewTable.hashes = [i \in 0 .. InitSize - 1 |-> EMPTY]
      /\ NewTable.keys = [i \in 0 .. InitSize - 1 |-> ZeroKey]
      /\ NewTable.values = [i \in 0 .. InitSize - 1 |-> ZeroValue]
  BY DEF NewTable, EmptyTable, Slots
<1>2. OccupiedSlots(NewTable) = {}
  BY <1>1 DEF OccupiedSlots, Occupied, EMPTY, FirstValidHash
<1> QED BY <1>1, <1>2 DEF Placed, Apart, HasKey

\* Without tombstones, put finds the entry of its key if there is one: the
\* first free slot on the way would be EMPTY, and lookups would stop there.
LEMMA PutFinds ==
  ASSUME NEW t, TableOK(t), NEW K, KeysOK(K), Placed(t, K), NEW k \in K,
         NoTombstones(t), HasKey(t, k)
  PROVE  Matches(t, k, PutSlot(t, k))
<1> DEFINE s == PutSlot(t, k)
<1>1. GetHash(k) \in Nat
  BY StoredHash DEF KeysOK
<1>2. PICK i \in OccupiedSlots(t) : t.keys[i] = k
  BY DEF HasKey
<1>3. i \in Slots(t) /\ Matches(t, k, i) /\ t.hashes[i] = GetHash(k)
  BY <1>2, MatchesKey DEF OccupiedSlots, Placed
<1>4. /\ s \in Slots(t)
      /\ Matches(t, k, s) \/ ~Occupied(t.hashes[s])
      /\ Dist(t.size, GetHash(k), s) <= Dist(t.size, GetHash(k), i)
  BY <1>1, <1>3, PutStops
<1> HIDE DEF s
<1>5. t.hashes[s] # EMPTY
  BY <1>3, <1>4 DEF Placed
<1>6. t.hashes[s] # REMOVED /\ t.hashes[s] \in Nat
  BY <1>4 DEF NoTombstones, TableOK
<1>7. Occupied(t.hashes[s])
  BY <1>5, <1>6 DEF Occupied, EMPTY, REMOVED, FirstValidHash
<1> QED BY <1>4, <1>7 DEF s

\* Overwriting the value of an entry changes what its key holds and no more.
LEMMA OverwritePlaced ==
  ASSUME NEW t, NEW K, Placed(t, K), NEW i \in OccupiedSlots(t), NEW v,
         NEW p, p.size = t.size, p.hashes = t.hashes, p.keys = t.keys,
         p.values = [t.values EXCEPT ![i] = v]
  PROVE  /\ Placed(p, K) /\ (Apart(t) => Apart(p))
         /\ \A j : HasKey(p, j) <=> HasKey(t, j)
         /\ Apart(t) => \A j, w : Holds(p, j, w) <=> IF j = t.keys[i] THEN w = v
                                                   ELSE Holds(t, j, w)
<1>1. Slots(p) = Slots(t) /\ OccupiedSlots(p) = OccupiedSlots(t)
  BY DEF Slots, OccupiedSlots
<1>2. i \in Slots(t)
  BY DEF OccupiedSlots
<1>3. t.values = [j \in Slots(t) |-> t.values[j]]
  BY DEF Placed
<1>4. /\ p.values = [j \in Slots(t) |-> p.values[j]] /\ p.values[i] = v
      /\ \A j \in Slots(t) \ {i} : p.values[j] = t.values[j]
  BY <1>2, <1>3
<1>5. Placed(p, K)
  BY <1>1, <1>4 DEF Placed
<1>6. \A j : HasKey(p, j) <=> HasKey(t, j)
  BY <1>1 DEF HasKey
<1>7. Apart(t) => Apart(p)
  BY <1>1 DEF Apart
<1>8. ASSUME Apart(t), NEW j, NEW w
      PROVE  Holds(p, j, w) <=> IF j = t.keys[i] THEN w = v ELSE Holds(t, j, w)
  <2>1. \A a \in OccupiedSlots(t) : a \in Slots(t)
    BY DEF OccupiedSlots
  <2>2. CASE j = t.keys[i]
    <3>1. \A a \in OccupiedSlots(t) : t.keys[a] = j => a = i
      BY <1>8, <2>2 DEF Apart
    <3> QED BY <1>1, <1>4, <2>2, <3>1 DEF Holds
  <2>3. CASE j # t.keys[i]
    <3>1. \A a \in OccupiedSlots(t) : t.keys[a] = j => p.values[a] = t.values[a]
      BY <1>4, <2>1, <2>3
    <3> QED BY <1>1, <2>3, <3>1 DEF Holds
  <2> QED BY <2>2, <2>3
<1> QED BY <1>5, <1>6, <1>7, <1>8

\* put gives its key an entry that a lookup finds, and changes no other.
LEMMA PutPlaced ==
  ASSUME NEW t, TableOK(t), NEW K, KeysOK(K), Placed(t, K),
         NEW k \in K, NEW v, NEW p, p = Put(t, k, v)
  PROVE  /\ Placed(p, K)
         /\ \A j : HasKey(p, j) <=> j = k \/ HasKey(t, j)
         /\ Apart(t) /\ NoTombstones(t) =>
              /\ Apart(p)
              /\ \A j, w : Holds(p, j, w) <=> IF j = k THEN w = v
                                             ELSE Holds(t, j, w)
<1> DEFINE u == EnsureCapacity(t)
           i == PutSlot(u, k)
           h == GetHash(k)
<1>1. /\ TableOK(u) /\ (NoTombstones(t) => NoTombstones(u))
      /\ Placed(u, K) /\ (Apart(t) => Apart(u))
      /\ \A j : HasKey(u, j) <=> HasKey(t, j)
      /\ Apart(t) => \A j, w : Holds(u, j, w) <=> Holds(t, j, w)
  BY EnsureOK, EnsurePlaced
<1>2. h \in Nat /\ Occupied(h)
  BY StoredHash DEF KeysOK
<1> HIDE DEF u, h
<1>3. /\ i \in Slots(u) /\ (Matches(u, k, i) \/ ~Occupied(u.hashes[i]))
      /\ \A j \in Slots(u) : Matches(u, k, j) \/ ~Occupied(u.hashes[j]) =>
           Dist(u.size, h, i) <= Dist(u.size, h, j)
  BY <1>1, <1>2, PutStops DEF h
<1> HIDE DEF i
<1>4. u = [size |-> u.size, count |-> u.count, hashes |-> u.hashes,
           keys |-> u.keys, values |-> u.values]
  BY <1>1 DEF TableOK
<1>5. CASE Matches(u, k, i)
  <2>1. i \in OccupiedSlots(u) /\ u.keys[i] = k
    BY <1>1, <1>3, <1>5, MatchesKey
  <2>2. p = [size |-> u.size, count |-> u.count, hashes |-> u.hashes,
             keys |-> u.keys, values |-> [u.values EXCEPT ![i] = v]]
    BY <1>4, <1>5 DEF Put, u, i
  <2>3. /\ p.size = u.size /\ p.hashes = u.hashes /\ p.keys = u.keys
        /\ p.values = [u.values EXCEPT ![i] = v]
    BY <2>2
  <2>4. /\ Placed(p, K) /\ (Apart(u) => Apart(p))
        /\ \A j : HasKey(p, j) <=> HasKey(u, j)
        /\ Apart(u) => \A j, w : Holds(p, j, w) <=> IF j = u.keys[i] THEN w = v
                                                  ELSE Holds(u, j, w)
    BY <1>1, <2>1, <2>3, OverwritePlaced
  <2>5. HasKey(u, k)
    BY <2>1 DEF HasKey
  <2>6. \A j : HasKey(p, j) <=> j = k \/ HasKey(t, j)
    BY <1>1, <2>4, <2>5
  <2>7. ASSUME Apart(t), NEW j, NEW w
        PROVE  Holds(p, j, w) <=> IF j = k THEN w = v ELSE Holds(t, j, w)
    BY <1>1, <2>1, <2>4, <2>7
  <2> QED BY <1>1, <2>4, <2>6, <2>7
<1>6. CASE ~Matches(u, k, i)
  <2>1. p = [size |-> u.size, count |-> u.count + 1,
             hashes |-> [u.hashes EXCEPT ![i] = h],
             keys |-> [u.keys EXCEPT ![i] = k],
             values |-> [u.values EXCEPT ![i] = v]]
    BY <1>4, <1>6 DEF Put, u, i, h
  <2>2. /\ p.size = u.size
        /\ p.hashes = [u.hashes EXCEPT ![i] = h]
        /\ p.keys = [u.keys EXCEPT ![i] = k]
        /\ p.values = [u.values EXCEPT ![i] = v]
    BY <2>1
  <2>3. /\ u.hashes \in [Slots(u) -> Nat] /\ u.size \in Nat /\ u.size > 0
        /\ u.keys = [j \in Slots(u) |-> u.keys[j]]
        /\ u.values = [j \in Slots(u) |-> u.values[j]]
    BY <1>1 DEF TableOK, Placed
  <2>4. Slots(p) = Slots(u)
    BY <2>2 DEF Slots
  <2>5. /\ p.hashes[i] = h /\ p.keys[i] = k /\ p.values[i] = v
        /\ \A j \in Slots(u) \ {i} : /\ p.hashes[j] = u.hashes[j]
                                      /\ p.keys[j] = u.keys[j]
                                      /\ p.values[j] = u.values[j]
    BY <1>3, <2>2, <2>3
  <2>6. /\ p.keys = [j \in Slots(p) |-> p.keys[j]]
        /\ p.values = [j \in Slots(p) |-> p.values[j]]
    BY <2>2, <2>3, <2>4
  <2>7. i \notin OccupiedSlots(u)
    BY <1>3, <1>6 DEF OccupiedSlots
  <2>8. OccupiedSlots(p) = OccupiedSlots(u) \cup {i}
    BY <1>2, <1>3, <2>4, <2>5 DEF OccupiedSlots
  <2>9. \A a \in OccupiedSlots(u) : a \in Slots(u) \ {i}
    BY <2>7 DEF OccupiedSlots
  <2>10. ASSUME NEW j \in Slots(u), Dist(u.size, h, j) <= Dist(u.size, h, i)
         PROVE  j = i \/ Occupied(u.hashes[j])
    <3> SUFFICES ASSUME ~Occupied(u.hashes[j])
                 PROVE  j = i
      OBVIOUS
    <3>1. i \in 0 .. u.size - 1 /\ j \in 0 .. u.size - 1
      BY <1>3 DEF Slots
    <3>2. Dist(u.size, h, i) \in Nat /\ Dist(u.size, h, j) \in Nat
      BY <1>2, <2>3, <3>1, DistArrives
    <3>3. Dist(u.size, h, i) <= Dist(u.size, h, j)
      BY <1>3
    <3>4. Dist(u.size, h, i) = Dist(u.size, h, j)
      BY <2>10, <3>2, <3>3
    <3> QED BY <1>2, <2>3, <3>1, <3>4, DistInjective
  <2>11. ASSUME NEW a \in OccupiedSlots(p), NEW j \in Slots(p),
                Dist(p.size, p.hashes[a], j) <= Dist(p.size, p.hashes[a], a)
         PROVE  p.hashes[j] # EMPTY
    <3>1. h # EMPTY
      BY <1>2 DEF Occupied, EMPTY, FirstValidHash
    <3>2. CASE j = i
      BY <2>5, <3>1, <3>2
    <3>3. CASE j # i /\ a = i
      <4>1. Occupied(u.hashes[j])
        BY <2>2, <2>4, <2>5, <2>10, <2>11, <3>3
      <4> QED BY <2>4, <2>5, <3>3, <4>1 DEF Occupied, EMPTY, FirstValidHash
    <3>4. CASE j # i /\ a # i
      <4>1. a \in OccupiedSlots(u) /\ p.hashes[a] = u.hashes[a]
        BY <2>5, <2>8, <2>9, <3>4
      <4>2. u.hashes[j] # EMPTY
        BY <1>1, <2>2, <2>4, <2>11, <4>1 DEF Placed
      <4> QED BY <2>4, <2>5, <3>4, <4>2
    <3> QED BY <3>2, <3>3, <3>4
  <2>12. ASSUME NEW a \in OccupiedSlots(p)
         PROVE  p.keys[a] \in K /\ p.hashes[a] = GetHash(p.keys[a])
    <3>1. CASE a = i
      BY <2>5, <3>1 DEF h
    <3>2. CASE a # i
      <4>1. a \in OccupiedSlots(u)
        BY <2>8, <3>2
      <4> QED BY <1>1, <2>5, <2>9, <4>1 DEF Placed
    <3> QED BY <3>1, <3>2
  <2>13. Placed(p, K)
    BY <2>6, <2>11, <2>12 DEF Placed
  <2>14. ASSUME NEW j
         PROVE  HasKey(p, j) <=> j = k \/ HasKey(t, j)
    <3>1. HasKey(p, j) <=> j = k \/ HasKey(u, j)
      BY <2>5, <2>8, <2>9 DEF HasKey
    <3> QED BY <1>1, <3>1
  <2>15. ASSUME Apart(t), NoTombstones(t)
         PROVE  Apart(p)
    <3>1. ~HasKey(u, k)
      BY <1>1, <1>6, <2>15, PutFinds DEF i
    <3>2. \A a \in OccupiedSlots(u) : u.keys[a] # k
      BY <3>1 DEF HasKey
    <3> QED BY <1>1, <2>5, <2>8, <2>9, <2>15, <3>2 DEF Apart
  <2>16. ASSUME Apart(t), NoTombstones(t), NEW j, NEW w
         PROVE  Holds(p, j, w) <=> IF j = k THEN w = v ELSE Holds(t, j, w)
    <3>1. ~HasKey(u, k)
      BY <1>1, <1>6, <2>16, PutFinds DEF i
    <3>2. \A a \in OccupiedSlots(u) : u.keys[a] # k
      BY <3>1 DEF HasKey
    <3>3. Holds(p, j, w) <=> IF j = k THEN w = v ELSE Holds(u, j, w)
      BY <2>5, <2>8, <2>9, <3>2 DEF Holds
    <3> QED BY <1>1, <2>16, <3>3
  <2> QED BY <2>13, <2>14, <2>15, <2>16
<1> QED BY <1>5, <1>6

\* put_if_contains changes what its key holds if the key has an entry, which
\* is what it answers, and nothing otherwise.
LEMMA PutIfContainsPlaced ==
  ASSUME NEW t, TableOK(t), NEW K, KeysOK(K), Placed(t, K),
         NEW k \in K, NEW v, NEW p, p = PutIfContains(t, k, v)
  PROVE  /\ Placed(p, K)
         /\ \A j : HasKey(p, j) <=> HasKey(t, j)
         /\ NoTombstones(t) => (PutIfContainsHit(t, k) <=> HasKey(t, k))
         /\ Apart(t) /\ NoTombstones(t) =>
              /\ Apart(p)
              /\ \A j, w : Holds(p, j, w) <=> IF j = k /\ HasKey(t, k) THEN w = v
                                             ELSE Holds(t, j, w)
<1> DEFINE u == EnsureCapacity(t)
           i == PutSlot(u, k)
<1>1. CASE IsVoid(t)
  <2>1. p = t /\ ~PutIfContainsHit(t, k)
    BY <1>1 DEF PutIfContains, PutIfContainsHit
  <2>2. OccupiedSlots(t) = {}
    <3>1. Cardinality(OccupiedSlots(t)) = 0 /\ IsFiniteSet(OccupiedSlots(t))
      BY <1>1, OccupiedFinite DEF IsVoid, TableOK
    <3> QED BY <3>1, FS_EmptySet
  <2> QED BY <2>1, <2>2 DEF HasKey
<1>2. CASE ~IsVoid(t)
  <2>1. /\ TableOK(u) /\ (NoTombstones(t) => NoTombstones(u))
        /\ Placed(u, K) /\ (Apart(t) => Apart(u))
        /\ \A j : HasKey(u, j) <=> HasKey(t, j)
        /\ Apart(t) => \A j, w : Holds(u, j, w) <=> Holds(t, j, w)
    BY EnsureOK, EnsurePlaced
  <2>2. GetHash(k) \in Nat
    BY StoredHash DEF KeysOK
  <2>3. /\ PutIfContainsHit(t, k) <=> Matches(u, k, i)
        /\ p = IF Matches(u, k, i) THEN [u EXCEPT !.values[i] = v] ELSE u
    BY <1>2 DEF PutIfContains, PutIfContainsHit
  <2> HIDE DEF u
  <2>4. i \in Slots(u) /\ (NoTombstones(u) /\ HasKey(u, k) => Matches(u, k, i))
    BY <2>1, <2>2, PutStops, PutFinds
  <2> HIDE DEF i
  <2>5. CASE Matches(u, k, i)
    <3>1. i \in OccupiedSlots(u) /\ u.keys[i] = k
      BY <2>1, <2>4, <2>5, MatchesKey
    <3>2. u = [size |-> u.size, count |-> u.count, hashes |-> u.hashes,
               keys |-> u.keys, values |-> u.values]
      BY <2>1 DEF TableOK
    <3>3. p = [size |-> u.size, count |-> u.count, hashes |-> u.hashes,
               keys |-> u.keys, values |-> [u.values EXCEPT ![i] = v]]
      BY <2>3, <2>5, <3>2
    <3>4. /\ p.size = u.size /\ p.hashes = u.hashes /\ p.keys = u.keys
          /\ p.values = [u.values EXCEPT ![i] = v]
      BY <3>3
    <3>5. /\ Placed(p, K) /\ (Apart(u) => Apart(p))
          /\ \A j : HasKey(p, j) <=> HasKey(u, j)
          /\ Apart(u) => \A j, w : Holds(p, j, w) <=>
                          IF j = u.keys[i] THEN w = v ELSE Holds(u, j, w)
      BY <2>1, <3>1, <3>4, OverwritePlaced
    <3>6. HasKey(u, k)
      BY <3>1 DEF HasKey
    <3>7. HasKey(t, k)
      BY <2>1, <3>6
    <3>8. ASSUME Apart(t), NEW j, NEW w
          PROVE  Holds(p, j, w) <=> IF j = k /\ HasKey(t, k) THEN w = v
                                    ELSE Holds(t, j, w)
      BY <2>1, <3>1, <3>5, <3>7, <3>8
    <3>9. \A j : HasKey(p, j) <=> HasKey(t, j)
      BY <2>1, <3>5
    <3> QED BY <2>1, <2>3, <2>5, <3>5, <3>7, <3>8, <3>9
  <2>6. CASE ~Matches(u, k, i)
    <3>1. p = u /\ ~PutIfContainsHit(t, k)
      BY <2>3, <2>6
    <3>2. NoTombstones(t) => ~HasKey(t, k)
      BY <2>1, <2>4, <2>6
    <3> QED BY <2>1, <3>1, <3>2
  <2> QED BY <2>5, <2>6
<1> QED BY <1>1, <1>2

\* remove leaves the entries of the other keys where lookups find them: the
\* slot it clears is a tombstone, and not EMPTY.
LEMMA RemovePlaced ==
  ASSUME NEW t, TableOK(t), NEW K, KeysOK(K), Placed(t, K),
         NEW k \in K, NEW p, p = Remove(t, k)
  PROVE  /\ Placed(p, K)
         /\ \A j : j # k /\ HasKey(t, j) => HasKey(p, j)
<1> DEFINE i == GetSlot(t, k)
<1>1. CASE ~Found(t, k)
  BY <1>1 DEF Remove
<1>2. CASE Found(t, k)
  <2>1. i \in OccupiedSlots(t) /\ t.keys[i] = k
    BY <1>2, FoundIffHasKey
  <2>2. /\ t = [size |-> t.size, count |-> t.count, hashes |-> t.hashes,
                keys |-> t.keys, values |-> t.values]
        /\ t.hashes \in [Slots(t) -> Nat]
    BY DEF TableOK
  <2>3. p = [t EXCEPT !.hashes[i] = REMOVED, !.count = @ - 1]
    BY <1>2 DEF Remove
  <2> HIDE DEF i
  <2>4. p = [size |-> t.size, count |-> t.count - 1,
             hashes |-> [t.hashes EXCEPT ![i] = REMOVED],
             keys |-> t.keys, values |-> t.values]
    BY <2>2, <2>3
  <2>5. /\ p.size = t.size /\ p.keys = t.keys /\ p.values = t.values
        /\ p.hashes = [t.hashes EXCEPT ![i] = REMOVED]
    BY <2>4
  <2>6. Slots(p) = Slots(t) /\ i \in Slots(t)
    BY <2>1, <2>5 DEF Slots, OccupiedSlots
  <2>7. /\ p.hashes[i] = REMOVED
        /\ \A j \in Slots(t) \ {i} : p.hashes[j] = t.hashes[j]
    BY <2>2, <2>5, <2>6
  <2>8. OccupiedSlots(p) = OccupiedSlots(t) \ {i}
    BY <2>6, <2>7 DEF OccupiedSlots, Occupied, REMOVED, FirstValidHash
  <2>9. \A a \in OccupiedSlots(p) : a \in OccupiedSlots(t)
                                  /\ a \in Slots(t) \ {i}
    BY <2>8 DEF OccupiedSlots
  <2>10. ASSUME NEW a \in OccupiedSlots(p), NEW j \in Slots(p),
                Dist(p.size, p.hashes[a], j) <= Dist(p.size, p.hashes[a], a)
         PROVE  p.hashes[j] # EMPTY
    <3>1. t.hashes[j] # EMPTY
      BY <2>5, <2>6, <2>7, <2>9, <2>10 DEF Placed
    <3> QED BY <2>6, <2>7, <3>1 DEF REMOVED, EMPTY
  <2>11. Placed(p, K)
    BY <2>5, <2>6, <2>7, <2>9, <2>10 DEF Placed
  <2>12. ASSUME NEW j, j # k, HasKey(t, j)
         PROVE  HasKey(p, j)
    BY <2>1, <2>5, <2>8, <2>12 DEF HasKey
  <2> QED BY <2>11, <2>12
<1> QED BY <1>1, <1>2

-----------------------------------------------------------------------------
(* The invariant of the calls.                                             *)

AllKeys == Keys \cup TestKeys

TableInv ==
  /\ TableOK(table)
  /\ Placed(table, AllKeys)
  /\ user \in {"program", "test"}
  /\ user = "program" => NoTombstones(table) /\ Apart(table)

\* Each key a call is made with is one the table tells apart.
LEMMA AllKeysOK ==
  /\ KeysOK(AllKeys)
  /\ \A k \in KeysOf(user) : k \in AllKeys
BY KeysAssumption DEF KeysOK, AllKeys, KeysOf

\* What put and put_if_contains have in common.
LEMMA ChangeOK ==
  ASSUME NEW t, TableOK(t), Placed(t, AllKeys), NEW k \in AllKeys, NEW v,
         NEW p \in {Put(t, k, v), PutIfContains(t, k, v)}
  PROVE  /\ TableOK(p) /\ Placed(p, AllKeys)
         /\ NoTombstones(t) => NoTombstones(p)
         /\ NoTombstones(t) /\ Apart(t) => Apart(p)
         /\ \A j : HasKey(t, j) => HasKey(p, j)
<1>1. KeysOK(AllKeys) /\ Hash(k) \in Nat
  BY AllKeysOK DEF KeysOK
<1>2. CASE p = Put(t, k, v)
  BY <1>1, <1>2, PutOK, PutPlaced
<1>3. CASE p = PutIfContains(t, k, v)
  BY <1>1, <1>3, PutIfContainsOK, PutIfContainsPlaced
<1> QED BY <1>2, <1>3

-----------------------------------------------------------------------------
(* The theorems.                                                           *)

\* Every step changes the table by one call or leaves it alone.
LEMMA StepCases ==
  ASSUME Next
  PROVE  /\ user' = user
         /\ \E k \in AllKeys :
              \/ Change(k)
              \/ user = "program" /\ Ask(k) /\ table' = table
              \/ user = "test" /\ DoRemove(k)
<1>1. PICK k \in KeysOf(user) :
        /\ \/ Change(k)
           \/ user = "program" /\ Ask(k)
           \/ user = "test" /\ DoRemove(k)
        /\ UNCHANGED user
  BY DEF Next
<1>2. k \in AllKeys
  BY <1>1 DEF KeysOf, AllKeys
<1>3. Ask(k) => table' = table
  BY DEF Ask, DoGetOrElse, DoGet, DoGetPtr, DoContainsKey, Lookup
<1> QED BY <1>1, <1>2, <1>3

\* A change is a put or a put_if_contains.
LEMMA ChangeCases ==
  ASSUME NEW k, Change(k)
  PROVE  \E v : table' \in {Put(table, k, v), PutIfContains(table, k, v)}
BY DEF Change, DoPut, DoPutIfContains

\* No call breaks the invariant, and only a test leaves tombstones.
LEMMA NextTable ==
  ASSUME TableInv, [Next]_tableVars
  PROVE  TableInv'
<1>1. CASE UNCHANGED tableVars
  BY <1>1 DEF tableVars, TableInv
<1>2. CASE Next
  <2>1. user' = user
    BY <1>2, StepCases
  <2>2. PICK k \in AllKeys :
          \/ Change(k)
          \/ user = "program" /\ Ask(k) /\ table' = table
          \/ user = "test" /\ DoRemove(k)
    BY <1>2, StepCases
  <2>3. CASE Change(k)
    <3>1. PICK v : table' \in {Put(table, k, v), PutIfContains(table, k, v)}
      BY <2>3, ChangeCases
    <3> QED BY <2>1, <3>1, ChangeOK DEF TableInv
  <2>4. CASE table' = table
    BY <2>1, <2>4 DEF TableInv
  <2>5. CASE user = "test" /\ DoRemove(k)
    <3>1. table' = Remove(table, k)
      BY <2>5 DEF DoRemove
    <3>2. Hash(k) \in Nat /\ KeysOK(AllKeys)
      BY AllKeysOK DEF KeysOK
    <3> QED BY <2>1, <2>5, <3>1, <3>2, RemoveOK, RemovePlaced DEF TableInv
  <2> QED BY <2>2, <2>3, <2>4, <2>5
<1> QED BY <1>1, <1>2

\* The invariant of all the theorems.
THEOREM TableInvHolds == Spec => []TableInv
<1>1. Init => TableInv
  BY NewTableOK, NewTablePlaced DEF Init, TableInv
<1> QED BY <1>1, NextTable, PTL DEF Spec

\* Hash_Table::count is the number of entries, whatever is put, overwritten,
\* grown or removed: growing never comes too late, and no lookup returns early
\* from a table that holds something.
THEOREM CountAlwaysExact == Spec => []CountExact
<1>1. TableInv => CountExact
  BY DEF TableInv, TableOK, CountExact
<1> QED BY TableInvHolds, <1>1, PTL

\* While nothing is removed, a table with entries keeps an EMPTY slot, so that
\* every lookup of an absent key ends, at any size and for any hashes.
THEOREM LookupsAlwaysReturn == Spec => []LookupsReturn
<1>1. ASSUME TableInv, user = "program"
      PROVE  \E i \in Slots(table) : table.hashes[i] = EMPTY
  <2>1. PICK i \in Slots(table) : ~Occupied(table.hashes[i])
    BY <1>1, RoomLeft DEF TableInv
  <2>2. table.hashes[i] \in Nat /\ table.hashes[i] # REMOVED
    BY <1>1 DEF TableInv, TableOK, NoTombstones
  <2> QED BY <2>1, <2>2 DEF Occupied, EMPTY, REMOVED, FirstValidHash
<1>2. TableInv => LookupsReturn
  BY <1>1 DEF TableInv, LookupsReturn
<1> QED BY TableInvHolds, <1>2, PTL

\* Every entry, however it got there, is where a lookup comes by: put and
\* growing probe over occupied slots only, and remove leaves a tombstone.
THEOREM EntriesStayReachable == Spec => []EntriesReachable
<1>1. ASSUME TableInv
      PROVE  EntriesReachable
  <2> SUFFICES ASSUME NEW i \in OccupiedSlots(table),
                      NEW d \in 0 .. (i - Home(i) + table.size) % table.size
               PROVE  table.hashes[(Home(i) + d) % table.size] # EMPTY
    BY DEF EntriesReachable
  <2> DEFINE n == table.size
             h == table.hashes[i]
             j == ((h % n) + d) % n
  <2>1. /\ n \in Nat /\ n > 0 /\ h \in Nat
        /\ i \in Slots(table) /\ i \in 0 .. n - 1
    BY <1>1 DEF TableInv, TableOK, OccupiedSlots, Slots
  <2>2. d \in 0 .. (i - (h % n) + n) % n /\ (Home(i) + d) % table.size = j
    BY DEF Home
  <2> HIDE DEF n, h
  <2>3. j \in 0 .. n - 1 /\ Dist(n, h, j) <= Dist(n, h, i)
    BY <2>1, <2>2, ProbeWalk
  <2> HIDE DEF j
  <2>4. j \in Slots(table)
    BY <2>3 DEF Slots, n
  <2>5. table.hashes[j] # EMPTY
    BY <1>1, <2>3, <2>4 DEF TableInv, Placed, n, h
  <2> QED BY <2>2, <2>5
<1> QED BY TableInvHolds, <1>1, PTL

\* Only the removal of a key makes it disappear: not growing, not putting
\* another, and not removing one that a lookup of this one has to step over.
THEOREM NoKeyIsLost == Spec => NoKeyLost
<1>1. ASSUME TableInv, TableInv', [Next]_tableVars, NEW k \in KeysOf(user),
             Found(table, k), ~DoRemove(k)
      PROVE  Found(table', k)
  <2>1. KeysOK(AllKeys) /\ k \in AllKeys
    BY AllKeysOK
  <2>2. HasKey(table, k)
    BY <1>1, <2>1, FoundIffHasKey DEF TableInv
  <2>3. HasKey(table', k)
    <3>1. CASE UNCHANGED tableVars
      BY <2>2, <3>1 DEF tableVars
    <3>2. CASE Next
      <4>1. PICK c \in AllKeys :
              \/ Change(c)
              \/ user = "program" /\ Ask(c) /\ table' = table
              \/ user = "test" /\ DoRemove(c)
        BY <3>2, StepCases
      <4>2. CASE Change(c)
        <5>1. PICK v : table' \in {Put(table, c, v), PutIfContains(table, c, v)}
          BY <4>2, ChangeCases
        <5> QED BY <1>1, <2>2, <5>1, ChangeOK DEF TableInv
      <4>3. CASE table' = table
        BY <2>2, <4>3
      <4>4. CASE DoRemove(c)
        <5>1. c # k /\ table' = Remove(table, c)
          BY <1>1, <4>4 DEF DoRemove
        <5> QED BY <1>1, <2>1, <2>2, <5>1, RemovePlaced DEF TableInv
      <4> QED BY <4>1, <4>2, <4>3, <4>4
    <3> QED BY <1>1, <3>1, <3>2
  <2>4. TableOK(table') /\ Placed(table', AllKeys)
    BY <1>1 DEF TableInv
  <2> QED BY <2>1, <2>3, <2>4, FoundIffHasKey
<1>2. TableInv /\ TableInv' /\ [Next]_tableVars =>
        [\A k \in KeysOf(user) :
           Found(table, k) /\ ~DoRemove(k) => Found(table', k)]_tableVars
  BY <1>1
<1> QED BY TableInvHolds, <1>2, PTL DEF Spec, NoKeyLost

-----------------------------------------------------------------------------
(* The table implements a map.                                             *)

ContentsOf(t) == [k \in {j \in Keys : Found(t, j)} |-> ValueAt(t, k)]

\* The map has the keys that have an entry, and maps each to what it holds.
LEMMA ContentsAre ==
  ASSUME NEW t, TableOK(t), Placed(t, AllKeys), Apart(t),
         NEW c, c = ContentsOf(t)
  PROVE  /\ c = [j \in DOMAIN c |-> c[j]]
         /\ DOMAIN c = {j \in Keys : HasKey(t, j)}
         /\ \A j \in Keys : Found(t, j) <=> HasKey(t, j)
         /\ \A j \in DOMAIN c : c[j] = ValueAt(t, j)
         /\ \A j \in Keys : \A w : Holds(t, j, w) <=> j \in DOMAIN c /\ c[j] = w
<1>1. KeysOK(AllKeys) /\ \A j \in Keys : j \in AllKeys
  BY AllKeysOK DEF AllKeys
<1>2. \A j \in Keys : Found(t, j) <=> HasKey(t, j)
  BY <1>1, FoundIffHasKey
<1>3. DOMAIN c = {j \in Keys : HasKey(t, j)}
  BY <1>2 DEF ContentsOf
<1>4. \A j \in DOMAIN c : c[j] = ValueAt(t, j)
  BY DEF ContentsOf
<1>5. \A j \in Keys : \A w : Holds(t, j, w) <=> Found(t, j) /\ ValueAt(t, j) = w
  BY <1>1, ValueIffHolds
<1>6. c = [j \in DOMAIN c |-> c[j]]
  BY DEF ContentsOf
<1> QED BY <1>2, <1>3, <1>4, <1>5, <1>6

\* Two tables that hold the same have the same contents.
LEMMA ContentsSame ==
  ASSUME NEW t, TableOK(t), Placed(t, AllKeys), Apart(t),
         NEW p, TableOK(p), Placed(p, AllKeys), Apart(p),
         \A j : HasKey(p, j) <=> HasKey(t, j),
         \A j, w : Holds(p, j, w) <=> Holds(t, j, w)
  PROVE  ContentsOf(p) = ContentsOf(t)
<1> DEFINE c == ContentsOf(t)
           d == ContentsOf(p)
<1>1. /\ c = [j \in DOMAIN c |-> c[j]] /\ DOMAIN c = {j \in Keys : HasKey(t, j)}
      /\ \A j \in Keys : \A w : Holds(t, j, w) <=> j \in DOMAIN c /\ c[j] = w
  BY ContentsAre
<1>2. /\ d = [j \in DOMAIN d |-> d[j]] /\ DOMAIN d = {j \in Keys : HasKey(p, j)}
      /\ \A j \in Keys : \A w : Holds(p, j, w) <=> j \in DOMAIN d /\ d[j] = w
  BY ContentsAre
<1> HIDE DEF c, d
<1>3. DOMAIN d = DOMAIN c
  BY <1>1, <1>2
<1>4. \A j \in DOMAIN c : d[j] = c[j]
  BY <1>1, <1>2
<1>5. d = c
  BY <1>1, <1>2, <1>3, <1>4
<1> QED BY <1>5 DEF c, d

\* A table that holds one thing more, or anew, has that in its contents.
LEMMA ContentsWith ==
  ASSUME NEW t, TableOK(t), Placed(t, AllKeys), Apart(t),
         NEW p, TableOK(p), Placed(p, AllKeys), Apart(p),
         NEW k \in Keys, NEW v,
         \A j : HasKey(p, j) <=> j = k \/ HasKey(t, j),
         \A j, w : Holds(p, j, w) <=> IF j = k THEN w = v ELSE Holds(t, j, w),
         NEW c, c = ContentsOf(t)
  PROVE  ContentsOf(p)
           = [j \in DOMAIN c \cup {k} |-> IF j = k THEN v ELSE c[j]]
<1> DEFINE d == ContentsOf(p)
<1>1. /\ DOMAIN c = {j \in Keys : HasKey(t, j)}
      /\ \A j \in Keys : \A w : Holds(t, j, w) <=> j \in DOMAIN c /\ c[j] = w
  BY ContentsAre
<1>2. /\ d = [j \in DOMAIN d |-> d[j]] /\ DOMAIN d = {j \in Keys : HasKey(p, j)}
      /\ \A j \in Keys : \A w : Holds(p, j, w) <=> j \in DOMAIN d /\ d[j] = w
  BY ContentsAre
<1> HIDE DEF d
<1>3. DOMAIN d = DOMAIN c \cup {k}
  BY <1>1, <1>2
<1>4. \A j \in DOMAIN d : d[j] = IF j = k THEN v ELSE c[j]
  BY <1>1, <1>2, <1>3
<1>5. d = [j \in DOMAIN c \cup {k} |-> IF j = k THEN v ELSE c[j]]
  BY <1>2, <1>3, <1>4
<1> QED BY <1>5 DEF d

\* A lookup of the table is a lookup of the map.
LEMMA AskIsMap ==
  ASSUME TableInv, user = "program", NEW k \in Keys, Ask(k),
         table' = table, Contents' = Contents
  PROVE  Map!Next
<1>1. Contents = ContentsOf(table)
  BY DEF Contents, ContentsOf, KeysOf
<1>2. TableOK(table) /\ Placed(table, AllKeys) /\ Apart(table)
  BY DEF TableInv
<1>3. /\ Found(table, k) <=> k \in DOMAIN Contents
      /\ k \in DOMAIN Contents => Contents[k] = ValueAt(table, k)
  BY <1>1, <1>2, ContentsAre
<1>4. ASSUME NEW v
      PROVE  ValueOr(k, v) = IF Map!Has(k) THEN Contents[k] ELSE v
  BY <1>3 DEF ValueOr, Map!Has
<1>5. Found(table, k) = Map!Has(k)
  <2>1. Found(table, k) \in BOOLEAN
    BY DEF Found
  <2>2. Map!Has(k) \in BOOLEAN /\ (Found(table, k) <=> Map!Has(k))
    BY <1>3 DEF Map!Has
  <2> QED BY <2>1, <2>2
<1> HIDE DEF Map!Has
<1>6. ASSUME NEW v \in Vals, DoGetOrElse(k, v)
      PROVE  Map!GetOrElse(k, v)
  BY <1>4, <1>6 DEF DoGetOrElse, Calls, Gives, Map!GetOrElse, Map!Calls, Map!Gives
<1>7. ASSUME DoGet(k)
      PROVE  Map!Get(k)
  BY <1>4, <1>7 DEF DoGet, Calls, Gives, Map!Get, Map!Calls, Map!Gives
<1>8. ASSUME DoGetPtr(k)
      PROVE  Map!GetPtr(k)
  BY <1>4, <1>5, <1>8
     DEF DoGetPtr, Calls, Gives, Map!GetPtr, Map!Calls, Map!Gives
<1>9. ASSUME DoContainsKey(k)
      PROVE  Map!ContainsKey(k)
  BY <1>5, <1>9
     DEF DoContainsKey, Calls, Says, Map!ContainsKey, Map!Calls, Map!Says
<1> QED BY <1>6, <1>7, <1>8, <1>9 DEF Ask, Map!Next, ValsOf

\* put is a put into the map.
LEMMA PutIsMap ==
  ASSUME TableInv, TableInv', user = "program", user' = user,
         NEW k \in Keys, NEW v, DoPut(k, v)
  PROVE  Map!Put(k, v)
<1> DEFINE c == Contents
           p == table'
<1>1. c = ContentsOf(table) /\ Contents' = ContentsOf(p)
  BY DEF Contents, ContentsOf, KeysOf
<1>2. /\ TableOK(table) /\ Placed(table, AllKeys) /\ Apart(table)
      /\ NoTombstones(table)
      /\ TableOK(p) /\ Placed(p, AllKeys) /\ Apart(p)
  BY DEF TableInv
<1>3. k \in AllKeys /\ KeysOK(AllKeys) /\ p = Put(table, k, v)
  BY AllKeysOK DEF AllKeys, DoPut
<1>4. /\ \A j : HasKey(p, j) <=> j = k \/ HasKey(table, j)
      /\ \A j, w : Holds(p, j, w) <=> IF j = k THEN w = v
                                     ELSE Holds(table, j, w)
  BY <1>2, <1>3, PutPlaced
<1> HIDE DEF p
<1>5. Contents' = [j \in DOMAIN c \cup {k} |-> IF j = k THEN v ELSE c[j]]
  BY <1>1, <1>2, <1>4, ContentsWith
<1>6. Map!Calls("put", k, v) /\ Map!Says(FALSE)
  BY DEF DoPut, Calls, Says, Map!Calls, Map!Says
<1> QED BY <1>5, <1>6 DEF Map!Put, Map!With

\* put_if_contains is that of the map, and answers what it answers.
LEMMA PutIfContainsIsMap ==
  ASSUME TableInv, TableInv', user = "program", user' = user,
         NEW k \in Keys, NEW v, DoPutIfContains(k, v)
  PROVE  Map!PutIfContains(k, v)
<1> DEFINE c == Contents
           p == table'
<1>1. c = ContentsOf(table) /\ Contents' = ContentsOf(p)
  BY DEF Contents, ContentsOf, KeysOf
<1>2. /\ TableOK(table) /\ Placed(table, AllKeys) /\ Apart(table)
      /\ NoTombstones(table)
      /\ TableOK(p) /\ Placed(p, AllKeys) /\ Apart(p)
  BY DEF TableInv
<1>3. /\ k \in AllKeys /\ KeysOK(AllKeys) /\ p = PutIfContains(table, k, v)
  BY AllKeysOK DEF AllKeys, DoPutIfContains
<1>4. /\ \A j : HasKey(p, j) <=> HasKey(table, j)
      /\ \A j, w : Holds(p, j, w) <=> IF j = k /\ HasKey(table, k) THEN w = v
                                     ELSE Holds(table, j, w)
      /\ PutIfContainsHit(table, k) <=> HasKey(table, k)
  BY <1>2, <1>3, PutIfContainsPlaced
<1>5. Map!Has(k) <=> HasKey(table, k)
  <2>1. DOMAIN c = {j \in Keys : HasKey(table, j)}
    BY <1>1, <1>2, ContentsAre
  <2> QED BY <2>1 DEF Map!Has
<1>6. Map!Calls("put_if_contains", k, v) /\ Map!Says(Map!Has(k))
  <2>1. PutIfContainsHit(table, k) \in BOOLEAN
    BY DEF PutIfContainsHit
  <2>2. Map!Has(k) \in BOOLEAN
    BY DEF Map!Has
  <2>3. PutIfContainsHit(table, k) = Map!Has(k)
    BY <1>4, <1>5, <2>1, <2>2
  <2> HIDE DEF Map!Has, PutIfContainsHit
  <2> QED BY <2>3 DEF DoPutIfContains, Calls, Says, Map!Calls, Map!Says
<1> HIDE DEF p
<1>7. CASE HasKey(table, k)
  <2>1. \A j : HasKey(p, j) <=> j = k \/ HasKey(table, j)
    BY <1>4, <1>7
  <2>2. \A j, w : Holds(p, j, w) <=> IF j = k THEN w = v ELSE Holds(table, j, w)
    BY <1>4, <1>7
  <2>3. Contents' = [j \in DOMAIN c \cup {k} |-> IF j = k THEN v ELSE c[j]]
    BY <1>1, <1>2, <2>1, <2>2, ContentsWith
  <2> QED BY <1>5, <1>6, <1>7, <2>3 DEF Map!PutIfContains, Map!With
<1>8. CASE ~HasKey(table, k)
  <2>1. \A j, w : Holds(p, j, w) <=> Holds(table, j, w)
    BY <1>4, <1>8
  <2>2. Contents' = Contents
    BY <1>1, <1>2, <1>4, <2>1, ContentsSame
  <2> QED BY <1>5, <1>6, <1>8, <2>2 DEF Map!PutIfContains
<1> QED BY <1>7, <1>8

\* Used without remove, the table is a map, across collisions and growing:
\* every put changes the one key, and every answer is the map's.
THEOREM TableIsMap == Spec => IsMap
<1>1. Init => Map!Init
  <2> SUFFICES ASSUME Init
               PROVE  Map!Init
    OBVIOUS
  <2>1. \A k : ~Found(table, k)
    BY DEF Init, NewTable, EmptyTable, Found, IsVoid
  <2>2. Contents = << >>
    BY <2>1 DEF Contents
  <2> QED BY <2>2 DEF Init, Map!Init
<1>2. ASSUME TableInv, TableInv', [Next]_tableVars
      PROVE  [user = "program" => Map!Next]_<<Contents, call, ret>>
  <2>1. CASE UNCHANGED tableVars
    BY <2>1 DEF tableVars, Contents
  <2>2. CASE Next
    <3> SUFFICES ASSUME user = "program"
                 PROVE  Map!Next \/ UNCHANGED <<Contents, call, ret>>
      OBVIOUS
    <3>1. PICK k \in Keys : /\ Change(k) \/ Ask(k)
                            /\ UNCHANGED user
      BY <2>2 DEF Next, KeysOf
    <3>2. CASE Change(k)
      <4>1. PICK v \in Vals : DoPut(k, v) \/ DoPutIfContains(k, v)
        BY <3>2 DEF Change, ValsOf
      <4>2. Map!Put(k, v) \/ Map!PutIfContains(k, v)
        BY <1>2, <3>1, <4>1, PutIsMap, PutIfContainsIsMap
      <4> QED BY <4>1, <4>2 DEF Map!Next
    <3>3. CASE Ask(k)
      <4>1. table' = table
        BY <3>3 DEF Ask, DoGetOrElse, DoGet, DoGetPtr, DoContainsKey, Lookup
      <4>2. Contents' = Contents
        BY <3>1, <4>1 DEF Contents
      <4> QED BY <1>2, <3>3, <4>1, <4>2, AskIsMap
    <3> QED BY <3>1, <3>2, <3>3
  <2> QED BY <1>2, <2>1, <2>2
<1> QED BY TableInvHolds, <1>1, <1>2, PTL DEF Spec, IsMap
=============================================================================
