------------------------------ MODULE TableOps ------------------------------
(***************************************************************************)
(* The operations of Hash_Table<K, V>, src/src/hash_table.h: open          *)
(* addressing with linear probing and tombstones.                          *)
(*                                                                         *)
(* A table is a record of its size, its count and its three arrays, indexed *)
(* from 0.  The arrays of a table nothing was put in are not allocated yet *)
(* in the code; they are all EMPTY here, which no operation can tell apart *)
(* because every one of them returns early when count is 0.                *)
(***************************************************************************)
EXTENDS Integers, FiniteSets, FiniteSetsExt

CONSTANTS
  InitSize,    \* the size a table is constructed with (16 in the code)
  ZeroKey,     \* a key slot after memset(0)
  ZeroValue,   \* a value slot after memset(0)
  Hash(_),     \* hash_fn
  Eq(_, _)     \* eq_fn

\* The probe index is masked with size - 1, which is a remainder only for
\* powers of two; size - 2 must not wrap.
ASSUME SizeAssumption ==
  InitSize \in Nat /\ InitSize > 2 /\ \E n \in 0 .. InitSize : InitSize = 2 ^ n

EMPTY == 0
REMOVED == 1
FirstValidHash == 2

Occupied(h) == h >= FirstValidHash

\* Mutant of GetHash: the reserved hashes are not kept clear of.
GetHashReserved(k) == Hash(k)

\* get_hash keeps clear of the two reserved values.
GetHash(k) == IF Hash(k) < FirstValidHash THEN Hash(k) + 2 ELSE Hash(k)

Slots(t) == 0 .. t.size - 1
OccupiedSlots(t) == {i \in Slots(t) : Occupied(t.hashes[i])}

EmptyTable(n) ==
  [size |-> n, count |-> 0,
   hashes |-> [i \in 0 .. n - 1 |-> EMPTY],
   keys   |-> [i \in 0 .. n - 1 |-> ZeroKey],
   values |-> [i \in 0 .. n - 1 |-> ZeroValue]]

NewTable == EmptyTable(InitSize)

-----------------------------------------------------------------------------
(* Probing.  The loops of the code differ only in what stops them; a loop  *)
(* that meets no stopping slot runs forever, and NoSlot stands for that.   *)

NoSlot == -1

ProbeFrom(n, h, stops) ==
  LET ds == {(i - h) % n : i \in stops}
  IN  IF ds = {} THEN NoSlot ELSE (h + Min(ds)) % n

Matches(t, k, i) == t.hashes[i] = GetHash(k) /\ Eq(t.keys[i], k)

\* put and put_if_contains stop at the key or at a slot that is not occupied.
PutSlot(t, k) ==
  ProbeFrom(t.size, GetHash(k),
            {i \in Slots(t) : Matches(t, k, i) \/ ~Occupied(t.hashes[i])})

\* The lookups stop at the key or at an EMPTY slot: they step over tombstones.
GetSlot(t, k) ==
  ProbeFrom(t.size, GetHash(k),
            {i \in Slots(t) : Matches(t, k, i) \/ t.hashes[i] = EMPTY})

-----------------------------------------------------------------------------
(* Growing.  The entries of the old table are put into the new one in slot  *)
(* order; NewSlots(t)[i] is the slot where the entry of old slot i lands.   *)
(* One whose key is already there lands on it and overwrites its value.     *)

\* Mutant of NewSlots: entries keep their index instead of being put again.
NewSlotsInPlace(t) ==
  [i \in Slots(t) |-> IF Occupied(t.hashes[i]) THEN i ELSE NoSlot]

NewSlots(t) ==
  LET after[n \in 0 .. t.size] ==
        IF n = 0 THEN [i \in Slots(t) |-> NoSlot]
        ELSE LET land == after[n - 1]
                 e == n - 1
                 same == {i \in Slots(t) : /\ land[i] # NoSlot
                                           /\ t.hashes[i] = t.hashes[e]
                                           /\ Eq(t.keys[i], t.keys[e])}
                 others == {land[i] : i \in Slots(t) \ same}
             IN  IF ~Occupied(t.hashes[e]) THEN land
                 ELSE [land EXCEPT ![e] =
                         ProbeFrom(2 * t.size, t.hashes[e],
                                   (0 .. 2 * t.size - 1) \ others)]
  IN  after[t.size]

Grow(t) ==
  LET land == NewSlots(t)
      from == [s \in 0 .. 2 * t.size - 1 |->
                 {i \in OccupiedSlots(t) : land[i] = s}]
  IN  [size   |-> 2 * t.size,
       count  |-> Cardinality({s \in 0 .. 2 * t.size - 1 : from[s] # {}}),
       hashes |-> [s \in 0 .. 2 * t.size - 1 |->
                     IF from[s] = {} THEN EMPTY ELSE t.hashes[Min(from[s])]],
       keys   |-> [s \in 0 .. 2 * t.size - 1 |->
                     IF from[s] = {} THEN ZeroKey ELSE t.keys[Min(from[s])]],
       values |-> [s \in 0 .. 2 * t.size - 1 |->
                     IF from[s] = {} THEN ZeroValue ELSE t.values[Max(from[s])]]]

\* Mutant of EnsureCapacity: the table grows only when it is full.
EnsureCapacityLate(t) == IF t.count >= t.size THEN Grow(t) ELSE t

EnsureCapacity(t) == IF t.count >= t.size - 2 THEN Grow(t) ELSE t

-----------------------------------------------------------------------------
(* The operations.                                                         *)

Put(t, k, v) ==
  LET u == EnsureCapacity(t)
      i == PutSlot(u, k)
  IN  IF Matches(u, k, i)
      THEN [u EXCEPT !.values[i] = v]
      ELSE [u EXCEPT !.values[i] = v, !.keys[i] = k, !.hashes[i] = GetHash(k),
                     !.count = @ + 1]

\* A lookup that reports the key absent without probing.
IsVoid(t) == t.count = 0

\* put_if_contains makes room even when it goes on to store nothing.
PutIfContains(t, k, v) ==
  IF IsVoid(t) THEN t
  ELSE LET u == EnsureCapacity(t)
           i == PutSlot(u, k)
       IN  IF Matches(u, k, i) THEN [u EXCEPT !.values[i] = v] ELSE u

PutIfContainsHit(t, k) ==
  /\ ~IsVoid(t)
  /\ LET u == EnsureCapacity(t) IN Matches(u, k, PutSlot(u, k))

\* The slot get, get_or_else, get_ptr and contains_key find, if any.
Loops(t, k) == ~IsVoid(t) /\ GetSlot(t, k) = NoSlot
Found(t, k) ==
  ~IsVoid(t) /\ LET i == GetSlot(t, k) IN i # NoSlot /\ Matches(t, k, i)
ValueAt(t, k) == t.values[GetSlot(t, k)]

\* Mutants of Remove: no tombstone is left; count is not kept.
RemoveToEmpty(t, k) ==
  IF Found(t, k)
  THEN [t EXCEPT !.hashes[GetSlot(t, k)] = EMPTY, !.count = @ - 1]
  ELSE t
RemoveUncounted(t, k) ==
  IF Found(t, k) THEN [t EXCEPT !.hashes[GetSlot(t, k)] = REMOVED] ELSE t

Remove(t, k) ==
  IF Found(t, k)
  THEN [t EXCEPT !.hashes[GetSlot(t, k)] = REMOVED, !.count = @ - 1]
  ELSE t
=============================================================================
