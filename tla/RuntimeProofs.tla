--------------------------- MODULE RuntimeProofs ---------------------------
(***************************************************************************)
(* The invariants of the runtime, for every heap size, set of names, width *)
(* of numbers, hash function and program.                                  *)
(*                                                                         *)
(* The inductive invariant is typing, the exact count of allocations and   *)
(* that roots cover references.  The middle of the argument is that no     *)
(* step but Drop changes, for any address, the difference between its      *)
(* root entries and the references to it (RootsBalanced): that keeps the   *)
(* roots covering, and covering is in turn what makes each unmark_root     *)
(* find the entry it removes.  That nothing referenced is freed follows.   *)
(*                                                                         *)
(* First come lemmas about the operators of Values, TableOps and Heap:     *)
(* what they return, preserve and bound.  GcProofs cites them as well.     *)
(***************************************************************************)
EXTENDS Runtime, NumberProofs, SequenceTheorems

-----------------------------------------------------------------------------
(* Least and greatest elements, as the instance of TableOps sees them.     *)

\* Min, where TableOps takes the first slot of a probe, picks the least.
LEMMA MinIsLeast ==
  ASSUME NEW S \in SUBSET Nat, S # {}
  PROVE  T!Min(S) \in S /\ \A y \in S : T!Min(S) <= y
BY LeastNatural DEF T!Min

\* Max, where Grow takes the last entry of a slot, picks the greatest.
LEMMA MaxIsGreatest ==
  ASSUME NEW n \in Nat, NEW S \in SUBSET (0 .. n), S # {}
  PROVE  T!Max(S) \in S /\ \A y \in S : T!Max(S) >= y
<1> DEFINE M == {n - y : y \in S}
<1>1. M \in SUBSET Nat /\ M # {}
  <2>1. \A y \in S : n - y \in Nat
    OBVIOUS
  <2> QED BY <2>1
<1>2. PICK m \in M : \A y \in M : m <= y
  BY <1>1, LeastNatural
<1>3. PICK x \in S : m = n - x
  BY <1>2
<1>4. \A y \in S : x >= y
  BY <1>2, <1>3
<1> QED BY <1>4 DEF T!Max

-----------------------------------------------------------------------------
(* Tables hold values and nothing else.                                    *)

\* Cardinality as the instance of TableOps sees it.
LEMMA SameCardinality == \A S : T!Cardinality(S) = Cardinality(S)
BY DEF T!Cardinality, Cardinality

\* A table whose keys and values are in S: IsTable(t) is TableOf(t, Value).
TableOf(t, S) ==
  /\ t.size \in Nat /\ t.count \in Nat
  /\ t = [size |-> t.size, count |-> t.count, hashes |-> t.hashes,
          keys |-> t.keys, values |-> t.values]
  /\ t.keys \in [T!Slots(t) -> S]
  /\ t.values \in [T!Slots(t) -> S]

\* A table of values is a table over Value, and what fills new slots is one.
LEMMA TablesOfValues ==
  /\ \A t : IsTable(t) <=> TableOf(t, Value)
  /\ ZeroV \in Value
BY DEF IsTable, TableOf, ZeroV, Value, Fits, BoolV, Plain, Types, Data

\* A table before its first put holds what fills new slots.
LEMMA NewTableOf ==
  ASSUME NEW S, ZeroV \in S
  PROVE  TableOf(T!NewTable, S)
BY InitSizeAssumption DEF TableOf, T!NewTable, T!EmptyTable, T!Slots

\* So it is a table of values.
LEMMA NewTableIsTable == IsTable(T!NewTable)
BY NewTableOf, TablesOfValues

\* Growing adds no key and no value but zero: each slot of the new arrays is
\* zero or comes from a slot of the old ones.
LEMMA GrowTableOf ==
  ASSUME NEW S, ZeroV \in S, NEW t, TableOf(t, S)
  PROVE  TableOf(T!Grow(t), S)
<1> DEFINE land == T!NewSlots(t)
           New == 0 .. 2 * t.size - 1
           from == [s \in New |-> {i \in T!OccupiedSlots(t) : land[i] = s}]
           hit == {s \in New : from[s] # {}}
<1>0. t.size \in Nat /\ t.keys \in [T!Slots(t) -> S]
        /\ t.values \in [T!Slots(t) -> S]
  BY DEF TableOf
<1>1. \A s \in New : from[s] \subseteq T!Slots(t)
  BY DEF T!OccupiedSlots
<1>2. \A s \in New : from[s] # {} => T!Min(from[s]) \in T!Slots(t)
                                   /\ T!Max(from[s]) \in T!Slots(t)
  <2> TAKE s \in New
  <2> HIDE DEF from
  <2> SUFFICES ASSUME from[s] # {}
               PROVE  T!Min(from[s]) \in from[s] /\ T!Max(from[s]) \in from[s]
    BY <1>1
  <2>1. from[s] \in SUBSET Nat /\ from[s] \in SUBSET (0 .. t.size)
    BY <1>0, <1>1 DEF T!Slots
  <2> QED BY <1>0, <2>1, MinIsLeast, MaxIsGreatest
<1>3. Cardinality(hit) \in Nat
  <2>1. IsFiniteSet(New)
    BY <1>0, FS_Interval
  <2>2. IsFiniteSet(hit)
    BY <2>1, FS_Subset
  <2> QED BY <2>2, FS_CardinalityType
<1> DEFINE g == T!Grow(t)
<1>4. /\ g = [size |-> g.size, count |-> g.count, hashes |-> g.hashes,
              keys |-> g.keys, values |-> g.values]
      /\ g.size = 2 * t.size /\ g.count = Cardinality(hit)
      /\ g.keys = [s \in New |-> IF from[s] = {} THEN ZeroV
                                 ELSE t.keys[T!Min(from[s])]]
      /\ g.values = [s \in New |-> IF from[s] = {} THEN ZeroV
                                   ELSE t.values[T!Max(from[s])]]
  BY SameCardinality DEF T!Grow
<1>5. T!Slots(g) = New
  BY <1>4 DEF T!Slots
<1> HIDE DEF g, from, hit, land
<1>6. g.keys \in [New -> S] /\ g.values \in [New -> S]
  BY <1>0, <1>2, <1>4
<1>7. g.size \in Nat
  BY <1>0, <1>4
<1>8. TableOf(g, S)
  BY <1>3, <1>4, <1>5, <1>6, <1>7 DEF TableOf
<1> QED BY <1>8 DEF g

\* put adds its key and its value and no others, whether it overwrites, inserts or grows.
LEMMA PutTableOf ==
  ASSUME NEW S, ZeroV \in S, NEW t, TableOf(t, S), NEW k \in S, NEW v \in S
  PROVE  TableOf(T!Put(t, k, v), S)
<1> DEFINE u == T!EnsureCapacity(t)
           i == T!PutSlot(u, k)
<1>1. TableOf(u, S)
  BY GrowTableOf DEF T!EnsureCapacity
<1>2. u = [size |-> u.size, count |-> u.count, hashes |-> u.hashes,
           keys |-> u.keys, values |-> u.values]
      /\ u.size \in Nat /\ u.count \in Nat
      /\ u.keys \in [T!Slots(u) -> S] /\ u.values \in [T!Slots(u) -> S]
  BY <1>1 DEF TableOf
<1> DEFINE p == T!Put(t, k, v)
<1> HIDE DEF u, i
<1>3. /\ p = [size |-> u.size, count |-> p.count, hashes |-> p.hashes,
              keys |-> p.keys, values |-> [u.values EXCEPT ![i] = v]]
      /\ p.count \in {u.count, u.count + 1}
      /\ p.keys \in {u.keys, [u.keys EXCEPT ![i] = k]}
  BY <1>2 DEF T!Put, u, i
<1> HIDE DEF p
<1>4. /\ p.size = u.size /\ p.values = [u.values EXCEPT ![i] = v]
      /\ T!Slots(p) = T!Slots(u)
  BY <1>3 DEF T!Slots
<1>5. p.count \in Nat
  BY <1>2, <1>3
<1>6. p.keys \in [T!Slots(p) -> S] /\ p.values \in [T!Slots(p) -> S]
  BY <1>2, <1>3, <1>4
<1>7. TableOf(p, S)
  BY <1>2, <1>3, <1>4, <1>5, <1>6 DEF TableOf
<1> QED BY <1>7 DEF p

\* So it leaves a table of values.
LEMMA PutIsTable ==
  ASSUME NEW t, IsTable(t), NEW k \in Value, NEW v \in Value
  PROVE  IsTable(T!Put(t, k, v))
BY PutTableOf, TablesOfValues

\* What a lookup finds is in a slot of the table.
LEMMA ValueAtOf ==
  ASSUME NEW S, NEW t, TableOf(t, S), NEW k, T!GetHash(k) \in Int, T!Found(t, k)
  PROVE  T!ValueAt(t, k) \in S
<1> DEFINE stops == {i \in T!Slots(t) : T!Matches(t, k, i)
                                           \/ t.hashes[i] = T!EMPTY}
           h == T!GetHash(k)
           ds == {(i - h) % t.size : i \in stops}
<1>1. T!GetSlot(t, k) # T!NoSlot
  BY DEF T!Found
<1>2. T!GetSlot(t, k) = T!ProbeFrom(t.size, h, stops)
  BY DEF T!GetSlot
<1>3. ds # {} /\ T!GetSlot(t, k) = (h + T!Min(ds)) % t.size
  BY <1>1, <1>2 DEF T!ProbeFrom
<1>4. stops \in SUBSET (0 .. t.size - 1) /\ h \in Int /\ t.size \in Nat
  BY DEF TableOf, T!Slots
<1> HIDE DEF stops, h
<1>5. t.size > 0
  BY <1>3, <1>4
<1>6. ds \in SUBSET Nat
  BY <1>4, <1>5
<1>7. T!Min(ds) \in Nat
  <2> HIDE DEF ds
  <2> QED BY <1>3, <1>6, MinIsLeast
<1> HIDE DEF ds
<1>8. T!GetSlot(t, k) \in T!Slots(t)
  BY <1>3, <1>4, <1>5, <1>7 DEF T!Slots
<1> QED BY <1>8 DEF T!ValueAt, TableOf

\* So it is a value.
LEMMA ValueAtIsValue ==
  ASSUME NEW t, IsTable(t), NEW k, T!GetHash(k) \in Int, T!Found(t, k)
  PROVE  T!ValueAt(t, k) \in Value
BY ValueAtOf, TablesOfValues

-----------------------------------------------------------------------------
(* Values: in particular the results of arithmetic fit the width of s64.   *)

\* Value(_type) with a payload that fits is a value without an owner.
LEMMA PlainIsValue ==
  ASSUME NEW type \in Types, NEW data \in Data, Fits(type, data)
  PROVE  Plain(type, data) \in Value /\ Plain(type, data).a = Null
BY DEF Plain, Value, Fits

\* The comparisons' results are values without an owner.
LEMMA BoolIsValue == \A b : BoolV(b) \in Value /\ BoolV(b).a = Null
BY PlainIsValue DEF BoolV, Types, Data, Fits

\* Numbers of the width are values without an owner.
LEMMA NumberIsValue == \A n \in Ints : NumberV(n) \in Value /\ NumberV(n).a = Null
BY PlainIsValue DEF NumberV, Types, Data, Fits

\* So are the tags whose payload is never read.
LEMMA SimpleIsValue ==
  \A t \in {"NIL", "LAMBDA", "NATIVE"} :
    Plain(t, NoData) \in Value /\ Plain(t, NoData).a = Null
BY PlainIsValue DEF Types, Data, Fits

\* What add leaves for operands it has no case for has no owner either.
LEMMA UninitializedIsValue ==
  \A v \in Uninitialized : v \in Value /\ v.a = Null
<1>1. \A t \in {"TRUE", "FALSE", "NIL", "INVALID"} :
        Plain(t, NoData) \in Value /\ Plain(t, NoData).a = Null
  BY PlainIsValue DEF Types, Data, Fits
<1>2. \A t \in {"STRING", "REFERENCE", "OBJECT", "LAMBDA", "NATIVE"} :
        Plain(t, Wild) \in Value /\ Plain(t, Wild).a = Null
  BY PlainIsValue DEF Types, Data, Fits
<1> QED BY <1>1, <1>2, NumberIsValue DEF Uninitialized

-----------------------------------------------------------------------------
(* Arithmetic.                                                             *)

\* Wrapped arithmetic stays in the width.
LEMMA WrapFits == \A n \in Int : Wrap(n) \in Ints
<1> SUFFICES ASSUME NEW n \in Int PROVE Wrap(n) \in Ints
  OBVIOUS
<1> DEFINE w == 2 * Half
           r == (n + Half) % w
<1>1. w \in Nat /\ w > 0 /\ n + Half \in Int
  BY HalfAssumption
<1>2. r \in 0 .. w - 1
  <2> HIDE DEF w
  <2> QED BY <1>1
<1> HIDE DEF r
<1>3. r - Half \in Ints
  BY <1>2, HalfAssumption DEF Ints
<1> QED BY <1>3 DEF Wrap, r

\* Euclid for the absolute values, which is where truncation starts from.
LEMMA DivMod ==
  ASSUME NEW a \in Nat, NEW b \in Nat, b > 0
  PROVE  /\ a \div b \in Nat
         /\ b * (a \div b) <= a /\ a < b * (a \div b) + b
OBVIOUS

\* The quotient has at most the magnitude of the dividend, and less than it
\* unless the divisor is 1 or -1 (or the dividend 0).
LEMMA QuotientBounds ==
  ASSUME NEW a \in Nat, NEW b \in Nat, b > 0
  PROVE  /\ a \div b <= a
         /\ b > 1 /\ a > 0 => a \div b < a
<1> DEFINE d == a \div b
<1>1. d \in Nat /\ b * d <= a
  BY DivMod
<1> HIDE DEF d
<1>2. d <= b * d
  BY <1>1
<1>3. b > 1 => 2 * d <= b * d
  BY <1>1
<1>4. b * d \in Nat
  BY <1>1
<1>5. d <= a /\ (b > 1 /\ a > 0 => d < a)
  BY <1>1, <1>2, <1>3, <1>4
<1> QED BY <1>5 DEF d

\* A division that does not trap stays in the width.
LEMMA QuotientFits ==
  ASSUME NEW m \in Ints, NEW n \in Ints, ~DivideTraps(m, n)
  PROVE  Quotient(m, n) \in Ints
<1> DEFINE a == Abs(m)
           b == Abs(n)
           d == a \div b
<1>1. /\ a \in Nat /\ b \in Nat /\ b > 0
      /\ a <= Half /\ (a = Half => m < 0 /\ n # -1)
      /\ b = 1 => n \in {1, -1}
      /\ m \in Int /\ n \in Int /\ Half \in Nat /\ n # 0
  BY HalfAssumption DEF Abs, DivideTraps, Ints
<1>2. d \in Nat /\ d <= a /\ (b > 1 /\ a > 0 => d < a)
  <2> HIDE DEF a, b
  <2> QED BY <1>1, DivMod, QuotientBounds
<1>3. Sign(m) * Sign(n) \in {1, -1} /\ (m < 0 /\ n = 1 => Sign(m) * Sign(n) = -1)
  BY <1>1 DEF Sign
<1> HIDE DEF a, b, d
<1>4. CASE d < Half
  <2>1. Sign(m) * Sign(n) * d \in {d, -d}
    BY <1>2, <1>3
  <2> QED BY <1>1, <1>2, <1>4, <2>1 DEF Quotient, Ints, a, b, d
<1>5. CASE d >= Half
  <2>1. d = Half /\ a = Half /\ b = 1
    BY <1>1, <1>2, <1>5, HalfAssumption
  <2>2. m < 0 /\ n = 1
    BY <1>1, <2>1
  <2>3. Sign(m) * Sign(n) * d = -Half
    BY <1>1, <1>3, <2>1, <2>2
  <2> QED BY <1>1, <2>3, HalfAssumption DEF Quotient, Ints, a, b, d
<1> QED BY <1>1, <1>2, <1>4, <1>5

\* So does its remainder.
LEMMA RemainderFits ==
  ASSUME NEW m \in Ints, NEW n \in Ints, ~DivideTraps(m, n)
  PROVE  Remainder(m, n) \in Ints
<1> DEFINE a == Abs(m)
           b == Abs(n)
           d == a \div b
<1>1. /\ a \in Nat /\ b \in Nat /\ b > 0 /\ b <= Half
      /\ m \in Int /\ n \in Int /\ Half \in Nat /\ n # 0
  BY HalfAssumption DEF Abs, DivideTraps, Ints
<1>2. d \in Nat /\ b * d <= a /\ a < b * d + b
  <2> HIDE DEF a, b
  <2> QED BY <1>1, DivMod
<1>3. n * (Sign(m) * Sign(n) * d) = Sign(m) * (b * d)
  <2> HIDE DEF d
  <2>1. CASE n > 0
    <3>1. b = n /\ Sign(n) = 1 /\ Sign(m) \in {1, -1}
      BY <1>1, <2>1 DEF Abs, Sign, b
    <3> QED BY <1>1, <1>2, <3>1
  <2>2. CASE n < 0
    <3>1. b = -n /\ Sign(n) = -1 /\ Sign(m) \in {1, -1}
      BY <1>1, <2>2 DEF Abs, Sign, b
    <3> QED BY <1>1, <1>2, <3>1
  <2> QED BY <1>1, <2>1, <2>2
<1>4. Remainder(m, n) = m - Sign(m) * (b * d)
  BY <1>3 DEF Remainder, Quotient
<1>5. m = Sign(m) * a /\ Sign(m) \in {1, -1}
  BY <1>1 DEF Sign, Abs
<1> DEFINE p == b * d
<1>6. p \in Nat /\ p <= a /\ a < p + b
  BY <1>1, <1>2
<1>7. Remainder(m, n) = m - Sign(m) * p
  BY <1>4
<1> HIDE DEF a, b, d, p
<1>8. Remainder(m, n) \in {a - p, p - a}
  BY <1>1, <1>5, <1>6, <1>7
<1> QED BY <1>1, <1>6, <1>8 DEF Ints

\* Whatever an operator leaves on the stack is a value of its C++ type and
\* owns no allocation, c having been constructed with a = 0.
LEMMA ResultsAreValues ==
  ASSUME NEW op \in BinaryOps, NEW x \in Value, NEW y \in Value,
         NEW c \in Results(op, x, y)
  PROVE  c \in Value /\ c.a = Null
<1> USE BoolIsValue, NumberIsValue
<1>0. Numbers(x, y) => x.data \in Ints /\ y.data \in Ints
  BY DEF Numbers, Value, Fits
<1>i. \A n \in Ints : n \in Int
  BY HalfAssumption DEF Ints
<1>1. CASE op = "eq"
  BY <1>1 DEF Results, EqResults, ValueEq
<1>2. CASE op = "lt"
  BY <1>0, <1>i, <1>2 DEF Results, LtResults
<1>3. CASE op = "gt"
  BY <1>0, <1>i, <1>3 DEF Results, GtResults
<1>4. CASE op = "and"
  BY <1>0, <1>4 DEF Results, AndResults, WithBits
<1>5. CASE op = "or"
  BY <1>0, <1>5 DEF Results, OrResults, WithBits
<1>6. CASE op = "add"
  BY <1>0, <1>i, <1>6, WrapFits, UninitializedIsValue DEF Results, AddResults
<1>7. CASE op = "sub"
  BY <1>0, <1>i, <1>7, WrapFits DEF Results, SubResults
<1>8. CASE op = "mul"
  BY <1>0, <1>i, <1>8, WrapFits DEF Results, MulResults
<1>9. CASE op = "div"
  BY <1>0, <1>9, QuotientFits DEF Results, DivResults
<1>10. CASE op = "mod"
  BY <1>0, <1>10, RemainderFits DEF Results, ModResults
<1> QED
  BY <1>1, <1>2, <1>3, <1>4, <1>5, <1>6, <1>7, <1>8, <1>9, <1>10 DEF BinaryOps

-----------------------------------------------------------------------------
(* Roots.                                                                  *)

\* What the value v is worth to the roots of address x.
Owns(v, x) == IF v.a = x THEN 1 ELSE 0

\* mark_root adds one entry to the value's owner and none to the others.
LEMMA RootAdds ==
  ASSUME NEW r \in [Addr -> Nat], NEW v \in Value
  PROVE  /\ Root(r, v) \in [Addr -> Nat]
         /\ \A x \in Addr : Root(r, v)[x] = r[x] + Owns(v, x)
<1>1. v.a \in Addr \cup {Null} /\ Null \notin Addr
  BY AddrAssumption DEF Value
<1> QED BY <1>1 DEF Root, Owns

\* unmark_root removes the entry that is there.
LEMMA UnrootRemoves ==
  ASSUME NEW r \in [Addr -> Nat], NEW v \in Value
  PROVE  /\ Unroot(r, v) \in [Addr -> Nat]
         /\ \A x \in Addr : Unroot(r, v)[x] = IF r[x] >= Owns(v, x)
                                             THEN r[x] - Owns(v, x) ELSE 0
<1>1. v.a \in Addr \cup {Null} /\ Null \notin Addr
  BY AddrAssumption DEF Value
<1> QED BY <1>1 DEF Unroot, Owns

-----------------------------------------------------------------------------
(* Collections.                                                            *)

\* The link of an allocation that malloc owns leads to an address or ends.
LEMMA LiveLinks ==
  ASSUME HeapTypeOK
  PROVE  /\ \A x \in Live : cells[x].next \in Addr \cup {Null}
         /\ \A c : c.next \in Addr \cup {Null} => c # Freed
         /\ Freed.next = Unowned /\ IsCell(Freed)
<1>1. Freed.next = Unowned /\ Unowned \notin Addr \cup {Null}
  BY AddrAssumption DEF Freed, Unowned, Null
<1>2. IsCell(Freed)
  BY NewTableIsTable DEF IsCell, Freed
<1> QED BY <1>1, <1>2 DEF Live, HeapTypeOK, IsCell

\* The list from head stays on OnList.
LEMMA ListClosed ==
  ASSUME HeapTypeOK
  PROVE  /\ head \in OnList \cup {Null}
         /\ \A x \in OnList \cap Live : cells[x].next \in OnList \cup {Null}
<1>1. head \in OnList \cup {Null}
  BY DEF OnList, HeapTypeOK
<1>2. ASSUME NEW x \in OnList \cap Live, cells[x].next # Null
      PROVE  cells[x].next \in OnList
  <2>1. cells[x].next \in Addr
    BY <1>2, LiveLinks
  <2>2. ASSUME NEW S \in SUBSET Addr, head \in S \cup {Null}, ClosedUnderNext(S)
        PROVE  cells[x].next \in S
    <3>1. x \in S \cap Live
      BY <1>2, <2>2 DEF OnList
    <3> QED BY <1>2, <2>2, <3>1 DEF ClosedUnderNext
  <2> QED BY <2>1, <2>2 DEF OnList
<1> QED BY <1>1, <1>2

\* A root is marked.
LEMMA RootedAreMarked == Rooted \subseteq Marked
BY DEF Rooted, Marked

\* A collection that reads no freed memory frees exactly Swept, and counts it.
LEMMA CollectedHeap ==
  ASSUME HeapTypeOK, ~CollectTouchesFreed
  PROVE  /\ Collected.head \in Addr \cup {Null}
         /\ Collected.cells = [x \in Addr |-> Collected.cells[x]]
         /\ \A x \in Addr : IsCell(Collected.cells[x])
         /\ {x \in Addr : Collected.cells[x] # Freed} = Live \ Swept
         /\ Swept \subseteq Live
<1>1. OnList \subseteq Live
  BY DEF CollectTouchesFreed, SweepTouchesFreed
<1>2. \A x \in OnList : cells[x].next \in OnList \cup {Null}
  BY <1>1, ListClosed
<1>3. \A x \in OnList \cup {Null} : SweptLink(x) \in OnList \cup {Null}
  BY <1>2 DEF SweptLink
<1>4. OnList \subseteq Addr
  BY DEF OnList
<1>5. Collected.head \in Addr \cup {Null}
  BY <1>3, <1>4, ListClosed DEF Collected
<1>6. Collected.cells = SweptCells
  BY DEF Collected
<1>7. ASSUME NEW x \in Addr
      PROVE  /\ IsCell(SweptCells[x])
             /\ SweptCells[x] # Freed <=> x \in Live \ Swept
  <2>1. CASE x \in Swept
    BY <2>1, LiveLinks DEF SweptCells
  <2>2. CASE x \in OnList \ Swept
    <3>1. SweptCells[x] = [cells[x] EXCEPT !.next = SweptLink(@)]
      BY <2>2 DEF SweptCells
    <3>2. IsCell(cells[x]) /\ cells[x] = [next |-> cells[x].next,
                                         table |-> cells[x].table]
      BY DEF HeapTypeOK, IsCell
    <3>3. SweptLink(cells[x].next) \in Addr \cup {Null}
      BY <1>2, <1>3, <1>4, <2>2
    <3>4. SweptCells[x] = [next |-> SweptLink(cells[x].next),
                           table |-> cells[x].table]
      BY <3>1, <3>2
    <3>5. IsCell(SweptCells[x])
      BY <3>2, <3>3, <3>4 DEF IsCell
    <3> QED BY <1>1, <2>2, <3>3, <3>4, <3>5, LiveLinks
  <2>3. CASE x \notin OnList
    <3>1. SweptCells[x] = cells[x] /\ x \notin Swept
      BY <2>3 DEF SweptCells, Swept
    <3> QED BY <3>1 DEF HeapTypeOK, Live
  <2> QED BY <2>1, <2>2, <2>3
<1>8. {x \in Addr : Collected.cells[x] # Freed} = Live \ Swept
  BY <1>6, <1>7 DEF Live
<1>9. Swept \subseteq Live
  BY <1>1 DEF Swept
<1> QED BY <1>5, <1>6, <1>7, <1>8, <1>9 DEF SweptCells

\* malloc owns finitely many allocations.
LEMMA LiveIsFinite == IsFiniteSet(Live)
<1>1. Live \in SUBSET Addr
  BY DEF Live
<1> QED BY <1>1, AddrAssumption, FS_Subset

\* What sweep counts is what it freed: the counter stays exact.
LEMMA CollectedCount ==
  ASSUME HeapTypeOK, AllocationsExact, ~CollectTouchesFreed
  PROVE  /\ Collected.allocations \in Nat
         /\ Collected.allocations = Cardinality(Live \ Swept)
<1>1. Swept \subseteq Live /\ IsFiniteSet(Live)
  BY CollectedHeap, LiveIsFinite
<1>2. Live \cap Swept = Swept
  BY <1>1
<1>3. Cardinality(Live \ Swept) = Cardinality(Live) - Cardinality(Swept)
  BY <1>1, <1>2, FS_Difference
<1>4. IsFiniteSet(Live \ Swept)
  BY <1>1, FS_Difference
<1>5. Cardinality(Live \ Swept) \in Nat
  BY <1>4, FS_CardinalityType
<1>6. Collected.allocations = allocations - Cardinality(Swept)
  BY DEF Collected
<1> QED BY <1>3, <1>5, <1>6 DEF AllocationsExact

\* Allocating, with or without a collection first, keeps the heap typed and
\* counted, and what was marked (or anything, if nothing was collected) live.
LEMMA AllocHeap ==
  ASSUME HeapTypeOK, AllocationsExact, NEW x \in Addr, AllocAt(x),
         AllocCollects => ~CollectTouchesFreed, roots' \in [Addr -> Nat]
  PROVE  /\ HeapTypeOK' /\ AllocationsExact'
         /\ \A y \in Live : y \in Marked \/ ~AllocCollects => cells'[y] # Freed
<1> DEFINE h == BeforeAlloc
           kept == {y \in Addr : h.cells[y] # Freed}
<1>1. /\ h.head \in Addr \cup {Null}
      /\ h.cells = [y \in Addr |-> h.cells[y]]
      /\ \A y \in Addr : IsCell(h.cells[y])
      /\ h.allocations \in Nat /\ h.allocations = Cardinality(kept)
      /\ \A y \in Live : y \in Marked \/ ~AllocCollects => y \in kept
  <2>1. CASE AllocCollects
    <3>1. h = Collected
      BY <2>1 DEF BeforeAlloc
    <3>2. kept = Live \ Swept
      BY <2>1, <3>1, CollectedHeap
    <3>3. \A y \in Live : y \in Marked => y \in kept
      BY <3>2 DEF Swept
    <3> QED BY <2>1, <3>1, <3>2, <3>3, CollectedHeap, CollectedCount
  <2>2. CASE ~AllocCollects
    <3>1. h = Uncollected
      BY <2>2 DEF BeforeAlloc
    <3>2. kept = Live
      BY <3>1 DEF Uncollected, Live
    <3> QED BY <2>2, <3>1, <3>2 DEF Uncollected, HeapTypeOK, AllocationsExact
  <2> QED BY <2>1, <2>2
<1>2. /\ h.cells[x] = Freed
      /\ cells' = [h.cells EXCEPT ![x] = [next |-> h.head, table |-> T!NewTable]]
      /\ head' = x /\ allocations' = h.allocations + 1
  BY DEF AllocAt
<1>3. x \notin kept
  BY <1>2
<1> DEFINE new == [next |-> h.head, table |-> T!NewTable]
<1>4. new # Freed /\ IsCell(new)
  BY <1>1, LiveLinks, NewTableIsTable DEF IsCell
<1> HIDE DEF h
<1>5. \A y \in Addr : cells'[y] = IF y = x THEN new ELSE h.cells[y]
  BY <1>1, <1>2
<1>6. Live' = kept \cup {x}
  BY <1>4, <1>5 DEF Live
<1>7. IsFiniteSet(kept)
  <2>1. kept \in SUBSET Addr
    OBVIOUS
  <2> QED BY <2>1, AddrAssumption, FS_Subset
<1>8. AllocationsExact'
  <2>1. Cardinality(kept \cup {x}) = Cardinality(kept) + 1
    BY <1>3, <1>7, FS_AddElement
  <2> QED BY <1>1, <1>2, <1>6, <2>1 DEF AllocationsExact
<1>9. HeapTypeOK'
  <2>1. cells' = [y \in Addr |-> cells'[y]]
    BY <1>1, <1>2
  <2>2. \A y \in Addr : IsCell(cells'[y])
    BY <1>1, <1>4, <1>5
  <2>3. head' \in Addr \cup {Null} /\ allocations' \in Nat
    BY <1>1, <1>2
  <2> QED BY <2>1, <2>2, <2>3 DEF HeapTypeOK, IsCell, IsTable
<1>10. \A y \in kept : cells'[y] # Freed
  BY <1>4, <1>5
<1> QED BY <1>1, <1>8, <1>9, <1>10 DEF Live
-----------------------------------------------------------------------------
(* Tables have room, so that mark stays inside the arrays of a table when  *)
(* it takes the indices below count for slots.                             *)

Roomy(t) == t.size >= 3 /\ t.count <= t.size

\* A new table has room.
LEMMA NewTableRoomy == Roomy(T!NewTable)
BY InitSizeAssumption DEF Roomy, T!NewTable, T!EmptyTable

\* Growing finds no more entries than the old table had slots.
LEMMA GrowRoomy ==
  ASSUME NEW t, IsTable(t), Roomy(t)
  PROVE  T!Grow(t).size = 2 * t.size /\ T!Grow(t).count <= t.size
<1> DEFINE land == T!NewSlots(t)
           New == 0 .. 2 * t.size - 1
           from == [s \in New |-> {i \in T!OccupiedSlots(t) : land[i] = s}]
           hit == {s \in New : from[s] # {}}
           E == {i \in T!OccupiedSlots(t) : land[i] \in hit}
           f == [i \in E |-> land[i]]
<1>1. t.size \in Nat /\ t.size >= 3
  BY DEF IsTable, Roomy
<1>2. E \subseteq 0 .. t.size - 1
  BY DEF T!OccupiedSlots, T!Slots
<1>3. IsFiniteSet(0 .. t.size - 1) /\ Cardinality(0 .. t.size - 1) = t.size
  <2> DEFINE n == t.size
  <2>1. n \in Nat /\ n >= 3
    BY <1>1
  <2> HIDE DEF n
  <2>2. IsFiniteSet(0 .. n - 1) /\ Cardinality(0 .. n - 1) = n
    BY <2>1, FS_Interval
  <2> QED BY <2>2 DEF n
<1>4. IsFiniteSet(E) /\ Cardinality(E) <= t.size
  <2> HIDE DEF E
  <2>1. E \in SUBSET (0 .. t.size - 1)
    BY <1>2
  <2> QED BY <1>3, <2>1, FS_Subset
<1>5. f \in Surjection(E, hit)
  <2>1. \A s \in hit : \E i \in E : land[i] = s
    OBVIOUS
  <2>2. f \in [E -> hit]
    OBVIOUS
  <2> HIDE DEF hit
  <2> QED BY <2>1, <2>2 DEF Surjection
<1> HIDE DEF hit, E, f
<1>6. IsFiniteSet(hit) /\ Cardinality(hit) <= Cardinality(E)
  BY <1>4, <1>5, FS_Surjection
<1>7. Cardinality(hit) <= t.size
  BY <1>1, <1>4, <1>6, FS_CardinalityType
<1>8. T!Grow(t).size = 2 * t.size /\ T!Grow(t).count = Cardinality(hit)
  BY SameCardinality DEF T!Grow, hit
<1> QED BY <1>7, <1>8

\* put makes room before it counts an entry.
LEMMA PutRoomy ==
  ASSUME NEW t, IsTable(t), Roomy(t), NEW k \in Value, NEW v \in Value
  PROVE  Roomy(T!Put(t, k, v))
<1> DEFINE u == T!EnsureCapacity(t)
           i == T!PutSlot(u, k)
           p == T!Put(t, k, v)
<1>1. TableOf(u, Value)
  BY GrowTableOf, TablesOfValues DEF T!EnsureCapacity
<1>2. t.size \in Nat /\ t.count \in Nat /\ t.size >= 3 /\ t.count <= t.size
  BY DEF IsTable, Roomy
<1>3. u.size >= 3 /\ u.count + 1 <= u.size /\ u.size \in Nat /\ u.count \in Nat
  <2>1. CASE t.count >= t.size - 2
    <3>1. u = T!Grow(t)
      BY <2>1 DEF T!EnsureCapacity
    <3>2. u.size = 2 * t.size /\ u.count <= t.size
      BY <3>1, GrowRoomy
    <3>3. u.size \in Nat /\ u.count \in Nat
      BY <1>1 DEF TableOf
    <3> QED BY <1>2, <3>2, <3>3
  <2>2. CASE ~(t.count >= t.size - 2)
    <3>1. u = t
      BY <2>2 DEF T!EnsureCapacity
    <3> QED BY <1>2, <2>2, <3>1
  <2> QED BY <2>1, <2>2
<1>4. u = [size |-> u.size, count |-> u.count, hashes |-> u.hashes,
           keys |-> u.keys, values |-> u.values]
  BY <1>1 DEF TableOf
<1> HIDE DEF u, i
<1>5. p.size = u.size /\ p.count \in {u.count, u.count + 1}
  BY <1>4 DEF T!Put, u, i
<1> HIDE DEF p
<1>6. Roomy(p)
  BY <1>3, <1>5 DEF Roomy
<1> QED BY <1>6 DEF p

\* What mark finds in an object is an address or none.
LEMMA ChildrenAreAddresses ==
  ASSUME HeapTypeOK, NEW x \in Addr, Roomy(cells[x].table)
  PROVE  /\ Children(x) \subseteq Addr \cup {Null}
         /\ ScannedSlots(cells[x].table) \subseteq T!Slots(cells[x].table)
<1> DEFINE t == cells[x].table
<1>1. IsTable(t)
  BY DEF HeapTypeOK, IsCell
<1> HIDE DEF t
<1>2. ScannedSlots(t) \subseteq T!Slots(t)
  BY <1>1 DEF ScannedSlots, T!Slots, IsTable, Roomy, t
<1>3. \A i \in T!Slots(t) : t.keys[i] \in Value /\ t.values[i] \in Value
  BY <1>1 DEF IsTable
<1>4. \A v \in Value : v.a \in Addr \cup {Null}
  BY DEF Value
<1> QED BY <1>2, <1>3, <1>4 DEF Children, t

\* A collection leaves a table as it was or frees it.
LEMMA CollectedTables ==
  ASSUME HeapTypeOK, NEW x \in Addr
  PROVE  Collected.cells[x].table \in {cells[x].table, T!NewTable}
<1>1. cells[x] = [next |-> cells[x].next, table |-> cells[x].table]
  BY DEF HeapTypeOK, IsCell
<1> QED BY <1>1 DEF Collected, SweptCells, Freed

-----------------------------------------------------------------------------
(* The list of allocations.  A collection that frees two neighbours leaves *)
(* a link into freed memory, so the list is not always a list.  What does  *)
(* always hold is that it either passes every allocation once and ends     *)
(* (Linked) or never ends (Endless): then a later collection is bound to   *)
(* read memory it has freed, and nothing more can be said.                 *)

\* y is the node of S that follows x, or x is the last.
Follows(rank, S, x, y) ==
  \/ y = Null /\ \A z \in S : rank[x] <= rank[z]
  \/ /\ y \in S /\ rank[y] < rank[x]
     /\ \A z \in S : rank[z] <= rank[y] \/ rank[x] <= rank[z]

\* The list starts at the node of S with the highest rank, or S is empty.
Leads(rank, S, h) ==
  \/ h = Null /\ S = {}
  \/ h \in S /\ \A z \in S : rank[z] <= rank[h]

\* From h, the links of c pass the nodes of S in falling rank, and end.
Chained(rank, S, h, c) ==
  /\ rank \in [Addr -> Nat] /\ \E m \in Nat : \A x \in Addr : rank[x] < m
  /\ \A x, y \in S : rank[x] = rank[y] => x = y
  /\ Leads(rank, S, h) /\ \A x \in S : Follows(rank, S, x, c[x].next)

\* From h, the links of c never leave S, and those of live nodes never end.
Loops(S, live, h, c) ==
  S \subseteq Addr /\ h \in S /\ \A x \in S \cap live : c[x].next \in S

Linked == \E rank : Chained(rank, Live, head, cells)
Endless == \E S : Loops(S, Live, head, cells)
ListInv == Linked \/ Endless

\* Of addresses, one has the lowest rank.
LEMMA LowestRanked ==
  ASSUME NEW rank \in [Addr -> Nat], NEW S \in SUBSET Addr, S # {}
  PROVE  \E x \in S : \A y \in S : rank[x] <= rank[y]
<1> DEFINE R == {rank[x] : x \in S}
<1>1. R \in SUBSET Nat /\ R # {}
  OBVIOUS
<1>2. \E m \in R : \A y \in R : m <= y
  <2> HIDE DEF R
  <2> QED BY <1>1, LeastNatural
<1> QED BY <1>2

\* Of addresses of bounded rank, one has the highest.
LEMMA HighestRanked ==
  ASSUME NEW rank \in [Addr -> Nat], NEW m \in Nat, \A x \in Addr : rank[x] < m,
         NEW S \in SUBSET Addr, S # {}
  PROVE  \E x \in S : \A y \in S : rank[y] <= rank[x]
<1> DEFINE R == {m - rank[x] : x \in S}
<1>1. R \in SUBSET Nat /\ R # {}
  OBVIOUS
<1>2. \E n \in R : \A y \in R : n <= y
  <2> HIDE DEF R
  <2> QED BY <1>1, LeastNatural
<1>3. PICK x \in S : \A y \in S : m - rank[x] <= m - rank[y]
  BY <1>2
<1>4. \A y \in S : rank[y] <= rank[x]
  BY <1>3
<1> QED BY <1>4

\* On a list that ends, the collector comes past exactly the allocations.
LEMMA LinkedList ==
  ASSUME HeapTypeOK, Linked
  PROVE  OnList = Live /\ Terminated
<1>1. PICK rank : Chained(rank, Live, head, cells)
  BY DEF Linked
<1>2. /\ rank \in [Addr -> Nat] /\ Live \subseteq Addr /\ OnList \subseteq Addr
      /\ \A x, y \in Live : rank[x] = rank[y] => x = y
      /\ Leads(rank, Live, head)
      /\ \A x \in Live : Follows(rank, Live, x, cells[x].next)
      /\ Null \notin Addr
  BY <1>1, AddrAssumption DEF Chained, Live, OnList
<1>3. OnList \subseteq Live
  <2>1. head \in Live \cup {Null} /\ ClosedUnderNext(Live)
    BY <1>2 DEF Leads, Follows, ClosedUnderNext
  <2> QED BY <1>2, <2>1 DEF OnList
<1>4. ASSUME NEW y \in Live, y \notin OnList
      PROVE  FALSE
  <2> DEFINE B == {z \in OnList : rank[z] > rank[y]}
  <2>1. CASE B = {}
    <3>1. head \in OnList /\ rank[y] <= rank[head]
      BY <1>2, <1>4, ListClosed DEF Leads
    <3> QED BY <1>2, <1>3, <1>4, <2>1, <3>1
  <2>2. CASE B # {}
    <3>1. B \in SUBSET Addr
      BY <1>2
    <3>2. PICK z \in B : \A w \in B : rank[z] <= rank[w]
      <4> HIDE DEF B
      <4> QED BY <1>2, <2>2, <3>1, LowestRanked
    <3> DEFINE n == cells[z].next
    <3>3. /\ z \in OnList /\ z \in Live /\ rank[z] > rank[y]
          /\ n \in OnList \cup {Null} /\ Follows(rank, Live, z, n)
          /\ rank[z] \in Nat /\ rank[y] \in Nat
      BY <1>2, <1>3, <3>2, ListClosed
    <3>4. /\ n \in OnList /\ n \in Live /\ rank[n] < rank[z]
          /\ rank[y] <= rank[n]
      BY <1>2, <1>4, <3>3 DEF Follows
    <3>5. n \in B
      BY <1>2, <1>4, <3>4
    <3> QED BY <1>2, <3>2, <3>4, <3>5
  <2> QED BY <2>1, <2>2
<1>5. ASSUME OnList # {}
      PROVE  \E x \in OnList \cap Live : cells[x].next = Null
  <2>1. PICK x \in OnList : \A y \in OnList : rank[x] <= rank[y]
    BY <1>2, <1>5, LowestRanked
  <2>2. cells[x].next \in OnList \cup {Null}
    BY <1>3, <2>1, ListClosed
  <2>3. cells[x].next # Null => rank[cells[x].next] < rank[x]
    BY <1>2, <1>3, <2>1 DEF Follows
  <2> QED BY <1>2, <1>3, <2>1, <2>2, <2>3
<1> QED BY <1>3, <1>4, <1>5 DEF Terminated

\* A list that never ends is one on which sweep reads freed memory.
LEMMA EndlessList ==
  ASSUME HeapTypeOK, Endless
  PROVE  ~Terminated /\ CollectTouchesFreed
<1>1. PICK S : Loops(S, Live, head, cells)
  BY DEF Endless
<1>2. S \subseteq Addr /\ head \in S /\ Null \notin S
  BY <1>1, AddrAssumption DEF Loops
<1>3. OnList \subseteq S
  BY <1>1, <1>2 DEF OnList, Loops, ClosedUnderNext
<1>4. head \in OnList
  BY <1>2, ListClosed
<1>5. \A x \in OnList \cap Live : cells[x].next # Null
  BY <1>1, <1>2, <1>3 DEF Loops
<1> QED BY <1>4, <1>5 DEF Terminated, CollectTouchesFreed, SweepTouchesFreed

\* A new node in front of a list that ends gives a list that ends.
LEMMA ChainAdd ==
  ASSUME NEW rank, NEW S, NEW h, NEW c, Chained(rank, S, h, c), S \subseteq Addr,
         NEW x \in Addr, x \notin S, NEW d, d[x].next = h,
         \A y \in S : d[y].next = c[y].next
  PROVE  \E q : Chained(q, S \cup {x}, x, d)
<1>1. PICK m \in Nat : \A y \in Addr : rank[y] < m
  BY DEF Chained
<1> DEFINE q == [rank EXCEPT ![x] = m]
           A == S \cup {x}
<1>2. /\ rank \in [Addr -> Nat] /\ Leads(rank, S, h)
      /\ \A y, z \in S : rank[y] = rank[z] => y = z
      /\ \A y \in S : Follows(rank, S, y, c[y].next)
      /\ Null \notin Addr
  BY AddrAssumption DEF Chained
<1>3. /\ q \in [Addr -> Nat] /\ q[x] = m /\ \A y \in S : q[y] = rank[y]
      /\ \A y \in Addr : q[y] < m + 1
  BY <1>1, <1>2
<1> HIDE DEF q
<1>4. \A y \in S : q[y] < m /\ q[y] \in Nat
  BY <1>1, <1>3
<1>5. \A y, z \in A : q[y] = q[z] => y = z
  BY <1>2, <1>3, <1>4
<1>6. Leads(q, A, x)
  BY <1>3, <1>4 DEF Leads
<1>7. Follows(q, A, x, d[x].next)
  BY <1>2, <1>3, <1>4 DEF Follows, Leads
<1>8. ASSUME NEW y \in S
      PROVE  Follows(q, A, y, d[y].next)
  <2>1. Follows(rank, S, y, c[y].next) /\ d[y].next = c[y].next
    BY <1>2
  <2>2. q[y] <= q[x]
    BY <1>3, <1>4
  <2> QED BY <1>3, <1>4, <2>1, <2>2 DEF Follows
<1>9. m + 1 \in Nat /\ x \in A
  BY <1>1
<1>10. Chained(q, A, x, d)
  BY <1>3, <1>5, <1>6, <1>7, <1>8, <1>9 DEF Chained
<1> QED BY <1>10

\* Where sweep leaves a link that led to y, of the nodes K being kept.
Relinked(K, c, y) == IF y = Null THEN Null ELSE IF y \in K THEN y ELSE c[y].next

\* Unlinking nodes no two of which are neighbours leaves a list that ends.
LEMMA ChainUnlink ==
  ASSUME NEW rank, NEW S, NEW h, NEW c, Chained(rank, S, h, c), S \subseteq Addr,
         NEW K \in SUBSET S, \A x \in S \ K : c[x].next \notin S \ K,
         NEW d, \A x \in K : d[x].next = Relinked(K, c, c[x].next)
  PROVE  Chained(rank, K, Relinked(K, c, h), d)
<1>1. /\ rank \in [Addr -> Nat] /\ Leads(rank, S, h)
      /\ \A y, z \in S : rank[y] = rank[z] => y = z
      /\ \A y \in S : Follows(rank, S, y, c[y].next)
      /\ Null \notin Addr
  BY AddrAssumption DEF Chained
<1>2. ASSUME NEW y \in S \ K
      PROVE  /\ \/ c[y].next = Null /\ \A z \in K : rank[y] < rank[z]
                \/ /\ c[y].next \in K /\ rank[c[y].next] < rank[y]
                   /\ \A z \in K : rank[z] <= rank[c[y].next] \/ rank[y] < rank[z]
  <2>1. \A z \in K : z \in S /\ rank[z] # rank[y] /\ rank[z] \in Nat
    BY <1>1, <1>2
  <2>2. rank[y] \in Nat /\ Follows(rank, S, y, c[y].next)
    BY <1>1
  <2> QED BY <1>1, <2>1, <2>2 DEF Follows
<1>3. Leads(rank, K, Relinked(K, c, h))
  <2>1. CASE h \notin S
    BY <1>1, <2>1 DEF Leads, Relinked
  <2>2. CASE h \in K
    BY <1>1, <2>2 DEF Leads, Relinked
  <2>3. CASE h \in S \ K
    <3>1. h # Null /\ \A z \in K : ~(rank[h] < rank[z])
      BY <1>1, <2>3 DEF Leads
    <3> QED BY <1>2, <2>3, <3>1 DEF Leads, Relinked
  <2> QED BY <2>1, <2>2, <2>3
<1>4. ASSUME NEW x \in K
      PROVE  Follows(rank, K, x, d[x].next)
  <2> DEFINE y == c[x].next
  <2>1. Follows(rank, S, x, y) /\ d[x].next = Relinked(K, c, y)
    BY <1>1
  <2>2. CASE y \notin S
    BY <2>1, <2>2 DEF Follows, Relinked
  <2>3. CASE y \in K
    BY <1>1, <2>1, <2>3 DEF Follows, Relinked
  <2>4. CASE y \in S \ K
    <3>1. /\ y # Null /\ rank[y] < rank[x] /\ rank[x] \in Nat /\ rank[y] \in Nat
          /\ \A z \in K : rank[z] <= rank[y] \/ rank[x] <= rank[z]
          /\ \A z \in K : rank[z] \in Nat
          /\ d[x].next = c[y].next
      BY <1>1, <2>1, <2>4 DEF Follows, Relinked
    <3>2. CASE c[y].next = Null /\ \A z \in K : rank[y] < rank[z]
      BY <3>1, <3>2 DEF Follows
    <3>3. CASE /\ c[y].next \in K /\ rank[c[y].next] < rank[y]
               /\ \A z \in K : rank[z] <= rank[c[y].next] \/ rank[y] < rank[z]
      <4>1. rank[c[y].next] < rank[x]
        BY <3>1, <3>3
      <4>2. \A z \in K : rank[z] <= rank[c[y].next] \/ rank[x] <= rank[z]
        BY <3>1, <3>3
      <4> QED BY <3>1, <3>3, <4>1, <4>2 DEF Follows
    <3> QED BY <1>2, <2>4, <3>2, <3>3
  <2> QED BY <2>2, <2>3, <2>4
<1> QED BY <1>1, <1>3, <1>4 DEF Chained

\* Freeing two neighbours leaves a list that never ends: what is before the
\* last two such neighbours, and the second of them.
LEMMA ChainBreaks ==
  ASSUME NEW rank, NEW S, NEW h, NEW c, Chained(rank, S, h, c), S \subseteq Addr,
         NEW K \in SUBSET S, \E x \in S \ K : c[x].next \in S \ K,
         NEW d, \A x \in K : d[x].next = Relinked(K, c, c[x].next)
  PROVE  \E R : Loops(R, K, Relinked(K, c, h), d)
<1>1. /\ rank \in [Addr -> Nat] /\ Leads(rank, S, h)
      /\ \A y, z \in S : rank[y] = rank[z] => y = z
      /\ \A y \in S : Follows(rank, S, y, c[y].next)
      /\ Null \notin Addr
  BY AddrAssumption DEF Chained
<1>2. PICK m \in Nat : \A y \in Addr : rank[y] < m
  BY DEF Chained
<1> DEFINE Broken == {x \in S \ K : c[x].next \in S \ K}
<1>3. Broken \in SUBSET Addr /\ Broken # {}
  OBVIOUS
<1>4. PICK a \in Broken : \A y \in Broken : rank[y] <= rank[a]
  <2> HIDE DEF Broken
  <2> QED BY <1>1, <1>2, <1>3, HighestRanked
<1> DEFINE b == c[a].next
           R == {z \in K : rank[z] > rank[a]} \cup {b}
<1>5. a \in S \ K /\ b \in S \ K /\ R \subseteq Addr /\ b \notin K
  BY <1>4
<1>6. \A y \in S : rank[y] \in Nat
  BY <1>1
<1>7. ASSUME NEW y \in S, rank[y] > rank[a]
      PROVE  c[y].next \in S /\ rank[c[y].next] >= rank[a]
  BY <1>1, <1>5, <1>6, <1>7 DEF Follows
<1>8. ASSUME NEW y \in S, rank[y] >= rank[a]
      PROVE  Relinked(K, c, y) \in R
  <2>1. CASE y \in K
    <3>1. rank[y] # rank[a]
      BY <1>1, <1>5, <2>1
    <3> QED BY <1>1, <1>5, <1>6, <1>8, <2>1, <3>1 DEF Relinked
  <2>2. CASE y = a
    BY <1>1, <1>5, <2>2 DEF Relinked
  <2>3. CASE y \in S \ K /\ y # a
    <3>1. rank[y] > rank[a]
      BY <1>1, <1>5, <1>6, <1>8, <2>3
    <3> DEFINE n == c[y].next
    <3>2. n \in S /\ rank[n] >= rank[a]
      BY <1>7, <3>1
    <3>3. n \in K
      <4>1. y \notin Broken
        BY <1>4, <1>5, <1>6, <3>1
      <4> QED BY <2>3, <3>2, <4>1
    <3>4. rank[n] # rank[a]
      BY <1>1, <1>5, <3>3
    <3> QED BY <1>1, <1>5, <1>6, <2>3, <3>2, <3>3, <3>4 DEF Relinked
  <2> QED BY <2>1, <2>2, <2>3
<1>9. Relinked(K, c, h) \in R
  BY <1>1, <1>5, <1>6, <1>8 DEF Leads
<1>10. ASSUME NEW x \in R \cap K
       PROVE  d[x].next \in R
  BY <1>5, <1>7, <1>8
<1>11. Loops(R, K, Relinked(K, c, h), d)
  BY <1>5, <1>9, <1>10 DEF Loops
<1> QED BY <1>11

\* An empty heap's list ends.
LEMMA EmptyList ==
  ASSUME head = Null, Live = {}
  PROVE  Linked
<1> DEFINE rank == [x \in Addr |-> 0]
<1>1. /\ rank \in [Addr -> Nat] /\ 1 \in Nat /\ \A x \in Addr : rank[x] < 1
  OBVIOUS
<1>2. Chained(rank, Live, head, cells)
  BY <1>1 DEF Chained, Leads
<1> QED BY <1>2 DEF Linked

\* A collection of a list that ends frees what is not marked, and unlinks it
\* if no two neighbours are freed.
LEMMA CollectedList ==
  ASSUME HeapTypeOK, Linked, ~CollectTouchesFreed
  PROVE  LET kept == Live \ Swept
         IN  IF NeighboursSwept
             THEN \E R : Loops(R, kept, Collected.head, Collected.cells)
             ELSE \E rank : Chained(rank, kept, Collected.head, Collected.cells)
<1> DEFINE K == Live \ Swept
           c == Collected.cells
<1>1. OnList = Live /\ Live \subseteq Addr /\ Swept = Live \ Marked /\ Null \notin Addr
  BY LinkedList, AddrAssumption DEF Live, Swept
<1>2. PICK rank : Chained(rank, Live, head, cells)
  BY DEF Linked
<1>3. /\ K \in SUBSET Live /\ Live \ K = Swept
      /\ \A y \in Live \cup {Null} : SweptLink(y) = Relinked(K, cells, y)
  BY <1>1 DEF SweptLink, Relinked
<1>4. Collected.head = Relinked(K, cells, head)
  BY <1>1, <1>3, ListClosed DEF Collected
<1>5. ASSUME NEW x \in K
      PROVE  c[x].next = Relinked(K, cells, cells[x].next)
  <2>1. x \in Addr /\ x \in OnList /\ x \notin Swept
    BY <1>1
  <2>2. c[x] = [cells[x] EXCEPT !.next = SweptLink(@)]
    BY <2>1 DEF Collected, SweptCells
  <2>3. cells[x] = [next |-> cells[x].next, table |-> cells[x].table]
    BY <2>1 DEF HeapTypeOK, IsCell
  <2>4. c[x].next = SweptLink(cells[x].next)
    BY <2>2, <2>3
  <2>5. cells[x].next \in Live \cup {Null}
    BY <1>1, ListClosed
  <2> QED BY <1>3, <2>4, <2>5
<1> HIDE DEF c, K
<1>6. CASE NeighboursSwept
  <2>1. \E x \in Live \ K : cells[x].next \in Live \ K
    BY <1>3, <1>6 DEF NeighboursSwept
  <2>2. \E R : Loops(R, K, Collected.head, c)
    BY <1>1, <1>2, <1>3, <1>4, <1>5, <2>1, ChainBreaks
  <2> QED BY <1>6, <2>2 DEF c, K
<1>7. CASE ~NeighboursSwept
  <2>1. \A x \in Live \ K : cells[x].next \notin Live \ K
    BY <1>3, <1>7 DEF NeighboursSwept
  <2>2. Chained(rank, K, Collected.head, c)
    BY <1>1, <1>2, <1>3, <1>4, <1>5, <2>1, ChainUnlink
  <2> QED BY <1>7, <2>2 DEF c, K
<1> QED BY <1>6, <1>7

\* A node put in front of nodes whose links are as before goes in front of
\* a list that ends, or of one that never does.
LEMMA NewHead ==
  ASSUME NEW K \in SUBSET Addr, NEW x \in Addr, x \notin K, NEW h, NEW c,
         head' = x, Live' = K \cup {x}, cells'[x].next = h,
         \A y \in K : cells'[y].next = c[y].next
  PROVE  /\ (\E rank : Chained(rank, K, h, c)) => Linked'
         /\ (\E S : Loops(S, K, h, c)) => Endless'
<1>1. ASSUME NEW rank, Chained(rank, K, h, c)
      PROVE  Linked'
  <2>1. \E q : Chained(q, K \cup {x}, x, cells')
    BY <1>1, ChainAdd
  <2> QED BY <2>1 DEF Linked
<1>2. ASSUME NEW S, Loops(S, K, h, c)
      PROVE  Endless'
  <2> DEFINE R == S \cup {x}
  <2>1. S \subseteq Addr /\ h \in S /\ \A y \in S \cap K : c[y].next \in S
    BY <1>2 DEF Loops
  <2>2. ASSUME NEW y \in R \cap (K \cup {x})
        PROVE  cells'[y].next \in R
    BY <2>1
  <2>3. Loops(R, Live', head', cells')
    BY <2>1, <2>2 DEF Loops
  <2> QED BY <2>3 DEF Endless
<1> QED BY <1>1, <1>2

\* An allocation puts a node in front of what the list is by then.
LEMMA AllocList ==
  ASSUME HeapTypeOK, ListInv, NEW x \in Addr, AllocAt(x),
         AllocCollects => ~CollectTouchesFreed
  PROVE  /\ ListInv'
         /\ Linked /\ ~(AllocCollects /\ NeighboursSwept) => Linked'
<1> DEFINE h == BeforeAlloc
           K == {y \in Addr : h.cells[y] # Freed}
           new == [next |-> h.head, table |-> T!NewTable]
<1>1. /\ h.cells[x] = Freed /\ head' = x
      /\ cells' = [h.cells EXCEPT ![x] = new]
  BY DEF AllocAt
<1>2. /\ h.cells = [y \in Addr |-> h.cells[y]] /\ h.head \in Addr \cup {Null}
      /\ K = IF AllocCollects THEN Live \ Swept ELSE Live
      /\ h.head = IF AllocCollects THEN Collected.head ELSE head
      /\ h.cells = IF AllocCollects THEN Collected.cells ELSE cells
  BY CollectedHeap DEF BeforeAlloc, Uncollected, Live, HeapTypeOK
<1>3. K \subseteq Addr /\ x \notin K
  BY <1>1
<1>4. new # Freed /\ new.next = h.head
  BY <1>2, LiveLinks
<1> HIDE DEF new, h
<1>5. cells'[x] = new /\ \A y \in Addr \ {x} : cells'[y] = h.cells[y]
  BY <1>1, <1>2
<1>6. Live' = K \cup {x}
  BY <1>4, <1>5 DEF Live
<1>7. AllocCollects => Linked
  BY EndlessList DEF ListInv
<1>8. \/ AllocCollects /\ NeighboursSwept /\ \E S : Loops(S, K, h.head, h.cells)
      \/ ~AllocCollects /\ ~Linked /\ \E S : Loops(S, K, h.head, h.cells)
      \/ \E rank : Chained(rank, K, h.head, h.cells)
  BY <1>2, <1>7, CollectedList DEF ListInv, Linked, Endless
<1>9. cells'[x].next = h.head /\ \A y \in K : cells'[y].next = h.cells[y].next
  BY <1>3, <1>4, <1>5
<1> HIDE DEF K
<1>10. /\ (\E rank : Chained(rank, K, h.head, h.cells)) => Linked'
       /\ (\E S : Loops(S, K, h.head, h.cells)) => Endless'
  BY <1>1, <1>3, <1>6, <1>9, NewHead
<1>11. ListInv'
  BY <1>8, <1>10 DEF ListInv
<1>12. Linked /\ ~(AllocCollects /\ NeighboursSwept) => Linked'
  BY <1>8, <1>10
<1> QED BY <1>11, <1>12

\* Without a collection, an allocation puts a node on whatever the list is.
LEMMA AllocOnList ==
  ASSUME HeapTypeOK, NEW x \in Addr, AllocAt(x), ~AllocCollects, OnList = Live
  PROVE  OnList' = Live'
<1> DEFINE new == [next |-> head, table |-> T!NewTable]
<1>1. /\ cells[x] = Freed /\ head' = x /\ cells' = [cells EXCEPT ![x] = new]
  BY DEF AllocAt, BeforeAlloc, Uncollected
<1>2. /\ cells = [y \in Addr |-> cells[y]] /\ head \in Addr \cup {Null}
      /\ Live \subseteq Addr /\ x \notin Live
      /\ head \in Live \cup {Null}
      /\ \A y \in Live : cells[y].next \in Live \cup {Null}
  BY <1>1, ListClosed DEF HeapTypeOK, Live
<1>3. new # Freed /\ new.next = head
  BY <1>2, LiveLinks
<1> HIDE DEF new
<1>4. cells'[x] = new /\ \A y \in Addr \ {x} : cells'[y] = cells[y]
  BY <1>1, <1>2
<1>5. Live' = Live \cup {x}
  BY <1>2, <1>3, <1>4 DEF Live
<1> DEFINE Closed(S) == \A y \in S \cap Live' : cells'[y].next \in S \cup {Null}
<1>6. OnList' = {y \in Addr : \A S \in SUBSET Addr :
                    x \in S \cup {Null} /\ Closed(S) => y \in S}
  BY <1>1 DEF OnList, ClosedUnderNext
<1>8. OnList' \subseteq Live \cup {x}
  <2>1. \A y \in Live \cup {x} : cells'[y].next \in Live \cup {x} \cup {Null}
    BY <1>2, <1>3, <1>4
  <2>2. Closed(Live \cup {x})
    BY <1>5, <2>1
  <2> QED BY <1>2, <1>6, <2>2
<1>9. ASSUME NEW S \in SUBSET Addr, x \in S \cup {Null}, Closed(S)
      PROVE  x \in S /\ Live \subseteq S
  <2>1. x \in S
    BY <1>9, AddrAssumption
  <2>2. head \in S \cup {Null}
    BY <1>3, <1>4, <1>5, <1>9, <2>1
  <2>3. ClosedUnderNext(S)
    BY <1>2, <1>4, <1>5, <1>9 DEF ClosedUnderNext
  <2> QED BY <2>1, <2>2, <2>3 DEF OnList
<1>10. Live \cup {x} \subseteq OnList'
  BY <1>2, <1>6, <1>9
<1> QED BY <1>5, <1>8, <1>10

\* Steps that move no link and free nothing leave the list as it is.
LEMMA SameList ==
  ASSUME ListInv, head' = head, Live' = Live,
         \A x \in Addr : cells'[x].next = cells[x].next
  PROVE  ListInv' /\ (Linked => Linked')
<1>1. Live \subseteq Addr
  BY DEF Live
<1>2. ASSUME NEW rank, Chained(rank, Live, head, cells)
      PROVE  Chained(rank, Live', head', cells')
  <2>1. \A x \in Live : cells'[x].next = cells[x].next
    BY <1>1
  <2> HIDE DEF Live
  <2> QED BY <1>2, <2>1 DEF Chained
<1>3. ASSUME NEW S, Loops(S, Live, head, cells)
      PROVE  Loops(S, Live', head', cells')
  BY <1>1, <1>3 DEF Loops
<1>4. Linked => Linked'
  BY <1>2 DEF Linked
<1>5. Endless => Endless'
  BY <1>3 DEF Endless
<1> QED BY <1>4, <1>5 DEF ListInv

-----------------------------------------------------------------------------
(* References from sequences and scopes.                                   *)

\* References are counted by naturals.
LEMMA RefsNat == \A s \in Seq(Value) : \A x : Refs(s, x) \in Nat
<1> TAKE s \in Seq(Value)
<1> TAKE x
<1> DEFINE I == {i \in 1 .. Len(s) : s[i].a = x}
<1>1. Len(s) \in Nat
  BY LenProperties
<1>2. IsFiniteSet(1 .. Len(s)) /\ I \in SUBSET (1 .. Len(s))
  BY <1>1, FS_Interval
<1>3. IsFiniteSet(I)
  BY <1>2, FS_Subset
<1> QED BY <1>3, FS_CardinalityType DEF Refs

\* The top of a sequence and what is below it are of its elements.
LEMMA TopPop ==
  ASSUME NEW S, NEW s \in Seq(S), Len(s) >= 1
  PROVE  Top(s) \in S /\ Pop(s) \in Seq(S) /\ Len(Pop(s)) = Len(s) - 1
<1>1. Len(s) \in Nat /\ s \in [1 .. Len(s) -> S]
  BY LenProperties
<1> QED BY <1>1, SubSeqProperties DEF Top, Pop

\* Pushing a value adds its reference, and the value is then the top.
LEMMA AppendFacts ==
  ASSUME NEW s \in Seq(Value), NEW v \in Value
  PROVE  /\ Append(s, v) \in Seq(Value) /\ Len(Append(s, v)) = Len(s) + 1
         /\ Top(Append(s, v)) = v
         /\ \A x : Refs(Append(s, v), x) = Refs(s, x) + Owns(v, x)
<1> DEFINE n == Len(s)
           t == Append(s, v)
<1>1. /\ t \in Seq(Value) /\ n \in Nat /\ Len(t) = n + 1
      /\ \A i \in 1 .. n : t[i] = s[i]
      /\ t[n + 1] = v
  BY AppendProperties, LenProperties
<1>2. ASSUME NEW x
      PROVE  Refs(t, x) = Refs(s, x) + Owns(v, x)
  <2> DEFINE I == {i \in 1 .. n : s[i].a = x}
             J == {i \in 1 .. n + 1 : t[i].a = x}
  <2>1. IsFiniteSet(I) /\ n + 1 \notin I
    <3>1. IsFiniteSet(1 .. n) /\ I \in SUBSET (1 .. n)
      BY <1>1, FS_Interval
    <3> QED BY <1>1, <3>1, FS_Subset
  <2>2. Cardinality(I) \in Nat /\ Cardinality(I \cup {n + 1}) = Cardinality(I) + 1
    BY <2>1, FS_AddElement, FS_CardinalityType
  <2>3. J = IF v.a = x THEN I \cup {n + 1} ELSE I
    <3> HIDE DEF t
    <3>1. 1 .. n + 1 = (1 .. n) \cup {n + 1}
      BY <1>1
    <3> QED BY <1>1, <3>1
  <2>4. Refs(t, x) = Cardinality(J) /\ Refs(s, x) = Cardinality(I)
    BY <1>1 DEF Refs
  <2> HIDE DEF I, J, t, n
  <2>5. CASE v.a = x
    BY <2>2, <2>3, <2>4, <2>5 DEF Owns
  <2>6. CASE v.a # x
    BY <2>2, <2>3, <2>4, <2>6 DEF Owns
  <2> QED BY <2>5, <2>6
<1> QED BY <1>1, <1>2 DEF Top

\* Popping removes the reference of the top.
LEMMA PopFacts ==
  ASSUME NEW s \in Seq(Value), Len(s) >= 1
  PROVE  /\ Top(s) \in Value
         /\ Pop(s) \in Seq(Value) /\ Len(Pop(s)) = Len(s) - 1
         /\ \A x : Refs(s, x) = Refs(Pop(s), x) + Owns(Top(s), x)
<1> DEFINE n == Len(s)
           t == Pop(s)
<1>1. n \in Nat /\ n >= 1 /\ s \in [1 .. n -> Value]
  BY LenProperties
<1>2. Top(s) \in Value
  BY <1>1 DEF Top
<1>3. t \in Seq(Value) /\ Len(t) = n - 1 /\ \A i \in 1 .. n - 1 : t[i] = s[i]
  BY <1>1, SubSeqProperties DEF Pop
<1>4. Append(t, Top(s)) = s
  <2> HIDE DEF t
  <2>1. /\ Append(t, Top(s)) \in Seq(Value) /\ Len(Append(t, Top(s))) = n
        /\ \A i \in 1 .. n - 1 : Append(t, Top(s))[i] = s[i]
        /\ Append(t, Top(s))[n] = Top(s)
    <3>1. n - 1 + 1 = n
      BY <1>1
    <3> QED BY <1>2, <1>3, <3>1, AppendProperties
  <2>2. \A i \in 1 .. n : Append(t, Top(s))[i] = s[i]
    BY <1>1, <2>1 DEF Top
  <2> QED BY <2>1, <2>2, SeqEqual
<1>5. \A x : Refs(Append(t, Top(s)), x) = Refs(t, x) + Owns(Top(s), x)
  BY <1>2, <1>3, AppendFacts
<1> QED BY <1>2, <1>3, <1>4, <1>5

\* So are the references of the variables.
LEMMA ScopeRefsNat == \A sc, x : ScopeRefs(sc, x) \in Nat
<1> TAKE sc, x
<1>1. {s \in Strings : sc[s].a = x} \in SUBSET Strings
  OBVIOUS
<1>2. IsFiniteSet({s \in Strings : sc[s].a = x})
  BY <1>1, StringsAssumption, FS_Subset
<1> QED BY <1>2, FS_CardinalityType DEF ScopeRefs

\* Assigning a variable replaces the old value's reference by the new one's.
LEMMA AssignFacts ==
  ASSUME NEW sc \in [Strings -> Value], NEW k \in Strings, NEW v \in Value
  PROVE  \A x : ScopeRefs([sc EXCEPT ![k] = v], x) + Owns(sc[k], x)
                  = ScopeRefs(sc, x) + Owns(v, x)
<1> TAKE x
<1> DEFINE new == [sc EXCEPT ![k] = v]
           A == {s \in Strings : sc[s].a = x}
           B == {s \in Strings : new[s].a = x}
<1>1. A \in SUBSET Strings /\ B \in SUBSET Strings
  OBVIOUS
<1>2. IsFiniteSet(A) /\ IsFiniteSet(B)
  BY <1>1, StringsAssumption, FS_Subset
<1>3. A \ {k} = B \ {k}
  OBVIOUS
<1>4. Cardinality(A) \in Nat /\ Cardinality(B) \in Nat
  BY <1>2, FS_CardinalityType
<1>5. Cardinality(A \ {k}) = Cardinality(A) - Owns(sc[k], x)
  <2>1. k \in A <=> sc[k].a = x
    OBVIOUS
  <2> HIDE DEF A
  <2>2. Cardinality(A \ {k}) =
          IF k \in A THEN Cardinality(A) - 1 ELSE Cardinality(A)
    BY <1>2, FS_RemoveElement
  <2>3. CASE sc[k].a = x
    BY <2>1, <2>2, <2>3 DEF Owns
  <2>4. CASE sc[k].a # x
    BY <1>4, <2>1, <2>2, <2>4 DEF Owns
  <2> QED BY <2>3, <2>4
<1>6. Cardinality(B \ {k}) = Cardinality(B) - Owns(v, x)
  <2>1. k \in B <=> v.a = x
    OBVIOUS
  <2> HIDE DEF B
  <2>2. Cardinality(B \ {k}) =
          IF k \in B THEN Cardinality(B) - 1 ELSE Cardinality(B)
    BY <1>2, FS_RemoveElement
  <2>3. CASE v.a = x
    BY <2>1, <2>2, <2>3 DEF Owns
  <2>4. CASE v.a # x
    BY <1>4, <2>1, <2>2, <2>4 DEF Owns
  <2> QED BY <2>3, <2>4
<1>7. Owns(sc[k], x) \in Nat /\ Owns(v, x) \in Nat
  BY DEF Owns
<1>8. ScopeRefs(sc, x) = Cardinality(A) /\ ScopeRefs(new, x) = Cardinality(B)
  BY DEF ScopeRefs
<1> HIDE DEF A, B
<1> QED BY <1>3, <1>4, <1>5, <1>6, <1>7, <1>8

-----------------------------------------------------------------------------
(* Pushing and popping with roots.  A root array covers a stack when it    *)
(* holds every address at least as often as the stack refers to it; the    *)
(* surplus is what is left for variables, and for what Drop leaked.        *)

Covers(r, s) ==
  /\ r \in [Addr -> Nat] /\ s \in Seq(Value)
  /\ \A x \in Addr : r[x] >= Refs(s, x)

SameSurplus(r, s, q, t) ==
  \A x \in Addr : q[x] - Refs(t, x) = r[x] - Refs(s, x)

\* Pushing a value and rooting it keeps the surplus of roots.
LEMMA PushRoot ==
  ASSUME NEW r, NEW s, Covers(r, s), NEW v \in Value
  PROVE  /\ Covers(Root(r, v), Append(s, v))
         /\ SameSurplus(r, s, Root(r, v), Append(s, v))
<1> DEFINE q == Root(r, v)
           t == Append(s, v)
<1>1. q \in [Addr -> Nat] /\ \A x \in Addr : q[x] = r[x] + Owns(v, x)
  BY RootAdds DEF Covers
<1>2. t \in Seq(Value) /\ \A x : Refs(t, x) = Refs(s, x) + Owns(v, x)
  BY AppendFacts DEF Covers
<1>3. \A x : Owns(v, x) \in Nat /\ Refs(s, x) \in Nat
  BY RefsNat DEF Owns, Covers
<1> HIDE DEF q, t
<1>4. ASSUME NEW x \in Addr
      PROVE  q[x] >= Refs(t, x) /\ q[x] - Refs(t, x) = r[x] - Refs(s, x)
  <2>1. r[x] \in Nat /\ r[x] >= Refs(s, x)
    BY DEF Covers
  <2> QED BY <1>1, <1>2, <1>3, <2>1
<1>5. Covers(q, t) /\ SameSurplus(r, s, q, t)
  BY <1>1, <1>2, <1>4 DEF Covers, SameSurplus
<1> QED BY <1>5 DEF q, t

\* Popping a value and unrooting it keeps the surplus of roots.
LEMMA PopRoot ==
  ASSUME NEW r, NEW s, Covers(r, s), Len(s) >= 1
  PROVE  /\ Covers(Unroot(r, Top(s)), Pop(s))
         /\ SameSurplus(r, s, Unroot(r, Top(s)), Pop(s))
         /\ Top(s) \in Value /\ Len(Pop(s)) = Len(s) - 1
<1> DEFINE v == Top(s)
           q == Unroot(r, v)
           t == Pop(s)
<1>1. /\ v \in Value /\ t \in Seq(Value) /\ Len(t) = Len(s) - 1
      /\ \A x : Refs(s, x) = Refs(t, x) + Owns(v, x)
  BY PopFacts DEF Covers
<1>2. /\ q \in [Addr -> Nat]
      /\ \A x \in Addr : q[x] = IF r[x] >= Owns(v, x) THEN r[x] - Owns(v, x) ELSE 0
  <2> HIDE DEF v
  <2> QED BY <1>1, UnrootRemoves DEF Covers
<1>3. \A x : Owns(v, x) \in Nat /\ Refs(t, x) \in Nat
  BY <1>1, RefsNat DEF Owns
<1> HIDE DEF q, t, v
<1>4. ASSUME NEW x \in Addr
      PROVE  q[x] >= Refs(t, x) /\ q[x] - Refs(t, x) = r[x] - Refs(s, x)
  <2>1. r[x] \in Nat /\ r[x] >= Refs(s, x)
    BY DEF Covers
  <2>2. q[x] = IF r[x] >= Owns(v, x) THEN r[x] - Owns(v, x) ELSE 0
    BY <1>2
  <2>3. Refs(s, x) = Refs(t, x) + Owns(v, x)
    BY <1>1
  <2> QED BY <1>3, <2>1, <2>2, <2>3
<1>5. Covers(q, t) /\ SameSurplus(r, s, q, t)
  BY <1>1, <1>2, <1>4 DEF Covers, SameSurplus
<1> QED BY <1>1, <1>5 DEF q, t, v

\* Two steps that keep the surplus keep it together.
LEMMA SurplusChain ==
  ASSUME NEW r, NEW s, NEW q, NEW t, NEW p, NEW u,
         SameSurplus(r, s, q, t), SameSurplus(q, t, p, u)
  PROVE  SameSurplus(r, s, p, u)
BY DEF SameSurplus

\* So does popping two operands.
LEMMA PopTwo ==
  ASSUME NEW r, NEW s, Covers(r, s), Len(s) >= 2
  PROVE  LET q == Unroot(Unroot(r, Top(s)), Second(s))
             t == Pop(Pop(s))
         IN  /\ Covers(q, t) /\ SameSurplus(r, s, q, t)
             /\ Top(s) \in Value /\ Second(s) \in Value /\ Len(t) = Len(s) - 2
<1>1. Len(s) \in Nat
  BY LenProperties DEF Covers
<1>2. /\ Covers(Unroot(r, Top(s)), Pop(s))
      /\ SameSurplus(r, s, Unroot(r, Top(s)), Pop(s))
      /\ Top(s) \in Value /\ Len(Pop(s)) = Len(s) - 1
  BY <1>1, PopRoot
<1> DEFINE q == Unroot(r, Top(s))
           t == Pop(s)
<1> HIDE DEF q, t
<1>3. Covers(q, t) /\ Len(t) >= 1
  BY <1>1, <1>2 DEF q, t
<1>4. /\ Covers(Unroot(q, Top(t)), Pop(t))
      /\ SameSurplus(q, t, Unroot(q, Top(t)), Pop(t))
      /\ Top(t) \in Value /\ Len(Pop(t)) = Len(t) - 1
  BY <1>3, PopRoot
<1>5. SameSurplus(r, s, Unroot(q, Top(t)), Pop(t))
  BY <1>2, <1>4, SurplusChain DEF q, t
<1> QED BY <1>1, <1>2, <1>4, <1>5 DEF q, t, Second

\* So does popping three operands.
LEMMA PopThree ==
  ASSUME NEW r, NEW s, Covers(r, s), Len(s) >= 3
  PROVE  LET q == Unroot(Unroot(Unroot(r, Top(s)), Second(s)), Third(s))
             t == Pop(Pop(Pop(s)))
         IN  /\ Covers(q, t) /\ SameSurplus(r, s, q, t)
             /\ Top(s) \in Value /\ Second(s) \in Value /\ Third(s) \in Value
             /\ Len(t) = Len(s) - 3
<1> DEFINE q == Unroot(Unroot(r, Top(s)), Second(s))
           t == Pop(Pop(s))
<1>1. Len(s) \in Nat
  BY LenProperties DEF Covers
<1>2. /\ Covers(q, t) /\ SameSurplus(r, s, q, t)
      /\ Top(s) \in Value /\ Second(s) \in Value /\ Len(t) = Len(s) - 2
  BY <1>1, PopTwo
<1> HIDE DEF q, t
<1>3. /\ Covers(Unroot(q, Top(t)), Pop(t))
      /\ SameSurplus(q, t, Unroot(q, Top(t)), Pop(t))
      /\ Top(t) \in Value /\ Len(Pop(t)) = Len(t) - 1
  <2>1. Covers(q, t) /\ Len(t) >= 1
    BY <1>1, <1>2
  <2> QED BY <2>1, PopRoot
<1>4. SameSurplus(r, s, Unroot(q, Top(t)), Pop(t))
  BY <1>2, <1>3, SurplusChain
<1> QED BY <1>1, <1>2, <1>3, <1>4 DEF q, t, Third

-----------------------------------------------------------------------------
(* The inductive invariant, and what a step that stays inside the operand  *)
(* stack does: it keeps the surplus and leaves heap and variables alone.   *)

IInv == TypeOK /\ AllocationsExact /\ RootsCover

Ended == \E how \in {"aborted", "undefined"} : End(how)

Quiet ==
  /\ Covers(roots', stack') /\ SameSurplus(roots, stack, roots', stack')
  /\ frames' \in Seq(Frame)
  /\ UNCHANGED <<head, allocations, cells, scope, status>>

\* While the program runs, the roots cover the operands and the variables.
LEMMA RunningCovers ==
  ASSUME IInv, Running
  PROVE  Covers(roots, stack)
<1>1. roots \in [Addr -> Nat] /\ stack \in Seq(Value)
  BY DEF IInv, TypeOK, HeapTypeOK
<1>2. ASSUME NEW x \in Addr
      PROVE  roots[x] >= Refs(stack, x)
  <2>1. roots[x] >= Refs(stack, x) + ScopeRefs(scope, x)
    BY DEF IInv, Running, RootsCover, Held
  <2> QED BY <1>1, <2>1, RefsNat, ScopeRefsNat
<1> QED BY <1>1, <1>2 DEF Covers

\* A handler that found n operands has n operands.
LEMMA HasLen ==
  ASSUME IInv, NEW n \in Nat, Has(n)
  PROVE  Len(stack) \in Nat /\ Len(stack) >= n
BY LenProperties DEF IInv, TypeOK, Has

\* Returning from and resuming an activation keep the frames typed.
LEMMA FrameFacts ==
  ASSUME IInv, frames # <<>>
  PROVE  /\ Top(frames) \in Frame /\ Pop(frames) \in Seq(Frame)
         /\ \A f \in Frame : Append(Pop(frames), f) \in Seq(Frame)
<1>1. frames \in Seq(Frame)
  BY DEF IInv, TypeOK
<1>2. Len(frames) \in Nat /\ Len(frames) >= 1 /\ frames \in [1 .. Len(frames) -> Frame]
  BY <1>1, LenProperties, EmptySeq
<1>3. Top(frames) \in Frame
  BY <1>2 DEF Top
<1>4. Pop(frames) \in Seq(Frame)
  BY <1>1, <1>2, SubSeqProperties DEF Pop
<1> QED BY <1>3, <1>4, AppendProperties

\* So does entering one.
LEMMA EnterFacts ==
  ASSUME IInv
  PROVE  /\ frames \in Seq(Frame)
         /\ \A f \in Frame : Append(frames, f) \in Seq(Frame)
BY AppendProperties DEF IInv, TypeOK

\* What exec, cond_exec and while start is a frame.
LEMMA ActivationIsFrame ==
  ASSUME NEW phase \in Phases, NEW cond \in Value, NEW body \in Value
  PROVE  Activation(phase, cond, body) \in Frame
BY DEF Activation, Frame

\* NIL is a value without an owner.
LEMMA NilIsValue == NilV \in Value /\ NilV.a = Null
BY SimpleIsValue DEF NilV

\* A failed assert and a read of freed memory both end the process.
LEMMA EndedTwice == (Abort => Ended) /\ (Undefined => Ended)
BY DEF Abort, Undefined, Ended

-----------------------------------------------------------------------------
(* The stack's own operations.                                             *)

\* Pushing a constant keeps the invariant's surplus.
LEMMA PushConstantQuiet ==
  ASSUME IInv, NEW v \in Constants, PushConstant(v)
  PROVE  Quiet
<1>1. Covers(roots, stack) /\ v \in Value
  BY RunningCovers, ConstantsAssumption DEF PushConstant, InLambda
<1>2. stack' = Append(stack, v) /\ roots' = Root(roots, v)
  BY DEF PushConstant
<1> QED BY <1>1, <1>2, PushRoot DEF PushConstant, Quiet, IInv, TypeOK

\* dup roots the copy it pushes.
LEMMA DupQuiet ==
  ASSUME IInv, Dup
  PROVE  Ended \/ Quiet
<1>1. CASE ~Has(1)
  BY <1>1, EndedTwice DEF Dup
<1>2. CASE Has(1)
  <2>1. Covers(roots, stack) /\ Top(stack) \in Value
    BY <1>2, RunningCovers, HasLen, PopRoot DEF Dup, InLambda
  <2>2. stack' = Append(stack, Top(stack)) /\ roots' = Root(roots, Top(stack))
    BY <1>2 DEF Dup
  <2> QED BY <1>2, <2>1, <2>2, PushRoot DEF Dup, Quiet, IInv, TypeOK
<1> QED BY <1>1, <1>2

\* Rearranging operands changes no count of references.
LEMMA RearrangedQuiet ==
  ASSUME IInv, Running, stack' \in Seq(Value),
         \A x \in Addr : Refs(stack', x) = Refs(stack, x),
         UNCHANGED <<heapVars, scope, frames, status>>
  PROVE  Quiet
<1>1. Covers(roots, stack) /\ roots' = roots
  BY RunningCovers DEF heapVars
<1> QED BY <1>1 DEF Covers, SameSurplus, Quiet, heapVars, IInv, TypeOK

\* swap only rearranges operands.
LEMMA SwapQuiet ==
  ASSUME IInv, Swap
  PROVE  Ended \/ Quiet
<1>1. CASE ~Has(2)
  BY <1>1, EndedTwice DEF Swap
<1>2. CASE Has(2)
  <2> DEFINE s1 == Pop(stack)
             s2 == Pop(s1)
             b == Top(stack)
             a == Second(stack)
  <2>1. stack \in Seq(Value) /\ Len(stack) >= 2 /\ Len(stack) \in Nat
    BY <1>2, HasLen DEF IInv, TypeOK
  <2>2. /\ b \in Value /\ s1 \in Seq(Value) /\ Len(s1) = Len(stack) - 1
        /\ \A x : Refs(stack, x) = Refs(s1, x) + Owns(b, x)
    BY <2>1, PopFacts
  <2>3. /\ a \in Value /\ s2 \in Seq(Value)
        /\ \A x : Refs(s1, x) = Refs(s2, x) + Owns(a, x)
    <3> HIDE DEF s1
    <3>1. Len(s1) >= 1
      BY <2>1, <2>2
    <3> QED BY <2>2, <3>1, PopFacts DEF s1, Second
  <2> HIDE DEF s1, s2, a, b
  <2>4. stack' = Append(Append(s2, b), a)
    BY <1>2 DEF Swap, s1, s2, a, b
  <2>5. Append(s2, b) \in Seq(Value)
        /\ \A x : Refs(Append(s2, b), x) = Refs(s2, x) + Owns(b, x)
    BY <2>2, <2>3, AppendFacts
  <2>6. stack' \in Seq(Value)
        /\ \A x : Refs(stack', x) = Refs(Append(s2, b), x) + Owns(a, x)
    BY <2>3, <2>4, <2>5, AppendFacts
  <2>7. \A x \in Addr : Refs(stack', x) = Refs(stack, x)
    <3> TAKE x \in Addr
    <3>1. Owns(a, x) \in Nat /\ Owns(b, x) \in Nat /\ Refs(s2, x) \in Nat
      BY <2>3, RefsNat DEF Owns
    <3> QED BY <2>2, <2>3, <2>5, <2>6, <3>1
  <2> QED BY <1>2, <2>6, <2>7, RearrangedQuiet DEF Swap, InLambda
<1> QED BY <1>1, <1>2

\* rot only rearranges operands.
LEMMA RotQuiet ==
  ASSUME IInv, Rot
  PROVE  Ended \/ Quiet
<1>1. CASE ~Has(3)
  BY <1>1, EndedTwice DEF Rot
<1>2. CASE Has(3)
  <2> DEFINE s1 == Pop(stack)
             s2 == Pop(s1)
             s3 == Pop(s2)
             c == Top(stack)
             b == Second(stack)
             a == Third(stack)
  <2>1. stack \in Seq(Value) /\ Len(stack) >= 3 /\ Len(stack) \in Nat
    BY <1>2, HasLen DEF IInv, TypeOK
  <2>2. /\ c \in Value /\ s1 \in Seq(Value) /\ Len(s1) = Len(stack) - 1
        /\ \A x : Refs(stack, x) = Refs(s1, x) + Owns(c, x)
    BY <2>1, PopFacts
  <2>3. /\ b \in Value /\ s2 \in Seq(Value) /\ Len(s2) = Len(stack) - 2
        /\ \A x : Refs(s1, x) = Refs(s2, x) + Owns(b, x)
    <3> HIDE DEF s1
    <3>1. Len(s1) >= 1
      BY <2>1, <2>2
    <3> QED BY <2>1, <2>2, <3>1, PopFacts DEF s1, Second
  <2>4. /\ a \in Value /\ s3 \in Seq(Value)
        /\ \A x : Refs(s2, x) = Refs(s3, x) + Owns(a, x)
    <3> HIDE DEF s2
    <3>1. Len(s2) >= 1
      BY <2>1, <2>3
    <3> QED BY <2>3, <3>1, PopFacts DEF s2, s1, Third
  <2> HIDE DEF s1, s2, s3, a, b, c
  <2> DEFINE t1 == Append(s3, b)
             t2 == Append(t1, c)
  <2>5. stack' = Append(t2, a)
    BY <1>2 DEF Rot, s1, s2, s3, a, b, c
  <2>6. t1 \in Seq(Value) /\ \A x : Refs(t1, x) = Refs(s3, x) + Owns(b, x)
    BY <2>3, <2>4, AppendFacts
  <2> HIDE DEF t1
  <2>7. t2 \in Seq(Value) /\ \A x : Refs(t2, x) = Refs(t1, x) + Owns(c, x)
    BY <2>2, <2>6, AppendFacts
  <2> HIDE DEF t2
  <2>8. stack' \in Seq(Value) /\ \A x : Refs(stack', x) = Refs(t2, x) + Owns(a, x)
    BY <2>4, <2>5, <2>7, AppendFacts
  <2>9. \A x \in Addr : Refs(stack', x) = Refs(stack, x)
    <3> TAKE x \in Addr
    <3>1. /\ Owns(a, x) \in Nat /\ Owns(b, x) \in Nat /\ Owns(c, x) \in Nat
          /\ Refs(s3, x) \in Nat
      BY <2>4, RefsNat DEF Owns
    <3>2. /\ Refs(stack, x) = Refs(s1, x) + Owns(c, x)
          /\ Refs(s1, x) = Refs(s2, x) + Owns(b, x)
          /\ Refs(s2, x) = Refs(s3, x) + Owns(a, x)
          /\ Refs(stack', x) = Refs(t2, x) + Owns(a, x)
          /\ Refs(t2, x) = Refs(t1, x) + Owns(c, x)
          /\ Refs(t1, x) = Refs(s3, x) + Owns(b, x)
      BY <2>2, <2>3, <2>4, <2>6, <2>7, <2>8
    <3> QED BY <3>1, <3>2
  <2> QED BY <1>2, <2>8, <2>9, RearrangedQuiet DEF Rot, InLambda
<1> QED BY <1>1, <1>2

-----------------------------------------------------------------------------
(* Operators.                                                              *)

\* The shape of the handlers that take n operands and push one result.
LEMMA ResultQuiet ==
  ASSUME IInv, NEW q, NEW t, Covers(q, t), SameSurplus(roots, stack, q, t),
         NEW c \in Value,
         stack' = Append(t, c), roots' = Root(q, c),
         UNCHANGED <<head, allocations, cells, scope, frames, status>>
  PROVE  Quiet
<1>1. Covers(roots', stack') /\ SameSurplus(q, t, roots', stack')
  BY PushRoot
<1>2. SameSurplus(roots, stack, roots', stack')
  BY <1>1, SurplusChain
<1> QED BY <1>1, <1>2 DEF Quiet, IInv, TypeOK

\* The two-operand handlers unroot both operands and push an ownerless result.
LEMMA BinaryQuiet ==
  ASSUME IInv, NEW op \in BinaryOps, Binary(op)
  PROVE  Ended \/ Quiet
<1> DEFINE b == Top(stack)
           a == Second(stack)
           q == Unroot(Unroot(roots, b), a)
           t == Pop(Pop(stack))
<1>1. CASE ~Has(2) \/ ReadsWild(op, a, b) \/ Results(op, a, b) = {}
  BY <1>1, EndedTwice DEF Binary
<1>2. CASE Has(2) /\ ~ReadsWild(op, a, b) /\ Results(op, a, b) # {}
  <2>1. PICK c \in Results(op, a, b) :
          /\ stack' = Append(t, c) /\ roots' = Root(q, c)
          /\ UNCHANGED <<head, allocations, cells, scope, frames, status>>
    BY <1>2 DEF Binary
  <2>2. Covers(roots, stack) /\ Len(stack) >= 2
    BY <1>2, RunningCovers, HasLen DEF Binary, InLambda
  <2>3. Covers(q, t) /\ SameSurplus(roots, stack, q, t) /\ a \in Value /\ b \in Value
    BY <2>2, PopTwo
  <2> HIDE DEF a, b, q, t
  <2>4. c \in Value
    BY <2>3, ResultsAreValues
  <2> QED BY <2>1, <2>3, <2>4, ResultQuiet
<1> QED BY <1>1, <1>2

\* A value rewritten in place keeps its owner.
LEMMA RewrittenQuiet ==
  ASSUME IInv, Running, Has(1), NEW v \in Value, v.a = Top(stack).a,
         stack' = Append(Pop(stack), v),
         UNCHANGED <<heapVars, scope, frames, status>>
  PROVE  Quiet
<1>1. stack \in Seq(Value) /\ Len(stack) >= 1
  BY HasLen DEF IInv, TypeOK
<1>2. Pop(stack) \in Seq(Value)
      /\ \A x : Refs(stack, x) = Refs(Pop(stack), x) + Owns(Top(stack), x)
  BY <1>1, PopFacts
<1>3. stack' \in Seq(Value)
      /\ \A x : Refs(stack', x) = Refs(Pop(stack), x) + Owns(v, x)
  BY <1>2, AppendFacts
<1>4. \A x : Owns(v, x) = Owns(Top(stack), x)
  BY DEF Owns
<1> QED BY <1>2, <1>3, <1>4, RearrangedQuiet

\* not rewrites the tag in place.
LEMMA NotQuiet ==
  ASSUME IInv, Not
  PROVE  Ended \/ Quiet
<1> DEFINE v == Top(stack)
           flipped == IF v.type = "TRUE" THEN "FALSE" ELSE "TRUE"
<1>1. CASE ~Has(1) \/ v.type \notin {"TRUE", "FALSE", "NIL"}
  BY <1>1, EndedTwice DEF Not
<1>2. CASE Has(1) /\ v.type \in {"TRUE", "FALSE", "NIL"}
  <2>1. /\ stack' = Append(Pop(stack), [v EXCEPT !.type = flipped])
        /\ UNCHANGED <<heapVars, scope, frames, status>> /\ Running
    BY <1>2 DEF Not, InLambda
  <2>2. v \in Value
    BY <1>2, <2>1, RunningCovers, HasLen, PopRoot
  <2> HIDE DEF v
  <2>3. [v EXCEPT !.type = flipped] \in Value
        /\ [v EXCEPT !.type = flipped].a = v.a
    BY <2>2 DEF Value, Fits, Types
  <2> QED BY <1>2, <2>1, <2>3, RewrittenQuiet DEF v
<1> QED BY <1>1, <1>2

\* neg rewrites the number in place.
LEMMA NegQuiet ==
  ASSUME IInv, Neg
  PROVE  Ended \/ Quiet
<1> DEFINE v == Top(stack)
           w == [v EXCEPT !.data = Wrap(-@)]
<1>1. CASE ~Has(1) \/ v.type # "NUMBER"
  BY <1>1, EndedTwice DEF Neg
<1>2. CASE Has(1) /\ v.type = "NUMBER"
  <2>1. /\ stack' = Append(Pop(stack), w)
        /\ UNCHANGED <<heapVars, scope, frames, status>> /\ Running
    BY <1>2 DEF Neg, InLambda
  <2>2. v \in Value
    BY <1>2, <2>1, RunningCovers, HasLen, PopRoot
  <2> HIDE DEF v
  <2>3. v.data \in Ints /\ v.data \in Int
    BY <1>2, <2>2, HalfAssumption DEF Value, Fits, Ints
  <2>4. Wrap(-v.data) \in Ints
    BY <2>3, WrapFits
  <2>5. w \in Value /\ w.a = v.a
    BY <1>2, <2>2, <2>4 DEF Value, Fits, Data
  <2> QED BY <1>2, <2>1, <2>5, RewrittenQuiet DEF v
<1> QED BY <1>1, <1>2

-----------------------------------------------------------------------------
(* Reading properties and variables.                                       *)

\* A key that reaches the hash function has a hash.
LEMMA KeyHashes ==
  ASSUME NEW k \in Value, ~WildKey(k), Hashable(k)
  PROVE  T!GetHash(k) \in Int
<1>1. /\ k.type \in Types /\ k.type \notin {"NATIVE", "INVALID"}
      /\ k.a \in Addr \cup {Null}
      /\ k.type = "NUMBER" => k.data \in Ints
      /\ k.type \in {"STRING", "REFERENCE"} => k.data \in Strings
  BY DEF Value, Fits, WildKey, Hashable
<1>2. ValueHash(k) \in Nat
  BY <1>1, HashAssumption DEF ValueHash, Types
<1> QED BY <1>2 DEF T!GetHash, T!FirstValidHash

\* get_prop unroots its operands and roots what it finds.
LEMMA GetPropQuiet ==
  ASSUME IInv, GetProp
  PROVE  Ended \/ Quiet
<1> DEFINE key == Top(stack)
           object == Second(stack)
           x == IF T!Found(Table(object), key)
                THEN T!ValueAt(Table(object), key) ELSE NilV
           q == Unroot(Unroot(roots, key), object)
           t == Pop(Pop(stack))
           Bad == \/ ~Has(2) \/ object.type # "OBJECT" \/ Dangling(object)
                  \/ ~T!IsVoid(Table(object)) /\ (WildKey(key) \/ ~Hashable(key))
<1>1. CASE Bad
  BY <1>1, EndedTwice DEF GetProp
<1>2. CASE ~Bad
  <2>1. /\ stack' = Append(t, x) /\ roots' = Root(q, x)
        /\ UNCHANGED <<head, allocations, cells, scope, frames, status>>
        /\ Running /\ Has(2)
    BY <1>2 DEF GetProp, InLambda
  <2>2. /\ Covers(q, t) /\ SameSurplus(roots, stack, q, t)
        /\ object \in Value /\ key \in Value
    BY <2>1, RunningCovers, HasLen, PopTwo
  <2>3a. ASSUME ~T!IsVoid(Table(object))
        PROVE  T!GetHash(key) \in Int
    BY <1>2, <2>2, <2>3a, KeyHashes
  <2>3. object.a \in Addr
    BY <1>2, <2>2 DEF Dangling, Value
  <2> HIDE DEF object, key, q, t
  <2>4. IsTable(Table(object))
    BY <2>3 DEF Table, IInv, TypeOK, HeapTypeOK, IsCell
  <2>5. x \in Value
    BY <2>4, <2>3a, ValueAtIsValue, NilIsValue DEF T!Found
  <2> HIDE DEF x
  <2> QED BY <2>1, <2>2, <2>5, ResultQuiet
<1> QED BY <1>1, <1>2

\* load unroots the name and roots what the variable holds.
LEMMA LoadQuiet ==
  ASSUME IInv, Load
  PROVE  Ended \/ Quiet
<1> DEFINE key == Top(stack)
           x == scope[key.data]
           q == Unroot(roots, key)
           t == Pop(stack)
           Bad == ~Has(1) \/ key.type # "REFERENCE" \/ key.data = Wild
<1>1. CASE Bad
  BY <1>1, EndedTwice DEF Load
<1>2. CASE ~Bad
  <2>1. /\ stack' = Append(t, x) /\ roots' = Root(q, x)
        /\ UNCHANGED <<head, allocations, cells, scope, frames, status>>
        /\ Running /\ Has(1)
    BY <1>2 DEF Load, InLambda
  <2>2. Covers(q, t) /\ SameSurplus(roots, stack, q, t) /\ key \in Value
    BY <2>1, RunningCovers, HasLen, PopRoot
  <2>3. key.data \in Strings
    BY <1>2, <2>2 DEF Value, Fits
  <2> HIDE DEF key, q, t
  <2>4. x \in Value
    BY <2>3 DEF IInv, TypeOK
  <2> HIDE DEF x
  <2> QED BY <2>1, <2>2, <2>4, ResultQuiet
<1> QED BY <1>1, <1>2

-----------------------------------------------------------------------------
(* Calls: operands are popped, a frame comes or goes.                      *)

\* The shape of the handlers that pop n operands and push none.
LEMMA PoppedQuiet ==
  ASSUME IInv, frames' \in Seq(Frame),
         Covers(roots', stack'), SameSurplus(roots, stack, roots', stack'),
         UNCHANGED <<head, allocations, cells, scope, status>>
  PROVE  Quiet
BY DEF Quiet

\* exec unroots the lambda it runs.
LEMMA ExecQuiet ==
  ASSUME IInv, Exec
  PROVE  Ended \/ Quiet
<1> DEFINE v == Top(stack)
           Bad == ~Has(1) \/ ~Callable(v) \/ v.data = Wild
<1>1. CASE Bad
  BY <1>1, EndedTwice DEF Exec
<1>2. CASE ~Bad
  <2>1. /\ stack' = Pop(stack) /\ roots' = Unroot(roots, v)
        /\ frames' = Append(frames, Activation("call", NilV, v))
        /\ UNCHANGED <<head, allocations, cells, scope, status>>
        /\ Running /\ Has(1)
    BY <1>2 DEF Exec, InLambda, Enter
  <2>2. /\ Covers(roots', stack') /\ SameSurplus(roots, stack, roots', stack')
        /\ v \in Value
    BY <2>1, RunningCovers, HasLen, PopRoot
  <2> HIDE DEF v
  <2>3. frames' \in Seq(Frame)
    BY <2>1, <2>2, NilIsValue, ActivationIsFrame, EnterFacts DEF Phases
  <2> QED BY <2>1, <2>2, <2>3, PoppedQuiet
<1> QED BY <1>1, <1>2

\* cond_exec unroots its operands, whether it runs the lambda or not.
LEMMA CondExecQuiet ==
  ASSUME IInv, CondExec
  PROVE  Ended \/ Quiet
<1> DEFINE body == Top(stack)
           cond == Second(stack)
           Bad == \/ ~Has(2) \/ ~HasTruth(cond)
                  \/ Truthy(cond) /\ (~Callable(body) \/ body.data = Wild)
<1>1. CASE Bad
  BY <1>1, EndedTwice DEF CondExec
<1>2. CASE ~Bad
  <2>1. /\ stack' = Pop(Pop(stack))
        /\ roots' = Unroot(Unroot(roots, body), cond)
        /\ frames' \in {frames, Append(frames, Activation("call", NilV, body))}
        /\ UNCHANGED <<head, allocations, cells, scope, status>>
        /\ Running /\ Has(2)
    BY <1>2 DEF CondExec, InLambda, Enter
  <2>2. /\ Covers(roots', stack') /\ SameSurplus(roots, stack, roots', stack')
        /\ body \in Value
    BY <2>1, RunningCovers, HasLen, PopTwo
  <2> HIDE DEF body, cond
  <2>3. frames' \in Seq(Frame)
    BY <2>1, <2>2, NilIsValue, ActivationIsFrame, EnterFacts DEF Phases
  <2> QED BY <2>1, <2>2, <2>3, PoppedQuiet
<1> QED BY <1>1, <1>2

\* while unroots the two lambdas it keeps in locals.
LEMMA WhileQuiet ==
  ASSUME IInv, While
  PROVE  Ended \/ Quiet
<1> DEFINE body == Top(stack)
           cond == Second(stack)
           Bad == ~Has(2) \/ ~Callable(body) \/ ~Callable(cond) \/ cond.data = Wild
<1>1. CASE Bad
  BY <1>1, EndedTwice DEF While
<1>2. CASE ~Bad
  <2>1. /\ stack' = Pop(Pop(stack))
        /\ roots' = Unroot(Unroot(roots, body), cond)
        /\ frames' = Append(frames, Activation("cond", cond, body))
        /\ UNCHANGED <<head, allocations, cells, scope, status>>
        /\ Running /\ Has(2)
    BY <1>2 DEF While, InLambda, Enter
  <2>2. /\ Covers(roots', stack') /\ SameSurplus(roots, stack, roots', stack')
        /\ body \in Value /\ cond \in Value
    BY <2>1, RunningCovers, HasLen, PopTwo
  <2> HIDE DEF body, cond
  <2>3. frames' \in Seq(Frame)
    BY <2>1, <2>2, ActivationIsFrame, EnterFacts DEF Phases
  <2> QED BY <2>1, <2>2, <2>3, PoppedQuiet
<1> QED BY <1>1, <1>2

\* An inlined branch unroots the condition it pops.
LEMMA BranchIfQuiet ==
  ASSUME IInv, BranchIf
  PROVE  Ended \/ Quiet
<1>1. CASE ~Has(1) \/ ~HasTruth(Top(stack))
  BY <1>1, EndedTwice DEF BranchIf
<1>2. CASE Has(1) /\ HasTruth(Top(stack))
  <2>1. /\ stack' = Pop(stack) /\ roots' = Unroot(roots, Top(stack))
        /\ UNCHANGED <<head, allocations, cells, scope, frames, status>>
        /\ Running
    BY <1>2 DEF BranchIf, InLambda
  <2>2. Covers(roots', stack') /\ SameSurplus(roots, stack, roots', stack')
    BY <1>2, <2>1, RunningCovers, HasLen, PopRoot
  <2> QED BY <2>1, <2>2, PoppedQuiet, EnterFacts
<1> QED BY <1>1, <1>2

\* print unroots what it writes.
LEMMA StdPrintQuiet ==
  ASSUME IInv, StdPrint
  PROVE  Ended \/ Quiet
<1>1. CASE ~Has(1) \/ WildKey(Top(stack))
  BY <1>1, EndedTwice DEF StdPrint
<1>2. CASE Has(1) /\ ~WildKey(Top(stack))
  <2>1. /\ stack' = Pop(stack) /\ roots' = Unroot(roots, Top(stack))
        /\ frames' = Append(Pop(frames), [Top(frames) EXCEPT !.done = TRUE])
        /\ UNCHANGED <<head, allocations, cells, scope, status>>
        /\ Running /\ frames # <<>>
    BY <1>2 DEF StdPrint, Resume
  <2>2. Covers(roots', stack') /\ SameSurplus(roots, stack, roots', stack')
    BY <1>2, <2>1, RunningCovers, HasLen, PopRoot
  <2>3. [Top(frames) EXCEPT !.done = TRUE] \in Frame
    BY <2>1, FrameFacts DEF Frame
  <2> QED BY <2>1, <2>2, <2>3, FrameFacts, PoppedQuiet
<1> QED BY <1>1, <1>2

\* Returning from a body or a call touches no operand.
LEMMA ReturnQuiet ==
  ASSUME IInv, ReturnFromCall \/ ReturnFromBody
  PROVE  Quiet
<1>1. /\ UNCHANGED <<heapVars, stack, scope, status>> /\ Running /\ frames # <<>>
      /\ frames' \in {Pop(frames), Append(Pop(frames),
           [Top(frames) EXCEPT !.phase = "cond", !.done = FALSE])}
  BY DEF ReturnFromCall, ReturnFromBody, Returns, Leave, Resume
<1>2. [Top(frames) EXCEPT !.phase = "cond", !.done = FALSE] \in Frame
  BY <1>1, FrameFacts DEF Frame, Phases
<1>3. frames' \in Seq(Frame)
  BY <1>1, <1>2, FrameFacts
<1>4. Covers(roots, stack) /\ roots' = roots /\ stack' = stack
  BY <1>1, RunningCovers DEF heapVars
<1> QED BY <1>1, <1>3, <1>4 DEF Quiet, SameSurplus, heapVars

\* The loop's condition is unrooted when it is tested.
LEMMA ReturnFromCondQuiet ==
  ASSUME IInv, ReturnFromCond
  PROVE  Ended \/ Quiet
<1> DEFINE v == Top(stack)
           f == Top(frames)
           Bad == ~Has(1) \/ ~HasTruth(v) \/ (Truthy(v) /\ f.body.data = Wild)
<1>1. CASE Bad
  BY <1>1, EndedTwice DEF ReturnFromCond
<1>2. CASE ~Bad
  <2>1. /\ stack' = Pop(stack) /\ roots' = Unroot(roots, v)
        /\ frames' \in {Pop(frames), Append(Pop(frames),
                          [f EXCEPT !.phase = "body", !.done = FALSE])}
        /\ UNCHANGED <<head, allocations, cells, scope, status>>
        /\ Running /\ frames # <<>> /\ Has(1)
    <3>1. Running /\ frames # <<>> /\ Has(1)
      BY <1>2 DEF ReturnFromCond, Returns
    <3>2. /\ stack' = Pop(stack) /\ roots' = Unroot(roots, v)
          /\ UNCHANGED <<head, allocations, cells, scope, status>>
          /\ IF Truthy(v)
             THEN Resume([f EXCEPT !.phase = "body", !.done = FALSE]) ELSE Leave
      BY <1>2 DEF ReturnFromCond
    <3>3. frames' \in {Pop(frames), Append(Pop(frames),
                          [f EXCEPT !.phase = "body", !.done = FALSE])}
      BY <3>2 DEF Leave, Resume
    <3> QED BY <3>1, <3>2, <3>3
  <2>2. Covers(roots', stack') /\ SameSurplus(roots, stack, roots', stack')
    BY <2>1, RunningCovers, HasLen, PopRoot
  <2>3. [f EXCEPT !.phase = "body", !.done = FALSE] \in Frame
    BY <2>1, FrameFacts DEF Frame, Phases
  <2>4. frames' \in Seq(Frame)
    BY <2>1, <2>3, FrameFacts
  <2> QED BY <2>1, <2>2, <2>4, PoppedQuiet
<1> QED BY <1>1, <1>2

-----------------------------------------------------------------------------
(* What the kinds of steps do to the invariant.                            *)

\* Every address keeps the difference between its root entries and the
\* operands and variables that refer to it.
Balanced == \A x \in Addr : roots'[x] - Held(x)' = roots[x] - Held(x)

\* The empty heap that a finished process leaves is a well-typed heap.
LEMMA EmptyHeap ==
  ASSUME NEW h, h = [x \in Addr |-> Freed]
  PROVE  /\ \A x \in Addr : IsCell(h[x])
         /\ Cardinality({x \in Addr : h[x] # Freed}) = 0
<1>1. IsCell(Freed)
  BY NewTableIsTable DEF IsCell, Freed
<1>2. {x \in Addr : h[x] # Freed} = {}
  OBVIOUS
<1> QED BY <1>1, <1>2, FS_EmptySet

\* Every name of a fresh scope reads as NIL.
LEMMA NoVariablesTyped == NoVariables \in [Strings -> Value]
BY NilIsValue DEF NoVariables

\* A process that ends leaves the invariant.
LEMMA EndedInv ==
  ASSUME Ended
  PROVE  IInv' /\ status' # "running"
<1>1. PICK how \in {"aborted", "undefined"} : End(how)
  BY DEF Ended
<1>2. /\ status' \in {"aborted", "undefined"} /\ stack' = <<>> /\ frames' = <<>>
      /\ scope' = NoVariables /\ head' = Null /\ allocations' = 0
      /\ roots' = [x \in Addr |-> 0] /\ cells' = [x \in Addr |-> Freed]
  BY <1>1 DEF End
<1>3. /\ \A x \in Addr : IsCell(cells'[x])
      /\ Cardinality({x \in Addr : cells'[x] # Freed}) = 0
  BY <1>2, EmptyHeap
<1>4. HeapTypeOK'
  BY <1>2, <1>3 DEF HeapTypeOK
<1>5. TypeOK'
  BY <1>2, <1>4, NoVariablesTyped DEF TypeOK
<1>6. AllocationsExact'
  BY <1>2, <1>3 DEF AllocationsExact, Live
<1> QED BY <1>2, <1>5, <1>6 DEF IInv, RootsCover

\* A step that keeps the surplus of the operands and leaves the variables
\* alone is balanced, and keeps the invariant.
LEMMA QuietInv ==
  ASSUME IInv, Running, Quiet
  PROVE  IInv' /\ Balanced /\ UNCHANGED cells
<1>1. /\ roots' \in [Addr -> Nat] /\ stack' \in Seq(Value)
      /\ frames' \in Seq(Frame)
      /\ head' = head /\ allocations' = allocations /\ cells' = cells
      /\ scope' = scope /\ status' = status
  BY DEF Quiet, Covers
<1>2. TypeOK'
  BY <1>1 DEF IInv, TypeOK, HeapTypeOK
<1>3. AllocationsExact'
  BY <1>1 DEF IInv, AllocationsExact, Live
<1>4. ASSUME NEW x \in Addr
      PROVE  roots'[x] - Held(x)' = roots[x] - Held(x) /\ roots'[x] >= Held(x)'
  <2>1. roots'[x] - Refs(stack', x) = roots[x] - Refs(stack, x)
    BY DEF Quiet, SameSurplus
  <2>2. /\ Refs(stack', x) \in Nat /\ Refs(stack, x) \in Nat
        /\ ScopeRefs(scope, x) \in Nat
        /\ roots'[x] \in Nat /\ roots[x] \in Nat
    BY <1>1, RefsNat, ScopeRefsNat DEF IInv, TypeOK, HeapTypeOK
  <2>3. /\ Held(x) = Refs(stack, x) + ScopeRefs(scope, x)
        /\ Held(x)' = Refs(stack', x) + ScopeRefs(scope, x)
    BY <1>1 DEF Held
  <2>4. roots[x] >= Held(x)
    BY DEF IInv, Running, RootsCover
  <2> QED BY <2>1, <2>2, <2>3, <2>4
<1>5. RootsCover' /\ Balanced
  BY <1>4 DEF RootsCover, Balanced
<1> QED BY <1>1, <1>2, <1>3, <1>5 DEF IInv
-----------------------------------------------------------------------------
(* The steps that touch the heap, the variables or the surplus.            *)

\* No operand's or variable's object is freed.
Survive == \A x \in Live : Held(x) > 0 => cells'[x] # Freed

StepOK ==
  /\ IInv'
  /\ status' = "running" /\ ~Drop => Balanced
  /\ status' = "running" => Survive

\* A process that ends keeps what the theorems say.
LEMMA EndedOK ==
  ASSUME Ended
  PROVE  StepOK
BY EndedInv DEF StepOK

\* A quiet step keeps what the theorems say.
LEMMA QuietOK ==
  ASSUME IInv, Running, Quiet
  PROVE  StepOK
BY QuietInv DEF StepOK, Survive, Live

\* A dropped operand leaves its roots behind, which cover what is left.
LEMMA DropOK ==
  ASSUME IInv, Drop
  PROVE  StepOK
<1>1. CASE ~Has(1)
  BY <1>1, EndedTwice, EndedOK DEF Drop
<1>2. CASE Has(1)
  <2>1. /\ stack' = Pop(stack) /\ Running
        /\ UNCHANGED <<head, allocations, roots, cells, scope, frames, status>>
    BY <1>2 DEF Drop, InLambda, heapVars
  <2>2. stack \in Seq(Value) /\ Len(stack) >= 1
    BY <1>2, HasLen DEF IInv, TypeOK
  <2>3. /\ Pop(stack) \in Seq(Value)
        /\ \A x : Refs(stack, x) = Refs(Pop(stack), x) + Owns(Top(stack), x)
    BY <2>2, PopFacts
  <2>4. TypeOK' /\ AllocationsExact'
    BY <2>1, <2>3 DEF IInv, TypeOK, HeapTypeOK, AllocationsExact, Live
  <2>5. ASSUME NEW x \in Addr
        PROVE  roots'[x] >= Held(x)'
    <3>1. Held(x) = Refs(stack, x) + ScopeRefs(scope, x)
          /\ Held(x)' = Refs(Pop(stack), x) + ScopeRefs(scope, x)
      BY <2>1 DEF Held
    <3>2. /\ Refs(Pop(stack), x) \in Nat /\ ScopeRefs(scope, x) \in Nat
          /\ Owns(Top(stack), x) \in Nat /\ roots[x] \in Nat
      BY <2>3, RefsNat, ScopeRefsNat DEF Owns, IInv, TypeOK, HeapTypeOK
    <3>3. roots[x] >= Held(x) /\ roots'[x] = roots[x]
      BY <2>1 DEF IInv, Running, RootsCover
    <3> QED BY <2>3, <3>1, <3>2, <3>3
  <2>6. RootsCover'
    BY <2>5 DEF RootsCover
  <2>7. Survive
    BY <2>1 DEF Survive, Live
  <2> QED BY <1>2, <2>4, <2>6, <2>7 DEF StepOK, IInv
<1> QED BY <1>1, <1>2

\* What a variable refers to is covered beside what the operands refer to, so
\* unrooting its old value finds the entry.
LEMMA StoreOK ==
  ASSUME IInv, Store
  PROVE  StepOK
<1> DEFINE key == Top(stack)
           value == Second(stack)
           old == scope[key.data]
           popped == Unroot(Unroot(roots, key), value)
           t == Pop(Pop(stack))
           new == [scope EXCEPT ![key.data] = value]
           Bad == ~Has(2) \/ key.type # "REFERENCE" \/ key.data = Wild
<1>1. CASE Bad
  BY <1>1, EndedTwice, EndedOK DEF Store
<1>2. CASE ~Bad
  <2>1. /\ stack' = t /\ roots' = Root(Unroot(popped, old), value)
        /\ scope' = new
        /\ UNCHANGED <<head, allocations, cells, frames, status>>
        /\ Running /\ Has(2)
    BY <1>2 DEF Store, InLambda
  <2>2. /\ Covers(popped, t) /\ SameSurplus(roots, stack, popped, t)
        /\ key \in Value /\ value \in Value
    BY <2>1, RunningCovers, HasLen, PopTwo
  <2>3. key.data \in Strings
    BY <1>2, <2>2 DEF Value, Fits
  <2>4. old \in Value /\ scope \in [Strings -> Value] /\ new \in [Strings -> Value]
    BY <2>2, <2>3 DEF IInv, TypeOK
  <2>5. \A x : ScopeRefs(new, x) + Owns(old, x) = ScopeRefs(scope, x) + Owns(value, x)
    BY <2>2, <2>3, <2>4, AssignFacts
  <2> DEFINE cleared == [scope EXCEPT ![key.data] = NilV]
  <2>6. ASSUME NEW x \in Addr
        PROVE  ScopeRefs(cleared, x) + Owns(old, x) = ScopeRefs(scope, x)
    <3>1. \A y : ScopeRefs(cleared, y) + Owns(old, y) = ScopeRefs(scope, y) + Owns(NilV, y)
      BY <2>3, <2>4, NilIsValue, AssignFacts
    <3>2. Owns(NilV, x) = 0
      BY NilIsValue, AddrAssumption DEF Owns
    <3> HIDE DEF cleared, old
    <3>3. ScopeRefs(scope, x) \in Nat
      BY ScopeRefsNat
    <3> QED BY <3>1, <3>2, <3>3
  <2>7. \A x : Owns(old, x) \in Nat /\ Owns(value, x) \in Nat
    BY DEF Owns
  <2> HIDE DEF key, value, old, popped, t, new, cleared
  <2> DEFINE less == Unroot(popped, old)
  <2>8. /\ less \in [Addr -> Nat]
        /\ \A x \in Addr : less[x] = IF popped[x] >= Owns(old, x)
                                     THEN popped[x] - Owns(old, x) ELSE 0
    BY <2>2, <2>4, UnrootRemoves DEF Covers
  <2>9. /\ roots' \in [Addr -> Nat]
        /\ \A x \in Addr : roots'[x] = less[x] + Owns(value, x)
    BY <2>1, <2>2, <2>8, RootAdds
  <2> HIDE DEF less
  <2>10. ASSUME NEW x \in Addr
         PROVE  roots'[x] - Held(x)' = roots[x] - Held(x) /\ roots'[x] >= Held(x)'
    <3>1. popped[x] - Refs(t, x) = roots[x] - Refs(stack, x)
      BY <2>2 DEF SameSurplus
    <3>2. /\ Held(x) = Refs(stack, x) + ScopeRefs(scope, x)
          /\ Held(x)' = Refs(t, x) + ScopeRefs(new, x)
      BY <2>1 DEF Held
    <3>3. /\ Refs(t, x) \in Nat /\ Refs(stack, x) \in Nat
          /\ ScopeRefs(scope, x) \in Nat /\ ScopeRefs(new, x) \in Nat
          /\ ScopeRefs(cleared, x) \in Nat
          /\ popped[x] \in Nat /\ roots[x] \in Nat
          /\ Owns(old, x) \in Nat /\ Owns(value, x) \in Nat
      BY <2>2, <2>7, RefsNat, ScopeRefsNat DEF Covers, IInv, TypeOK, HeapTypeOK
    <3>4. roots[x] >= Held(x)
      BY <2>1 DEF IInv, Running, RootsCover
    <3>5. popped[x] >= Owns(old, x)
      BY <2>6, <3>1, <3>2, <3>3, <3>4
    <3>6. roots'[x] = popped[x] - Owns(old, x) + Owns(value, x)
      BY <2>8, <2>9, <3>5
    <3>7. ScopeRefs(new, x) + Owns(old, x) = ScopeRefs(scope, x) + Owns(value, x)
      BY <2>5
    <3> QED BY <3>1, <3>2, <3>3, <3>4, <3>6, <3>7
  <2>11. t \in Seq(Value)
    BY <2>2 DEF Covers
  <2>12. TypeOK' /\ AllocationsExact'
    BY <2>1, <2>4, <2>9, <2>11
       DEF IInv, TypeOK, HeapTypeOK, AllocationsExact, Live
  <2>13. RootsCover' /\ Balanced
    BY <2>10 DEF RootsCover, Balanced
  <2>14. Survive
    BY <2>1 DEF Survive, Live
  <2> QED BY <2>12, <2>13, <2>14 DEF StepOK, IInv
<1> QED BY <1>1, <1>2
\* An allocation pushes a rooted object; the collection before it frees no
\* object with a root, and every object that is held has one.
LEMMA NewObjOK ==
  ASSUME IInv, NEW x \in Addr, NewObj(x)
  PROVE  StepOK
<1>1. CASE AllocCollects /\ CollectTouchesFreed
  BY <1>1, EndedTwice, EndedOK DEF NewObj
<1>2. CASE AllocCollects => ~CollectTouchesFreed
  <2>1. /\ AllocAt(x)
        /\ stack' = Append(stack, Object(x)) /\ roots' = Root(roots, Object(x))
        /\ UNCHANGED <<scope, frames, status>> /\ Running
    BY <1>2 DEF NewObj, InLambda
  <2>2. Object(x) \in Value
    BY DEF Object, Value, Fits, Types, Data
  <2>3. /\ Covers(roots', stack') /\ SameSurplus(roots, stack, roots', stack')
    BY <2>1, <2>2, RunningCovers, PushRoot
  <2>4. /\ roots' \in [Addr -> Nat] /\ stack' \in Seq(Value)
        /\ HeapTypeOK /\ AllocationsExact
    BY <2>3 DEF Covers, IInv, TypeOK
  <2>5. /\ HeapTypeOK' /\ AllocationsExact'
        /\ \A y \in Live : y \in Marked \/ ~AllocCollects => cells'[y] # Freed
    BY <1>2, <2>1, <2>4, AllocHeap
  <2>6. TypeOK'
    BY <2>1, <2>4, <2>5 DEF IInv, TypeOK
  <2>7. ASSUME NEW y \in Addr
        PROVE  /\ roots'[y] - Held(y)' = roots[y] - Held(y) /\ roots'[y] >= Held(y)'
               /\ Held(y) > 0 => y \in Rooted
    <3>1. roots'[y] - Refs(stack', y) = roots[y] - Refs(stack, y)
      BY <2>3 DEF SameSurplus
    <3>2. /\ Refs(stack', y) \in Nat /\ Refs(stack, y) \in Nat
          /\ ScopeRefs(scope, y) \in Nat
          /\ roots'[y] \in Nat /\ roots[y] \in Nat
      BY <2>4, RefsNat, ScopeRefsNat DEF IInv, TypeOK, HeapTypeOK
    <3>3. /\ Held(y) = Refs(stack, y) + ScopeRefs(scope, y)
          /\ Held(y)' = Refs(stack', y) + ScopeRefs(scope, y)
      BY <2>1 DEF Held
    <3>4. roots[y] >= Held(y)
      BY <2>1 DEF IInv, Running, RootsCover
    <3>5. Held(y) > 0 => roots[y] > 0
      BY <3>2, <3>3, <3>4
    <3> QED BY <3>1, <3>2, <3>3, <3>4, <3>5 DEF Rooted
  <2>8. RootsCover' /\ Balanced
    BY <2>7 DEF RootsCover, Balanced
  <2>9. Survive
    BY <2>5, <2>7, RootedAreMarked DEF Survive, Live
  <2> QED BY <2>5, <2>6, <2>8, <2>9 DEF StepOK, IInv
<1> QED BY <1>1, <1>2

\* Setting a property rewrites one table and frees nothing.
LEMMA SetPropOK ==
  ASSUME IInv, SetProp
  PROVE  StepOK
<1> DEFINE value == Top(stack)
           key == Second(stack)
           object == Third(stack)
           t == Pop(Pop(Pop(stack)))
           q == Unroot(Unroot(Unroot(roots, value), key), object)
           Bad == \/ ~Has(3) \/ object.type # "OBJECT"
                  \/ Dangling(object) \/ WildKey(key) \/ ~Hashable(key)
<1>1. CASE Bad
  BY <1>1, EndedTwice, EndedOK DEF SetProp
<1>2. CASE ~Bad
  <2>1. /\ cells' = [cells EXCEPT ![object.a].table = T!Put(@, key, value)]
        /\ stack' = t /\ roots' = q
        /\ UNCHANGED <<head, allocations, scope, frames, status>>
        /\ Running /\ Has(3)
    BY <1>2 DEF SetProp, InLambda
  <2>2. /\ Covers(q, t) /\ SameSurplus(roots, stack, q, t)
        /\ value \in Value /\ key \in Value /\ object \in Value
    BY <2>1, RunningCovers, HasLen, PopThree
  <2>3. object.a \in Addr /\ cells[object.a] # Freed
    BY <1>2, <2>2 DEF Dangling, Value
  <2> HIDE DEF value, key, object, t, q
  <2> DEFINE a == object.a
             c == [cells[a] EXCEPT !.table = T!Put(@, key, value)]
  <2>4. /\ cells = [y \in Addr |-> cells[y]] /\ \A y \in Addr : IsCell(cells[y])
        /\ roots' \in [Addr -> Nat] /\ stack' \in Seq(Value)
    BY <2>1, <2>2 DEF IInv, TypeOK, HeapTypeOK, Covers
  <2>5. cells' = [y \in Addr |-> IF y = a THEN c ELSE cells[y]]
    BY <2>1, <2>3, <2>4
  <2>6. cells[a].next \in Addr \cup {Null}
    BY <2>3, <2>4 DEF IsCell
  <2>7. IsTable(T!Put(cells[a].table, key, value))
    BY <2>2, <2>3, <2>4, PutIsTable DEF IsCell
  <2>8. c = [next |-> cells[a].next, table |-> T!Put(cells[a].table, key, value)]
    <3>1. cells[a] = [next |-> cells[a].next, table |-> cells[a].table]
      BY <2>3, <2>4 DEF IsCell
    <3> QED BY <3>1
  <2>9. c.next = cells[a].next /\ c.table = T!Put(cells[a].table, key, value)
    BY <2>8
  <2> HIDE DEF c
  <2>10. IsCell(c)
    BY <2>6, <2>7, <2>8, <2>9 DEF IsCell
  <2>11. c # Freed
    BY <2>6, <2>9, LiveLinks DEF IInv, TypeOK
  <2>12. HeapTypeOK'
    BY <2>1, <2>4, <2>5, <2>10 DEF HeapTypeOK, IInv, TypeOK
  <2>13. {y \in Addr : cells'[y] # Freed} = Live
    BY <2>3, <2>5, <2>11 DEF Live
  <2>14. TypeOK' /\ AllocationsExact'
    BY <2>1, <2>4, <2>12, <2>13 DEF IInv, TypeOK, AllocationsExact, Live
  <2>15. ASSUME NEW x \in Addr
         PROVE  roots'[x] - Held(x)' = roots[x] - Held(x) /\ roots'[x] >= Held(x)'
    <3>1. roots'[x] - Refs(stack', x) = roots[x] - Refs(stack, x)
      BY <2>1, <2>2 DEF SameSurplus
    <3>2. /\ Refs(stack', x) \in Nat /\ Refs(stack, x) \in Nat
          /\ ScopeRefs(scope, x) \in Nat
          /\ roots'[x] \in Nat /\ roots[x] \in Nat
      BY <2>4, RefsNat, ScopeRefsNat DEF IInv, TypeOK, HeapTypeOK
    <3>3. /\ Held(x) = Refs(stack, x) + ScopeRefs(scope, x)
          /\ Held(x)' = Refs(stack', x) + ScopeRefs(scope, x)
      BY <2>1 DEF Held
    <3>4. roots[x] >= Held(x)
      BY <2>1 DEF IInv, Running, RootsCover
    <3> QED BY <3>1, <3>2, <3>3, <3>4
  <2>16. RootsCover' /\ Balanced
    BY <2>15 DEF RootsCover, Balanced
  <2>17. Survive
    BY <2>13 DEF Survive
  <2> QED BY <2>14, <2>16, <2>17 DEF StepOK, IInv
<1> QED BY <1>1, <1>2

\* The end of main: the process is no longer running, the heap stays exact.
LEMMA UnrootAllOK ==
  ASSUME IInv, UnrootAll
  PROVE  StepOK
<1> DEFINE held(x) == Refs(stack, x) + ScopeRefs(scope, x)
<1>1. /\ roots' = [x \in Addr |->
                     IF roots[x] > held(x) THEN roots[x] - held(x) ELSE 0]
      /\ stack' = <<>> /\ status' = "exited"
      /\ UNCHANGED <<head, allocations, cells, scope, frames>>
  BY DEF UnrootAll
<1>2. ASSUME NEW x \in Addr
      PROVE  held(x) \in Nat /\ roots[x] \in Nat
  BY RefsNat, ScopeRefsNat DEF IInv, TypeOK, HeapTypeOK
<1> HIDE DEF held
<1>3. roots' \in [Addr -> Nat]
  BY <1>1, <1>2
<1>4. TypeOK' /\ AllocationsExact'
  BY <1>1, <1>3 DEF IInv, TypeOK, HeapTypeOK, AllocationsExact, Live
<1> QED BY <1>1, <1>4 DEF StepOK, IInv, RootsCover

\* The last collection keeps the count exact.
LEMMA FinalCollectOK ==
  ASSUME IInv, FinalCollect
  PROVE  StepOK
<1>1. CASE CollectTouchesFreed
  BY <1>1, EndedTwice, EndedOK DEF FinalCollect
<1>2. CASE ~CollectTouchesFreed
  <2>1. /\ head' = Collected.head /\ cells' = Collected.cells
        /\ allocations' = Collected.allocations /\ status' = "collected"
        /\ UNCHANGED <<roots, stack, scope, frames>>
    BY <1>2 DEF FinalCollect
  <2>2. HeapTypeOK /\ AllocationsExact
    BY DEF IInv, TypeOK
  <2>3. /\ head' \in Addr \cup {Null} /\ cells' = [x \in Addr |-> cells'[x]]
        /\ \A x \in Addr : IsCell(cells'[x])
        /\ {x \in Addr : cells'[x] # Freed} = Live \ Swept
    BY <1>2, <2>1, <2>2, CollectedHeap
  <2>4. allocations' \in Nat /\ allocations' = Cardinality(Live \ Swept)
    BY <1>2, <2>1, <2>2, CollectedCount
  <2>5. HeapTypeOK' /\ AllocationsExact'
    BY <2>1, <2>2, <2>3, <2>4 DEF HeapTypeOK, AllocationsExact, Live
  <2>6. TypeOK'
    BY <2>1, <2>5 DEF IInv, TypeOK
  <2> QED BY <2>1, <2>5, <2>6 DEF StepOK, IInv, RootsCover
<1> QED BY <1>1, <1>2
-----------------------------------------------------------------------------
(* The theorems.                                                           *)

\* The program starts with nothing on the stack, nothing rooted and nothing
\* allocated.
LEMMA InitOK ==
  ASSUME Init
  PROVE  IInv
<1>1. /\ head = Null /\ allocations = 0 /\ roots = [x \in Addr |-> 0]
      /\ cells = [x \in Addr |-> Freed] /\ stack = <<>> /\ frames = <<>>
      /\ scope = [s \in Strings |-> IF s \in NativeNames THEN NativeV ELSE NilV]
      /\ status = "running"
  BY DEF Init, HeapInit
<1>2. NativeV \in Value /\ NativeV.a = Null
  BY SimpleIsValue DEF NativeV
<1>3. /\ \A x \in Addr : IsCell(cells[x])
      /\ Cardinality({x \in Addr : cells[x] # Freed}) = 0
  BY <1>1, EmptyHeap
<1>4. HeapTypeOK
  BY <1>1, <1>3 DEF HeapTypeOK
<1>5. TypeOK
  BY <1>1, <1>2, <1>4, NilIsValue DEF TypeOK
<1>6. AllocationsExact
  BY <1>1, <1>3 DEF AllocationsExact, Live
<1>7. ASSUME NEW x \in Addr
      PROVE  roots[x] >= Held(x)
  <2>1. Refs(stack, x) = 0
    <3>1. {i \in 1 .. Len(stack) : stack[i].a = x} = {}
      BY <1>1
    <3> QED BY <3>1, FS_EmptySet DEF Refs
  <2>2. ScopeRefs(scope, x) = 0
    <3>1. {s \in Strings : scope[s].a = x} = {}
      BY <1>1, <1>2, NilIsValue, AddrAssumption
    <3> QED BY <3>1, FS_EmptySet DEF ScopeRefs
  <2> QED BY <1>1, <2>1, <2>2 DEF Held
<1> QED BY <1>5, <1>6, <1>7 DEF IInv, RootsCover

\* Every handler, and each end of the process, keeps the invariant.
LEMMA NextOK ==
  ASSUME IInv, Next
  PROVE  StepOK
<1>1. CASE StackOps
  <2>1. CASE \E v \in Constants : PushConstant(v)
    <3>1. Running
      BY <2>1 DEF PushConstant, InLambda
    <3> QED BY <2>1, <3>1, PushConstantQuiet, QuietOK
  <2>2. CASE Dup
    BY <2>2, DupQuiet, EndedOK, QuietOK DEF Dup, InLambda
  <2>3. CASE Drop
    BY <2>3, DropOK
  <2>4. CASE Swap
    BY <2>4, SwapQuiet, EndedOK, QuietOK DEF Swap, InLambda
  <2>5. CASE Rot
    BY <2>5, RotQuiet, EndedOK, QuietOK DEF Rot, InLambda
  <2> QED BY <1>1, <2>1, <2>2, <2>3, <2>4, <2>5 DEF StackOps
<1>2. CASE OperatorOps
  <2>1. CASE \E op \in BinaryOps : Binary(op)
    <3>1. PICK op \in BinaryOps : Binary(op)
      BY <2>1
    <3>2. Running /\ (Ended \/ Quiet)
      BY <3>1, BinaryQuiet DEF Binary, InLambda
    <3> QED BY <3>2, EndedOK, QuietOK
  <2>2. CASE Not
    BY <2>2, NotQuiet, EndedOK, QuietOK DEF Not, InLambda
  <2>3. CASE Neg
    BY <2>3, NegQuiet, EndedOK, QuietOK DEF Neg, InLambda
  <2> QED BY <1>2, <2>1, <2>2, <2>3 DEF OperatorOps
<1>3. CASE ObjectOps
  <2>1. CASE \E x \in Addr : NewObj(x)
    BY <2>1, NewObjOK
  <2>2. CASE GetProp
    BY <2>2, GetPropQuiet, EndedOK, QuietOK DEF GetProp, InLambda
  <2>3. CASE SetProp
    BY <2>3, SetPropOK
  <2> QED BY <1>3, <2>1, <2>2, <2>3 DEF ObjectOps
<1>4. CASE VariableOps
  <2>1. CASE Load
    BY <2>1, LoadQuiet, EndedOK, QuietOK DEF Load, InLambda
  <2>2. CASE Store
    BY <2>2, StoreOK
  <2> QED BY <1>4, <2>1, <2>2 DEF VariableOps
<1>5. CASE CallOps
  <2>1. CASE Exec
    BY <2>1, ExecQuiet, EndedOK, QuietOK DEF Exec, InLambda
  <2>2. CASE CondExec
    BY <2>2, CondExecQuiet, EndedOK, QuietOK DEF CondExec, InLambda
  <2>3. CASE While
    BY <2>3, WhileQuiet, EndedOK, QuietOK DEF While, InLambda
  <2>4. CASE BranchIf
    BY <2>4, BranchIfQuiet, EndedOK, QuietOK DEF BranchIf, InLambda
  <2>5. CASE StdPrint
    BY <2>5, StdPrintQuiet, EndedOK, QuietOK DEF StdPrint
  <2>6. CASE ReturnFromCall \/ ReturnFromBody
    BY <2>6, ReturnQuiet, QuietOK DEF ReturnFromCall, ReturnFromBody, Returns
  <2>7. CASE ReturnFromCond
    BY <2>7, ReturnFromCondQuiet, EndedOK, QuietOK DEF ReturnFromCond, Returns
  <2> QED BY <1>5, <2>1, <2>2, <2>3, <2>4, <2>5, <2>6, <2>7 DEF CallOps
<1>6. CASE EndOfMain
  BY <1>6, UnrootAllOK, FinalCollectOK DEF EndOfMain
<1> QED BY <1>1, <1>2, <1>3, <1>4, <1>5, <1>6 DEF Next

\* A step that changes nothing keeps what the theorems say.
LEMMA StutterOK ==
  ASSUME IInv, UNCHANGED vars
  PROVE  StepOK
<1>1. /\ UNCHANGED <<head, allocations, roots, cells, stack, scope, frames, status>>
  BY DEF vars, heapVars
<1>2. TypeOK' /\ AllocationsExact'
  BY <1>1 DEF IInv, TypeOK, HeapTypeOK, AllocationsExact, Live
<1>3. \A x \in Addr : Held(x)' = Held(x) /\ roots'[x] = roots[x]
  BY <1>1 DEF Held
<1>4. RootsCover'
  BY <1>1, <1>3 DEF IInv, RootsCover
<1> QED BY <1>1, <1>2, <1>3, <1>4 DEF StepOK, IInv, Balanced, Survive, Live

\* The inductive invariant holds in every reachable state of every program.
THEOREM InvariantHolds == Spec => []IInv
<1>1. IInv /\ [Next]_vars => IInv'
  BY NextOK, StutterOK DEF StepOK
<1> QED BY InitOK, <1>1, PTL DEF Spec

\* Every stack slot, variable, property slot, root count and frame holds a
\* value of its type (struct Value and its users in runtime.h).
THEOREM TypeCorrect == Spec => []TypeOK
<1>1. IInv => TypeOK
  BY DEF IInv
<1> QED BY InvariantHolds, <1>1, PTL

\* Heap::allocations, which main asserts to be 0 at the end and alloc compares
\* with the threshold, is always the number of allocations malloc owns.
THEOREM AllocationsCounted == Spec => []AllocationsExact
<1>1. IInv => AllocationsExact
  BY DEF IInv
<1> QED BY InvariantHolds, <1>1, PTL

\* Whatever the program does, mark_root has been called at least as often on
\* an object, without a matching unmark_root, as operands and variables refer
\* to it: every unmark_root of the runtime finds its entry.
THEOREM RootsAlwaysCover == Spec => []RootsCover
<1>1. IInv => RootsCover
  BY DEF IInv
<1> QED BY InvariantHolds, <1>1, PTL

\* Every handler except Stack::drop leaves, for every object, the difference
\* between its root entries and the references to it as it was: drop is the
\* only source of the roots left over at the end of main.
THEOREM OnlyDropUnbalances == Spec => RootsBalanced
<1>1. IInv /\ [Next]_vars =>
        [status' = "running" /\ ~Drop
           => \A x \in Addr : roots'[x] - Held(x)' = roots[x] - Held(x)]_vars
  BY NextOK DEF StepOK, Balanced
<1> QED BY InvariantHolds, <1>1, PTL DEF Spec, RootsBalanced

\* No collection, whatever earlier ones left of the list and whatever mark
\* missed, frees an object that an operand or a variable refers to.
THEOREM HeldObjectsSurvive == Spec => HeldSurvive
<1>1. IInv /\ [Next]_vars =>
        [status' = "running"
           => \A x \in Live : Held(x) > 0 => cells'[x] # Freed]_vars
  BY NextOK DEF StepOK, Survive
<1> QED BY InvariantHolds, <1>1, PTL DEF Spec, HeldSurvive

-----------------------------------------------------------------------------
(* The list of allocations.                                                *)

\* Only allocating, setting a property, the last collection and the end of
\* the process touch the list or the memory behind it.
LEMMA HeapTouched ==
  ASSUME Next
  PROVE  \/ head' = head /\ cells' = cells
         \/ (\E x \in Addr : NewObj(x)) \/ SetProp \/ FinalCollect \/ Ended
<1> USE EndedTwice
<1>1. StackOps => (head' = head /\ cells' = cells) \/ Ended
  BY DEF StackOps, PushConstant, Dup, Drop, Swap, Rot, heapVars
<1>2. OperatorOps => (head' = head /\ cells' = cells) \/ Ended
  BY DEF OperatorOps, Binary, Not, Neg, heapVars
<1>3. GetProp \/ VariableOps => (head' = head /\ cells' = cells) \/ Ended
  BY DEF GetProp, VariableOps, Load, Store
<1>4. CallOps => (head' = head /\ cells' = cells) \/ Ended
  <2>1. Exec \/ CondExec \/ While => (head' = head /\ cells' = cells) \/ Ended
    BY DEF Exec, CondExec, While
  <2>2. BranchIf \/ StdPrint => (head' = head /\ cells' = cells) \/ Ended
    BY DEF BranchIf, StdPrint
  <2>3. ReturnFromCall \/ ReturnFromCond \/ ReturnFromBody
          => (head' = head /\ cells' = cells) \/ Ended
    BY DEF ReturnFromCall, ReturnFromCond, ReturnFromBody, heapVars
  <2> QED BY <2>1, <2>2, <2>3 DEF CallOps
<1>5. UnrootAll => head' = head /\ cells' = cells
  BY DEF UnrootAll
<1> QED BY <1>1, <1>2, <1>3, <1>4, <1>5 DEF Next, ObjectOps, EndOfMain

\* When the process ends the heap is forgotten: it is empty.
LEMMA EndedList ==
  ASSUME Ended
  PROVE  Linked' /\ status' \notin {"running", "exited", "collected"}
<1>1. head' = Null /\ cells' = [x \in Addr |-> Freed]
  BY DEF Ended, End
<1>2. Live' = {}
  BY <1>1 DEF Live
<1>3. (head = Null /\ Live = {} => Linked)'
  BY EmptyList, PTL
<1> QED BY <1>1, <1>2, <1>3 DEF Ended, End

\* A property is set in an object at an address, with values.
LEMMA PutOperands ==
  ASSUME SetProp, ~Ended, stack \in Seq(Value)
  PROVE  /\ Third(stack).a \in Addr
         /\ Second(stack) \in Value /\ Top(stack) \in Value
<1>1. Has(3) /\ ~Dangling(Third(stack))
  BY EndedTwice DEF SetProp
<1>2. Len(stack) \in Nat /\ Len(stack) >= 3
  BY <1>1, LenProperties DEF Has
<1>3. /\ Top(stack) \in Value
      /\ Pop(stack) \in Seq(Value) /\ Len(Pop(stack)) = Len(stack) - 1
  BY <1>2, PopFacts
<1>4. /\ Second(stack) \in Value
      /\ Pop(Pop(stack)) \in Seq(Value) /\ Len(Pop(Pop(stack))) >= 1
  BY <1>2, <1>3, PopFacts DEF Second
<1>5. Third(stack) \in Value
  BY <1>4, PopFacts DEF Third
<1> QED BY <1>1, <1>3, <1>4, <1>5 DEF Dangling, Value

\* A property's value is put into a table; the links stay.
LEMMA SetPropList ==
  ASSUME HeapTypeOK, ListInv, SetProp, ~Ended, stack \in Seq(Value)
  PROVE  ListInv' /\ (Linked => Linked') /\ <<head, Links>>' = <<head, Links>>
<1> DEFINE a == Third(stack).a
           put == T!Put(cells[a].table, Second(stack), Top(stack))
<1>1. /\ cells' = [cells EXCEPT
                     ![a].table = T!Put(@, Second(stack), Top(stack))]
      /\ head' = head /\ ~Dangling(Third(stack)) /\ Has(3)
  BY EndedTwice DEF SetProp
<1>2. a \in Addr /\ cells[a] # Freed
  BY <1>1, PutOperands DEF Dangling
<1>3. /\ cells = [y \in Addr |-> cells[y]]
      /\ cells[a] = [next |-> cells[a].next, table |-> cells[a].table]
      /\ cells[a].next \in Addr \cup {Null}
  BY <1>2, LiveLinks DEF HeapTypeOK, IsCell, Live
<1> HIDE DEF a
<1>4. cells'[a] = [next |-> cells[a].next, table |-> put]
  <2>1. cells'[a] = [cells[a] EXCEPT !.table = put]
    BY <1>1, <1>2, <1>3 DEF a
  <2> HIDE DEF put
  <2> QED BY <1>3, <2>1
<1> HIDE DEF put
<1>5. \A y \in Addr \ {a} : cells'[y] = cells[y]
  BY <1>1, <1>3 DEF a
<1>6. cells'[a].next = cells[a].next /\ cells'[a] # Freed
  BY <1>3, <1>4, LiveLinks
<1>7. Live' = Live /\ \A x \in Addr : cells'[x].next = cells[x].next
  BY <1>2, <1>5, <1>6 DEF Live
<1>8. Links' = Links
  BY <1>7 DEF Links
<1> QED BY <1>1, <1>7, <1>8, SameList

\* The last collection leaves a list, or frees two neighbours.
LEMMA FinalCollectList ==
  ASSUME HeapTypeOK, ListInv, FinalCollect, ~Ended
  PROVE  /\ ListInv' /\ Linked /\ Collects
         /\ ~NeighboursSwept => Linked'
<1>1. /\ ~CollectTouchesFreed
      /\ head' = Collected.head /\ cells' = Collected.cells
  BY EndedTwice DEF FinalCollect
<1>2. Linked
  BY <1>1, EndlessList DEF ListInv
<1>3. Live' = Live \ Swept
  BY <1>1, CollectedHeap DEF Live
<1>4. IF NeighboursSwept
      THEN \E R : Loops(R, Live', head', cells')
      ELSE \E rank : Chained(rank, Live', head', cells')
  BY <1>1, <1>2, <1>3, CollectedList
<1> QED BY <1>2, <1>4 DEF ListInv, Linked, Endless, Collects

\* In every step, the list goes on being a list, or going on without end;
\* a step that frees no two neighbours leaves a list where there was one.
LEMMA NextList ==
  ASSUME IInv, ListInv, [Next]_vars
  PROVE  /\ ListInv'
         /\ Linked /\ ~(Collects /\ NeighboursSwept) => Linked'
         /\ ~Linked /\ ~Ended /\ OnList = Live /\ <<head, Links>>' # <<head, Links>>
              => OnList' = Live'
<1>0. HeapTypeOK /\ stack \in Seq(Value)
  BY DEF IInv, TypeOK
<1>1. CASE head' = head /\ cells' = cells
  <2>1. Live' = Live /\ Links' = Links /\ \A x \in Addr : cells'[x].next = cells[x].next
    BY <1>1 DEF Live, Links
  <2> QED BY <1>1, <2>1, SameList
<1>2. CASE Ended
  BY <1>2, EndedList DEF ListInv
<1>3. CASE (\E x \in Addr : NewObj(x)) /\ ~Ended
  <2>1. PICK x \in Addr : NewObj(x)
    BY <1>3
  <2>2. AllocAt(x) /\ (AllocCollects => ~CollectTouchesFreed)
    BY <1>3, <2>1, EndedTwice DEF NewObj
  <2>3. ListInv' /\ (Linked /\ ~(AllocCollects /\ NeighboursSwept) => Linked')
    BY <1>0, <2>2, AllocList
  <2>4. ~Linked => ~AllocCollects
    BY <1>0, <2>2, EndlessList DEF ListInv
  <2>5. ~Linked /\ OnList = Live => OnList' = Live'
    BY <1>0, <2>2, <2>4, AllocOnList
  <2> QED BY <1>3, <2>3, <2>5 DEF Collects
<1>4. CASE SetProp /\ ~Ended
  BY <1>0, <1>4, SetPropList
<1>5. CASE FinalCollect /\ ~Ended
  BY <1>0, <1>5, FinalCollectList
<1>6. UNCHANGED vars => head' = head /\ cells' = cells
  BY DEF vars, heapVars
<1> QED BY <1>1, <1>2, <1>3, <1>4, <1>5, <1>6, HeapTouched

\* At any time the list of allocations passes every allocation once and ends,
\* or it never ends.
THEOREM ListHolds == Spec => [](IInv /\ ListInv)
<1>1. Init => IInv /\ ListInv
  <2>1. Init => head = Null /\ Live = {}
    BY DEF Init, HeapInit, Live
  <2> QED BY <2>1, InitOK, EmptyList DEF ListInv
<1>2. IInv /\ ListInv /\ [Next]_vars => IInv' /\ ListInv'
  BY NextOK, StutterOK, NextList DEF StepOK
<1> QED BY <1>1, <1>2, PTL DEF Spec

\* An allocation is lost from the list by a collection that frees two
\* neighbours and by nothing else, whatever happened to the list before.
THEOREM OnlyNeighboursAreLost == Spec => SweepKeepsList
<1> DEFINE A == <<head, Links>>' # <<head, Links>>
                  /\ status' \in {"running", "collected"}
                  /\ OnList = Live /\ ~(Collects /\ NeighboursSwept)
                    => OnList' = Live'
<1>1. IInv /\ ListInv /\ IInv' /\ ListInv' /\ [Next]_vars => [A]_vars
  <2> SUFFICES ASSUME IInv, IInv', ListInv, ListInv', [Next]_vars,
                      <<head, Links>>' # <<head, Links>>,
                      status' \in {"running", "collected"},
                      OnList = Live, ~(Collects /\ NeighboursSwept)
               PROVE  OnList' = Live'
    BY DEF A
  <2>1. ~Ended
    BY EndedList
  <2>2. CASE Linked
    <3>1. Linked' /\ HeapTypeOK'
      BY <2>2, NextList DEF IInv, TypeOK
    <3>2. (HeapTypeOK /\ Linked => OnList = Live)'
      BY LinkedList, PTL
    <3> QED BY <3>1, <3>2
  <2>3. CASE ~Linked
    BY <2>1, <2>3, NextList
  <2> QED BY <2>2, <2>3
<1> QED BY ListHolds, <1>1, PTL DEF Spec, SweepKeepsList

-----------------------------------------------------------------------------
(* Tables with room.                                                       *)

TablesRoomy == \A x \in Addr : Roomy(cells[x].table)

\* put keeps room in the table it changes; all else is new or as it was.
LEMMA NextRoomy ==
  ASSUME IInv, TablesRoomy, [Next]_vars
  PROVE  TablesRoomy'
<1>0. HeapTypeOK /\ stack \in Seq(Value) /\ cells = [y \in Addr |-> cells[y]]
  BY DEF IInv, TypeOK, HeapTypeOK
<1>1. CASE cells' = cells
  BY <1>1 DEF TablesRoomy
<1>2. CASE Ended
  BY <1>2, NewTableRoomy DEF Ended, End, Freed, TablesRoomy
<1>3. ASSUME NEW x \in Addr, NewObj(x), ~Ended
      PROVE  TablesRoomy'
  <2> DEFINE h == BeforeAlloc
  <2>1. cells' = [h.cells EXCEPT ![x] = [next |-> h.head, table |-> T!NewTable]]
    BY <1>3, EndedTwice DEF NewObj, AllocAt
  <2>2. /\ h.cells = [y \in Addr |-> h.cells[y]]
        /\ \A y \in Addr : h.cells[y].table \in {cells[y].table, T!NewTable}
    <3>1. Collected.cells = [y \in Addr |-> Collected.cells[y]]
      BY DEF Collected, SweptCells
    <3> QED BY <1>0, <3>1, CollectedTables DEF BeforeAlloc, Uncollected
  <2> HIDE DEF h
  <2>3. \A y \in Addr : cells'[y].table \in {cells[y].table, T!NewTable}
    BY <2>1, <2>2
  <2> QED BY <2>3, NewTableRoomy DEF TablesRoomy
<1>4. CASE SetProp /\ ~Ended
  <2> DEFINE a == Third(stack).a
             put == T!Put(cells[a].table, Second(stack), Top(stack))
  <2>1. a \in Addr /\ Second(stack) \in Value /\ Top(stack) \in Value
    BY <1>0, <1>4, PutOperands
  <2>2. cells' = [cells EXCEPT
                    ![a].table = T!Put(@, Second(stack), Top(stack))]
    BY <1>4, EndedTwice DEF SetProp
  <2>3. cells[a] = [next |-> cells[a].next, table |-> cells[a].table]
          /\ IsTable(cells[a].table)
    BY <1>0, <2>1 DEF HeapTypeOK, IsCell
  <2>4. Roomy(put)
    BY <2>1, <2>3, PutRoomy DEF TablesRoomy
  <2>5. cells'[a] = [cells[a] EXCEPT !.table = put]
    BY <1>0, <2>1, <2>2
  <2>6. \A y \in Addr \ {a} : cells'[y] = cells[y]
    BY <1>0, <2>1, <2>2
  <2> HIDE DEF put, a
  <2>7. cells'[a].table = put
    BY <2>3, <2>5
  <2> QED BY <2>1, <2>4, <2>6, <2>7 DEF TablesRoomy
<1>5. CASE FinalCollect /\ ~Ended
  <2>1. cells' = Collected.cells
    BY <1>5, EndedTwice DEF FinalCollect
  <2> QED BY <1>0, <2>1, CollectedTables, NewTableRoomy DEF TablesRoomy
<1>6. UNCHANGED vars => cells' = cells
  BY DEF vars, heapVars
<1> QED BY <1>1, <1>2, <1>3, <1>4, <1>5, <1>6, HeapTouched

-----------------------------------------------------------------------------
(* Tags and owners agree: whatever is kept on the stack, in a variable or  *)
(* in a table owns an allocation exactly when it is tagged as an object,   *)
(* and what a handler keeps in C++ locals while it runs a lambda owns none.*)
(*                                                                         *)
(* Neither is inductive alone.  A lambda taken off the stack owns nothing  *)
(* because its tag agrees with its owner there; what is on the stack may   *)
(* come out of a table or a variable; and what is in a table may have been *)
(* moved by growing or stay behind in memory that is given out again, so   *)
(* the invariant speaks of the tables of freed memory as well.             *)

Owned == {v \in Value : Agrees(v)}
Local == {v \in Value : v.a = Null}
LocalFrame == {f \in Frame : f.cond \in Local /\ f.body \in Local}

OwnerInv ==
  /\ stack \in Seq(Owned)
  /\ scope \in [Strings -> Owned]
  /\ \A x \in Addr : TableOf(cells[x].table, Owned)
  /\ frames \in Seq(LocalFrame)

-----------------------------------------------------------------------------
(* Operands.                                                               *)

\* The operands a handler finds, and what is below them, are owned.
LEMMA Operands ==
  ASSUME OwnerInv
  PROVE  /\ Has(1) => Top(stack) \in Owned /\ Pop(stack) \in Seq(Owned)
         /\ Has(2) => Second(stack) \in Owned /\ Pop(Pop(stack)) \in Seq(Owned)
         /\ Has(3) => /\ Third(stack) \in Owned
                      /\ Pop(Pop(Pop(stack))) \in Seq(Owned)
<1> DEFINE s1 == Pop(stack)
           s2 == Pop(s1)
<1>1. stack \in Seq(Owned) /\ Len(stack) \in Nat
  BY LenProperties DEF OwnerInv
<1>2. Has(1) => /\ Top(stack) \in Owned /\ s1 \in Seq(Owned)
                /\ Len(s1) = Len(stack) - 1
  BY <1>1, TopPop DEF Has
<1>3. Has(2) => Has(1) /\ Len(stack) >= 2
  BY <1>1 DEF Has
<1>4. Has(3) => Has(2) /\ Len(stack) >= 3
  BY <1>1 DEF Has
<1> HIDE DEF s1
<1>5. Has(2) => Top(s1) \in Owned /\ s2 \in Seq(Owned) /\ Len(s2) = Len(s1) - 1
  BY <1>1, <1>2, <1>3, TopPop
<1> HIDE DEF s2
<1>6. Has(3) => Top(s2) \in Owned /\ Pop(s2) \in Seq(Owned)
  BY <1>1, <1>2, <1>3, <1>4, <1>5, TopPop
<1> QED BY <1>2, <1>3, <1>4, <1>5, <1>6 DEF s1, s2, Second, Third

\* Pushing a value whose tag and owner agree.
LEMMA PushOwned ==
  ASSUME NEW s \in Seq(Owned), NEW v \in Owned
  PROVE  Append(s, v) \in Seq(Owned)
BY AppendProperties

-----------------------------------------------------------------------------
(* Values whose tag and owner agree.                                       *)

\* NIL, natives, and what fills the slots of a new table.
LEMMA SimpleOwned ==
  NilV \in Owned /\ NilV \in Local /\ NativeV \in Owned /\ ZeroV \in Owned
BY SimpleIsValue, BoolIsValue
   DEF Owned, Local, Agrees, NilV, NativeV, ZeroV, BoolV, Plain

\* Constants and new objects.
LEMMA ConstantsOwned == Constants \subseteq Owned
BY ConstantsAssumption DEF Owned, Agrees

\* An object is tagged as one from the start.
LEMMA ObjectOwned == \A x \in Addr : Object(x) \in Owned
BY AddrAssumption, WildAssumption
   DEF Object, Owned, Agrees, Value, Fits, Types, Data, Null

\* What can be called is no object, so it owns nothing.
LEMMA CallableLocal == \A v \in Owned : Callable(v) => v \in Local
BY DEF Owned, Local, Agrees, Callable

\* Only an uninitialized result is tagged as an object, and it has no pointer.
LEMMA ResultsOwned ==
  ASSUME NEW op \in BinaryOps, NEW x \in Value, NEW y \in Value,
         NEW c \in Results(op, x, y)
  PROVE  c \in Owned
<1>1. c \in Value /\ c.a = Null
  BY ResultsAreValues
<1>2. /\ \A b : BoolV(b).type # "OBJECT"
      /\ \A n : NumberV(n).type # "OBJECT"
      /\ \A v \in Uninitialized : v.type = "OBJECT" => v.data = Wild
  BY DEF BoolV, NumberV, Plain, Uninitialized
<1>3. \/ \E b : c = BoolV(b)
      \/ \E n : c = NumberV(n)
      \/ c \in Uninitialized
  <2>1. CASE op \in {"eq", "lt", "gt"}
    BY <2>1 DEF Results, EqResults, LtResults, GtResults
  <2>2. CASE op = "and"
    BY <2>2 DEF Results, AndResults
  <2>3. CASE op = "or"
    BY <2>3 DEF Results, OrResults
  <2>4. CASE op = "add"
    BY <2>4 DEF Results, AddResults
  <2>5. CASE op \in {"sub", "mul"}
    BY <2>5 DEF Results, SubResults, MulResults
  <2>6. CASE op \in {"div", "mod"}
    BY <2>6 DEF Results, DivResults, ModResults
  <2> QED BY <2>1, <2>2, <2>3, <2>4, <2>5, <2>6 DEF BinaryOps
<1> QED BY <1>1, <1>2, <1>3 DEF Owned, Agrees

-----------------------------------------------------------------------------
(* Steps that leave the heap's memory alone.                               *)

\* A process that has ended holds nothing, and no table holds a key.
LEMMA EndedOwned ==
  ASSUME Ended
  PROVE  OwnerInv'
<1>1. /\ stack' = <<>> /\ frames' = <<>> /\ scope' = NoVariables
      /\ cells' = [x \in Addr |-> Freed]
  BY DEF Ended, End
<1>2. TableOf(Freed.table, Owned)
  BY NewTableOf, SimpleOwned DEF Freed
<1>3. scope' \in [Strings -> Owned]
  BY <1>1, SimpleOwned DEF NoVariables
<1> QED BY <1>1, <1>2, <1>3 DEF OwnerInv

\* The stack is all that changes.
LEMMA StackOwned ==
  ASSUME OwnerInv, stack' \in Seq(Owned), UNCHANGED <<cells, scope, frames>>
  PROVE  OwnerInv'
BY DEF OwnerInv

\* Constants are pushed, operands shuffled.
LEMMA StackOpsOwned ==
  ASSUME OwnerInv, StackOps
  PROVE  OwnerInv'
<1>0. stack \in Seq(Owned)
  BY DEF OwnerInv
<1>1. ASSUME NEW v \in Constants, PushConstant(v)
      PROVE  OwnerInv'
  BY <1>0, <1>1, ConstantsOwned, PushOwned, StackOwned DEF PushConstant
<1>2. CASE Dup
  <2>1. CASE Has(1)
    BY <1>0, <1>2, <2>1, Operands, PushOwned, StackOwned DEF Dup
  <2> QED BY <1>2, <2>1, EndedTwice, EndedOwned DEF Dup
<1>3. CASE Drop
  <2>1. CASE Has(1)
    BY <1>3, <2>1, Operands, StackOwned DEF Drop, heapVars
  <2> QED BY <1>3, <2>1, EndedTwice, EndedOwned DEF Drop
<1>4. CASE Swap
  <2>1. CASE Has(2)
    <3>1. Has(1)
      BY <1>0, <2>1, LenProperties DEF Has
    <3>2. stack' \in Seq(Owned)
      BY <1>4, <2>1, <3>1, Operands, PushOwned DEF Swap
    <3> QED BY <1>4, <2>1, <3>2, StackOwned DEF Swap, heapVars
  <2> QED BY <1>4, <2>1, EndedTwice, EndedOwned DEF Swap
<1>5. CASE Rot
  <2>1. CASE Has(3)
    <3>1. Has(1) /\ Has(2)
      BY <1>0, <2>1, LenProperties DEF Has
    <3> DEFINE t == Pop(Pop(Pop(stack)))
    <3>2. /\ t \in Seq(Owned) /\ Top(stack) \in Owned
          /\ Second(stack) \in Owned /\ Third(stack) \in Owned
      BY <2>1, <3>1, Operands
    <3>3. Append(Append(t, Second(stack)), Top(stack)) \in Seq(Owned)
      <4> HIDE DEF t
      <4> QED BY <3>2, PushOwned
    <3>4. stack' \in Seq(Owned)
      BY <1>5, <2>1, <3>2, <3>3, PushOwned DEF Rot
    <3> QED BY <1>5, <2>1, <3>4, StackOwned DEF Rot, heapVars
  <2> QED BY <1>5, <2>1, EndedTwice, EndedOwned DEF Rot
<1> QED BY <1>1, <1>2, <1>3, <1>4, <1>5 DEF StackOps

\* Results own nothing; a tag or a number rewritten in place is not an object's.
LEMMA OperatorOpsOwned ==
  ASSUME OwnerInv, OperatorOps
  PROVE  OwnerInv'
<1>0. Has(2) => Has(1)
  BY LenProperties DEF Has, OwnerInv
<1>1. ASSUME NEW op \in BinaryOps, Binary(op)
      PROVE  OwnerInv'
  <2> DEFINE b == Top(stack)
             a == Second(stack)
  <2>1. CASE ~Has(2) \/ ReadsWild(op, a, b) \/ Results(op, a, b) = {}
    BY <1>1, <2>1, EndedTwice, EndedOwned DEF Binary
  <2>2. CASE Has(2) /\ ~ReadsWild(op, a, b) /\ Results(op, a, b) # {}
    <3>1. PICK c \in Results(op, a, b) :
            /\ stack' = Append(Pop(Pop(stack)), c)
            /\ UNCHANGED <<cells, scope, frames>>
      BY <1>1, <2>2 DEF Binary
    <3>2. a \in Value /\ b \in Value /\ Pop(Pop(stack)) \in Seq(Owned)
      BY <1>0, <2>2, Operands DEF Owned
    <3> HIDE DEF a, b
    <3>3. c \in Owned
      BY <3>2, ResultsOwned
    <3> QED BY <3>1, <3>2, <3>3, PushOwned, StackOwned
  <2> QED BY <2>1, <2>2
<1>2. CASE Not
  <2> DEFINE v == Top(stack)
             flipped == IF v.type = "TRUE" THEN "FALSE" ELSE "TRUE"
             w == [v EXCEPT !.type = flipped]
  <2>1. CASE ~Has(1) \/ v.type \notin {"TRUE", "FALSE", "NIL"}
    BY <1>2, <2>1, EndedTwice, EndedOwned DEF Not
  <2>2. CASE Has(1) /\ v.type \in {"TRUE", "FALSE", "NIL"}
    <3>1. stack' = Append(Pop(stack), w) /\ UNCHANGED <<cells, scope, frames>>
      BY <1>2, <2>2 DEF Not, heapVars
    <3>2. v \in Owned /\ Pop(stack) \in Seq(Owned)
      BY <2>2, Operands
    <3> HIDE DEF v
    <3>3. w \in Owned
      BY <2>2, <3>2 DEF Owned, Agrees, Value, Fits, Types
    <3> QED BY <3>1, <3>2, <3>3, PushOwned, StackOwned
  <2> QED BY <2>1, <2>2
<1>3. CASE Neg
  <2> DEFINE v == Top(stack)
             w == [v EXCEPT !.data = Wrap(-@)]
  <2>1. CASE ~Has(1) \/ v.type # "NUMBER"
    BY <1>3, <2>1, EndedTwice, EndedOwned DEF Neg
  <2>2. CASE Has(1) /\ v.type = "NUMBER"
    <3>1. stack' = Append(Pop(stack), w) /\ UNCHANGED <<cells, scope, frames>>
      BY <1>3, <2>2 DEF Neg, heapVars
    <3>2. v \in Owned /\ Pop(stack) \in Seq(Owned)
      BY <2>2, Operands
    <3> HIDE DEF v
    <3>3. v.data \in Int
      BY <2>2, <3>2, HalfAssumption DEF Owned, Value, Fits, Ints
    <3>4. Wrap(-v.data) \in Ints
      BY <3>3, WrapFits
    <3>5. w \in Owned
      BY <2>2, <3>2, <3>4 DEF Owned, Agrees, Value, Fits, Data
    <3> QED BY <3>1, <3>2, <3>5, PushOwned, StackOwned
  <2> QED BY <2>1, <2>2
<1> QED BY <1>1, <1>2, <1>3 DEF OperatorOps

\* Variables are read from and written with what the stack holds.
LEMMA VariableOpsOwned ==
  ASSUME OwnerInv, VariableOps
  PROVE  OwnerInv'
<1>0. scope \in [Strings -> Owned]
  BY DEF OwnerInv
<1> DEFINE key == Top(stack)
           Bad(n) == ~Has(n) \/ key.type # "REFERENCE" \/ key.data = Wild
<1>1. Has(1) /\ key.type = "REFERENCE" /\ key.data # Wild => key.data \in Strings
  BY Operands DEF Owned, Value, Fits
<1>2. CASE Load
  <2>1. CASE Bad(1)
    BY <1>2, <2>1, EndedTwice, EndedOwned DEF Load
  <2>2. CASE ~Bad(1)
    <3>1. /\ stack' = Append(Pop(stack), scope[key.data])
          /\ UNCHANGED <<cells, scope, frames>>
      BY <1>2, <2>2 DEF Load
    <3>2. scope[key.data] \in Owned /\ Pop(stack) \in Seq(Owned)
      BY <1>0, <1>1, <2>2, Operands
    <3> QED BY <3>1, <3>2, PushOwned, StackOwned
  <2> QED BY <2>1, <2>2
<1>3. CASE Store
  <2>1. CASE Bad(2)
    BY <1>3, <2>1, EndedTwice, EndedOwned DEF Store
  <2>2. CASE ~Bad(2)
    <3>1. /\ stack' = Pop(Pop(stack))
          /\ scope' = [scope EXCEPT ![key.data] = Second(stack)]
          /\ UNCHANGED <<cells, frames>>
      BY <1>3, <2>2 DEF Store
    <3>2. Second(stack) \in Owned /\ Pop(Pop(stack)) \in Seq(Owned)
      BY <2>2, Operands
    <3>3. scope' \in [Strings -> Owned]
      BY <1>0, <3>1, <3>2
    <3> QED BY <3>1, <3>2, <3>3 DEF OwnerInv
  <2> QED BY <2>1, <2>2
<1> QED BY <1>2, <1>3 DEF VariableOps

-----------------------------------------------------------------------------
(* Activations.                                                            *)

\* What exec, cond_exec and while keep in locals owns nothing.
LEMMA LocalActivation ==
  ASSUME NEW phase \in Phases, NEW cond \in Local, NEW body \in Local
  PROVE  Activation(phase, cond, body) \in LocalFrame
BY DEF Activation, LocalFrame, Frame, Local

\* The stack and the activations are all that changes.
LEMMA CallOwned ==
  ASSUME OwnerInv, stack' \in Seq(Owned), frames' \in Seq(LocalFrame),
         UNCHANGED <<cells, scope>>
  PROVE  OwnerInv'
BY DEF OwnerInv

\* Entering, resuming and leaving an activation.
LEMMA FramesOwned ==
  ASSUME OwnerInv
  PROVE  /\ frames \in Seq(LocalFrame)
         /\ \A f \in LocalFrame : Append(frames, f) \in Seq(LocalFrame)
         /\ frames # <<>> =>
              /\ Top(frames) \in LocalFrame
              /\ Pop(frames) \in Seq(LocalFrame)
              /\ \A f \in LocalFrame : Append(Pop(frames), f) \in Seq(LocalFrame)
<1>1. frames \in Seq(LocalFrame)
  BY DEF OwnerInv
<1>2. frames # <<>> => Len(frames) >= 1
  BY <1>1, LenProperties, EmptySeq
<1>3. frames # <<>> => Top(frames) \in LocalFrame /\ Pop(frames) \in Seq(LocalFrame)
  BY <1>1, <1>2, TopPop
<1> QED BY <1>1, <1>3, AppendProperties

\* A lambda is run, with what it owns (nothing) in a local.
LEMMA EnterOwned ==
  ASSUME OwnerInv, Exec \/ CondExec \/ While
  PROVE  OwnerInv'
<1> DEFINE top == Top(stack)
           second == Second(stack)
<1>0. /\ Has(2) => Has(1)
      /\ frames \in Seq(LocalFrame)
      /\ NilV \in Local
  BY LenProperties, SimpleOwned DEF Has, OwnerInv
<1>1. CASE Exec
  <2>1. CASE ~Has(1) \/ ~Callable(top) \/ top.data = Wild
    BY <1>1, <2>1, EndedTwice, EndedOwned DEF Exec
  <2>2. CASE Has(1) /\ Callable(top) /\ top.data # Wild
    <3>1. /\ stack' = Pop(stack) /\ UNCHANGED <<cells, scope>>
          /\ frames' = Append(frames, Activation("call", NilV, top))
      BY <1>1, <2>2 DEF Exec, Enter
    <3>2. top \in Local /\ stack' \in Seq(Owned)
      BY <2>2, <3>1, Operands, CallableLocal
    <3>3. Activation("call", NilV, top) \in LocalFrame
      BY <1>0, <3>2, LocalActivation DEF Phases
    <3> QED BY <3>1, <3>2, <3>3, FramesOwned, CallOwned
  <2> QED BY <2>1, <2>2
<1>2. CASE CondExec
  <2> DEFINE Bad == \/ ~Has(2) \/ ~HasTruth(second)
                    \/ Truthy(second) /\ (~Callable(top) \/ top.data = Wild)
  <2>1. CASE Bad
    BY <1>2, <2>1, EndedTwice, EndedOwned DEF CondExec
  <2>2. CASE ~Bad
    <3>1. /\ stack' = Pop(Pop(stack)) /\ UNCHANGED <<cells, scope>>
          /\ IF Truthy(second)
             THEN frames' = Append(frames, Activation("call", NilV, top))
             ELSE frames' = frames
      BY <1>2, <2>2 DEF CondExec, Enter
    <3>2. top \in Owned /\ stack' \in Seq(Owned)
      BY <1>0, <2>2, <3>1, Operands
    <3>3. frames' \in Seq(LocalFrame)
      <4>1. CASE Truthy(second)
        <5>1. top \in Local
          BY <2>2, <3>2, <4>1, CallableLocal
        <5>2. Activation("call", NilV, top) \in LocalFrame
          BY <1>0, <5>1, LocalActivation DEF Phases
        <5> QED BY <3>1, <4>1, <5>2, FramesOwned
      <4>2. CASE ~Truthy(second)
        BY <1>0, <3>1, <4>2
      <4> QED BY <4>1, <4>2
    <3> QED BY <3>1, <3>2, <3>3, CallOwned
  <2> QED BY <2>1, <2>2
<1>3. CASE While
  <2> DEFINE Bad == \/ ~Has(2) \/ ~Callable(top) \/ ~Callable(second)
                    \/ second.data = Wild
  <2>1. CASE Bad
    BY <1>3, <2>1, EndedTwice, EndedOwned DEF While
  <2>2. CASE ~Bad
    <3>1. /\ stack' = Pop(Pop(stack)) /\ UNCHANGED <<cells, scope>>
          /\ frames' = Append(frames, Activation("cond", second, top))
      BY <1>3, <2>2 DEF While, Enter
    <3>2. top \in Local /\ second \in Local /\ stack' \in Seq(Owned)
      BY <1>0, <2>2, <3>1, Operands, CallableLocal
    <3>3. Activation("cond", second, top) \in LocalFrame
      BY <3>2, LocalActivation DEF Phases
    <3> QED BY <3>1, <3>2, <3>3, FramesOwned, CallOwned
  <2> QED BY <2>1, <2>2
<1> QED BY <1>1, <1>2, <1>3

\* An activation goes on with the locals it has, or returns.
LEMMA ReturnOwned ==
  ASSUME OwnerInv,
         \/ BranchIf \/ StdPrint
         \/ ReturnFromCall \/ ReturnFromCond \/ ReturnFromBody
  PROVE  OwnerInv'
<1> DEFINE f == Top(frames)
<1>0. stack \in Seq(Owned) /\ (Has(1) => Pop(stack) \in Seq(Owned))
  BY Operands DEF OwnerInv
<1>f. ASSUME frames # <<>>, NEW phase \in Phases, NEW done \in BOOLEAN
      PROVE  /\ [f EXCEPT !.phase = phase, !.done = done] \in LocalFrame
             /\ [f EXCEPT !.done = done] \in LocalFrame
  <2>1. f \in LocalFrame
    BY <1>f, FramesOwned
  <2> HIDE DEF f
  <2> QED BY <2>1 DEF LocalFrame, Frame
<1>1. CASE BranchIf
  <2>1. CASE Has(1) /\ HasTruth(Top(stack))
    BY <1>0, <1>1, <2>1, StackOwned DEF BranchIf
  <2> QED BY <1>1, <2>1, EndedTwice, EndedOwned DEF BranchIf
<1>2. CASE StdPrint
  <2>1. CASE Has(1) /\ ~WildKey(Top(stack))
    <3>1. /\ stack' = Pop(stack) /\ UNCHANGED <<cells, scope>> /\ frames # <<>>
          /\ frames' = Append(Pop(frames), [f EXCEPT !.done = TRUE])
      BY <1>2, <2>1 DEF StdPrint, Resume
    <3>2. [f EXCEPT !.done = TRUE] \in LocalFrame
      BY <1>f, <3>1 DEF Phases
    <3> HIDE DEF f
    <3> QED BY <1>0, <2>1, <3>1, <3>2, FramesOwned, CallOwned
  <2> QED BY <1>2, <2>1, EndedTwice, EndedOwned DEF StdPrint
<1>3. CASE ReturnFromCall
  BY <1>0, <1>3, FramesOwned, CallOwned
     DEF ReturnFromCall, Returns, Leave, heapVars
<1>4. CASE ReturnFromCond
  <2> DEFINE Bad == \/ ~Has(1) \/ ~HasTruth(Top(stack))
                    \/ Truthy(Top(stack)) /\ f.body.data = Wild
             g == [f EXCEPT !.phase = "body", !.done = FALSE]
  <2>1. CASE Bad
    BY <1>4, <2>1, EndedTwice, EndedOwned DEF ReturnFromCond
  <2>2. CASE ~Bad
    <3>1. /\ stack' = Pop(stack) /\ UNCHANGED <<cells, scope>> /\ frames # <<>>
          /\ frames' \in {Append(Pop(frames), g), Pop(frames)}
      BY <1>4, <2>2 DEF ReturnFromCond, Returns, Resume, Leave
    <3>2. g \in LocalFrame
      BY <1>f, <3>1 DEF Phases
    <3> HIDE DEF f, g
    <3> QED BY <1>0, <2>2, <3>1, <3>2, FramesOwned, CallOwned
  <2> QED BY <2>1, <2>2
<1>5. CASE ReturnFromBody
  <2> DEFINE g == [f EXCEPT !.phase = "cond", !.done = FALSE]
  <2>1. /\ UNCHANGED <<stack, cells, scope>> /\ frames # <<>>
        /\ frames' = Append(Pop(frames), g)
    BY <1>5 DEF ReturnFromBody, Returns, Resume, heapVars
  <2>2. g \in LocalFrame
    BY <1>f, <2>1 DEF Phases
  <2> HIDE DEF f, g
  <2> QED BY <1>0, <2>1, <2>2, FramesOwned, CallOwned
<1> QED BY <1>1, <1>2, <1>3, <1>4, <1>5

-----------------------------------------------------------------------------
(* Objects and collections.                                                *)

\* The heap's memory and the stack are all that changes.
LEMMA HeapOwned ==
  ASSUME OwnerInv, stack' \in Seq(Owned), UNCHANGED <<scope, frames>>,
         \A x \in Addr : TableOf(cells'[x].table, Owned)
  PROVE  OwnerInv'
BY DEF OwnerInv

\* A collection empties tables and adds nothing to the others.
LEMMA CollectedOwned ==
  ASSUME IInv, OwnerInv
  PROVE  \A x \in Addr : TableOf(Collected.cells[x].table, Owned)
<1> TAKE x \in Addr
<1>1. Freed.table = T!NewTable /\ TableOf(T!NewTable, Owned)
  BY NewTableOf, SimpleOwned DEF Freed
<1>2. cells[x] = [next |-> cells[x].next, table |-> cells[x].table]
  BY DEF IInv, TypeOK, HeapTypeOK, IsCell
<1>3. Collected.cells[x] = SweptCells[x]
  BY DEF Collected
<1>4. SweptCells[x].table \in {Freed.table, cells[x].table}
  BY <1>2 DEF SweptCells
<1> QED BY <1>1, <1>3, <1>4 DEF OwnerInv

\* Objects are made, read and written.
LEMMA ObjectOpsOwned ==
  ASSUME IInv, OwnerInv, ObjectOps
  PROVE  OwnerInv'
<1>0. stack \in Seq(Owned)
  BY DEF OwnerInv
<1>1. ASSUME NEW x \in Addr, NewObj(x)
      PROVE  OwnerInv'
  <2>1. CASE AllocCollects /\ CollectTouchesFreed
    BY <1>1, <2>1, EndedTwice, EndedOwned DEF NewObj
  <2>2. CASE ~(AllocCollects /\ CollectTouchesFreed)
    <3> DEFINE h == BeforeAlloc.cells
               new == [next |-> BeforeAlloc.head, table |-> T!NewTable]
    <3>1. /\ cells' = [h EXCEPT ![x] = new]
          /\ stack' = Append(stack, Object(x)) /\ UNCHANGED <<scope, frames>>
      BY <1>1, <2>2 DEF NewObj, AllocAt
    <3>2. h = [y \in Addr |-> h[y]] /\ \A y \in Addr : TableOf(h[y].table, Owned)
      <4>1. CASE AllocCollects
        BY <4>1, CollectedOwned DEF BeforeAlloc, Collected, SweptCells
      <4>2. CASE ~AllocCollects
        BY <4>2 DEF BeforeAlloc, Uncollected, IInv, TypeOK, HeapTypeOK, OwnerInv
      <4> QED BY <4>1, <4>2
    <3>3. TableOf(new.table, Owned)
      BY NewTableOf, SimpleOwned
    <3> HIDE DEF h, new
    <3>4. \A y \in Addr : TableOf(cells'[y].table, Owned)
      BY <3>1, <3>2, <3>3
    <3> QED BY <1>0, <3>1, <3>4, ObjectOwned, PushOwned, HeapOwned
  <2> QED BY <2>1, <2>2
<1>2. CASE GetProp
  <2> DEFINE key == Top(stack)
             object == Second(stack)
             t == Table(object)
             x == IF T!Found(t, key) THEN T!ValueAt(t, key) ELSE NilV
             Bad == \/ ~Has(2) \/ object.type # "OBJECT" \/ Dangling(object)
                    \/ ~T!IsVoid(t) /\ (WildKey(key) \/ ~Hashable(key))
  <2>1. CASE Bad
    BY <1>2, <2>1, EndedTwice, EndedOwned DEF GetProp
  <2>2. CASE ~Bad
    <3>1. /\ stack' = Append(Pop(Pop(stack)), x)
          /\ UNCHANGED <<cells, scope, frames>>
      BY <1>2, <2>2 DEF GetProp
    <3>2. /\ key \in Owned /\ object \in Owned /\ Pop(Pop(stack)) \in Seq(Owned)
      <4>1. Has(1)
        BY <1>0, <2>2, LenProperties DEF Has
      <4> QED BY <2>2, <4>1, Operands
    <3>3. TableOf(t, Owned)
      BY <2>2, <3>2 DEF Dangling, Table, OwnerInv, Owned, Value
    <3>4. ~T!IsVoid(t) => T!GetHash(key) \in Int
      BY <2>2, <3>2, KeyHashes DEF Owned
    <3> HIDE DEF key, t
    <3>5. x \in Owned
      BY <3>3, <3>4, ValueAtOf, SimpleOwned DEF T!Found
    <3> QED BY <3>1, <3>2, <3>5, PushOwned, StackOwned
  <2> QED BY <2>1, <2>2
<1>3. CASE SetProp
  <2> DEFINE value == Top(stack)
             key == Second(stack)
             object == Third(stack)
             Bad == \/ ~Has(3) \/ object.type # "OBJECT"
                    \/ Dangling(object) \/ WildKey(key) \/ ~Hashable(key)
  <2>1. CASE Bad
    BY <1>3, <2>1, EndedTwice, EndedOwned DEF SetProp
  <2>2. CASE ~Bad
    <3>1. /\ cells' = [cells EXCEPT ![object.a].table = T!Put(@, key, value)]
          /\ stack' = Pop(Pop(Pop(stack))) /\ UNCHANGED <<scope, frames>>
      BY <1>3, <2>2 DEF SetProp
    <3>2. value \in Owned /\ key \in Owned /\ object \in Owned
          /\ stack' \in Seq(Owned)
      <4>1. Has(1) /\ Has(2)
        BY <1>0, <2>2, LenProperties DEF Has
      <4> QED BY <2>2, <3>1, <4>1, Operands
    <3>3. object.a \in Addr
      BY <2>2, <3>2 DEF Dangling, Owned, Value
    <3>4. TableOf(T!Put(cells[object.a].table, key, value), Owned)
      BY <3>2, <3>3, PutTableOf, SimpleOwned DEF OwnerInv
    <3>5. /\ cells = [y \in Addr |-> cells[y]]
          /\ \A y \in Addr : cells[y] = [next |-> cells[y].next,
                                         table |-> cells[y].table]
      BY DEF IInv, TypeOK, HeapTypeOK, IsCell
    <3> HIDE DEF value, key, object
    <3>6. \A y \in Addr :
            cells'[y].table = IF y = object.a
                              THEN T!Put(cells[y].table, key, value)
                              ELSE cells[y].table
      BY <3>1, <3>3, <3>5
    <3>7. \A y \in Addr : TableOf(cells'[y].table, Owned)
      BY <3>4, <3>6 DEF OwnerInv
    <3> QED BY <3>1, <3>2, <3>7, HeapOwned
  <2> QED BY <2>1, <2>2
<1> QED BY <1>1, <1>2, <1>3 DEF ObjectOps

\* The end of main takes everything off the stack, and collects.
LEMMA EndOfMainOwned ==
  ASSUME IInv, OwnerInv, EndOfMain
  PROVE  OwnerInv'
<1>1. CASE UnrootAll
  BY <1>1 DEF UnrootAll, OwnerInv
<1>2. CASE FinalCollect
  <2>1. CASE CollectTouchesFreed
    BY <1>2, <2>1, EndedTwice, EndedOwned DEF FinalCollect
  <2>2. CASE ~CollectTouchesFreed
    <3>1. cells' = Collected.cells /\ UNCHANGED <<stack, scope, frames>>
      BY <1>2, <2>2 DEF FinalCollect
    <3> QED BY <3>1, CollectedOwned, HeapOwned DEF OwnerInv
  <2> QED BY <2>1, <2>2
<1> QED BY <1>1, <1>2 DEF EndOfMain

-----------------------------------------------------------------------------
(* The theorems.                                                           *)

\* Main's scope holds natives and NIL, memory nothing.
LEMMA InitOwned ==
  ASSUME Init
  PROVE  OwnerInv
<1>1. TableOf(Freed.table, Owned)
  BY NewTableOf, SimpleOwned DEF Freed
<1>2. scope \in [Strings -> Owned]
  BY SimpleOwned DEF Init
<1> QED BY <1>1, <1>2 DEF Init, HeapInit, OwnerInv

\* Every handler keeps tags and owners in agreement.
LEMMA NextOwned ==
  ASSUME IInv, OwnerInv, [Next]_vars
  PROVE  OwnerInv'
<1>1. CASE UNCHANGED vars
  BY <1>1 DEF vars, heapVars, OwnerInv
<1>2. CASE CallOps
  BY <1>2, EnterOwned, ReturnOwned DEF CallOps
<1> QED BY <1>1, <1>2, StackOpsOwned, OperatorOpsOwned, ObjectOpsOwned,
           VariableOpsOwned, EndOfMainOwned DEF Next

\* The invariant of both theorems.
THEOREM OwnersHold == Spec => []OwnerInv
BY InvariantHolds, InitOwned, NextOwned, PTL DEF Spec

\* Roots are taken for objects and for nothing else: wherever the runtime
\* keeps a value (operands, variables, keys and values of live objects), it
\* owns an allocation exactly when its tag says that it is an object.
THEOREM OwnersAgree == Spec => []OwnersAreObjects
<1>1. OwnerInv => OwnersAreObjects
  <2> SUFFICES ASSUME OwnerInv PROVE OwnersAreObjects
    OBVIOUS
  <2>1. \A i \in 1 .. Len(stack) : Agrees(stack[i])
    BY LenProperties DEF OwnerInv, Owned
  <2>2. \A s \in Strings : Agrees(scope[s])
    BY DEF OwnerInv, Owned
  <2>3. \A x \in Live : \A i \in T!Slots(cells[x].table) :
          Agrees(cells[x].table.keys[i]) /\ Agrees(cells[x].table.values[i])
    BY DEF OwnerInv, Owned, TableOf, Live
  <2> QED BY <2>1, <2>2, <2>3 DEF OwnersAreObjects
<1> QED BY OwnersHold, <1>1, PTL

\* No collection in a loop can free what __rt_while, __rt_exec or
\* __rt_cond_exec holds in a C++ local without a root: it owns nothing.
THEOREM LocalsAreSafe == Spec => []LocalsOwnNothing
<1>1. OwnerInv => LocalsOwnNothing
  BY LenProperties DEF OwnerInv, LocalsOwnNothing, LocalFrame, Local
<1> QED BY OwnersHold, <1>1, PTL

\* What mark finds in an allocation's table: at every index it looks at, a slot
\* whose key and value own an allocation exactly if they are objects.
ScansOwners ==
  \A x \in Live :
    /\ Children(x) \subseteq Addr \cup {Null}
    /\ \A i \in ScannedSlots(cells[x].table) :
         /\ i \in T!Slots(cells[x].table)
         /\ Agrees(cells[x].table.keys[i])
         /\ Agrees(cells[x].table.values[i])

\* Heap::mark takes the indices below a table's count for slots, and calls
\* itself on whatever owner it finds there without a look at the tag
\* (gc.cpp:97-102).  In every allocation of every program these indices lie
\* within the table's arrays, and an owner that is found there, in slots that
\* were never filled too, is the address of an object's allocation.
THEOREM MarkStaysInside == Spec => []ScansOwners
<1>1. Init => TablesRoomy
  BY NewTableRoomy DEF Init, HeapInit, Freed, TablesRoomy
<1>2. IInv /\ TablesRoomy /\ [Next]_vars => TablesRoomy'
  BY NextRoomy
<1>3. IInv /\ TablesRoomy /\ OwnersAreObjects => ScansOwners
  <2> SUFFICES ASSUME IInv, TablesRoomy, OwnersAreObjects, NEW x \in Live
               PROVE  /\ Children(x) \subseteq Addr \cup {Null}
                      /\ \A i \in ScannedSlots(cells[x].table) :
                           /\ i \in T!Slots(cells[x].table)
                           /\ Agrees(cells[x].table.keys[i])
                           /\ Agrees(cells[x].table.values[i])
    BY DEF ScansOwners
  <2>1. /\ Children(x) \subseteq Addr \cup {Null}
        /\ ScannedSlots(cells[x].table) \subseteq T!Slots(cells[x].table)
    BY ChildrenAreAddresses DEF IInv, TypeOK, TablesRoomy, Live
  <2> QED BY <2>1 DEF OwnersAreObjects
<1> QED BY InvariantHolds, OwnersAgree, <1>1, <1>2, <1>3, PTL DEF Spec
=============================================================================
