------------------------------- MODULE Array -------------------------------
(***************************************************************************)
(* The Array<T> of src/src/array.h.  Operators take and give the memory m, *)
(* which holds the arrays by name, and change the array x.                 *)
(*                                                                         *)
(* `cells' are the cells below count.  What lies behind them is not kept:  *)
(* it is Junk wherever it is read.  A loop that shifts cells is a closed   *)
(* form.  Every access is checked against the memory that is there: none   *)
(* for an array that was never allocated, and for one in an arena what the *)
(* block has behind its pointer, whatever the arena promised.              *)
(***************************************************************************)
EXTENDS Arena

CONSTANTS
  InitSize,    \* the size of a new array, 16 in the code
  Junk         \* what an uninitialized or stale cell holds

ASSUME ArrayAssumption == InitSize \in Nat /\ InitSize > 1

Nowhere == [base |-> NULL, offset |-> 0]
NewArray(allocator) ==
  [allocator |-> allocator, size |-> InitSize, count |-> 0,
   at |-> Nowhere, cells |-> <<>>]

Room(a) ==
  IF a.at = Nowhere THEN 0
  ELSE IF a.allocator = "arena" THEN Max({0, Min({a.size, BlockSize - a.at.offset})})
  ELSE a.size

Fails(m, status) == [m EXCEPT !.status = status]

\* The first n cells of an array are read or written.
Touched(m, x, n) ==
  IF n > Room(m.arrays[x]) THEN Fails(m, "undefined") ELSE m

-----------------------------------------------------------------------------
(* Memory, by the array's allocator.                                       *)

Given(m, allocator, n) ==
  IF allocator = "arena" THEN ArenaAlloc(m, n)
  ELSE [m EXCEPT !.live = Allocated(@)]
Pointer(m, allocator, n) ==
  IF allocator = "arena" THEN ArenaPointer(m, n)
  ELSE [base |-> Malloc(m.live), offset |-> 0]
Released(m, a) ==
  IF a.allocator = "arena" \/ a.at = Nowhere THEN m
  ELSE IF IsAllocated(m.live, a.at.base) THEN [m EXCEPT !.live = Freed(@, a.at.base)]
  ELSE Fails(m, "aborted")

\* Mutant of Extend: the old data is not freed.
ExtendUnfreed(m, x) ==
  LET a == m.arrays[x]
      size == IF a.at = Nowhere THEN a.size ELSE 2 * a.size
      at == Pointer(m, a.allocator, size)
  IN  [Given(m, a.allocator, size) EXCEPT
         !.arrays[x] = [a EXCEPT !.size = size, !.at = at]]

\* All old cells are copied, those behind count too.
Extend(m, x) ==
  LET a == m.arrays[x]
      size == IF a.at = Nowhere THEN a.size ELSE 2 * a.size
      grown == [a EXCEPT !.size = size, !.at = Pointer(m, a.allocator, size)]
      given == [Given(m, a.allocator, size) EXCEPT !.arrays[x] = grown]
  IN  IF a.at = Nowhere THEN given
      ELSE IF a.size > Min({Room(a), Room(grown)}) THEN Fails(given, "undefined")
      ELSE Released(given, a)

\* Mutant of EnsureCapacity: it grows only when there is no room at all.
EnsureCapacityLate(m, x) ==
  LET a == m.arrays[x]
  IN  IF a.at = Nowhere \/ a.count > a.size THEN Extend(m, x) ELSE m

EnsureCapacity(m, x) ==
  LET a == m.arrays[x]
  IN  IF a.at = Nowhere \/ a.count >= a.size - 1 THEN Extend(m, x) ELSE m

\* while((count + n) > size) extend();
EnsureRoom(m, x, n) ==
  LET after[k \in 0 .. n + 1] ==
        IF k = 0 THEN m
        ELSE LET before == after[k - 1]
             IN  IF /\ before.status = "running"
                    /\ before.arrays[x].count + n > before.arrays[x].size
                 THEN Extend(before, x) ELSE before
  IN  after[n + 1]

-----------------------------------------------------------------------------
(* The operations.  Cell i of the code is cells[i + 1].                    *)

Filled(m, x, cells) ==
  [m EXCEPT !.arrays[x] = [@ EXCEPT !.cells = cells, !.count = Len(cells)]]

Push(m, x, v) ==
  LET ready == EnsureCapacity(m, x)
      a == ready.arrays[x]
  IN  Touched(Filled(ready, x, Append(a.cells, v)), x, a.count + 1)

\* pop, and drop, which has no answer.
Pop(m, x) ==
  IF m.arrays[x].count = 0 THEN Fails(m, "aborted")
  ELSE Touched(Filled(m, x, Front(m.arrays[x].cells)), x, m.arrays[x].count)

Clear(m, x) == Filled(m, x, <<>>)

\* The value goes to place `at', and what was there and behind moves up.
Insert(m, x, index, at, v) ==
  LET ready == EnsureCapacity(m, x)
      a == ready.arrays[x]
      cell(j) == IF j < at THEN a.cells[j + 1]
                 ELSE IF j = at THEN v ELSE a.cells[j]
  IN  IF index >= a.count THEN Fails(ready, "aborted")
      ELSE Touched(Filled(ready, x, [j \in 1 .. a.count + 1 |-> cell(j - 1)]),
                   x, a.count + 1)
InsertBefore(m, x, index, v) == Insert(m, x, index, index, v)
InsertAfter(m, x, index, v) == Insert(m, x, index, index + 1, v)

\* The cells from place `at' on move up by b->count, and b's go there, one
\* behind the last if `at' is behind count.
ExtendAt(m, x, at, b) ==
  LET n == Len(b)
      ready == EnsureRoom(m, x, n)
      a == ready.arrays[x]
      cell(j) == IF at <= j /\ j < at + n THEN b[j - at + 1]
                 ELSE IF j < at
                 THEN IF j < a.count THEN a.cells[j + 1] ELSE Junk
                 ELSE a.cells[j - n + 1]
  IN  IF n = 0 THEN m
      ELSE IF ready.status # "running" THEN ready
      ELSE Touched(Filled(ready, x, [j \in 1 .. a.count + n |-> cell(j - 1)]),
                   x, Max({a.count, at}) + n)
ExtendBefore(m, x, index, y) == ExtendAt(m, x, index, m.arrays[y].cells)
ExtendAfter(m, x, index, y) == ExtendAt(m, x, index + 1, m.arrays[y].cells)

\* Mutant of UnorderedRemove: the gap is taken to be one further down.
UnorderedRemoveLast(m, x, index) ==
  IF index >= m.arrays[x].count THEN m
  ELSE Touched([Pop(m, x) EXCEPT !.arrays[x].cells =
                  [i \in DOMAIN @ |-> IF i = index THEN Last(m.arrays[x].cells)
                                      ELSE @[i]]], x, m.arrays[x].count)

UnorderedRemove(m, x, index) ==
  LET a == m.arrays[x]
      popped == Pop(m, x)
  IN  IF index >= a.count THEN m
      ELSE [popped EXCEPT !.arrays[x].cells =
              [i \in DOMAIN @ |-> IF i = index + 1 THEN Last(a.cells) ELSE @[i]]]

OrderedRemove(m, x, index) ==
  LET a == m.arrays[x]
      cell(j) == IF j < index THEN a.cells[j + 1] ELSE a.cells[j + 2]
  IN  IF index >= a.count THEN m
      ELSE Touched(Filled(m, x, [j \in 1 .. a.count - 1 |-> cell(j - 1)]),
                   x, a.count)

IndexOf(a, v) ==
  LET found == {i \in 1 .. a.count : a.cells[i] = v}
  IN  IF found = {} THEN -1 ELSE Min(found) - 1

\* ~Array, and a new array in its place.
Renewed(m, x) ==
  [Released(m, m.arrays[x]) EXCEPT
     !.arrays[x] = NewArray(m.arrays[x].allocator)]
=============================================================================
