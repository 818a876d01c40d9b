-------------------------------- MODULE Heap --------------------------------
(***************************************************************************)
(* The garbage-collected heap, struct Heap of src/src/runtime.h and        *)
(* src/src/gc.cpp: a singly linked list of allocations, a bag of roots and *)
(* a mark-and-sweep collector.                                             *)
(*                                                                         *)
(* One step of this module's operators is one whole call of the code.      *)
(* GcSteps.tla runs gc() one loop iteration at a time and is checked to do *)
(* what Collect says.                                                      *)
(*                                                                         *)
(* Every allocation holds an object: __rt_newobj is the only caller of     *)
(* Heap::alloc and sets the type before anything else runs.  The object's  *)
(* table lives and dies with its allocation (free_allocation), so it is    *)
(* kept in the allocation's cell.                                          *)
(***************************************************************************)
EXTENDS Values

CONSTANTS
  InitSize,     \* initial size of an object's table
  GcThreshold   \* Heap::alloc collects when allocations exceeds this

ASSUME InitSizeAssumption == InitSize \in Nat /\ InitSize > 2
ASSUME ThresholdAssumption == GcThreshold \in Nat

VARIABLES
  head,         \* Heap::head
  allocations,  \* Heap::allocations
  roots,        \* Heap::roots, how many times each address is in the array
  cells         \* the memory behind each address

heapVars == <<head, allocations, roots, cells>>

T == INSTANCE TableOps WITH ZeroKey <- ZeroV, ZeroValue <- ZeroV,
                            Hash <- ValueHash, Eq <- ValueEq

\* The contents of memory malloc does not own: no allocation has this link.
Unowned == -1
Freed == [next |-> Unowned, table |-> T!NewTable]

Live == {x \in Addr : cells[x] # Freed}

HeapInit ==
  /\ head = Null
  /\ allocations = 0
  /\ roots = [x \in Addr |-> 0]
  /\ cells = [x \in Addr |-> Freed]

-----------------------------------------------------------------------------
(* Roots.  A value that owns no allocation is not rooted.                  *)

\* mark_root
Root(r, v) == IF v.a = Null THEN r ELSE [r EXCEPT ![v.a] = @ + 1]

\* unmark_root removes one entry, and is content to find none.
Unroot(r, v) ==
  IF v.a = Null THEN r ELSE [r EXCEPT ![v.a] = IF @ = 0 THEN 0 ELSE @ - 1]

\* Mutant of Rooted: the last entry of an address is not looked at.
RootedTwice == {x \in Addr : roots[x] > 1}

Rooted == {x \in Addr : roots[x] > 0}

-----------------------------------------------------------------------------
(* Heap::mark.  The loop over an object's table runs over the indices      *)
(* below count, not over the slots of the table.                           *)

ScannedSlots(t) == 0 .. t.count - 1

Children(x) ==
  LET t == cells[x].table
  IN  {t.keys[i].a : i \in ScannedSlots(t)}
        \cup {t.values[i].a : i \in ScannedSlots(t)}

ClosedUnderMark(S) == \A x \in S \cap Live : Children(x) \ {Null} \subseteq S

\* Every address mark is called on.
Marked ==
  {x \in Addr : \A S \in SUBSET Addr : Rooted \subseteq S /\ ClosedUnderMark(S)
                                         => x \in S}

MarkTouchesFreed == ~(Marked \subseteq Live)

-----------------------------------------------------------------------------
(* Heap::sweep.  The loop follows the list and frees what is not marked.   *)

ClosedUnderNext(S) == \A x \in S \cap Live : cells[x].next \in S \cup {Null}

\* Every address the list leads to.
OnList ==
  {x \in Addr : \A S \in SUBSET Addr : head \in S \cup {Null} /\ ClosedUnderNext(S)
                                         => x \in S}

Terminated == OnList = {} \/ \E x \in OnList \cap Live : cells[x].next = Null

\* A list that leads into freed memory is read there; one that leads back to
\* itself is walked until the nodes freed on the way are read.
SweepTouchesFreed == ~(OnList \subseteq Live) \/ ~Terminated

Swept == OnList \ Marked
NeighboursSwept == \E x \in Swept : cells[x].next \in Swept

\* Mutant of SweptLink: the link to a freed node is left in place.
SweptLinkKept(x) == x

\* After freeing a node the loop takes its successor for the predecessor of
\* that same successor, so of a run of unmarked nodes only the first is
\* unlinked: the link into the run is left pointing at the second.
SweptLink(x) == IF x = Null THEN Null
                ELSE IF x \in Marked THEN x ELSE cells[x].next

SweptCells ==
  [x \in Addr |->
     IF x \in Swept THEN Freed
     ELSE IF x \in OnList THEN [cells[x] EXCEPT !.next = SweptLink(@)]
     ELSE cells[x]]

-----------------------------------------------------------------------------
(* Heap::gc, what it leaves behind, and when it reads memory it has freed. *)

CollectTouchesFreed == MarkTouchesFreed \/ SweepTouchesFreed

Collected == [head |-> SweptLink(head), cells |-> SweptCells,
              allocations |-> allocations - Cardinality(Swept)]

Uncollected == [head |-> head, cells |-> cells, allocations |-> allocations]

\* Heap::alloc collects before it allocates.
AllocCollects == allocations > GcThreshold

BeforeAlloc == IF AllocCollects THEN Collected ELSE Uncollected

\* Mutant of AllocAt: the allocation is counted before the collection.
AllocAtStale(x) ==
  LET h == BeforeAlloc
  IN  /\ h.cells[x] = Freed
      /\ cells' = [h.cells EXCEPT ![x] = [next |-> h.head, table |-> T!NewTable]]
      /\ head' = x
      /\ allocations' = allocations + 1

\* malloc gives alloc the address x, which becomes the list's new head.
AllocAt(x) ==
  LET h == BeforeAlloc
  IN  /\ h.cells[x] = Freed
      /\ cells' = [h.cells EXCEPT ![x] = [next |-> h.head, table |-> T!NewTable]]
      /\ head' = x
      /\ allocations' = h.allocations + 1

-----------------------------------------------------------------------------
(* The types of what is stored.                                            *)

IsTable(t) ==
  /\ t.size \in Nat /\ t.count \in Nat
  /\ t = [size |-> t.size, count |-> t.count, hashes |-> t.hashes,
          keys |-> t.keys, values |-> t.values]
  /\ t.keys \in [T!Slots(t) -> Value]
  /\ t.values \in [T!Slots(t) -> Value]

IsCell(c) ==
  /\ c = [next |-> c.next, table |-> c.table]
  /\ IsTable(c.table)
  /\ c.next \in Addr \cup {Null} \/ c = Freed

HeapTypeOK ==
  /\ head \in Addr \cup {Null}
  /\ allocations \in Nat
  /\ roots \in [Addr -> Nat]
  /\ cells = [x \in Addr |-> cells[x]]
  /\ \A x \in Addr : IsCell(cells[x])

\* Heap::allocations, which decides when to collect and which main asserts
\* to be 0 at the end, counts exactly the allocations malloc still owns.
AllocationsExact == allocations = Cardinality(Live)
=============================================================================
