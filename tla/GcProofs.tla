------------------------------ MODULE GcProofs ------------------------------
(***************************************************************************)
(* Heap::gc, run one loop iteration at a time, does in the eyes of the     *)
(* rest of the program what Runtime says it does in one step, and it       *)
(* leaves no mark behind: for every heap, however it is linked, and every  *)
(* program.                                                                *)
(***************************************************************************)
EXTENDS GcSteps, RuntimeProofs

-----------------------------------------------------------------------------
(* Atomic, the instance of Runtime, has its own copy of every operator of  *)
(* Runtime and below.  Those that do not depend on the heap are the same.  *)

\* Numbers and values.
LEMMA SameValues ==
  /\ Atomic!Null = Null /\ Atomic!Types = Types
  /\ \A x, y : Atomic!ValueEq(x, y) = ValueEq(x, y)
  /\ \A x : Atomic!ValueHash(x) = ValueHash(x)
  /\ \A n : Atomic!Wrap(n) = Wrap(n)
  /\ \A x : Atomic!HasTruth(x) = HasTruth(x) /\ Atomic!Truthy(x) = Truthy(x)
  /\ \A x : Atomic!Hashable(x) = Hashable(x)
  /\ \A x : Atomic!Object(x) = Object(x)
  /\ Atomic!ZeroV = ZeroV /\ Atomic!NilV = NilV /\ Atomic!NativeV = NativeV
BY DEF Atomic!Null, Null, Atomic!Types, Types, Atomic!ValueEq, ValueEq,
       Atomic!ValueHash, ValueHash, Atomic!Wrap, Wrap,
       Atomic!HasTruth, HasTruth, Atomic!Truthy, Truthy,
       Atomic!Hashable, Hashable, Atomic!Object, Object, Atomic!ZeroV, ZeroV,
       Atomic!NilV, NilV, Atomic!NativeV, NativeV, Atomic!BoolV, BoolV,
       Atomic!Plain, Plain

\* The operators' results.
LEMMA SameResults ==
  /\ Atomic!BinaryOps = BinaryOps
  /\ \A op, x, y : Atomic!ReadsWild(op, x, y) = ReadsWild(op, x, y)
  /\ \A op, x, y : Atomic!Results(op, x, y) = Results(op, x, y)
<1>1. /\ \A b : Atomic!BoolV(b) = BoolV(b)
      /\ \A n : Atomic!NumberV(n) = NumberV(n)
      /\ Atomic!Ints = Ints /\ Atomic!Uninitialized = Uninitialized
  BY DEF Atomic!BoolV, BoolV, Atomic!NumberV, NumberV, Atomic!Plain, Plain,
         Atomic!Null, Null, Atomic!Ints, Ints, Atomic!Uninitialized, Uninitialized
<1>2. \A x, y : /\ Atomic!Numbers(x, y) = Numbers(x, y)
                /\ Atomic!Booleans(x, y) = Booleans(x, y)
                /\ Atomic!DivideTraps(x, y) = DivideTraps(x, y)
                /\ Atomic!Quotient(x, y) = Quotient(x, y)
                /\ Atomic!Remainder(x, y) = Remainder(x, y)
  BY DEF Atomic!Numbers, Numbers, Atomic!Booleans, Booleans,
         Atomic!DivideTraps, DivideTraps, Atomic!Quotient, Quotient,
         Atomic!Remainder, Remainder, Atomic!Sign, Sign, Atomic!Abs, Abs
<1>3. /\ \A n : Atomic!BitSet(n) = BitSet(n)
      /\ \A bits : Atomic!WithBits(bits) = WithBits(bits)
  BY DEF Atomic!BitSet, BitSet, Atomic!Bit, Bit, Atomic!WithBits, WithBits,
         Atomic!Ints, Ints
<1>4. \A x, y : /\ Atomic!EqResults(x, y) = EqResults(x, y)
                /\ Atomic!LtResults(x, y) = LtResults(x, y)
                /\ Atomic!GtResults(x, y) = GtResults(x, y)
  BY <1>1, <1>2, SameValues
     DEF Atomic!EqResults, EqResults, Atomic!LtResults, LtResults,
         Atomic!GtResults, GtResults
<1>5. \A x, y : Atomic!AndResults(x, y) = AndResults(x, y)
  BY <1>1, <1>2, <1>3 DEF Atomic!AndResults, AndResults
<1>6. \A x, y : Atomic!OrResults(x, y) = OrResults(x, y)
  BY <1>1, <1>2, <1>3 DEF Atomic!OrResults, OrResults
<1>7. \A x, y : /\ Atomic!AddResults(x, y) = AddResults(x, y)
                /\ Atomic!SubResults(x, y) = SubResults(x, y)
                /\ Atomic!MulResults(x, y) = MulResults(x, y)
  BY <1>1, <1>2, SameValues
     DEF Atomic!AddResults, AddResults, Atomic!SubResults, SubResults,
         Atomic!MulResults, MulResults
<1>8. \A x, y : /\ Atomic!DivResults(x, y) = DivResults(x, y)
                /\ Atomic!ModResults(x, y) = ModResults(x, y)
  BY <1>1, <1>2 DEF Atomic!DivResults, DivResults, Atomic!ModResults, ModResults
<1>9. Atomic!BinaryOps = BinaryOps
  BY DEF Atomic!BinaryOps, BinaryOps
<1>10. \A op, x, y : Atomic!ReadsWild(op, x, y) = ReadsWild(op, x, y)
  BY DEF Atomic!ReadsWild, ReadsWild
<1>11. \A op, x, y : Atomic!Results(op, x, y) = Results(op, x, y)
  <2> TAKE op, x, y
  <2> QED BY <1>4, <1>5, <1>6, <1>7, <1>8, Zenon DEF Atomic!Results, Results
<1> QED BY <1>9, <1>10, <1>11

\* Tables.
LEMMA SameTables ==
  /\ Atomic!T!NewTable = T!NewTable
  /\ \A t, k, v : Atomic!T!Put(t, k, v) = T!Put(t, k, v)
  /\ \A t : Atomic!T!IsVoid(t) = T!IsVoid(t)
  /\ \A t, k : Atomic!T!Found(t, k) = T!Found(t, k)
  /\ \A t, k : Atomic!T!ValueAt(t, k) = T!ValueAt(t, k)
<1>1. /\ \A S : Atomic!T!Min(S) = T!Min(S)
      /\ \A S : Atomic!T!Max(S) = T!Max(S)
      /\ \A S : Atomic!T!Cardinality(S) = T!Cardinality(S)
  BY DEF Atomic!T!Min, T!Min, Atomic!T!Max, T!Max,
         Atomic!T!Cardinality, T!Cardinality
<1>2. /\ \A t : Atomic!T!Slots(t) = T!Slots(t)
      /\ \A h : Atomic!T!Occupied(h) = T!Occupied(h)
      /\ \A t : Atomic!T!OccupiedSlots(t) = T!OccupiedSlots(t)
      /\ \A k : Atomic!T!GetHash(k) = T!GetHash(k)
      /\ Atomic!T!EMPTY = T!EMPTY /\ Atomic!T!NoSlot = T!NoSlot
      /\ Atomic!T!NewTable = T!NewTable
  BY SameValues
     DEF Atomic!T!Slots, T!Slots, Atomic!T!Occupied, T!Occupied,
         Atomic!T!OccupiedSlots, T!OccupiedSlots,
         Atomic!T!FirstValidHash, T!FirstValidHash,
         Atomic!T!GetHash, T!GetHash, Atomic!T!EMPTY, T!EMPTY,
         Atomic!T!NoSlot, T!NoSlot, Atomic!T!NewTable, T!NewTable,
         Atomic!T!EmptyTable, T!EmptyTable
<1>3. /\ \A n, h, stops : Atomic!T!ProbeFrom(n, h, stops) = T!ProbeFrom(n, h, stops)
      /\ \A t, k, i : Atomic!T!Matches(t, k, i) = T!Matches(t, k, i)
  BY <1>1, <1>2, SameValues
     DEF Atomic!T!ProbeFrom, T!ProbeFrom, Atomic!T!Matches, T!Matches
<1>4. /\ \A t, k : Atomic!T!PutSlot(t, k) = T!PutSlot(t, k)
      /\ \A t, k : Atomic!T!GetSlot(t, k) = T!GetSlot(t, k)
  BY <1>2, <1>3 DEF Atomic!T!PutSlot, T!PutSlot, Atomic!T!GetSlot, T!GetSlot
<1>5. \A t : Atomic!T!NewSlots(t) = T!NewSlots(t)
  BY DEF Atomic!T!NewSlots, T!NewSlots, Atomic!T!ProbeFrom, T!ProbeFrom,
         Atomic!T!Slots, T!Slots, Atomic!T!Occupied, T!Occupied,
         Atomic!T!FirstValidHash, T!FirstValidHash, Atomic!T!NoSlot, T!NoSlot,
         Atomic!T!Min, T!Min, Atomic!ValueEq, ValueEq
<1>6. \A t : Atomic!T!EnsureCapacity(t) = T!EnsureCapacity(t)
  <2>1. \A t : Atomic!T!Grow(t) = T!Grow(t)
    BY <1>1, <1>2, <1>5, SameValues DEF Atomic!T!Grow, T!Grow
  <2> QED BY <2>1 DEF Atomic!T!EnsureCapacity, T!EnsureCapacity
<1>7. \A t, k, v : Atomic!T!Put(t, k, v) = T!Put(t, k, v)
  <2> TAKE t, k, v
  <2>1. /\ Atomic!T!EnsureCapacity(t) = T!EnsureCapacity(t)
        /\ \A u : Atomic!T!PutSlot(u, k) = T!PutSlot(u, k)
        /\ \A u, i : Atomic!T!Matches(u, k, i) = T!Matches(u, k, i)
        /\ Atomic!T!GetHash(k) = T!GetHash(k)
    BY <1>2, <1>3, <1>4, <1>6
  <2> QED BY <2>1, Zenon DEF Atomic!T!Put, T!Put
<1>8. /\ \A t : Atomic!T!IsVoid(t) = T!IsVoid(t)
      /\ \A t, k : Atomic!T!Found(t, k) = T!Found(t, k)
      /\ \A t, k : Atomic!T!ValueAt(t, k) = T!ValueAt(t, k)
  BY <1>2, <1>3, <1>4
     DEF Atomic!T!Found, T!Found, Atomic!T!IsVoid, T!IsVoid,
         Atomic!T!ValueAt, T!ValueAt
<1> QED BY <1>2, <1>7, <1>8

-----------------------------------------------------------------------------
(* The handlers.  Between collections Runtime sees the heap that is there. *)

Seen == seenHead = head /\ seenAllocations = allocations /\ seenCells = cells

\* The stack, the frames and the roots.
LEMMA SameStack ==
  /\ \A s : /\ Atomic!Top(s) = Top(s) /\ Atomic!Pop(s) = Pop(s)
            /\ Atomic!Second(s) = Second(s) /\ Atomic!Third(s) = Third(s)
  /\ \A n : Atomic!Has(n) = Has(n)
  /\ Atomic!Running = Running /\ Atomic!InLambda = InLambda
  /\ \A v : Atomic!Callable(v) = Callable(v)
  /\ \A f : Atomic!Callee(f) = Callee(f)
  /\ \A p, c, b : Atomic!Activation(p, c, b) = Activation(p, c, b)
  /\ \A r, v : Atomic!Root(r, v) = Root(r, v) /\ Atomic!Unroot(r, v) = Unroot(r, v)
  /\ \A s, x : Atomic!Refs(s, x) = Refs(s, x)
  /\ \A sc, x : Atomic!ScopeRefs(sc, x) = ScopeRefs(sc, x)
  /\ Atomic!Freed = Freed /\ Atomic!NoVariables = NoVariables
<1>1. /\ \A s : /\ Atomic!Top(s) = Top(s) /\ Atomic!Pop(s) = Pop(s)
                /\ Atomic!Second(s) = Second(s) /\ Atomic!Third(s) = Third(s)
      /\ \A n : Atomic!Has(n) = Has(n)
  BY DEF Atomic!Top, Top, Atomic!Pop, Pop, Atomic!Second, Second,
         Atomic!Third, Third, Atomic!Has, Has
<1>2. /\ Atomic!Running = Running
      /\ \A v : Atomic!Callable(v) = Callable(v)
      /\ \A f : Atomic!Callee(f) = Callee(f)
      /\ \A p, c, b : Atomic!Activation(p, c, b) = Activation(p, c, b)
  BY DEF Atomic!Running, Running, Atomic!Callable, Callable,
         Atomic!Callee, Callee, Atomic!Activation, Activation
<1>3. Atomic!InLambda = InLambda
  BY <1>1, <1>2 DEF Atomic!InLambda, InLambda
<1>4. /\ \A r, v : Atomic!Root(r, v) = Root(r, v)
      /\ \A r, v : Atomic!Unroot(r, v) = Unroot(r, v)
  BY SameValues DEF Atomic!Root, Root, Atomic!Unroot, Unroot
<1>5. /\ \A s, x : Atomic!Refs(s, x) = Refs(s, x)
      /\ \A sc, x : Atomic!ScopeRefs(sc, x) = ScopeRefs(sc, x)
  BY DEF Atomic!Refs, Refs, Atomic!ScopeRefs, ScopeRefs,
         Atomic!Cardinality, Cardinality
<1>6. Atomic!Freed = Freed /\ Atomic!NoVariables = NoVariables
  BY SameValues, SameTables
     DEF Atomic!Freed, Freed, Atomic!Unowned, Unowned,
         Atomic!NoVariables, NoVariables
<1> QED BY <1>1, <1>2, <1>3, <1>4, <1>5, <1>6

\* The ends of the process.
LEMMA SameEnds ==
  ASSUME Seen'
  PROVE  (Abort => Atomic!Abort) /\ (Undefined => Atomic!Undefined)
<1>1. ASSUME NEW how, End(how)
      PROVE  Atomic!End(how)
  BY <1>1, SameValues, SameStack DEF Seen, End, Atomic!End
<1> QED BY <1>1 DEF Abort, Undefined, Atomic!Abort, Atomic!Undefined

\* The stack's own operations.
LEMMA SameStackOps ==
  ASSUME Seen, Seen', StackOps
  PROVE  Atomic!StackOps
<1>1. (\E v \in Constants : PushConstant(v))
        => \E v \in Constants : Atomic!PushConstant(v)
  BY SameStack DEF Seen, PushConstant, Atomic!PushConstant
<1>2. Dup => Atomic!Dup
  BY SameStack, SameEnds DEF Seen, Dup, Atomic!Dup
<1>3. Drop => Atomic!Drop
  BY SameStack, SameEnds, SameValues DEF Seen, Drop, Atomic!Drop, heapVars, Atomic!heapVars
<1>4. Swap => Atomic!Swap
  BY SameStack, SameEnds DEF Seen, Swap, Atomic!Swap, heapVars, Atomic!heapVars
<1>5. Rot => Atomic!Rot
  BY SameStack, SameEnds DEF Seen, Rot, Atomic!Rot, heapVars, Atomic!heapVars
<1> QED BY <1>1, <1>2, <1>3, <1>4, <1>5 DEF StackOps, Atomic!StackOps

\* The operators.
LEMMA SameOperatorOps ==
  ASSUME Seen, Seen', OperatorOps
  PROVE  Atomic!OperatorOps
<1>1. ASSUME NEW op \in BinaryOps, Binary(op)
      PROVE  Atomic!Binary(op)
  BY <1>1, SameStack, SameEnds, SameResults DEF Seen, Binary, Atomic!Binary
<1>2. Not => Atomic!Not
  BY SameStack, SameEnds DEF Seen, Not, Atomic!Not, heapVars, Atomic!heapVars
<1>3. Neg => Atomic!Neg
  BY SameStack, SameEnds, SameValues
     DEF Seen, Neg, Atomic!Neg, heapVars, Atomic!heapVars
<1> QED BY <1>1, <1>2, <1>3, SameResults DEF OperatorOps, Atomic!OperatorOps

\* Reading and setting properties.
LEMMA SamePropOps ==
  ASSUME Seen, Seen'
  PROVE  (GetProp => Atomic!GetProp) /\ (SetProp => Atomic!SetProp)
<1>1. \A v : /\ Atomic!Dangling(v) = Dangling(v)
             /\ Atomic!Table(v) = Table(v) /\ Atomic!WildKey(v) = WildKey(v)
  BY SameStack, SameValues
     DEF Seen, Atomic!Dangling, Dangling, Atomic!Table, Table,
         Atomic!WildKey, WildKey
<1>2. GetProp => Atomic!GetProp
  BY <1>1, SameStack, SameEnds, SameValues, SameTables
     DEF Seen, GetProp, Atomic!GetProp
<1>3. SetProp => Atomic!SetProp
  BY <1>1, SameStack, SameEnds, SameValues, SameTables
     DEF Seen, SetProp, Atomic!SetProp
<1> QED BY <1>2, <1>3

\* Variables.
LEMMA SameVariableOps ==
  ASSUME Seen, Seen', VariableOps
  PROVE  Atomic!VariableOps
<1>1. Load => Atomic!Load
  BY SameStack, SameEnds DEF Seen, Load, Atomic!Load
<1>2. Store => Atomic!Store
  BY SameStack, SameEnds DEF Seen, Store, Atomic!Store
<1> QED BY <1>1, <1>2 DEF VariableOps, Atomic!VariableOps

\* Calls, conditionals and loops.
LEMMA SameCallOps ==
  ASSUME Seen, Seen', CallOps
  PROVE  Atomic!CallOps
<1>0. /\ \A f : (Enter(f) => Atomic!Enter(f)) /\ (Resume(f) => Atomic!Resume(f))
      /\ Leave => Atomic!Leave
      /\ \A p : Returns(p) => Atomic!Returns(p)
      /\ \A v : Atomic!WildKey(v) = WildKey(v)
  BY SameStack DEF Enter, Atomic!Enter, Resume, Atomic!Resume,
                   Leave, Atomic!Leave, Returns, Atomic!Returns,
                   WildKey, Atomic!WildKey
<1> USE SameStack, SameEnds, SameValues
<1>1. Exec => Atomic!Exec
  BY <1>0 DEF Seen, Exec, Atomic!Exec
<1>2. CondExec => Atomic!CondExec
  BY <1>0 DEF Seen, CondExec, Atomic!CondExec
<1>3. While => Atomic!While
  BY <1>0 DEF Seen, While, Atomic!While
<1>4. BranchIf => Atomic!BranchIf
  BY DEF Seen, BranchIf, Atomic!BranchIf
<1>5. StdPrint => Atomic!StdPrint
  BY <1>0 DEF Seen, StdPrint, Atomic!StdPrint
<1>6. ReturnFromCall => Atomic!ReturnFromCall
  BY <1>0 DEF Seen, ReturnFromCall, Atomic!ReturnFromCall,
              heapVars, Atomic!heapVars
<1>7. ReturnFromCond => Atomic!ReturnFromCond
  BY <1>0 DEF Seen, ReturnFromCond, Atomic!ReturnFromCond
<1>8. ReturnFromBody => Atomic!ReturnFromBody
  BY <1>0 DEF Seen, ReturnFromBody, Atomic!ReturnFromBody,
              heapVars, Atomic!heapVars
<1> QED BY <1>1, <1>2, <1>3, <1>4, <1>5, <1>6, <1>7, <1>8
        DEF CallOps, Atomic!CallOps

\* The end of main, up to its collection.
LEMMA SameUnrootAll ==
  ASSUME Seen, Seen', UnrootAll
  PROVE  Atomic!UnrootAll
BY SameStack DEF Seen, UnrootAll, Atomic!UnrootAll

\* The start.
LEMMA SameInit ==
  ASSUME Seen, Init
  PROVE  Atomic!Init
BY SameStack, SameValues DEF Seen, Init, Atomic!Init, HeapInit, Atomic!HeapInit

-----------------------------------------------------------------------------
(* The heap.  What Runtime makes of a heap depends on the heap and the     *)
(* roots only, so it stays while the collector works on a copy.            *)

\* What Runtime makes of the heap that is there.
LEMMA SameHeap ==
  ASSUME Seen
  PROVE  /\ Atomic!Live = Live /\ Atomic!Rooted = Rooted
         /\ \A x : Atomic!Children(x) = Children(x)
         /\ Atomic!Marked = Marked /\ Atomic!OnList = OnList
         /\ Atomic!SweepTouchesFreed = SweepTouchesFreed
         /\ Atomic!AllocCollects = AllocCollects
<1>1. Atomic!Live = Live /\ Atomic!Rooted = Rooted
  BY SameStack DEF Seen, Atomic!Live, Live, Atomic!Rooted, Rooted
<1>2. \A x : Atomic!Children(x) = Children(x)
  BY DEF Seen, Atomic!Children, Children, Atomic!ScannedSlots, ScannedSlots
<1>3. \A S : Atomic!ClosedUnderMark(S) = ClosedUnderMark(S)
  BY <1>1, <1>2, SameValues DEF Atomic!ClosedUnderMark, ClosedUnderMark
<1>4. Atomic!Marked = Marked
  BY <1>1, <1>3 DEF Atomic!Marked, Marked
<1>5. \A S : Atomic!ClosedUnderNext(S) = ClosedUnderNext(S)
  BY <1>1, SameValues DEF Seen, Atomic!ClosedUnderNext, ClosedUnderNext
<1>6. Atomic!OnList = OnList
  BY <1>5, SameValues DEF Seen, Atomic!OnList, OnList
<1>7. Atomic!SweepTouchesFreed = SweepTouchesFreed
  BY <1>1, <1>6, SameValues
     DEF Seen, Atomic!SweepTouchesFreed, SweepTouchesFreed,
         Atomic!Terminated, Terminated
<1>8. Atomic!AllocCollects = AllocCollects
  BY DEF Seen, Atomic!AllocCollects, AllocCollects
<1> QED BY <1>1, <1>2, <1>4, <1>6, <1>7, <1>8

\* What Runtime sees while the collector works stays.
LEMMA StillHeap ==
  ASSUME UNCHANGED <<seenHead, seenCells, roots>>
  PROVE  /\ Atomic!Live' = Atomic!Live
         /\ Atomic!Marked' = Atomic!Marked /\ Atomic!OnList' = Atomic!OnList
         /\ Atomic!SweepTouchesFreed' = Atomic!SweepTouchesFreed
<1>1. Atomic!Live' = Atomic!Live /\ Atomic!Rooted' = Atomic!Rooted
  BY DEF Atomic!Live, Atomic!Rooted
<1>2. Atomic!Marked' = Atomic!Marked
  BY <1>1 DEF Atomic!Marked, Atomic!ClosedUnderMark, Atomic!Children
<1>3. Atomic!OnList' = Atomic!OnList
  BY <1>1 DEF Atomic!OnList, Atomic!ClosedUnderNext
<1>4. Atomic!SweepTouchesFreed' = Atomic!SweepTouchesFreed
  BY <1>1, <1>3 DEF Atomic!SweepTouchesFreed, Atomic!Terminated
<1> QED BY <1>1, <1>2, <1>3, <1>4

-----------------------------------------------------------------------------
(* sweep, on a list that ends.  The nodes fall in rank along the list, so  *)
(* those that sweep has passed are those of higher rank than the node it   *)
(* is at: of L, the nodes, the ones in M are kept and the others freed.    *)

Behind(rank, L) == {x \in L : curr = Null \/ rank[x] > rank[curr]}

\* Where a link that led to y leads now: the node that sweep is at is not
\* unlinked yet.
LinkTo(K, c, y) == IF y = curr THEN curr ELSE Relinked(K, c, y)

\* Sweep's `prev' is the last node it kept, if its link leads to the node it
\* is at; otherwise, a node having been freed just before, it is that node.
PrevOK(V, M, c) ==
  \/ prev = Null /\ V = {}
  \/ prev \in V \cap M /\ c[prev].next = curr
  \/ prev = curr /\ V # {} /\ \A x \in V \cap M : c[x].next # curr

SweptSoFar(V, L, M, c) ==
  [x \in Addr |->
     IF x \in V \ M THEN Freed
     ELSE IF x \in V THEN [next |-> LinkTo(L \cap M, c, c[x].next),
                           table |-> c[x].table]
     ELSE c[x]]

Sweeping(rank, L, M, h, c) ==
  /\ Chained(rank, L, h, c) /\ curr \in L \cup {Null}
  /\ marks = M \ Behind(rank, L)
  /\ swept = Cardinality(Behind(rank, L) \ M)
  /\ head = LinkTo(L \cap M, c, h)
  /\ cells = SweptSoFar(Behind(rank, L), L, M, c)
  /\ curr # Null => PrevOK(Behind(rank, L), M, c)

\* Going on to the next node adds the last one to the nodes passed.
LEMMA Advance ==
  ASSUME NEW rank, NEW L \in SUBSET Addr, NEW h, NEW c, Chained(rank, L, h, c),
         curr \in L, curr' = c[curr].next
  PROVE  /\ curr' \in L \cup {Null} /\ curr' # curr /\ curr # Null
         /\ Behind(rank, L)' = Behind(rank, L) \cup {curr}
         /\ curr \notin Behind(rank, L)
         /\ \A x \in Behind(rank, L) : c[x].next # curr' \/ curr' = Null
         /\ \A x, y \in Behind(rank, L) :
              c[x].next = curr /\ c[y].next = curr => x = y
         /\ Behind(rank, L) = {} <=> h = curr
         /\ h # Null /\ h # curr'
<1>1. /\ rank \in [Addr -> Nat] /\ Leads(rank, L, h) /\ Null \notin Addr
      /\ \A x, y \in L : rank[x] = rank[y] => x = y
      /\ \A x \in L : Follows(rank, L, x, c[x].next)
  BY AddrAssumption DEF Chained
<1>2. \A x \in L : rank[x] \in Nat
  BY <1>1
<1>3. h \in L /\ \A x \in L : rank[x] <= rank[h]
  BY <1>1 DEF Leads
<1>4. /\ curr' \in L \cup {Null} /\ curr # Null
      /\ curr' = Null => \A x \in L : rank[curr] <= rank[x]
      /\ curr' # Null => /\ rank[curr'] < rank[curr]
                         /\ \A x \in L : rank[x] <= rank[curr']
                                           \/ rank[curr] <= rank[x]
  BY <1>1 DEF Follows
<1>5. Behind(rank, L) = {x \in L : rank[x] > rank[curr]}
  BY <1>4 DEF Behind
<1>6. Behind(rank, L)' = {x \in L : curr' = Null \/ rank[x] > rank[curr']}
  BY DEF Behind
<1>7. \A x \in L : curr' = Null \/ rank[x] > rank[curr'] <=>
                     rank[x] > rank[curr] \/ x = curr
  BY <1>1, <1>2, <1>4
<1>8. Behind(rank, L)' = Behind(rank, L) \cup {curr}
  BY <1>5, <1>6, <1>7
<1>9. ASSUME NEW x \in Behind(rank, L), c[x].next = curr', curr' # Null
      PROVE  FALSE
  <2>1. x \in L /\ rank[x] > rank[curr] /\ Follows(rank, L, x, curr')
    BY <1>1, <1>5, <1>9
  <2>2. rank[curr] <= rank[curr'] \/ rank[x] <= rank[curr]
    BY <1>9, <2>1 DEF Follows
  <2> QED BY <1>2, <1>4, <1>9, <2>1, <2>2
<1>10. Behind(rank, L) = {} <=> h = curr
  BY <1>1, <1>2, <1>3, <1>5
<1>11. h # Null /\ h # curr'
  BY <1>1, <1>2, <1>3, <1>4
<1>12. ASSUME NEW x \in Behind(rank, L), NEW y \in Behind(rank, L),
              c[x].next = curr, c[y].next = curr
       PROVE  x = y
  <2>1. /\ x \in L /\ rank[x] > rank[curr] /\ Follows(rank, L, x, curr)
        /\ y \in L /\ rank[y] > rank[curr] /\ Follows(rank, L, y, curr)
    BY <1>1, <1>5, <1>12
  <2>2. rank[x] <= rank[y] /\ rank[y] <= rank[x]
    BY <1>2, <1>4, <2>1 DEF Follows
  <2> QED BY <1>1, <1>2, <2>1, <2>2
<1> QED BY <1>2, <1>4, <1>5, <1>8, <1>9, <1>10, <1>11, <1>12

\* Keeping a node: its mark is cleared.
LEMMA KeepSweeping ==
  ASSUME NEW rank, NEW L \in SUBSET Addr, NEW M \in SUBSET L, NEW h, NEW c,
         Sweeping(rank, L, M, h, c), KeepNode,
         \A x \in L : c[x] = [next |-> c[x].next, table |-> c[x].table]
  PROVE  Sweeping(rank, L, M, h, c)'
<1> DEFINE V == Behind(rank, L)
           K == L \cap M
<1>1. /\ Chained(rank, L, h, c) /\ curr \in L /\ marks = M \ V
      /\ swept = Cardinality(V \ M) /\ head = LinkTo(K, c, h)
      /\ cells = SweptSoFar(V, L, M, c)
      /\ curr \in M \ V /\ curr # Null /\ V \subseteq L
      /\ marks' = marks \ {curr} /\ prev' = curr /\ curr' = cells[curr].next
      /\ swept' = swept /\ head' = head /\ cells' = cells
  BY DEF Sweeping, KeepNode, vars, heapVars, Behind
<1>2. curr' = c[curr].next
  BY <1>1 DEF SweptSoFar
<1>3. /\ curr' \in L \cup {Null} /\ curr' # curr
      /\ Behind(rank, L)' = V \cup {curr}
      /\ \A x \in V : c[x].next # curr' \/ curr' = Null
      /\ h # Null /\ h # curr'
  BY <1>1, <1>2, Advance
<1> HIDE DEF V
<1>4. /\ marks' = M \ Behind(rank, L)' /\ (V \cup {curr}) \ M = V \ M
      /\ Behind(rank, L)' \ M = V \ M
  BY <1>1, <1>3
<1>5. Relinked(K, c, curr) = curr /\ \A y : LinkTo(K, c, y) = Relinked(K, c, y)
  BY <1>1 DEF LinkTo, Relinked
<1>6. head' = LinkTo(K, c, h)'
  BY <1>1, <1>3, <1>5 DEF LinkTo
<1>7. \A x \in V : LinkTo(K, c, c[x].next)' = LinkTo(K, c, c[x].next)
  <2> TAKE x \in V
  <2>1. CASE c[x].next = curr'
    <3>1. c[x].next = Null /\ curr' = Null
      BY <1>3, <2>1
    <3> QED BY <1>1, <3>1 DEF LinkTo, Relinked
  <2>2. CASE c[x].next # curr'
    <3>1. LinkTo(K, c, c[x].next)' = Relinked(K, c, c[x].next)
      BY <2>2 DEF LinkTo
    <3> QED BY <1>5, <3>1
  <2> QED BY <2>1, <2>2
<1>8. \A y : y = curr' => LinkTo(K, c, y)' = y
  BY DEF LinkTo
<1>9. ASSUME NEW x \in Addr
      PROVE  cells[x] = IF x \in (V \cup {curr}) \ M THEN Freed
                        ELSE IF x \in V \cup {curr}
                        THEN [next |-> LinkTo(K, c, c[x].next)',
                              table |-> c[x].table]
                        ELSE c[x]
  <2>1. CASE x = curr
    <3>1. cells[x] = c[x] /\ x \in L /\ x \in M
      BY <1>1, <2>1 DEF SweptSoFar
    <3>2. c[x].next = curr'
      BY <1>2, <2>1
    <3>3. c[x] = [next |-> LinkTo(K, c, c[x].next)', table |-> c[x].table]
      BY <1>8, <3>1, <3>2
    <3> QED BY <2>1, <3>1, <3>3
  <2>2. CASE x # curr
    BY <1>1, <1>7, <2>2 DEF SweptSoFar
  <2> QED BY <2>1, <2>2
<1>10. cells' = SweptSoFar(Behind(rank, L), L, M, c)'
  BY <1>1, <1>3, <1>9 DEF SweptSoFar
<1>11. PrevOK(Behind(rank, L), M, c)'
  BY <1>1, <1>2, <1>3 DEF PrevOK
<1>12. Chained(rank, L, h, c)'
  BY <1>1
<1> QED BY <1>1, <1>3, <1>4, <1>6, <1>10, <1>11, <1>12 DEF Sweeping

\* Freeing a node: what led to it is relinked, or prev is the node itself.
LEMMA FreeSweeping ==
  ASSUME NEW rank, NEW L \in SUBSET Addr, NEW M \in SUBSET L, NEW h, NEW c,
         Sweeping(rank, L, M, h, c), FreeNode
  PROVE  Sweeping(rank, L, M, h, c)'
<1> DEFINE V == Behind(rank, L)
           K == L \cap M
<1>1. /\ Chained(rank, L, h, c) /\ curr \in L /\ marks = M \ V
      /\ swept = Cardinality(V \ M) /\ head = LinkTo(K, c, h)
      /\ cells = SweptSoFar(V, L, M, c) /\ PrevOK(V, M, c)
      /\ curr \notin M \ V /\ curr # Null /\ V \subseteq L /\ Null \notin Addr
      /\ marks' = marks /\ prev' = curr' /\ curr' = cells[curr].next
      /\ swept' = swept + 1
      /\ head' = IF prev = Null THEN cells[curr].next ELSE head
      /\ cells' = [(IF prev = Null THEN cells
                    ELSE [cells EXCEPT ![prev].next = cells[curr].next])
                     EXCEPT ![curr] = Freed]
  BY AddrAssumption DEF Sweeping, FreeNode, Behind
<1>2. curr \notin V /\ curr \notin M
  BY <1>1 DEF Behind, Chained
<1>3. curr' = c[curr].next
  BY <1>1, <1>2 DEF SweptSoFar
<1>4. /\ curr' \in L \cup {Null} /\ curr' # curr
      /\ Behind(rank, L)' = V \cup {curr}
      /\ \A x \in V : c[x].next # curr' \/ curr' = Null
      /\ \A x, y \in V : c[x].next = curr /\ c[y].next = curr => x = y
      /\ V = {} <=> h = curr
      /\ h # Null /\ h # curr'
  BY <1>1, <1>3, Advance
<1> HIDE DEF V
<1>5. /\ marks' = M \ Behind(rank, L)'
      /\ Behind(rank, L)' \ M = (V \ M) \cup {curr}
  BY <1>1, <1>2, <1>4
<1>6. swept' = Cardinality(Behind(rank, L) \ M)'
  <2>1. IsFiniteSet(V \ M)
    BY <1>1, AddrAssumption, FS_Subset
  <2>2. Cardinality((V \ M) \cup {curr}) = Cardinality(V \ M) + 1
    BY <1>2, <2>1, FS_AddElement
  <2> QED BY <1>1, <1>5, <2>2
<1>7. Relinked(K, c, curr) = curr'
  BY <1>1, <1>2, <1>3 DEF Relinked
<1>8. prev = Null <=> V = {}
  BY <1>1 DEF PrevOK
<1>9. head' = LinkTo(K, c, h)'
  BY <1>1, <1>3, <1>4, <1>7, <1>8 DEF LinkTo
<1>10. \A x \in V : LinkTo(K, c, c[x].next)' =
                      IF c[x].next = curr THEN curr'
                      ELSE LinkTo(K, c, c[x].next)
  BY <1>4, <1>7 DEF LinkTo, Relinked
<1>11. ASSUME NEW x \in Addr
       PROVE  cells'[x] = IF x = curr THEN Freed
                          ELSE IF x \in V \ M THEN Freed
                          ELSE IF x \in V
                          THEN [next |-> LinkTo(K, c, c[x].next)',
                                table |-> c[x].table]
                          ELSE c[x]
  <2>1. cells = [y \in Addr |-> cells[y]]
    BY <1>1 DEF SweptSoFar
  <2>2. CASE x = curr
    BY <1>1, <2>1, <2>2
  <2>3. CASE x # curr /\ x # prev
    <3>1. cells'[x] = cells[x]
      BY <1>1, <2>1, <2>3
    <3>2. x \in V \cap M => c[x].next # curr
      BY <1>1, <1>4, <2>3 DEF PrevOK
    <3> QED BY <1>1, <1>10, <2>3, <3>1, <3>2 DEF SweptSoFar
  <2>4. CASE x # curr /\ x = prev
    <3>1. prev \in V \cap M /\ c[prev].next = curr /\ prev # Null
      BY <1>1, <2>4 DEF PrevOK
    <3>2. cells[prev] = [next |-> LinkTo(K, c, c[prev].next),
                         table |-> c[prev].table]
      BY <1>1, <3>1 DEF SweptSoFar
    <3>3. cells'[x] = [cells[prev] EXCEPT !.next = cells[curr].next]
      BY <1>1, <2>1, <2>4, <3>1
    <3>4. cells'[x] = [next |-> curr', table |-> c[prev].table]
      <4>1. cells[curr].next = curr'
        BY <1>1
      <4>2. [cells[prev] EXCEPT !.next = curr'] =
              [next |-> curr', table |-> c[prev].table]
        BY <3>2
      <4> QED BY <3>3, <4>1, <4>2
    <3> QED BY <1>1, <1>10, <2>4, <3>1, <3>4
  <2> QED BY <2>2, <2>3, <2>4
<1>12. cells' = SweptSoFar(Behind(rank, L), L, M, c)'
  <2>1. cells' = [x \in Addr |-> cells'[x]]
    BY <1>1 DEF SweptSoFar
  <2> QED BY <1>2, <1>4, <1>11, <2>1 DEF SweptSoFar
<1>13. curr' # Null => PrevOK(Behind(rank, L), M, c)'
  BY <1>1, <1>2, <1>4 DEF PrevOK
<1>14. Chained(rank, L, h, c)'
  BY <1>1
<1> QED BY <1>4, <1>5, <1>6, <1>9, <1>12, <1>13, <1>14 DEF Sweeping

\* The start of sweep, with the marks of M set.
LEMMA StartSweeping ==
  ASSUME NEW rank, NEW L \in SUBSET Addr, NEW M \in SUBSET L, NEW h, NEW c,
         Chained(rank, L, h, c), c = [x \in Addr |-> c[x]],
         curr' = h, prev' = Null, swept' = 0, marks' = M, head' = h, cells' = c
  PROVE  Sweeping(rank, L, M, h, c)'
<1>1. /\ rank \in [Addr -> Nat] /\ Leads(rank, L, h)
      /\ \A x, y \in L : rank[x] = rank[y] => x = y
  BY DEF Chained
<1>2. Behind(rank, L)' = {x \in L : h = Null \/ rank[x] > rank[h]}
  BY DEF Behind
<1>3. Behind(rank, L)' = {}
  BY <1>1, <1>2, AddrAssumption DEF Leads
<1>4. h \in L \cup {Null}
  BY <1>1 DEF Leads
<1>5. cells' = SweptSoFar(Behind(rank, L), L, M, c)'
  BY <1>3 DEF SweptSoFar
<1>6. head' = LinkTo(L \cap M, c, h)' /\ PrevOK(Behind(rank, L), M, c)'
  BY <1>3 DEF LinkTo, PrevOK
<1>7. ({} \ M) = {} /\ Cardinality({}) = 0
  BY FS_EmptySet
<1> QED BY <1>3, <1>4, <1>5, <1>6, <1>7 DEF Sweeping

\* While there are nodes to come, sweep has not freed what it reads.
LEMMA SweepingReads ==
  ASSUME NEW rank, NEW L \in SUBSET Addr, NEW M \in SUBSET L, NEW h, NEW c,
         Sweeping(rank, L, M, h, c), curr # Null
  PROVE  cells[curr] # Freed /\ (prev # Null => cells[prev] # Freed)
<1>1. /\ rank \in [Addr -> Nat] /\ curr \in L /\ Null \notin Addr
      /\ \A x \in L : Follows(rank, L, x, c[x].next)
      /\ cells = SweptSoFar(Behind(rank, L), L, M, c)
      /\ PrevOK(Behind(rank, L), M, c) /\ Behind(rank, L) \subseteq L
  BY AddrAssumption DEF Sweeping, Chained, Behind
<1>2. Freed.next = Unowned /\ Unowned # Null /\ Unowned \notin Addr
  BY AddrAssumption DEF Freed, Unowned, Null
<1>3. \A x \in L : c[x].next \in Addr \cup {Null} /\ c[x] # Freed
  BY <1>1, <1>2 DEF Follows
<1>4. cells[curr] = c[curr]
  BY <1>1 DEF SweptSoFar, Behind
<1>5. ASSUME prev \in Behind(rank, L) \cap M, c[prev].next = curr
      PROVE  cells[prev] # Freed
  <2>1. cells[prev].next = LinkTo(L \cap M, c, c[prev].next)
    BY <1>1, <1>5 DEF SweptSoFar
  <2>2. cells[prev].next = curr
    BY <1>5, <2>1 DEF LinkTo
  <2> QED BY <1>1, <1>2, <2>2
<1> QED BY <1>1, <1>3, <1>4, <1>5 DEF PrevOK

SweptOut(L, M, c) ==
  [x \in Addr |->
     IF x \in L \ M THEN Freed
     ELSE IF x \in L THEN [next |-> Relinked(M, c, c[x].next),
                          table |-> c[x].table]
     ELSE c[x]]

\* The end of sweep: no mark is left, and every link skips one freed node.
LEMMA EndSweeping ==
  ASSUME NEW rank, NEW L \in SUBSET Addr, NEW M \in SUBSET L, NEW h, NEW c,
         Sweeping(rank, L, M, h, c), curr = Null
  PROVE  /\ marks = {} /\ swept = Cardinality(L \ M)
         /\ head = Relinked(M, c, h)
         /\ cells = SweptOut(L, M, c)
<1>1. Behind(rank, L) = L /\ L \cap M = M /\ M \ L = {}
  BY DEF Behind
<1>2. \A y : LinkTo(M, c, y) = Relinked(M, c, y)
  BY DEF LinkTo, Relinked
<1> QED BY <1>1, <1>2 DEF Sweeping, SweptSoFar, SweptOut

-----------------------------------------------------------------------------
(* sweep, on a list that never ends: it never gets out of S.               *)

Stuck(S) ==
  /\ S \subseteq Addr /\ curr \in S
  /\ cells = [x \in Addr |-> cells[x]]
  /\ \A x \in Addr : cells[x] = [next |-> cells[x].next, table |-> cells[x].table]
  /\ \A x \in S : cells[x] # Freed => cells[x].next \in S

\* Keeping a node moves no link.
LEMMA KeepStuck ==
  ASSUME NEW S, Stuck(S), KeepNode
  PROVE  Stuck(S)'
BY DEF Stuck, KeepNode, vars, heapVars

\* Freeing a node moves one, to where the freed node's own led.
LEMMA FreeStuck ==
  ASSUME NEW S, Stuck(S), FreeNode, prev \in Addr \cup {Null}
  PROVE  Stuck(S)'
<1> DEFINE next == cells[curr].next
<1>1. /\ S \subseteq Addr /\ curr \in S /\ next \in S
      /\ cells = [x \in Addr |-> cells[x]]
      /\ \A x \in Addr : cells[x] = [next |-> cells[x].next,
                                    table |-> cells[x].table]
      /\ \A x \in S : cells[x] # Freed => cells[x].next \in S
      /\ cells' = [(IF prev = Null THEN cells
                    ELSE [cells EXCEPT ![prev].next = next])
                     EXCEPT ![curr] = Freed]
      /\ curr' = next /\ Null \notin Addr
  BY AddrAssumption DEF Stuck, FreeNode
<1>2. Freed = [next |-> Freed.next, table |-> Freed.table]
  BY DEF Freed
<1> HIDE DEF next
<1>3. ASSUME NEW x \in Addr
      PROVE  cells'[x] = IF x = curr THEN Freed
                         ELSE IF x = prev
                         THEN [next |-> next, table |-> cells[x].table]
                         ELSE cells[x]
  <2>1. CASE x = prev /\ x # curr
    <3>1. cells'[x] = [cells[x] EXCEPT !.next = next]
      BY <1>1, <2>1
    <3>2. cells[x] = [next |-> cells[x].next, table |-> cells[x].table]
      BY <1>1
    <3>3. [cells[x] EXCEPT !.next = next] =
            [next |-> next, table |-> cells[x].table]
      BY <3>2
    <3> QED BY <2>1, <3>1, <3>3
  <2>2. CASE ~(x = prev /\ x # curr)
    BY <1>1, <2>2
  <2> QED BY <2>1, <2>2
<1>4. ASSUME NEW x \in Addr
      PROVE  cells'[x] = [next |-> cells'[x].next, table |-> cells'[x].table]
  <2>1. CASE x = curr
    BY <1>2, <1>3, <2>1
  <2>2. CASE x # curr /\ x = prev
    BY <1>3, <2>2
  <2>3. CASE x # curr /\ x # prev
    BY <1>1, <1>3, <2>3
  <2> QED BY <2>1, <2>2, <2>3
<1>5. ASSUME NEW x \in S, cells'[x] # Freed
      PROVE  cells'[x].next \in S
  <2>1. x \in Addr /\ x # curr
    BY <1>1, <1>3, <1>5
  <2>2. CASE x = prev
    <3>1. cells'[x] = [next |-> next, table |-> cells[x].table]
      BY <1>3, <2>1, <2>2
    <3> QED BY <1>1, <3>1
  <2>3. CASE x # prev
    BY <1>1, <1>3, <1>5, <2>1, <2>3
  <2> QED BY <2>2, <2>3
<1>6. cells' = [x \in Addr |-> cells'[x]]
  BY <1>1
<1> QED BY <1>1, <1>4, <1>5, <1>6 DEF Stuck

-----------------------------------------------------------------------------
(* mark.  Its activations are kept as a set: what each has looked at is    *)
(* marked, and what is marked and not looked through has an activation.    *)

MarkFrame == [at : Addr, slot : Nat, side : {"key", "value"}]
Active(w) == {w[i] : i \in 1 .. Len(w)}
EnterMark(x) == [at |-> x, slot |-> 0, side |-> "key"]

\* The owners that the activation f has looked at.
Passed(f) ==
  LET t == cells[f.at].table
  IN  {t.keys[i].a : i \in 0 .. f.slot - 1}
        \cup {t.values[i].a : i \in 0 .. f.slot - 1}
        \cup (IF f.side = "value" THEN {t.keys[f.slot].a} ELSE {})

\* With the marks ms set, the roots td to come and the activations A.
Marking(ms, td, A) ==
  /\ ms \subseteq Live \cap Marked
  /\ td \subseteq Rooted /\ Rooted \subseteq td \cup ms
  /\ \A f \in A : f.at \in ms /\ Passed(f) \ {Null} \subseteq ms
  /\ \A x \in ms : Children(x) \ {Null} \subseteq ms \/ \E f \in A : f.at = x

\* Entering an activation.
LEMMA ActivePush ==
  ASSUME NEW w \in Seq(MarkFrame), NEW f \in MarkFrame
  PROVE  /\ Append(w, f) \in Seq(MarkFrame)
         /\ Active(Append(w, f)) = Active(w) \cup {f}
<1> DEFINE n == Len(w)
           u == Append(w, f)
<1>1. /\ u \in Seq(MarkFrame) /\ n \in Nat /\ Len(u) = n + 1
      /\ \A i \in 1 .. n : u[i] = w[i]
      /\ u[n + 1] = f
  BY AppendProperties, LenProperties
<1> HIDE DEF u
<1>2. 1 .. n + 1 = (1 .. n) \cup {n + 1}
  BY <1>1
<1>3. Active(u) = Active(w) \cup {f}
  BY <1>1, <1>2 DEF Active
<1> QED BY <1>1, <1>3 DEF u

\* Leaving one.
LEMMA ActivePop ==
  ASSUME NEW w \in Seq(MarkFrame), w # <<>>
  PROVE  /\ Top(w) \in MarkFrame /\ Pop(w) \in Seq(MarkFrame)
         /\ Active(w) = Active(Pop(w)) \cup {Top(w)}
<1> DEFINE n == Len(w)
           u == Pop(w)
<1>1. n \in Nat /\ n >= 1 /\ w \in [1 .. n -> MarkFrame]
  BY LenProperties, EmptySeq
<1>2. /\ u \in Seq(MarkFrame) /\ Len(u) = n - 1
      /\ \A i \in 1 .. n - 1 : u[i] = w[i]
  BY <1>1, SubSeqProperties DEF Pop
<1>3. Top(w) = w[n] /\ Top(w) \in MarkFrame
  BY <1>1 DEF Top
<1> HIDE DEF u
<1>4. 1 .. n = (1 .. n - 1) \cup {n}
  BY <1>1
<1>5. Active(w) = Active(u) \cup {Top(w)}
  BY <1>1, <1>2, <1>3, <1>4 DEF Active
<1> QED BY <1>2, <1>3, <1>5 DEF u

\* No activation is left of none.
LEMMA ActiveNone == Active(<<>>) = {}
BY DEF Active

\* Visiting a node: it is marked, and entered if it was not.
LEMMA VisitMarking ==
  ASSUME NEW ms, NEW td, NEW A, Marking(ms, td, A), NEW x \in Live \cap Marked
  PROVE  LET ns == ms \cup {x}
             B == IF x \in ms THEN A ELSE A \cup {EnterMark(x)}
         IN  Marking(ns, td, B) /\ Marking(ns, td \ {x}, B)
<1> DEFINE ns == ms \cup {x}
           B == IF x \in ms THEN A ELSE A \cup {EnterMark(x)}
<1>1. EnterMark(x).at = x /\ Passed(EnterMark(x)) = {}
  BY DEF EnterMark, Passed
<1>2. \A f \in B : f.at \in ns /\ Passed(f) \ {Null} \subseteq ns
  BY <1>1 DEF Marking
<1>3. \A y \in ns : Children(y) \ {Null} \subseteq ns \/ \E f \in B : f.at = y
  BY <1>1 DEF Marking
<1> QED BY <1>2, <1>3 DEF Marking

\* Going on from the activation f to g, having marked what is in between.
LEMMA AdvanceMarking ==
  ASSUME NEW ms, NEW td, NEW A, NEW f, NEW g, Marking(ms, td, A \cup {f}),
         g.at = f.at, NEW y \in ms \cup {Null}, Passed(g) \subseteq Passed(f) \cup {y}
  PROVE  Marking(ms, td, A \cup {g})
BY DEF Marking

\* Returning from an activation that has looked at everything.
LEMMA ReturnMarking ==
  ASSUME NEW ms, NEW td, NEW A, NEW f, Marking(ms, td, A \cup {f}),
         Children(f.at) \subseteq Passed(f)
  PROVE  Marking(ms, td, A)
BY DEF Marking

\* At the end, exactly what Runtime says is marked.
LEMMA EndMarking ==
  ASSUME NEW ms, Marking(ms, {}, {})
  PROVE  ms = Marked /\ Marked \subseteq Live
<1>1. ms \subseteq Live /\ ms \subseteq Marked /\ ms \subseteq Addr
  BY DEF Marking, Live
<1>2. Rooted \subseteq ms /\ ClosedUnderMark(ms)
  BY DEF Marking, ClosedUnderMark
<1> QED BY <1>1, <1>2 DEF Marked

\* The heap does not change while mark runs.
LEMMA StillMarking ==
  ASSUME NEW ms, NEW td, NEW A, Marking(ms, td, A), cells' = cells, roots' = roots
  PROVE  Marking(ms, td, A)'
<1>1. /\ Live' = Live /\ Rooted' = Rooted
      /\ \A x : Children(x)' = Children(x) /\ \A f : Passed(f)' = Passed(f)
  BY DEF Live, Rooted, Children, Passed
<1>2. Marked' = Marked
  BY <1>1 DEF Marked, ClosedUnderMark
<1> QED BY <1>1, <1>2 DEF Marking

-----------------------------------------------------------------------------
(* The inductive invariant.                                                *)

Settled == IInv /\ ListInv /\ TablesRoomy

Due == AllocIsDue \/ FinalIsDue

MarkInv ==
  /\ Settled /\ Due /\ before = Snapshot
  /\ work \in Seq(MarkFrame) /\ Marking(marks, todo, Active(work))

\* What sweep leaves alone.
Program ==
  /\ roots \in [Addr -> Nat] /\ stack \in Seq(Value)
  /\ scope \in [Strings -> Value] /\ frames \in Seq(Frame)
  /\ RootsCover

Typed(h, c) ==
  /\ h \in Addr \cup {Null} /\ c = [x \in Addr |-> c[x]]
  /\ \A x \in Addr : IsCell(c[x]) /\ Roomy(c[x].table)

SweepInv ==
  /\ Program /\ Due
  /\ Typed(seenHead, seenCells) /\ allocations = seenAllocations
  /\ allocations = Cardinality(Atomic!Live)
  /\ Atomic!Marked \subseteq Atomic!Live
  /\ prev \in Addr \cup {Null}
  /\ \/ Atomic!SweepTouchesFreed /\ \E S : Stuck(S)
     \/ /\ ~Atomic!SweepTouchesFreed /\ Atomic!OnList = Atomic!Live
        /\ \E rank : Sweeping(rank, Atomic!Live, Atomic!Marked,
                              seenHead, seenCells)

GcInv ==
  /\ pc \in {"idle", "roots", "mark", "sweep"}
  /\ pc = "idle" => Settled /\ marks = {} /\ work = <<>>
  /\ pc \in {"roots", "mark"} => MarkInv
  /\ pc = "sweep" => SweepInv

\* What every step does: it keeps the invariant, and Runtime sees one of its
\* own steps or none.
GcOK == GcInv' /\ (Atomic!Next \/ UNCHANGED Atomic!vars)

\* Between collections and while mark runs, Runtime sees the heap there is.
LEMMA MarkSeen == (pc = "idle" => Seen) /\ (MarkInv => Seen)
BY DEF Seen, MarkInv, Snapshot, seenHead, seenAllocations, seenCells

\* What one of Runtime's steps keeps.
LEMMA NextSettled ==
  ASSUME Settled, [Next]_vars
  PROVE  Settled'
BY NextOK, StutterOK, NextList, NextRoomy DEF StepOK, Settled

\* What is left when the process ends.
LEMMA EndedSettled ==
  ASSUME Ended
  PROVE  Settled'
<1>1. TablesRoomy'
  BY NewTableRoomy DEF Ended, End, Freed, TablesRoomy
<1> QED BY <1>1, EndedInv, EndedList DEF Settled, ListInv

\* Runtime does not see a step that changes only what the collector keeps.
LEMMA UnseenStep ==
  ASSUME UNCHANGED <<roots, stack, scope, frames, status>>,
         UNCHANGED <<seenHead, seenAllocations, seenCells>>
  PROVE  UNCHANGED Atomic!vars
BY DEF Atomic!vars, Atomic!heapVars

\* The collector comes to freed memory when Runtime says so.
LEMMA TouchOK ==
  ASSUME TouchFreed, Due, seenAllocations = allocations,
         Atomic!CollectTouchesFreed, NEW x \in Addr
  PROVE  GcOK
<1>1. /\ Undefined /\ pc' = "idle" /\ marks' = {} /\ work' = <<>>
  BY DEF TouchFreed, Idle
<1>2. Seen'
  BY <1>1 DEF Seen, seenHead, seenAllocations, seenCells
<1>3. Atomic!Undefined /\ Settled'
  BY <1>1, <1>2, SameEnds, EndedTwice, EndedSettled
<1>4. GcInv'
  BY <1>1, <1>3 DEF GcInv
<1>5. CASE AllocIsDue
  <2>1. Atomic!AllocCollects
    BY <1>5 DEF AllocIsDue, AllocCollects, Atomic!AllocCollects
  <2>2. Atomic!NewObj(x)
    BY <1>3, <1>5, <2>1, SameStack DEF AllocIsDue, Atomic!NewObj
  <2> QED BY <1>4, <2>2 DEF GcOK, Atomic!Next, Atomic!ObjectOps
<1>6. CASE FinalIsDue
  <2>1. Atomic!FinalCollect
    BY <1>3, <1>6 DEF FinalIsDue, Atomic!FinalCollect
  <2> QED BY <1>4, <2>1 DEF GcOK, Atomic!Next, Atomic!EndOfMain
<1> QED BY <1>5, <1>6 DEF Due

-----------------------------------------------------------------------------
(* The steps between collections.                                          *)

\* The handlers.
LEMMA HandleOK ==
  ASSUME GcInv, Handle(Handlers)
  PROVE  GcOK
<1>1. /\ pc = "idle" /\ pc' = "idle" /\ marks' = marks /\ work' = work
      /\ Handlers /\ Settled /\ marks = {} /\ work = <<>>
  BY DEF Handle, gcVars, GcInv
<1>2. Seen /\ Seen'
  BY <1>1 DEF Seen, seenHead, seenAllocations, seenCells
<1>3. Next
  BY <1>1 DEF Handlers, Next, ObjectOps, EndOfMain
<1>4. Atomic!Next
  BY <1>1, <1>2, SameStackOps, SameOperatorOps, SamePropOps, SameVariableOps,
     SameCallOps, SameUnrootAll
     DEF Handlers, Atomic!Next, Atomic!ObjectOps, Atomic!EndOfMain
<1>5. Settled'
  BY <1>1, <1>3, NextSettled
<1> QED BY <1>1, <1>4, <1>5 DEF GcOK, GcInv

\* An allocation that does not collect.
LEMMA PlainAllocOK ==
  ASSUME GcInv, NEW x \in Addr, PlainAlloc(x)
  PROVE  GcOK
<1>1. /\ pc = "idle" /\ pc' = "idle" /\ marks' = marks \ {x} /\ work' = work
      /\ NewObj(x) /\ ~AllocCollects /\ Settled /\ marks = {} /\ work = <<>>
  BY DEF PlainAlloc, AllocIsDue, NewObj, gcLocals, GcInv
<1>2. Seen /\ Seen'
  BY <1>1 DEF Seen, seenHead, seenAllocations, seenCells
<1>3. /\ InLambda /\ ~Has(MaxStack) /\ cells[x] = Freed
      /\ cells' = [cells EXCEPT ![x] = [next |-> head, table |-> T!NewTable]]
      /\ head' = x /\ allocations' = allocations + 1
      /\ stack' = Append(stack, Object(x)) /\ roots' = Root(roots, Object(x))
      /\ UNCHANGED <<scope, frames, status>>
  BY <1>1 DEF NewObj, AllocAt, BeforeAlloc, Uncollected
<1>4. Atomic!AllocAt(x)
  <2>1. ~Atomic!AllocCollects
    BY <1>1, <1>2, SameHeap
  <2> QED BY <1>2, <1>3, <2>1, SameStack, SameTables
          DEF Seen, Atomic!AllocAt, Atomic!BeforeAlloc, Atomic!Uncollected
<1>5. Atomic!NewObj(x)
  <2>1. ~Atomic!AllocCollects
    BY <1>1, <1>2, SameHeap
  <2> QED BY <1>3, <1>4, <2>1, SameStack, SameValues DEF Atomic!NewObj
<1>6. Settled'
  BY <1>1, NextSettled DEF Next, ObjectOps
<1> QED BY <1>1, <1>5, <1>6 DEF GcOK, GcInv, Atomic!Next, Atomic!ObjectOps

-----------------------------------------------------------------------------
(* The steps of mark.                                                      *)

\* The start of a collection: nothing is marked.
LEMMA BeginOK ==
  ASSUME GcInv, Begin
  PROVE  GcOK
<1>1. /\ pc = "idle" /\ pc' = "roots" /\ todo' = Rooted /\ before' = Snapshot
      /\ UNCHANGED vars /\ marks' = {} /\ work' = <<>> /\ Due /\ Settled
  BY DEF Begin, GcInv, Due
<1>2. Marking({}, Rooted, {})
  BY DEF Marking
<1>3. UNCHANGED <<head, allocations, cells, roots, stack, scope, frames, status>>
  BY <1>1 DEF vars, heapVars
<1>4. Marking(marks, todo, Active(work))'
  <2>1. PICK td : td = Rooted
    OBVIOUS
  <2>2. Marking({}, td, {})'
    BY <1>2, <1>3, <2>1, StillMarking
  <2> QED BY <1>1, <2>1, <2>2, ActiveNone
<1>5. MarkInv'
  <2>1. Due'
    BY <1>1, <1>3 DEF Due, AllocIsDue, FinalIsDue, InLambda, Running, Has,
                      AllocCollects
  <2>2. work' \in Seq(MarkFrame)
    BY <1>1
  <2>3. before' = Snapshot'
    BY <1>1, <1>3 DEF Snapshot
  <2> QED BY <1>1, <1>4, <2>1, <2>2, <2>3, NextSettled DEF MarkInv
<1>6. UNCHANGED Atomic!vars
  <2>1. Seen /\ Seen'
    BY <1>1, <1>5
       DEF Seen, MarkInv, Snapshot, seenHead, seenAllocations, seenCells
  <2> QED BY <1>3, <2>1, UnseenStep DEF Seen
<1> QED BY <1>1, <1>5, <1>6 DEF GcOK, GcInv

\* A step of mark changes nothing but what mark keeps.
LEMMA MarkStepOK ==
  ASSUME MarkInv, UNCHANGED <<vars, before>>, pc' \in {"roots", "mark"},
         work' \in Seq(MarkFrame), NEW ms, NEW td, NEW A, Marking(ms, td, A),
         marks' = ms, todo' = td, Active(work') = A
  PROVE  GcOK
<1>1. UNCHANGED <<head, allocations, cells, roots, stack, scope, frames, status>>
  BY DEF vars, heapVars
<1>2. Marking(marks, todo, Active(work))'
  <2>1. Marking(ms, td, A)'
    BY <1>1, StillMarking
  <2> QED BY <2>1
<1>3. Due' /\ before' = Snapshot'
  BY <1>1 DEF MarkInv, Due, AllocIsDue, FinalIsDue, InLambda, Running, Has,
              AllocCollects, Snapshot
<1>4. MarkInv'
  BY <1>2, <1>3, NextSettled DEF MarkInv
<1>5. Seen /\ Seen'
  BY <1>4, MarkSeen
     DEF MarkInv, Seen, Snapshot, seenHead, seenAllocations, seenCells
<1>6. UNCHANGED Atomic!vars
  BY <1>1, <1>5, UnseenStep DEF Seen
<1> QED BY <1>4, <1>6 DEF GcOK, GcInv

\* A visit comes to a live node, or to freed memory because something that
\* is marked was freed.
LEMMA VisitOK ==
  ASSUME MarkInv, NEW x \in Marked, NEW td, NEW w \in Seq(MarkFrame),
         Visit(x, w), cells[x] # Freed => todo' = td,
         x \in Live => Marking(marks \cup {x}, td,
                              IF x \in marks THEN Active(w)
                              ELSE Active(w) \cup {EnterMark(x)})
  PROVE  GcOK
<1>1. x \in Addr
  BY DEF Marked
<1>2. CASE cells[x] = Freed
  <2>1. TouchFreed
    BY <1>2 DEF Visit
  <2>2. CollectTouchesFreed
    BY <1>2 DEF CollectTouchesFreed, MarkTouchesFreed, Live
  <2>3. Seen
    BY MarkSeen
  <2>4. Atomic!CollectTouchesFreed
    BY <2>2, <2>3, SameHeap
       DEF CollectTouchesFreed, MarkTouchesFreed,
           Atomic!CollectTouchesFreed, Atomic!MarkTouchesFreed
  <2> QED BY <1>1, <2>1, <2>3, <2>4, TouchOK DEF MarkInv, Seen
<1>3. CASE cells[x] # Freed
  <2> DEFINE A == IF x \in marks THEN Active(w) ELSE Active(w) \cup {EnterMark(x)}
             ms == marks \cup {x}
  <2>1. x \in Live
    BY <1>1, <1>3 DEF Live
  <2>2. /\ marks' = ms /\ todo' = td /\ pc' = "mark"
        /\ work' = IF x \in marks THEN w ELSE Append(w, EnterMark(x))
        /\ UNCHANGED <<vars, before>>
    BY <1>3 DEF Visit, EnterMark
  <2>3. EnterMark(x) \in MarkFrame
    BY <1>1 DEF EnterMark, MarkFrame
  <2>4. work' \in Seq(MarkFrame) /\ Active(work') = A
    BY <2>2, <2>3, ActivePush
  <2>5. PICK ns, B : ns = ms /\ B = A
    OBVIOUS
  <2>6. Marking(ns, td, B)
    BY <2>1, <2>5
  <2> QED BY <2>2, <2>4, <2>5, <2>6, MarkStepOK
<1> QED BY <1>2, <1>3

\* A root.
LEMMA MarkRootOK ==
  ASSUME GcInv, NEW x \in Addr, MarkRoot(x)
  PROVE  GcOK
<1>1. /\ MarkInv /\ work = <<>> /\ x \in todo /\ Visit(x, <<>>)
      /\ cells[x] # Freed => todo' = todo \ {x}
      /\ Marking(marks, todo, {})
  BY ActiveNone DEF MarkRoot, GcInv, MarkInv
<1>2. x \in Marked
  BY <1>1, RootedAreMarked DEF Marking
<1>3. PICK ms, td : ms = marks /\ td = todo
  OBVIOUS
<1>4. x \in Live => Marking(marks \cup {x}, todo \ {x},
                           IF x \in marks THEN Active(<<>>)
                           ELSE Active(<<>>) \cup {EnterMark(x)})
  <2>1. Marking(ms, td, {})
    BY <1>1, <1>3
  <2>2. x \in Live => Marking(ms \cup {x}, td \ {x}, IF x \in ms THEN {}
                                                 ELSE {} \cup {EnterMark(x)})
    BY <1>2, <2>1, VisitMarking
  <2> QED BY <1>3, <2>2, ActiveNone
<1>5. PICK tds : tds = todo \ {x}
  OBVIOUS
<1>6. <<>> \in Seq(MarkFrame)
  OBVIOUS
<1> QED BY <1>1, <1>2, <1>4, <1>5, <1>6, VisitOK

\* The value that the activation f looks at, and f having looked at it.
LookedAt(f) == LET t == cells[f.at].table
               IN  IF f.side = "key" THEN t.keys[f.slot] ELSE t.values[f.slot]
Looked(f) == IF f.side = "key" THEN [f EXCEPT !.side = "value"]
             ELSE [f EXCEPT !.side = "key", !.slot = @ + 1]

\* Looking at a value adds its owner to what has been looked at.
LEMMA LookedFacts ==
  ASSUME NEW f \in MarkFrame
  PROVE  /\ Looked(f) \in MarkFrame /\ Looked(f).at = f.at
         /\ Passed(Looked(f)) \subseteq Passed(f) \cup {LookedAt(f).a}
<1>1. /\ f = [at |-> f.at, slot |-> f.slot, side |-> f.side]
      /\ f.at \in Addr /\ f.slot \in Nat /\ f.side \in {"key", "value"}
  BY DEF MarkFrame
<1>2. CASE f.side = "key"
  <2>1. Looked(f) = [at |-> f.at, slot |-> f.slot, side |-> "value"]
    BY <1>1, <1>2 DEF Looked
  <2> QED BY <1>1, <1>2, <2>1 DEF MarkFrame, Passed, LookedAt
<1>3. CASE f.side = "value"
  <2>1. Looked(f) = [at |-> f.at, slot |-> f.slot + 1, side |-> "key"]
    BY <1>1, <1>3 DEF Looked
  <2>2. 0 .. f.slot + 1 - 1 = (0 .. f.slot - 1) \cup {f.slot}
    BY <1>1
  <2> QED BY <1>1, <1>3, <2>1, <2>2 DEF MarkFrame, Passed, LookedAt
<1> QED BY <1>1, <1>2, <1>3

\* What a marked object refers to is marked.
LEMMA MarkedClosed ==
  ASSUME NEW x \in Marked \cap Live, NEW y \in Children(x) \cap Addr
  PROVE  y \in Marked
<1>1. y # Null
  BY AddrAssumption
<1>2. ASSUME NEW S \in SUBSET Addr, Rooted \subseteq S, ClosedUnderMark(S)
      PROVE  y \in S
  <2>1. x \in S \cap Live
    BY <1>2 DEF Marked
  <2> QED BY <1>1, <1>2, <2>1 DEF ClosedUnderMark
<1> QED BY <1>2 DEF Marked

\* The next key or value, or the return.
LEMMA MarkNextOK ==
  ASSUME GcInv, MarkNext
  PROVE  GcOK
<1> DEFINE f == Top(work)
           w == Pop(work)
           t == cells[f.at].table
           v == LookedAt(f)
           g == Looked(f)
           callers == Append(w, g)
<1>1. /\ MarkInv /\ pc = "mark" /\ work # <<>> /\ work \in Seq(MarkFrame)
      /\ IF f.slot >= t.count
         THEN /\ work' = w
              /\ UNCHANGED <<vars, pc, marks, todo, prev, curr, swept, before>>
         ELSE IF v.a = Null
         THEN /\ work' = callers
              /\ UNCHANGED <<vars, pc, marks, todo, prev, curr, swept, before>>
         ELSE Visit(v.a, callers) /\ (cells[v.a] # Freed => UNCHANGED todo)
  BY DEF MarkNext, GcInv, MarkInv, LookedAt, Looked
<1>2. /\ f \in MarkFrame /\ w \in Seq(MarkFrame)
      /\ Active(work) = Active(w) \cup {f}
  BY <1>1, ActivePop
<1> HIDE DEF f, w
<1>3. PICK ms, td, B : ms = marks /\ td = todo /\ B = Active(w)
  OBVIOUS
<1>4. Marking(ms, td, B \cup {f})
  BY <1>1, <1>2, <1>3 DEF MarkInv
<1>5. /\ f.at \in Live \cap Marked /\ f.at \in Addr
      /\ IsTable(t) /\ Children(f.at) \subseteq Addr \cup {Null}
  <2>1. f.at \in Live \cap Marked /\ f.at \in Addr
    BY <1>4 DEF Marking, Live
  <2>2. HeapTypeOK /\ Roomy(t)
    BY <1>1, <2>1 DEF MarkInv, Settled, IInv, TypeOK, TablesRoomy
  <2>3. IsTable(t)
    BY <2>1, <2>2 DEF HeapTypeOK, IsCell
  <2> QED BY <2>1, <2>2, <2>3, ChildrenAreAddresses
<1>6. f.slot \in Nat /\ t.count \in Nat /\ f.side \in {"key", "value"}
  BY <1>2, <1>5 DEF MarkFrame, IsTable
<1> HIDE DEF t, v, g
<1>7. /\ g \in MarkFrame /\ g.at = f.at
      /\ Passed(g) \subseteq Passed(f) \cup {v.a}
  BY <1>2, LookedFacts DEF v, g
<1>8. callers \in Seq(MarkFrame) /\ Active(callers) = B \cup {g}
  BY <1>2, <1>3, <1>7, ActivePush
<1> HIDE DEF callers
<1>9. CASE f.slot >= t.count
  <2>1. ScannedSlots(t) \subseteq 0 .. f.slot - 1
    BY <1>6, <1>9 DEF ScannedSlots
  <2>2. Children(f.at) \subseteq Passed(f)
    BY <2>1 DEF Children, Passed, t
  <2>3. Marking(ms, td, B)
    BY <1>4, <2>2, ReturnMarking
  <2>4. /\ work' = w /\ marks' = ms /\ todo' = td /\ pc' = pc
        /\ UNCHANGED <<vars, before>>
    BY <1>1, <1>3, <1>9
  <2>5. work' \in Seq(MarkFrame) /\ Active(work') = B
    BY <1>2, <1>3, <2>4
  <2> QED BY <1>1, <2>3, <2>4, <2>5, MarkStepOK
<1>10. CASE f.slot < t.count /\ v.a = Null
  <2>1. Marking(ms, td, B \cup {g})
    BY <1>4, <1>7, <1>10, AdvanceMarking
  <2>2. /\ work' = callers /\ marks' = ms /\ todo' = td /\ pc' = pc
        /\ UNCHANGED <<vars, before>>
    BY <1>1, <1>3, <1>6, <1>10
  <2>3. work' \in Seq(MarkFrame) /\ Active(work') = B \cup {g}
    BY <1>8, <2>2
  <2>4. PICK A : A = B \cup {g}
    OBVIOUS
  <2> QED BY <1>1, <2>1, <2>2, <2>3, <2>4, MarkStepOK
<1>11. CASE f.slot < t.count /\ v.a # Null
  <2>1. v.a \in Children(f.at) /\ v.a \in Addr
    <3>1. f.slot \in ScannedSlots(t)
      BY <1>6, <1>11 DEF ScannedSlots
    <3>2. v.a \in Children(f.at)
      BY <1>6, <3>1 DEF Children, v, LookedAt, t
    <3> QED BY <1>5, <1>11, <3>2
  <2>2. v.a \in Marked
    BY <1>5, <2>1, MarkedClosed
  <2>3. PICK x : x = v.a
    OBVIOUS
  <2> DEFINE ns == ms \cup {x}
             C == IF x \in ms THEN B ELSE B \cup {EnterMark(x)}
  <2>4. ASSUME x \in Live
        PROVE  Marking(ns, td, IF x \in ms THEN B \cup {g}
                               ELSE (B \cup {g}) \cup {EnterMark(x)})
    <3>1. Marking(ns, td, IF x \in ms THEN B \cup {f}
                          ELSE (B \cup {f}) \cup {EnterMark(x)})
      BY <1>4, <2>2, <2>3, <2>4, VisitMarking
    <3>2. /\ (IF x \in ms THEN B \cup {f}
              ELSE (B \cup {f}) \cup {EnterMark(x)}) = C \cup {f}
          /\ (IF x \in ms THEN B \cup {g}
              ELSE (B \cup {g}) \cup {EnterMark(x)}) = C \cup {g}
      OBVIOUS
    <3>3. x \in ns \cup {Null} /\ Passed(g) \subseteq Passed(f) \cup {x}
      BY <1>7, <2>3
    <3> HIDE DEF C, ns
    <3>4. Marking(ns, td, C \cup {f})
      BY <3>1, <3>2
    <3>5. Marking(ns, td, C \cup {g})
      BY <1>7, <3>3, <3>4, AdvanceMarking
    <3> QED BY <3>2, <3>5
  <2>5. Visit(x, callers) /\ (cells[x] # Freed => todo' = td)
    BY <1>1, <1>3, <1>6, <1>11, <2>3
  <2>6. x \in Live => Marking(marks \cup {x}, td,
                             IF x \in marks THEN Active(callers)
                             ELSE Active(callers) \cup {EnterMark(x)})
    BY <1>3, <1>8, <2>4
  <2>7. x \in Marked
    BY <2>2, <2>3
  <2> QED BY <1>1, <1>8, <2>5, <2>6, <2>7, VisitOK
<1> QED BY <1>6, <1>9, <1>10, <1>11

-----------------------------------------------------------------------------
(* The steps of sweep.                                                     *)

\* The start: what is marked is what Runtime says, and the list ends or not.
LEMMA BeginSweepOK ==
  ASSUME GcInv, BeginSweep
  PROVE  GcOK
<1>1. /\ MarkInv /\ Marking(marks, {}, {}) /\ pc' = "sweep" /\ prev' = Null
      /\ curr' = head /\ swept' = 0 /\ marks' = marks /\ before' = before
      /\ UNCHANGED <<head, allocations, cells, roots, stack, scope, frames, status>>
  BY ActiveNone DEF BeginSweep, GcInv, MarkInv, vars, heapVars
<1>2. marks = Marked /\ Marked \subseteq Live
  <2>1. PICK ms : ms = marks
    OBVIOUS
  <2> QED BY <1>1, <2>1, EndMarking
<1>3. Seen /\ UNCHANGED <<seenHead, seenAllocations, seenCells>>
  BY <1>1 DEF Seen, MarkInv, Snapshot, seenHead, seenAllocations, seenCells
<1>4. HeapTypeOK /\ Due /\ IInv /\ ListInv /\ TablesRoomy
  BY <1>1 DEF MarkInv, Settled, IInv, TypeOK
<1>5. PICK L, M, h, c : L = Live /\ M = Marked /\ h = head /\ c = cells
  OBVIOUS
<1>6. /\ L \in SUBSET Addr /\ M \in SUBSET L
      /\ Atomic!Live' = L /\ Atomic!Marked' = M /\ seenHead' = h
      /\ seenCells' = c /\ Atomic!OnList' = OnList
      /\ Atomic!SweepTouchesFreed' = SweepTouchesFreed
  <2>1. Live \subseteq Addr
    BY DEF Live
  <2> QED BY <1>1, <1>2, <1>3, <1>5, <2>1, SameHeap, StillHeap DEF Seen
<1>7. Program' /\ Due'
  <2>1. \A x \in Addr : Held(x)' = Held(x)
    BY <1>1 DEF Held
  <2>2. Program'
    BY <1>1, <1>4, <2>1 DEF Program, IInv, TypeOK, HeapTypeOK, RootsCover
  <2> QED BY <1>1, <1>4, <2>2 DEF Due, AllocIsDue, FinalIsDue, InLambda,
                                  Running, Has, AllocCollects
<1>8. Typed(h, c)' /\ allocations' = seenAllocations'
        /\ allocations' = Cardinality(L)
  BY <1>1, <1>3, <1>4, <1>5
     DEF Seen, Typed, HeapTypeOK, TablesRoomy, IInv, AllocationsExact
<1>9. CASE Linked
  <2>1. OnList = L /\ ~SweepTouchesFreed
    BY <1>4, <1>5, <1>9, LinkedList DEF SweepTouchesFreed
  <2>2. PICK rank : Chained(rank, L, h, c)
    BY <1>5, <1>9 DEF Linked
  <2>3. c = [x \in Addr |-> c[x]]
    BY <1>4, <1>5 DEF HeapTypeOK
  <2>4. curr' = h /\ marks' = M /\ head' = h /\ cells' = c
    BY <1>1, <1>2, <1>5
  <2>5. Sweeping(rank, L, M, h, c)'
    BY <1>1, <1>6, <2>2, <2>3, <2>4, StartSweeping
  <2>6. SweepInv'
    BY <1>1, <1>6, <1>7, <1>8, <2>1, <2>5 DEF SweepInv
  <2> QED BY <1>1, <1>3, <2>6, UnseenStep DEF GcOK, GcInv
<1>10. CASE Endless
  <2>1. SweepTouchesFreed
    BY <1>4, <1>10, EndlessList DEF SweepTouchesFreed
  <2>2. PICK S : Loops(S, Live, head, cells)
    BY <1>10 DEF Endless
  <2>3. Stuck(S)'
    BY <1>1, <1>4, <2>2 DEF Stuck, Loops, Live, HeapTypeOK, IsCell
  <2>4. SweepInv'
    BY <1>1, <1>6, <1>7, <1>8, <2>1, <2>3 DEF SweepInv
  <2> QED BY <1>1, <1>3, <2>4, UnseenStep DEF GcOK, GcInv
<1> QED BY <1>4, <1>9, <1>10 DEF ListInv

\* A step of sweep that goes on with the list as it found it.
LEMMA SweepStepOK ==
  ASSUME GcInv, pc = "sweep", pc' = "sweep", prev' \in Addr \cup {Null},
         UNCHANGED <<allocations, roots, stack, scope, frames, status, before>>,
         \A S : Stuck(S) => Stuck(S)',
         \A rank, h, c : \A L \in SUBSET Addr : \A M \in SUBSET L :
           Typed(h, c) /\ Sweeping(rank, L, M, h, c)
             => Sweeping(rank, L, M, h, c)'
  PROVE  GcOK
<1>1. SweepInv
  BY DEF GcInv
<1>2. UNCHANGED <<seenHead, seenAllocations, seenCells>>
  BY DEF seenHead, seenAllocations, seenCells
<1>3. PICK L, M, h, c : L = Atomic!Live /\ M = Atomic!Marked /\ h = seenHead
                          /\ c = seenCells
  OBVIOUS
<1>4. /\ L \in SUBSET Addr /\ M \in SUBSET L
      /\ Atomic!Live' = L /\ Atomic!Marked' = M /\ seenHead' = h
      /\ seenCells' = c /\ Atomic!OnList' = Atomic!OnList
      /\ Atomic!SweepTouchesFreed' = Atomic!SweepTouchesFreed
  <2>1. Atomic!Live \subseteq Addr /\ Atomic!Marked \subseteq Atomic!Live
    BY <1>1 DEF Atomic!Live, SweepInv
  <2> QED BY <1>2, <1>3, <2>1, StillHeap
<1>5. Program' /\ Due'
  <2>1. \A x \in Addr : Held(x)' = Held(x)
    BY DEF Held
  <2>2. Program'
    BY <1>1, <2>1 DEF SweepInv, Program, RootsCover
  <2> QED BY <1>1, <2>2 DEF SweepInv, Due, AllocIsDue, FinalIsDue, InLambda,
                            Running, Has, AllocCollects
<1>6. /\ Typed(h, c) /\ Typed(h, c)' /\ allocations' = seenAllocations'
      /\ allocations' = Cardinality(L)
  BY <1>1, <1>2, <1>3 DEF SweepInv, Typed
<1>7. CASE Atomic!SweepTouchesFreed
  <2>1. PICK S : Stuck(S)
    BY <1>1, <1>7 DEF SweepInv
  <2>2. Stuck(S)'
    BY <2>1
  <2>3. SweepInv'
    BY <1>4, <1>5, <1>6, <1>7, <2>2 DEF SweepInv
  <2> QED BY <1>2, <2>3, UnseenStep DEF GcOK, GcInv
<1>8. CASE ~Atomic!SweepTouchesFreed
  <2>1. Atomic!OnList = L
    BY <1>1, <1>3, <1>8 DEF SweepInv
  <2>2. PICK rank : Sweeping(rank, L, M, h, c)
    BY <1>1, <1>3, <1>8 DEF SweepInv
  <2>3. Sweeping(rank, L, M, h, c)'
    BY <1>4, <1>6, <2>2
  <2>4. SweepInv'
    BY <1>4, <1>5, <1>6, <1>8, <2>1, <2>3 DEF SweepInv
  <2> QED BY <1>2, <2>4, UnseenStep DEF GcOK, GcInv
<1> QED BY <1>7, <1>8

\* Keeping a node.
LEMMA KeepNodeOK ==
  ASSUME GcInv, KeepNode
  PROVE  GcOK
<1>1. /\ pc = "sweep" /\ pc' = "sweep" /\ prev' = curr /\ SweepInv
      /\ UNCHANGED <<allocations, roots, stack, scope, frames, status, before>>
  BY DEF KeepNode, GcInv, vars, heapVars
<1>2. prev' \in Addr \cup {Null}
  BY <1>1 DEF SweepInv, Stuck, Sweeping, Atomic!Live
<1>3. \A S : Stuck(S) => Stuck(S)'
  BY KeepStuck
<1>4. ASSUME NEW rank, NEW h, NEW c, NEW L \in SUBSET Addr, NEW M \in SUBSET L,
             Typed(h, c), Sweeping(rank, L, M, h, c)
      PROVE  Sweeping(rank, L, M, h, c)'
  <2>1. \A x \in L : c[x] = [next |-> c[x].next, table |-> c[x].table]
    BY <1>4 DEF Typed, IsCell
  <2> QED BY <1>4, <2>1, KeepSweeping
<1> QED BY <1>1, <1>2, <1>3, <1>4, SweepStepOK

\* Freeing a node.
LEMMA FreeNodeOK ==
  ASSUME GcInv, FreeNode
  PROVE  GcOK
<1>1. /\ pc = "sweep" /\ pc' = "sweep" /\ SweepInv
      /\ prev' = cells[curr].next /\ curr # Null /\ cells[curr] # Freed
      /\ UNCHANGED <<allocations, roots, stack, scope, frames, status, before>>
  BY DEF FreeNode, GcInv
<1>2. prev \in Addr \cup {Null}
  BY <1>1 DEF SweepInv
<1>3. \A S : Stuck(S) => Stuck(S)'
  BY <1>2, FreeStuck
<1>4. ASSUME NEW rank, NEW h, NEW c, NEW L \in SUBSET Addr, NEW M \in SUBSET L,
             Sweeping(rank, L, M, h, c)
      PROVE  Sweeping(rank, L, M, h, c)'
  BY <1>4, FreeSweeping
<1>5. prev' \in Addr \cup {Null}
  <2>1. ASSUME NEW S, Stuck(S)
        PROVE  cells[curr].next \in Addr
    BY <1>1, <2>1 DEF Stuck
  <2>2. ASSUME NEW rank, NEW h, NEW c, NEW L \in SUBSET Addr,
               NEW M \in SUBSET L, Sweeping(rank, L, M, h, c)
        PROVE  cells[curr].next \in Addr \cup {Null}
    <3>1. cells[curr] = c[curr] /\ curr \in L
      BY <1>1, <2>2 DEF Sweeping, SweptSoFar, Behind, Chained
    <3> QED BY <2>2, <3>1 DEF Sweeping, Chained, Follows
  <2>3. Atomic!Live \in SUBSET Addr /\ Atomic!Marked \in SUBSET Atomic!Live
    BY <1>1 DEF SweepInv, Atomic!Live
  <2>4. PICK L, M, h, c : L = Atomic!Live /\ M = Atomic!Marked /\ h = seenHead
                            /\ c = seenCells
    OBVIOUS
  <2>5. (\E S : Stuck(S)) \/ \E rank : Sweeping(rank, L, M, h, c)
    BY <1>1, <2>4 DEF SweepInv
  <2> QED BY <1>1, <2>1, <2>2, <2>3, <2>4, <2>5
<1> QED BY <1>1, <1>3, <1>4, <1>5, SweepStepOK

\* Coming to a freed node, which only happens on a list that never ends.
LEMMA SweepFreedOK ==
  ASSUME GcInv, SweepFreed
  PROVE  GcOK
<1>1. /\ SweepInv /\ TouchFreed /\ curr # Null
      /\ cells[curr] = Freed \/ (prev # Null /\ cells[prev] = Freed)
  BY DEF SweepFreed, GcInv
<1>2. CASE Atomic!SweepTouchesFreed
  <2>1. PICK S : Stuck(S)
    BY <1>1, <1>2 DEF SweepInv
  <2>2. curr \in Addr
    BY <2>1 DEF Stuck
  <2>3. Atomic!CollectTouchesFreed
    BY <1>2 DEF Atomic!CollectTouchesFreed
  <2> QED BY <1>1, <2>2, <2>3, TouchOK DEF SweepInv
<1>3. CASE ~Atomic!SweepTouchesFreed
  <2>1. PICK L, M, h, c : L = Atomic!Live /\ M = Atomic!Marked /\ h = seenHead
                            /\ c = seenCells
    OBVIOUS
  <2>2. L \in SUBSET Addr /\ M \in SUBSET L
    BY <1>1, <2>1 DEF SweepInv, Atomic!Live
  <2>3. PICK rank : Sweeping(rank, L, M, h, c)
    BY <1>1, <1>3, <2>1 DEF SweepInv
  <2> QED BY <1>1, <2>2, <2>3, SweepingReads
<1> QED BY <1>2, <1>3

\* When sweep comes to the end, the heap is what Runtime says a collection
\* leaves, and its list ends or never does.
LEMMA SweptHeap ==
  ASSUME SweepInv, curr = Null
  PROVE  /\ ~Atomic!CollectTouchesFreed /\ marks = {}
         /\ head = Atomic!Collected.head /\ cells = Atomic!Collected.cells
         /\ allocations - swept = Atomic!Collected.allocations
         /\ Typed(head, cells) /\ ListInv
         /\ allocations - swept = Cardinality(Live)
<1>1. ~Atomic!SweepTouchesFreed
  BY AddrAssumption DEF SweepInv, Stuck
<1>2. PICK L, M, h, c : L = Atomic!Live /\ M = Atomic!Marked /\ h = seenHead
                          /\ c = seenCells
  OBVIOUS
<1>3. /\ L \in SUBSET Addr /\ M \in SUBSET L /\ Atomic!OnList = L
      /\ Typed(h, c) /\ allocations = Cardinality(L) /\ Null \notin Addr
      /\ allocations = seenAllocations
  BY <1>1, <1>2, AddrAssumption DEF SweepInv, Atomic!Live
<1>4. PICK rank : Sweeping(rank, L, M, h, c)
  BY <1>1, <1>2 DEF SweepInv
<1>5. /\ marks = {} /\ swept = Cardinality(L \ M)
      /\ head = Relinked(M, c, h)
      /\ cells = [x \in Addr |->
                   IF x \in L \ M THEN Freed
                   ELSE IF x \in L THEN [next |-> Relinked(M, c, c[x].next),
                                        table |-> c[x].table]
                   ELSE c[x]]
  <2>1. L \in SUBSET Addr /\ M \in SUBSET L
    BY <1>3
  <2>2. cells = SweptOut(L, M, c) /\ head = Relinked(M, c, h)
          /\ marks = {} /\ swept = Cardinality(L \ M)
    BY <1>4, <2>1, EndSweeping
  <2> QED BY <2>2 DEF SweptOut
<1>6. /\ Chained(rank, L, h, c) /\ Leads(rank, L, h)
      /\ \A x \in L : Follows(rank, L, x, c[x].next)
  BY <1>4 DEF Sweeping, Chained
<1>7. \A y \in L \cup {Null} : Relinked(M, c, y) \in L \cup {Null}
  BY <1>3, <1>6 DEF Relinked, Follows
<1>8. h \in L \cup {Null} /\ \A x \in L : c[x].next \in L \cup {Null}
  BY <1>6 DEF Leads, Follows
<1>9. /\ Freed.next = Unowned /\ Unowned \notin Addr \cup {Null}
      /\ IsCell(Freed) /\ Roomy(Freed.table)
  BY AddrAssumption, NewTableIsTable, NewTableRoomy
     DEF Freed, Unowned, Null, IsCell
<1>10. \A x \in Addr \ L : c[x] = Freed
  BY <1>2, <1>3, SameStack DEF Atomic!Live
<1>11. Live = M
  BY <1>3, <1>5, <1>7, <1>8, <1>9, <1>10 DEF Live
<1>12. Typed(head, cells)
  <2>1. head \in Addr \cup {Null} /\ cells = [x \in Addr |-> cells[x]]
    BY <1>3, <1>5, <1>7, <1>8
  <2>2. ASSUME NEW x \in Addr
        PROVE  IsCell(cells[x]) /\ Roomy(cells[x].table)
    <3>1. IsCell(c[x]) /\ Roomy(c[x].table)
      BY <1>3 DEF Typed
    <3>2. CASE x \in M
      <4>1. cells[x] = [next |-> Relinked(M, c, c[x].next), table |-> c[x].table]
        BY <1>3, <1>5, <3>2
      <4>2. Relinked(M, c, c[x].next) \in Addr \cup {Null}
        BY <1>3, <1>7, <1>8, <3>2
      <4> QED BY <3>1, <4>1, <4>2 DEF IsCell
    <3>3. CASE x \notin M
      <4>1. cells[x] \in {Freed, c[x]}
        BY <1>5, <3>3
      <4> QED BY <1>9, <3>1, <4>1
    <3> QED BY <3>2, <3>3
  <2> QED BY <2>1, <2>2 DEF Typed
<1>13. ListInv
  <2>1. \A x \in M : cells[x].next = Relinked(M, c, c[x].next)
    BY <1>3, <1>5
  <2>2. CASE \E x \in L \ M : c[x].next \in L \ M
    <3>1. \E R : Loops(R, M, Relinked(M, c, h), cells)
      BY <1>3, <1>6, <2>1, <2>2, ChainBreaks
    <3> QED BY <1>5, <1>11, <3>1 DEF ListInv, Endless
  <2>3. CASE \A x \in L \ M : c[x].next \notin L \ M
    <3>1. Chained(rank, M, Relinked(M, c, h), cells)
      BY <1>3, <1>6, <2>1, <2>3, ChainUnlink
    <3> QED BY <1>5, <1>11, <3>1 DEF ListInv, Linked
  <2> QED BY <2>2, <2>3
<1>14. allocations - swept = Cardinality(Live)
  <2>1. IsFiniteSet(L) /\ L \cap M = M
    BY <1>3, AddrAssumption, FS_Subset
  <2>2. Cardinality(L \ M) = Cardinality(L) - Cardinality(M)
    BY <2>1, FS_Difference
  <2>3. IsFiniteSet(M)
    BY <1>3, <2>1, FS_Subset
  <2>4. Cardinality(M) \in Nat /\ Cardinality(L) \in Nat
    BY <2>1, <2>3, FS_CardinalityType
  <2> QED BY <1>3, <1>5, <1>11, <2>2, <2>4
<1>15. Atomic!Swept = L \ M /\ \A y : Atomic!SweptLink(y) = Relinked(M, c, y)
  BY <1>2, <1>3, SameValues DEF Atomic!Swept, Atomic!SweptLink, Relinked
<1>16. Atomic!SweptCells = cells
  <2>1. ASSUME NEW x \in Addr
        PROVE  cells[x] = IF x \in Atomic!Swept THEN Freed
                          ELSE IF x \in Atomic!OnList
                          THEN [c[x] EXCEPT !.next = Atomic!SweptLink(@)]
                          ELSE c[x]
    <3>1. c[x] = [next |-> c[x].next, table |-> c[x].table]
      BY <1>3 DEF Typed, IsCell
    <3>2. [c[x] EXCEPT !.next = Atomic!SweptLink(@)] =
            [next |-> Atomic!SweptLink(c[x].next), table |-> c[x].table]
      BY <3>1
    <3> QED BY <1>3, <1>5, <1>15, <3>2
  <2>2. cells = [x \in Addr |-> cells[x]]
    BY <1>5
  <2> QED BY <1>2, <2>1, <2>2, SameStack DEF Atomic!SweptCells
<1>17. /\ head = Atomic!Collected.head /\ cells = Atomic!Collected.cells
       /\ allocations - swept = Atomic!Collected.allocations
  <2>1. Atomic!Cardinality(L \ M) = Cardinality(L \ M)
    BY DEF Atomic!Cardinality, Cardinality
  <2> QED BY <1>2, <1>3, <1>5, <1>15, <1>16, <2>1 DEF Atomic!Collected
<1>18. ~Atomic!CollectTouchesFreed
  BY <1>1, <1>2, <1>3 DEF Atomic!CollectTouchesFreed, Atomic!MarkTouchesFreed
<1> QED BY <1>5, <1>12, <1>13, <1>14, <1>17, <1>18

\* alloc goes on after its collection.
LEMMA FinishAllocOK ==
  ASSUME GcInv, NEW x \in Addr, FinishAlloc(x)
  PROVE  GcOK
<1> DEFINE new == [next |-> head, table |-> T!NewTable]
<1>1. /\ SweepInv /\ curr = Null /\ Running /\ cells[x] = Freed
      /\ cells' = [cells EXCEPT ![x] = new]
      /\ head' = x /\ allocations' = allocations - swept + 1
      /\ stack' = Append(stack, Object(x)) /\ roots' = Root(roots, Object(x))
      /\ marks' = marks \ {x} /\ pc' = "idle" /\ work' = <<>>
      /\ UNCHANGED <<scope, frames, status>>
  BY DEF FinishAlloc, SweepDone, GcInv, Idle
<1>2. /\ ~Atomic!CollectTouchesFreed /\ marks = {}
      /\ head = Atomic!Collected.head /\ cells = Atomic!Collected.cells
      /\ allocations - swept = Atomic!Collected.allocations
      /\ Typed(head, cells) /\ ListInv
      /\ allocations - swept = Cardinality(Live)
  BY <1>1, SweptHeap
<1>3. Seen'
  BY <1>1 DEF Seen, seenHead, seenAllocations, seenCells
<1>4. AllocIsDue
  BY <1>1 DEF SweepInv, Due, FinalIsDue, Running
<1>5. Atomic!NewObj(x)
  <2>1. Atomic!AllocCollects
    BY <1>1, <1>4 DEF AllocIsDue, AllocCollects, Atomic!AllocCollects, SweepInv
  <2>2. Atomic!AllocAt(x)
    BY <1>1, <1>2, <1>3, <2>1, SameStack, SameTables
       DEF Seen, Atomic!AllocAt, Atomic!BeforeAlloc
  <2> QED BY <1>1, <1>2, <1>4, <2>2, SameStack, SameValues
          DEF AllocIsDue, Atomic!NewObj
<1>6. /\ head \in Addr \cup {Null} /\ cells = [y \in Addr |-> cells[y]]
      /\ \A y \in Addr : IsCell(cells[y]) /\ Roomy(cells[y].table)
  BY <1>2 DEF Typed
<1>7. /\ new # Freed /\ IsCell(new) /\ Roomy(new.table) /\ new.next = head
  BY <1>6, AddrAssumption, NewTableIsTable, NewTableRoomy
     DEF IsCell, Freed, Unowned, Null
<1> HIDE DEF new
<1>8. cells'[x] = new /\ \A y \in Addr \ {x} : cells'[y] = cells[y]
  BY <1>1, <1>6
<1>9. Live' = Live \cup {x} /\ x \notin Live /\ Live \in SUBSET Addr
  BY <1>1, <1>7, <1>8 DEF Live
<1>10. allocations' = Cardinality(Live') /\ allocations' \in Nat
  <2>1. IsFiniteSet(Live)
    BY LiveIsFinite
  <2>2. Cardinality(Live) \in Nat
    BY <2>1, FS_CardinalityType
  <2>3. Cardinality(Live \cup {x}) = Cardinality(Live) + 1
    BY <1>9, <2>1, FS_AddElement
  <2> QED BY <1>1, <1>2, <1>9, <2>2, <2>3
<1>11. ListInv'
  <2>1. PICK K, h, c : K = Live /\ h = head /\ c = cells
    OBVIOUS
  <2>2. /\ K \in SUBSET Addr /\ x \notin K /\ head' = x /\ Live' = K \cup {x}
        /\ cells'[x].next = h /\ \A y \in K : cells'[y].next = c[y].next
    BY <1>1, <1>7, <1>8, <1>9, <2>1
  <2>3. /\ (\E rank : Chained(rank, K, h, c)) => Linked'
        /\ (\E S : Loops(S, K, h, c)) => Endless'
    BY <2>2, NewHead
  <2> QED BY <1>2, <2>1, <2>3 DEF ListInv, Linked, Endless
<1>12. Object(x) \in Value
  BY DEF Object, Value, Fits, Types, Data
<1>13. /\ roots \in [Addr -> Nat] /\ stack \in Seq(Value) /\ Program
       /\ \A y \in Addr : roots[y] >= Held(y)
  BY <1>1 DEF SweepInv, Program, RootsCover, Running
<1>14. \A y \in Addr : /\ Refs(stack, y) \in Nat /\ ScopeRefs(scope, y) \in Nat
                       /\ Held(y) = Refs(stack, y) + ScopeRefs(scope, y)
                       /\ Held(y)' = Refs(stack', y) + ScopeRefs(scope, y)
  BY <1>1, <1>13, RefsNat, ScopeRefsNat DEF Held
<1>15. Covers(roots, stack)
  BY <1>13, <1>14 DEF Covers
<1>16. Covers(roots', stack') /\ SameSurplus(roots, stack, roots', stack')
  BY <1>1, <1>12, <1>15, PushRoot
<1>17. ASSUME NEW y \in Addr
       PROVE  roots'[y] >= Held(y)'
  <2>1. /\ roots'[y] - Refs(stack', y) = roots[y] - Refs(stack, y)
        /\ roots'[y] \in Nat /\ roots[y] \in Nat /\ stack' \in Seq(Value)
    BY <1>13, <1>16 DEF Covers, SameSurplus
  <2>2. Refs(stack', y) \in Nat
    BY <2>1, RefsNat
  <2> QED BY <1>13, <1>14, <2>1, <2>2
<1>18. HeapTypeOK' /\ TablesRoomy'
  <2>1. \A y \in Addr : IsCell(cells'[y]) /\ Roomy(cells'[y].table)
    BY <1>6, <1>7, <1>8
  <2>2. cells' = [y \in Addr |-> cells'[y]] /\ roots' \in [Addr -> Nat]
    BY <1>1, <1>6, <1>16 DEF Covers
  <2>3. (\A y \in Addr : IsCell(cells[y]) /\ Roomy(cells[y].table))'
    BY <2>1 DEF IsCell, IsTable
  <2> QED BY <1>1, <1>10, <2>1, <2>2, <2>3 DEF HeapTypeOK, TablesRoomy
<1>19. Settled'
  <2>1. TypeOK'
    BY <1>1, <1>13, <1>16, <1>18 DEF TypeOK, Covers, Program, Running
  <2> QED BY <1>10, <1>11, <1>17, <1>18, <2>1
          DEF Settled, IInv, AllocationsExact, RootsCover
<1> QED BY <1>1, <1>2, <1>5, <1>19
        DEF GcOK, GcInv, Atomic!Next, Atomic!ObjectOps

\* main goes on after its collection.
LEMMA FinishFinalOK ==
  ASSUME GcInv, FinishFinal
  PROVE  GcOK
<1>1. /\ SweepInv /\ curr = Null /\ status = "exited"
      /\ allocations' = allocations - swept /\ status' = "collected"
      /\ marks' = marks /\ pc' = "idle" /\ work' = <<>>
      /\ UNCHANGED <<head, cells, roots, stack, scope, frames>>
  BY DEF FinishFinal, SweepDone, GcInv, Idle
<1>2. /\ ~Atomic!CollectTouchesFreed /\ marks = {}
      /\ head = Atomic!Collected.head /\ cells = Atomic!Collected.cells
      /\ allocations - swept = Atomic!Collected.allocations
      /\ Typed(head, cells) /\ ListInv
      /\ allocations - swept = Cardinality(Live)
  BY <1>1, SweptHeap
<1>3. Seen'
  BY <1>1 DEF Seen, seenHead, seenAllocations, seenCells
<1>4. Atomic!FinalCollect
  BY <1>1, <1>2, <1>3 DEF Seen, Atomic!FinalCollect
<1>5. Live' = Live /\ allocations' \in Nat
  <2>1. Cardinality(Live) \in Nat
    BY LiveIsFinite, FS_CardinalityType
  <2> QED BY <1>1, <1>2, <2>1 DEF Live
<1>6. HeapTypeOK' /\ TablesRoomy'
  BY <1>1, <1>2, <1>5 DEF HeapTypeOK, TablesRoomy, Typed, SweepInv, Program
<1>7. ListInv'
  <2>1. \A x \in Addr : cells'[x].next = cells[x].next
    BY <1>1
  <2> QED BY <1>1, <1>2, <1>5, <2>1, SameList
<1>8. Settled'
  <2>1. TypeOK'
    BY <1>1, <1>6 DEF TypeOK, SweepInv, Program
  <2> QED BY <1>1, <1>2, <1>5, <1>6, <1>7, <2>1
          DEF Settled, IInv, AllocationsExact, RootsCover
<1> QED BY <1>1, <1>2, <1>4, <1>8
        DEF GcOK, GcInv, Atomic!Next, Atomic!EndOfMain

-----------------------------------------------------------------------------
(* The theorems.                                                           *)

\* At the start nothing is allocated and no collection runs.
LEMMA GcInitOK ==
  ASSUME GcInit
  PROVE  GcInv /\ Atomic!Init
<1>1. Init /\ pc = "idle" /\ marks = {} /\ work = <<>>
  BY DEF GcInit
<1>2. head = Null /\ Live = {} /\ TablesRoomy
  BY <1>1, NewTableRoomy DEF Init, HeapInit, Freed, Live, TablesRoomy
<1>3. Settled
  BY <1>1, <1>2, InitOK, EmptyList DEF Settled, ListInv
<1>4. Atomic!Init
  BY <1>1, MarkSeen, SameInit
<1> QED BY <1>1, <1>3, <1>4 DEF GcInv

\* A step that changes nothing.
LEMMA GcStutterOK ==
  ASSUME GcInv, UNCHANGED <<vars, gcVars>>
  PROVE  GcOK
<1>1. /\ UNCHANGED <<head, allocations, cells, roots, stack, scope, frames, status>>
      /\ UNCHANGED <<pc, marks, todo, work, prev, curr, swept, before>>
  BY DEF vars, heapVars, gcVars
<1>2. UNCHANGED <<seenHead, seenAllocations, seenCells>>
  BY <1>1 DEF seenHead, seenAllocations, seenCells
<1>3. UNCHANGED Atomic!vars
  BY <1>1, <1>2, UnseenStep
<1>4. CASE pc = "idle"
  BY <1>1, <1>3, <1>4, NextSettled DEF GcOK, GcInv, vars
<1>5. CASE pc \in {"roots", "mark"}
  <2>1. PICK ms, td, A : ms = marks /\ td = todo /\ A = Active(work)
    OBVIOUS
  <2>2. MarkInv /\ Marking(ms, td, A) /\ work' \in Seq(MarkFrame)
    BY <1>1, <1>5, <2>1 DEF GcInv, MarkInv
  <2>3. marks' = ms /\ todo' = td /\ Active(work') = A /\ pc' = pc
    BY <1>1, <2>1
  <2> QED BY <1>1, <1>5, <2>2, <2>3, MarkStepOK
<1>6. CASE pc = "sweep"
  <2>1. \A S : Stuck(S) => Stuck(S)'
    BY <1>1 DEF Stuck
  <2>2. ASSUME NEW rank, NEW h, NEW c, NEW L \in SUBSET Addr, NEW M \in SUBSET L,
               Sweeping(rank, L, M, h, c)
        PROVE  Sweeping(rank, L, M, h, c)'
    BY <1>1, <2>2 DEF Sweeping, SweptSoFar, PrevOK, LinkTo, Behind
  <2>3. prev' \in Addr \cup {Null}
    BY <1>1, <1>6 DEF GcInv, SweepInv
  <2> QED BY <1>1, <1>6, <2>1, <2>2, <2>3, SweepStepOK
<1> QED BY <1>4, <1>5, <1>6 DEF GcInv

\* Every step of the program and of the collector.
LEMMA GcNextOK ==
  ASSUME GcInv, [GcNext]_<<vars, gcVars>>
  PROVE  GcOK
<1>1. Handle(Handlers) => GcOK
  BY HandleOK
<1>2. (\E x \in Addr : PlainAlloc(x)) => GcOK
  BY PlainAllocOK
<1>3. Begin => GcOK
  BY BeginOK
<1>4. GcStep => GcOK
  BY MarkRootOK, MarkNextOK, BeginSweepOK, KeepNodeOK, FreeNodeOK,
     SweepFreedOK, FinishAllocOK, FinishFinalOK DEF GcStep
<1> QED BY <1>1, <1>2, <1>3, <1>4, GcStutterOK DEF GcNext

\* sweep has cleared every mark by the time gc returns, also after a
\* collection that came to freed memory, so that the next one starts afresh.
THEOREM NoMarkIsLeft == GcSpec => []MarksCleared
<1>1. GcInit => GcInv
  BY GcInitOK
<1>2. GcInv /\ [GcNext]_<<vars, gcVars>> => GcInv'
  BY GcNextOK DEF GcOK
<1>3. GcInv => MarksCleared
  BY DEF GcInv, MarksCleared
<1> QED BY <1>1, <1>2, <1>3, PTL DEF GcSpec

\* Heap::gc's loops do what Runtime says in one step, for every program.
THEOREM CollectionIsAtomic == GcSpec => IsAtomic
<1>1. GcInit => GcInv /\ Atomic!Init
  BY GcInitOK
<1>2. GcInv /\ [GcNext]_<<vars, gcVars>> => GcInv' /\ [Atomic!Next]_(Atomic!vars)
  BY GcNextOK DEF GcOK
<1> QED BY <1>1, <1>2, PTL DEF GcSpec, IsAtomic, Atomic!Spec
=============================================================================
