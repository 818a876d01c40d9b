------------------------------- MODULE Arrays -------------------------------
(***************************************************************************)
(* Two arrays at work as in src/src/parser.cpp and src/src/optimizer.cpp:  *)
(* `code', and an `other' that is filled, put into the code and given up.  *)
(* The nodes of a lambda are in the parser's arena, the nodes that a pass  *)
(* puts in are in an array of cstdlib_allocator, as are the heap's roots   *)
(* and the operands.  The arena also serves the nodes themselves and the   *)
(* text of tokens, which are written as soon as they are allocated.        *)
(* Every operation of Array may be called wherever the code could call it. *)
(***************************************************************************)
EXTENDS Array

CONSTANTS
  Vals,        \* what the arrays hold
  Requests,    \* how much else is asked of the arena at a time
  Bodies,      \* what the other array may come to hold
  MaxCount,    \* bounds that are not in the code: of the nodes in `code',
  MaxBlocks    \* and of the arena's blocks

ASSUME RequestsAssumption == Requests \subseteq Nat

VARIABLES
  live,        \* cstdlib_allocator's list
  blocks,      \* the arena's, its head first
  arrays,
  status,      \* "running", "ended", "aborted" by a failed assert, "undefined"
  call         \* the last call, with its answer

arraysVars == <<live, blocks, arrays, status, call>>

Memory == [live |-> live, blocks |-> blocks, arrays |-> arrays, status |-> status]
Becomes(m) ==
  /\ Len(m.blocks) <= MaxBlocks
  /\ live' = m.live /\ blocks' = m.blocks
  /\ arrays' = m.arrays /\ status' = m.status

\* Arena::Arena, and arrays that nothing was put into.  An array of
\* cstdlib_allocator is never given the nodes of one in the arena.
ArraysInit ==
  /\ \E a, b \in {"arena", "cstdlib"} :
       /\ a = "cstdlib" => b = "cstdlib"
       /\ arrays = [code |-> NewArray(a), other |-> NewArray(b),
                    words |-> NewArray("cstdlib")]
  /\ status = "running"
  /\ LET m == AddBlock([live |-> <<>>, blocks |-> <<>>])
     IN  live = m.live /\ blocks = m.blocks
  /\ call = [op |-> "none"]

Code == arrays.code
Other == arrays.other

-----------------------------------------------------------------------------
(* The operations on the code.                                             *)

\* An answer is a value, 1 or 0 for true or false, or none.
NoAnswer == <<>>
Value(v) == <<v>>
Truth(b) == IF b THEN <<1>> ELSE <<0>>
Told(op, index, value, answer) ==
  call' = [op |-> op, index |-> index, value |-> value, answer |-> answer]

Does(op, index, value, m) ==
  /\ status = "running"
  /\ Told(op, index, value, NoAnswer)
  /\ Becomes(m)
Answers(op, index, value, m, answer) ==
  /\ status = "running"
  /\ Told(op, index, value, answer)
  /\ Becomes(m)

Indices == 0 .. Code.count

\* The pointer that push_ref returns is written through at once.
DoPush(v) ==
  /\ Code.count < MaxCount
  /\ \E op \in {"push", "push_ref"} : Does(op, 0, v, Push(Memory, "code", v))

DoPop ==
  Answers("pop", 0, 0, Pop(Memory, "code"),
          IF Code.count = 0 THEN NoAnswer ELSE Value(Last(Code.cells)))
DoDrop == Does("drop", 0, 0, Pop(Memory, "code"))
DoClear == Does("clear", 0, 0, Clear(Memory, "code"))

DoInsert(i, v) ==
  /\ Code.count < MaxCount
  /\ \/ Does("insert_before", i, v, InsertBefore(Memory, "code", i, v))
     \/ Does("insert_after", i, v, InsertAfter(Memory, "code", i, v))

DoExtend(i) ==
  /\ Code.count + Other.count <= MaxCount
  /\ \/ Does("extend_before", i, 0, ExtendBefore(Memory, "code", i, "other"))
     \/ Does("extend_after", i, 0, ExtendAfter(Memory, "code", i, "other"))

DoRemove(i) ==
  \/ Answers("unordered_remove", i, 0, UnorderedRemove(Memory, "code", i),
             Truth(i < Code.count))
  \/ Answers("ordered_remove", i, 0, OrderedRemove(Memory, "code", i),
             Truth(i < Code.count))

DoIndexOf(v) == Answers("index_of", 0, v, Memory, Value(IndexOf(Code, v)))

-----------------------------------------------------------------------------
(* What goes on around them.                                               *)

Fill(v) ==
  Append(Other.cells, v) \in Bodies /\ Does("fill", 0, v, Push(Memory, "other", v))

\* The end of a scope and the next one, or the next lambda that is parsed.
Renew == Does("renew", 0, 0, Renewed(Memory, "other"))

\* A node or the text of a token, written from its beginning to its end.
Request(n) ==
  LET fits == ArenaPointer(Memory, n).offset + n <= BlockSize
      m == ArenaAlloc(Memory, n)
  IN  /\ status = "running"
      /\ Becomes(IF fits THEN m ELSE Fails(m, "undefined"))
      /\ UNCHANGED call

\* The arrays of cstdlib_allocator go out of scope, and main deletes the arena.
End ==
  LET gone == Renewed(Renewed(Renewed(Memory, "code"), "other"), "words")
  IN  /\ status = "running"
      /\ Becomes(Fails(DeleteArena(gone), "ended"))
      /\ UNCHANGED call

ArraysNext ==
  \/ \E v \in Vals : DoPush(v) \/ DoIndexOf(v) \/ Fill(v)
  \/ DoPop \/ DoDrop \/ DoClear \/ Renew \/ End
  \/ \E i \in Indices : DoExtend(i) \/ DoRemove(i) \/ \E v \in Vals : DoInsert(i, v)
  \/ \E n \in Requests : Request(n)

-----------------------------------------------------------------------------
(* Properties.                                                             *)

\* The list that the code is; see IsList in Bitset.tla.
List == INSTANCE ListSpec WITH list <- Code.cells, other <- Other.cells
AfterEnd == call'.op = "extend_after" /\ call'.index = Code.count /\ Other.count > 0
ListStep == status' = "running" /\ ~AfterEnd => List!Next

\* No access leaves the memory that is there, and no assert fails, but for:
\* nodes put into an array that was never allocated, the end of the code to
\* extend after, a request that ran over a block, and calls that the asserts
\* are there for.
Overrun == \E b \in Range(blocks) : b.used > BlockSize
Unallocated == call.op \in {"extend_before", "extend_after"} /\ Code.at = Nowhere
GapMade ==
  call.op = "extend_after" /\ call.index + Other.count = Code.count
FailuresKnown ==
  /\ status = "undefined" => Overrun \/ Unallocated \/ GapMade
  /\ status = "aborted" =>
       \/ call.op \in {"pop", "drop"} /\ Code.count = 0
       \/ call.op \in {"insert_before", "insert_after"} /\ call.index >= Code.count

\* The two arrays never share memory of the arena, whatever they leave behind
\* when they grow and whatever else is asked of it (after a request has run
\* over a block too), and lie within their blocks until one has.
Extent(a) == a.at.offset .. a.at.offset + a.size - 1
InArena(a) == a.allocator = "arena" /\ a.at # Nowhere
RegionsApart ==
  /\ InArena(Code) /\ InArena(Other) /\ Code.at.base = Other.at.base =>
       Extent(Code) \cap Extent(Other) = {}
  /\ \A a \in Range(arrays) :
       InArena(a) /\ ~Overrun => Extent(a) \subseteq 0 .. BlockSize - 1

\* The list of live allocations is what the arrays and the arena hold, each
\* once: nothing is leaked, and nothing is freed that is held or freed twice.
Held ==
  (UNION {{b.self, b.data} : b \in Range(blocks)})
    \cup {a.at.base : a \in {c \in Range(arrays) :
                               c.allocator = "cstdlib" /\ c.at # Nowhere}}
ListExact == IsInjective(live) /\ Range(live) = Held
=============================================================================
