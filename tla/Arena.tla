------------------------------- MODULE Arena -------------------------------
(***************************************************************************)
(* The Arena of src/src/arena.cpp: blocks from cstdlib_allocator that are   *)
(* given out from the front and never taken back.  Operators take and give  *)
(* the memory m: the allocator's list and the arena's blocks, the head     *)
(* first.  block_count is the number of blocks.                            *)
(***************************************************************************)
EXTENDS Allocator

CONSTANTS
  BlockSize,   \* block_size
  U64          \* how many values a u64 has

ASSUME ArenaAssumption ==
  /\ BlockSize \in Nat \ {0}
  /\ U64 \in Nat /\ U64 > BlockSize

AddBlock(m) ==
  LET self == Allocated(m.live)
      data == Allocated(self)
  IN  [m EXCEPT !.live = data,
                !.blocks = <<[self |-> Head(self), data |-> Head(data),
                              used |-> 0]>> \o @]

\* What is left of the head wraps around once a request has run over it.
Left(m) == (BlockSize - Head(m.blocks).used) % U64

\* The arena with the block a request goes to as its head.
Placed(m, n) == IF n > Left(m) THEN AddBlock(m) ELSE m

ArenaAlloc(m, n) == [Placed(m, n) EXCEPT !.blocks[1].used = @ + n]

\* Mutant of ArenaPointer: it points behind the block that had no room.
ArenaPointerEarly(m, n) ==
  LET block == Head(m.blocks)
  IN  [base |-> block.data, offset |-> block.used]

ArenaPointer(m, n) ==
  LET block == Head(Placed(m, n).blocks)
  IN  [base |-> block.data, offset |-> block.used]

\* The destructor: block after block, its data before itself.
DeleteArena(m) ==
  LET freed[k \in 0 .. Len(m.blocks)] ==
        IF k = 0 THEN m.live
        ELSE Freed(Freed(freed[k - 1], m.blocks[k].data), m.blocks[k].self)
  IN  [m EXCEPT !.live = freed[Len(m.blocks)], !.blocks = <<>>]
=============================================================================
