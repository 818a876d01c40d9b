# A verification development for jaja

jaja is a small concatenative language: a lexer and a parser build an AST, an
optimizer rewrites it, a compiler turns it into machine code with libjit, and the
code calls a runtime whose objects live on a garbage-collected heap. This
directory holds TLA+ modules for the parts of it that carry its logic, TLC
configurations that check them on small instances, and TLAPS proofs for every
instance of what matters most. Paths below are relative to the repository's root;
`src/` in them is the repository's own directory of that name.

## 1. The system

| part | files | state | operations |
|---|---|---|---|
| values and operators | `runtime.h`, `runtime.cpp`, `hash.h` | none: a tag, an owner (the allocation of an object) and a payload | `is_truthy`, `==`, `__value_hash`, the two-operand handlers |
| hash table | `hash_table.h` | `size`, `count`, three arrays | `put`, `put_if_contains`, `get`, `get_or_else`, `get_ptr`, `contains_key`, `remove`, `ensure_capacity` |
| heap | `gc.cpp` | the list from `head`, `allocations`, the array `roots`, mark bits | `alloc`, `mark_root`, `unmark_root`, `gc` = `mark` + `sweep` |
| runtime | `runtime.cpp` | operand stack, the variables of main's `Scope`, the C++ activations of handlers that run lambdas | the `Stack` and `Scope` operations and the `__rt_`/`__std_` handlers |
| optimizer | `optimizer.cpp` | the code array of each activation, `next_label` | recursion into lambdas; passes for `!`, `?` and `#` |
| compiler | `compiler.cpp` | label table, libjit's function under construction | `compile_raw`, `compile_constant`, `compile_lambda`, `compile_instruction` |
| array | `array.h` | `size`, `count`, `data` | `push`, `push_ref`, `pop`, `clear`, `free`, `index_of`, the two removals and four insertions |
| lexer | `lexer.cpp`, `lexer.h` | `start`, `curr`, a register for one token, `_has_token` | `find_next_token`, `scan_next`, `eat_token`, `has_token`, `get_token` |
| parser, AST | `parser.cpp`, `ast.h` | the node lists of `parse` and of the open lambdas | `parse`, `parse_lambda`, `parse_any` |
| arena, allocator | `arena.cpp`, `allocator.cpp` | blocks; a list of live allocations in the debug build | `alloc`, `free` |
| bitset | `bitset.cpp` | an array of words | `set`, `clear`, `toggle`, `get`, `next_set`, `next_clear`, `bits_set`; called by tests only |
| main, utilities | `main.cpp`, `utils.cpp` | | reads a file, runs the phases, then pops, unroots, collects and asserts |

How they interact. Compiled code is a sequence of calls of runtime handlers. A
handler pops and pushes operands; every push and pop of an object also calls
`mark_root` or `unmark_root`, and variables are rooted the same way. `__rt_newobj`
calls `Heap::alloc`, which may run a whole collection first. An object is a
`Hash_Table` of values inside its allocation; `mark` follows it. `exec`,
`cond_exec` and `while` run lambdas, compiled code again, from inside a handler,
unless the optimizer has replaced them by branches. There is one thread.

The front end works in steps that overlap: `parse_any` copies the token, has the next
one scanned, and then looks at the copy. Nodes and texts of tokens are allocated in the
parser's arena; so are the arrays of a lambda's nodes, which the optimizer goes on to
grow. Everything else that grows (operands, roots, what a pass puts in) takes its memory
from `cstdlib_allocator`, whose debug build keeps a list of what is live.

What is hard here, and what the properties are for:

* **Roots against references.** Twenty-odd handlers each keep a bag of roots in
  step with the stack and the variables, by hand, and `unmark_root` takes away any
  one entry. One call too few or too many shows only much later.
* **Collections in the middle of things**: between the unrooting of operands and
  the rooting of a result, inside loops whose lambdas are held in C++ locals, over
  lists that an earlier collection bent and with addresses that malloc gives out again.
* **Probing**: collisions, reserved hashes, tombstones, growing, a loop that ends
  only because some slot is empty.
* **Uninitialized results** (`__rt_add` on operands it has no case for), in-place tag
  changes, s64 edges.
* **Code rewritten while it is walked over**, with labels from one counter shared by
  all functions, and one table for them while libjit numbers each function's for itself.
* **A register that is never emptied**: at the end of the source `get_token` still gives
  the last token. Comments that nest, restart the scanner and may be the last thing there is.
* **Arrays at their limit**: data allocated late, growth one element early in one
  operation and not in another, old data in an arena, requests larger than a block.

What makes each part correct, in one line: handlers keep roots at least equal to
references; a collection frees nothing that is held; a table is a map and its count is
exact; optimizing and compiling keep the meaning; the tree spells the source and a source
is rejected exactly when it is malformed; an array is a list in memory of its own; a bitset
is a set; every loop ends.

## 2. The modules

| module | models | correspondence |
|---|---|---|
| `Values` | values and operators | one operator per C++ function or handler result; a *set* of results where the result is uninitialized, the empty set where the handler stops the process |
| `TableOps` | `Hash_Table` | one operator per method on a table record; a probe loop is "the first slot from the hash on that stops it" |
| `HashTable`, `MapSpec` | a table and its callers; the map it promises | one action per method; `call` and `ret` are the last call and its answer |
| `Heap` | `Heap` with each call as one step | `roots` counts entries per address; `Marked`, `OnList`, `Swept`, `SweptLink` are closed forms of the loops of `mark` and `sweep` |
| `Runtime` | stack, scope, handlers, end of main, over `Heap` | one action per handler; `frames` are handlers that are running a lambda or a native; `status` how the process ended |
| `GcSteps` | `gc` one loop iteration at a time | `work` is mark's recursion, `prev`/`curr`/`swept` are sweep's locals; implements `Runtime` |
| `Program` | AST nodes and what compiled code does | a machine with operands and activations; branches jump to their target in the same code |
| `Optimizer` | `optimize` | `calls` are its activations, each with code, pass and index; one action per kind of loop iteration; its arrays are the lists of `ListSpec` |
| `Compiler` | `compile`, `compile_raw`, over `Optimizer` | `functions` are the activations of `compile_raw`, each with the code given to libjit so far; `labels` is the label table; one action per kind of node |
| `Lexer` | the scanner | one action per kind of token, each a whole `find_next_token`; `scanning` holds while `scan_next` has not returned |
| `Parser` | the parser over `Lexer` | `open` are the node lists of the activations of `parse_lambda`; `taken` is `parse_any`'s copy of the token |
| `Language` | which sources the two accept | the language read one character at a time, without register or recursion |
| `FrontEnd` | the tree they build, over `Language` | the tree spelled as words, against the words read |
| `Allocator`, `Arena`, `Array` | the three, as operators on a memory | one operator per method; a shifting loop is a closed form; every access is checked against the memory that is there |
| `ListSpec`, `SetSpec` | what an array and a bitset promise | operators on sequences, steps on sets |
| `Arrays` | two arrays at work over the arena or the allocator | one action per operation of `code`; an `other` array that is filled, put in and given up; other requests to the arena; the end of main |
| `Bitset` | `bitset.cpp` over an array of words | `doing` is the call in progress; one action per word pushed, bit changed or bit looked at |
| `MC*` | instances for TLC | values of constants, and next-state relations restricted to a part of the instruction set |
| `NumberProofs`, `MapProofs`, `RuntimeProofs`, `GcProofs`, `LabelProofs`, `MeaningProofs`, `ParserProofs`, `ArrayProofs` | proofs | section 5 |

Modelling decisions that a reader should know:

* **The program is any program.** In `Runtime` every handler may be called wherever
  compiled code runs: the language is concatenative, so every sequence of handlers is
  a program (that inlined branches keep a program's meaning is `Optimizer`'s subject).
* **Debug build.** A failed `assert` ends the process (`status = "aborted"`). With
  `NDEBUG` the program cannot run at all: `read_entire_file` has its `fread` inside
  an `assert`.
* **Undefined behaviour.** Reading freed or uninitialized memory ends the model's
  knowledge (`"undefined"`); an uninitialized tag or number is any value of its type.
  A pointer to an address that was freed *and given out again* reads the new
  allocation, which is what happens with malloc.
* **Collections read freed memory** exactly when `MarkTouchesFreed` or
  `SweepTouchesFreed` hold; that these closed forms are right is what `GcSteps` checks.
* **An object and its table** are two allocations in the code, made and freed together
  (`__rt_newobj`, `free_allocation`), and one cell behind one address in the model. So a pointer to
  a freed table whose address malloc gave out again is not told from one to its allocation.
* **Scopes.** `call` makes a `Scope` for the callee but passes on the one it was
  given, so main's scope is the only one that ever holds a name.
* **Equal strings are one string.** Pointers to characters are identified with their
  contents, as `strcmp` and `hash_string` do.
* **Memory of arrays.** The cells of an array behind `count` are not kept: what is read
  there is `Junk`. `malloc` gives the least address that nobody holds. An element is one
  unit long, and so is a unit of the arena. `code` in the allocator with `other` in the
  arena is left out, as no caller has it.
* **Positions.** The front end keeps the token's span and text; line and column are
  neither initialized nor read in the code, and left out.
* **libjit** is what `Compiler` gives it: a list of nodes with labels, which runs as
  `Program` says. Labels are numbered from 0 in each function, as libjit does.
* **Bounds that the code does not have**: `MaxStack`, `MaxFrames`, `MaxRoots` (root
  entries that `drop` leaves behind), `MaxProps` (properties of all objects),
  `MaxSize` (table size), `Watched` (how long two programs are compared), `Size`
  (nodes of a program, characters of a source) and `NestedSize` (characters of a source
  of few kinds), `MaxDepth`, `MaxCount` (nodes in an array), `MaxBlocks` (blocks of the
  arena), `Bodies` (what `other` may hold), `Requests` (sizes asked of the arena),
  `LastBit` (the last bit a search looks at). `MaxNumber` stands for the largest s64.

## 3. The runs

| run | instance | what it shows |
|---|---|---|
| `heap` | 3 addresses, 3 operands, a collection before every allocation but the first; objects and properties together at most 3, or two objects with a property each; 690 000 states | roots cover references (`RootsCover`), only `drop` unbalances them (`RootsBalanced`), nothing held is freed (`HeldSurvive`), the count is exact (`AllocationsExact`), every owner belongs to an object (`OwnersAreObjects`), and the list is damaged only when two neighbours are freed (`SweepKeepsList`); unseen children and reused addresses included |
| `ops` | 2-bit integers, every kind of value, 3 operands, 2 nested activations; 700 000 | types, owners and roots under every operator, uninitialized results, lambdas, natives, conditionals and loops; the locals of a handler own nothing (`LocalsOwnNothing`) |
| `gc_steps` | 3 addresses, 1 property; 270 000 | the loops implement the one-step collection of `Runtime` (`IsAtomic`), return (`CollectionEnds`) and clear their marks (`MarksCleared`) |
| `table` | 4 slots growing to 8; as the program uses it, 4 colliding keys and 2 values; as a test does, 3 keys with `remove`; 130 000 | the table implements `MapSpec` answer by answer (`IsMap`), lookups end (`LookupsReturn`); tombstones keep entries reachable (`EntriesReachable`), the count is exact (`CountExact`), and only `remove` of a key loses it (`NoKeyLost`) |
| `optimizer` | all 28 615 programs of up to 5 nodes, 6 operand stacks; 1 060 000 | optimizer and compiler end (`Ends`), branches resolve (`LabelsResolve`), and the code given to libjit does what the source does (`KeepsMeaning`), unless an inlined `!` had three or more nodes behind it |
| `frontend` | all sources of up to 4 characters of 16 kinds and up to 6 of 7 kinds; 1 090 000 | positions stay in the source (`ParserTypeOK`), a source is rejected exactly when it is malformed (`AcceptsWellFormed`), the tree spells it (`TreeSpellsSource`), and the front end ends (`FrontEndEnds`), but for the exceptions of section 4 |
| `arrays` | arrays of initial size 2 and up to 4 nodes, 2 blocks of 6 units, words of 2 bits, bits up to 4; 230 000 | an array is a list (`IsList`) in memory of its own (`RegionsApart`), the debug list is what is held (`ListExact`), accesses leave their memory and asserts fail for named causes only (`FailuresKnown`); a bitset is a set (`IsBitset`) and its calls return (`CallsReturn`) |
| `leak` | 3 addresses, objects without properties | *violated*: roots are left at the end of main |
| `list` | as `leak` | *violated*: a root is not on the heap's list |
| `mark` | 3 addresses, 1 property | *violated*: `mark` is called on freed memory |
| `table_removed` | 4 keys | *violated*: a removed key is found again |
| `optimizer_assert` | up to 3 nodes | *violated*: the assert behind an inlined conditional |

Why the bounds are enough to be interesting. Three addresses are the least with
which a list has a node in front of two freed neighbours, or an object that keeps a
child which keeps another. Two objects with a property each give every way of
referring to one another, rings included; four slots with keys that hash into the
first slot, the last, or onto each other put children before and behind `count`,
and `GcThreshold` is lowered from 1000 to 0 or 1 so that collections fall between
any two handlers. A table of four slots meets its threshold at two entries and is
rehashed with runs that wrap around the end. Two-bit integers overflow in every operator.
Five nodes hold `[..]!` with three followers, `[..][..]#` with a body and a
condition, and conditionals in conditionals, so that a label is met in two functions.
Four characters hold a string, a comment in a comment, or a number with a leading zero and
an 8; six hold two lambdas in one another, one of them not closed behind one that is. An
array of initial size 2 takes two units at its first push, four at its second, which fills
the arena's first block, and eight at its fourth, more than a block has. A request of 7
units, more than a block too, is the only other one: any that fits would only shift offsets.

`CHECK_DEADLOCK FALSE` is used everywhere: the process ends, and the bounds stop the
other modules.

**Fairness.** `GcSteps` (`GcStep`), `Compiler` and `Parser` (`Next`) and `Bitset`
(`Perform`) assume weak fairness of the one thread there is: once `gc`, `parse`,
`compile` or a bitset's operation has been called it keeps executing. `CollectionEnds`,
`Ends`, `FrontEndEnds` and `CallsReturn` are then facts about their loops. Beginning a call
is not fair anywhere, and nothing is in `Runtime`: the program may stop using any handler.

## 4. What the models say about the code

Five statements that the source makes about itself do not hold, and are findings in
`PROJECT.json` with their runs: the asserts of `main.cpp:65` and `optimizer.cpp:83`, the
commented-out asserts of `gc.cpp:75` and `gc.cpp:87`, and the test's expectation that
a removed key is gone. Their causes:

* `Stack::drop` does not unroot (`runtime.cpp:87`).
* `Heap::sweep` forgets its predecessor when it frees (`gc.cpp:129-132`).
* `Heap::mark` runs over `count` slots instead of `size` (`gc.cpp:97`).
* `Hash_Table::put` stores at a tombstone without looking further (`hash_table.h:124`).
* `optimize_cond_execs` asserts a branch target where it has put a `drop` (`optimizer.cpp:83`).

What else differs from what a reader may expect is stated as an exception of the
property it would break, so that the property says exactly how far it holds:

* `optimize_execs` uses `unordered_remove`, so that `[a]! b c d` becomes `a c d b`: with three
  nodes or more behind the call the order changes (`moved` in `KeepsMeaning`).
* `&` is parsed as `~` (`parser.cpp:103`); a number with a leading zero is octal and ends at
  its first 8 or 9, and a number that does not fit is the largest (`parser.cpp:36`):
  `Mistaken` in `TreeSpellsSource`, which names the nodes that such words become.
* Lambdas left open are closed by the register when the last token of the source closes one
  (`parser.cpp:195`): `[a []` is accepted, `[a` is not (`closing` in `AcceptsWellFormed`).
* A request larger than `block_size` runs over its block, and what is left of the block
  wraps around (`arena.cpp:28`): `Overrun` in `FailuresKnown` and `RegionsApart`.
* `extend_before` and `extend_after` write through a null pointer if nothing was ever
  pushed (`Unallocated`), and `extend_after` behind the last index leaves a gap (`GapMade`,
  `AfterEnd`): `array.h:84-119`.
* `next_set` does not end when no bit at or behind its argument is set (`bitset.cpp:39`):
  the second line of `CallsReturn`.

What holds regardless is what the other runs and the proofs say: in particular, nothing a
variable or an operand refers to is ever freed, in spite of the first three findings.

## 5. What is proved

TLAPS proves, for every set of addresses and strings, every integer width, hash
function, collection threshold, table size, set of programs, source, size of arrays and
blocks, and bound:

| module | theorem | statement |
|---|---|---|
| `RuntimeProofs` | `InvariantHolds` | `Spec => []IInv` |
| | `TypeCorrect` | `Spec => []TypeOK` |
| | `AllocationsCounted` | `Spec => []AllocationsExact` |
| | `RootsAlwaysCover` | `Spec => []RootsCover` |
| | `OnlyDropUnbalances` | `Spec => RootsBalanced` |
| | `HeldObjectsSurvive` | `Spec => HeldSurvive` |
| | `ListHolds` | `Spec => [](IInv /\ ListInv)` |
| | `OnlyNeighboursAreLost` | `Spec => SweepKeepsList` |
| | `OwnersAgree` | `Spec => []OwnersAreObjects` |
| | `LocalsAreSafe` | `Spec => []LocalsOwnNothing` |
| | `MarkStaysInside` | `Spec => []ScansOwners`: `mark` never leaves a table's arrays, and goes on to addresses of objects only |
| `GcProofs` | `NoMarkIsLeft` | `GcSpec => []MarksCleared` |
| | `CollectionIsAtomic` | `GcSpec => IsAtomic`: `GcSteps` implements `Runtime` |
| `MapProofs` | `TableInvHolds` | `Spec => []TableInv` |
| | `CountAlwaysExact` | `Spec => []CountExact` |
| | `LookupsAlwaysReturn` | `Spec => []LookupsReturn` |
| | `EntriesStayReachable` | `Spec => []EntriesReachable` |
| | `NoKeyIsLost` | `Spec => NoKeyLost` |
| | `TableIsMap` | `Spec => IsMap`: `HashTable` implements `MapSpec` |
| `LabelProofs` | `LabelsAlwaysResolve` | `Spec => []LabelsResolve` |
| `MeaningProofs` | `CompilingKeepsMeaning` | `Spec => []KeepsMeaning`, if `Watched = Nat`: optimizer and compiler are correct |
| `ParserProofs` | `PositionsInSource` | `Spec => []ParserTypeOK` |
| | `AcceptsExactly` | `Spec => []AcceptsWellFormed` |
| | `SpellsSource` | `Spec => []TreeSpellsSource` |
| `ArrayProofs` | `ListAlwaysExact` | `Spec => []ListExact` |
| | `RegionsAlwaysApart` | `Spec => []RegionsApart` |
| | `FailuresAlwaysKnown` | `Spec => []FailuresKnown` |
| | `ArraysAreLists` | `Spec => IsList`: `Arrays` implements `ListSpec` |
| | `BitsetIsSet` | `Spec => IsBitset`: `Bitset` implements `SetSpec` |

The assumptions are those the modules declare: addresses are nonzero naturals and finitely
many, strings are finitely many, a positive width, hashes are naturals, two keys are equal
to the table exactly when they are the same key, a threshold in `Nat`, an initial table size
above 2, constants of a program that own nothing and are neither objects nor invalid,
uninitialized data that can be told from none at all (`Wild # NoData`), programs that are
sequences of nodes without branches or targets, as `parse` makes none, and whose lambdas
count as programs too, operands that are values a program would push, a depth in `Nat` to
which `LabelsResolve` looks for lambdas, sources that are sequences of characters, letters
that are no digits, blanks or other characters with a meaning (`lexer.cpp:107-266` is a
switch), keywords that are constants, a largest number in `Nat`, an initial size of arrays
above 1, blocks of a positive size that a `u64` can hold, requests and bits that are
naturals, and words of at least one bit.

**The runtime.** The invariant is `IInv`: types, the exact count and `RootsCover`. None is
inductive alone. `RootsBalanced` needs `RootsCover`, because `unmark_root` on an
address without an entry would do nothing and so change the balance; `HeldSurvive`
needs it because a collection keeps what has a root; `RootsCover` needs the types
(an operand is a value with an owner in `Addr` or none, also when it comes out of a
table), and these need that tables hold values after growing and that every operator's
result is a value. `AllocationsExact` is kept by a
collection because what is swept is live when no freed memory is read, whatever the
list looks like: no property of the list is assumed, which is why these theorems survive
the damage of section 4.

The argument for the roots is one lemma shape, `Quiet`: a handler keeps, for every
address, the *surplus* of its root entries over the references from the operands.
`PushRoot` and `PopRoot` establish it for one push or pop, `SurplusChain` composes
them, and each handler is a chain; `Store` also moves a reference to the variables,
`Drop` breaks the balance upwards, and `NewObj` and `SetProp` change the heap.

**Owners.** `OwnerInv` says that tag and owner agree in every operand, variable and table
slot, and that frames hold values without an owner. A lambda taken off the stack owns
nothing because its tag agrees there; it may have come out of a table; and a table may have
been moved by growing, or be what is left in memory that is given out again, so the
invariant speaks of the tables of freed memory too. Only objects are ever given an owner,
and every operator that builds a value in place of its operands is shown to give it the
owner that fits the tag, uninitialized tags included. `MarkStaysInside` follows from this and
from `TablesRoomy`: `count` stays at most `size` in every table of the heap, those of freed
memory too, and so `mark` looks at slots, where an owner is that of an object. That the
object is still allocated is not claimed: run `mark` shows the contrary.

**The list.** What the list can be is one of two things: `Linked`, where the allocations
have ranks that fall along the links from `head` to a null link, or `Endless`, where `head`
is in a set of addresses that no link of a live node leads out of. `ListInv` says that one of
them holds while the process runs. An allocation puts a node in front, which keeps either. A
collection of a linked list that frees no two neighbours leaves a linked one; one that frees
neighbours leaves a link into freed memory, and so an endless one, whether that memory stays
freed or is given out again. A later collection cannot end on it without reading what it has
freed, which ends what the model knows. `SweepKeepsList` follows: an allocation is lost by
a collection that frees two neighbours and by nothing else, whatever came before.

**The collection.** `GcSteps` runs `mark` and `sweep` one iteration at a time; `Runtime`
does a collection in one step, with closed forms. `GcInv` has a part for each phase.
*Marking*: what is marked is live and within `Marked`; every root is marked or still to be
visited; and the children of a marked node are marked, or the node has an activation and
the children that it has passed are. When no root and no activation is left, the marks are
closed and hold the roots, and so they are `Marked`, the least such set. *Sweeping* a list
that ends: of the nodes passed, those of higher rank than `curr`, the marked ones have no mark
any more and the link that `SweptLink` gives them, the others are freed and counted in
`swept`, and all else is as it was (`SweptSoFar`). `prev` is the last node kept if its link
leads to `curr`, and `curr` itself once a node has been freed just before (`PrevOK`): that is
why the link into a run of unmarked nodes is left in place. *Sweeping* a list that does not
end: `curr` never gets out of a set of addresses (`Stuck`), so `sweep` comes to freed memory
and never to its end. The refinement maps the heap during a collection to the heap before it
(`seenHead`, `seenAllocations`, `seenCells`), so that every iteration stutters but the last,
which is the step of `Runtime` that collects. `NoMarkIsLeft` is a part of the same invariant.

**The table.** `TableInv` joins the exact count with the bound `count <= size - 2`, says
that an entry's probe meets no EMPTY slot before it (`Placed`) and, of a table that nothing
is removed from, that it has no tombstone and no key in two slots (`Apart`). A put adds one
to `count` only at a slot that is not occupied; that its probe comes to one follows from the
bound (a table that is not full, `RoomLeft`, and a probe that visits every slot,
`ProbeArrives`); and that the bound says anything about slots is the exactness. Growing puts
one entry after the other into new arrays: `NewSlots` is a recursive function, and what it
computes is proved from its existence, by taking the least number of entries for which it
would be wrong (`LeastNatural`). `Landed` says of the first so many entries that each key
has a slot of its own and a probe to it over slots that are taken; it is what makes `Placed`
true of the new table. Without tombstones a slot that is not occupied is EMPTY, and so
lookups return; with `Placed` and `Apart` a lookup finds the one slot that holds its key,
and so `Contents` is a function of the slots alone (`Holds`) that a put changes at its key.

**Labels.** `LabelInv` is about the code of every activation of `optimize`. Such a code is
`Good`: in it and in its lambdas, at any depth, every branch finds its target in its own
code, and no label has two targets. That is put together from its nodes: a code is good
exactly when its own branches find their targets (`Closed`), no two of its nodes have a
label in common (`Apart`) and its lambdas are good (`GoodComposed`, `ComposedGood`). A pass
takes two or three nodes out and puts the code of one or two lambdas in; what is left and
what is put in have no label in common because they came from different nodes, and new
labels come from `next_label`, which is above every label in use (`Inlined`). Branches look
for equal nodes and not for places, so the order that `unordered_remove` disturbs does not
matter. Activations share no label, and the lambdas that a caller has not come to have
none: so it may take up the code that a callee returns (`BodyReplaced`), and the callee may
number on where the caller stopped. `LambdasIn` is a recursive function again: what it
collects is what a path of lambdas reaches (`LambdasReached`).

**The meaning.** `KeepsMeaning` compares how two programs end when they are watched for a
number of steps in `Watched`. TLC watches both for 30; the theorem is about `Watched = Nat`,
which is what is meant: the code given to libjit ends in a way (in an abort, or with certain
operands) if and only if the source does, after however many steps. It takes fewer, so
nothing is claimed of a step more or less; and a program that runs for ever goes on to do so.

The argument is a simulation. `R` is a set of pairs of codes. Two codes are `SameCode` if
they are the same node by node, but for the numbers of their labels and for lambdas whose
codes are a pair of `R`, and branches go to the same places; they are `OneInlined` if the
second is the first with the lambda of one `!` or `?`, or the two of one `#`, put in
(`Site`). `R` is `Justified` if each of its pairs is one of the two. Two machines that run a
pair correspond when their operands do, and their activations one by one; or when the first
has an activation more, that of a lambda whose code the second has inside its own; or when
the first has pushed the lambdas that the second has code of and is about to call them
(`Simulates`). Every step of the one is then answered by the other (`GoesOn`): by a step, or
by none, and then a rank gets less, so that neither waits for ever. That stacks of activations
correspond is the greatest fixed point of `Linked`, since an activation may be inside
another to any depth. `PairedSame` follows by taking the least number of steps after which
the one ends: programs in `R` end alike.

`MeaningInv` is the optimizer's part. While a lambda is optimized, the code of its caller
still has its old code, and so the invariant speaks of the *whole* program: the code of each
activation with that of the next in its lambda (`Whole`). It means what the source does. All
the codes there ever were are collected in a set `U` that has the lambdas of its members; a
pass changes the last code of a whole as `OneInlined` says, and pairs the old wholes with the
new ones from the inside out (`WholesPaired`). That the places found by the passes are as
`Site` says, with the nodes behind them moved up and down by the two removals and
`extend_before`, is `InlineExec`'s, `InlineCondExec`'s and `InlineWhile`'s part
(`ExecSiteIs`, `CondSiteIs`, `WhileSiteIs`), and for `!` it holds only if `unordered_remove`
moved no nodes past one another: hence `~moved`. `LabelInv` is needed for the branches:
their targets are in the code they are put in with and in no other. `CompileInv` is the
compiler's: each function in progress is compiled up to its index (`FunctionOK`), the
labels of its own targets have different numbers of its own (`Numbered`), and those of
lambdas it has not come to are not in the table (`Ahead`): one table serves all functions
only because no two functions have a label in common. A function that is finished is
`SameCode` with its nodes, and becomes a pair of `R` for the one around it.

**The front end.** `ParserInv` carries along that a lambda is open, or a token taken, only
after a token was read, because the register keeps its token. Each loop over characters
stops at a position of the source that is not before the one it began at (`LoopsStop`).

`AcceptInv` compares the position of the scanner with `Readings`, what is known behind each
character when they are read one by one; it is a recursive function, and that it is what it
should be is shown as for `NewSlots`. A loop of the scanner is a stretch of characters over
which the reading stays in one mode (`Runs`, `Strings`, `Comments`; the depth of a comment is
the number of its braces, `CountIs`), and so where a token ends the reading is free to begin
the next, and has counted the token (`ScanReads`). For the parser there are three cases.
`Balanced`: the lambdas read are those that `open` holds, and the tokens taken and waiting;
two tokens are under way at most. `Doomed`: the end of a lambda that never began is one of
the two, with no lambda open, so it will be refused. `Closed`: at the end of the source the
stale register closes what is left. In each, the program ends as `WellFormed` says.

`TreeInv` compares the open lists with the words. A list of nodes is *told* node by node, a
lambda as its nodes between brackets; `Telling` says as what, whatever nodes stand behind the
list and whatever was told before, and so it can be put together: a leaf adds itself
(`TellingLeaf`), a lambda that is closed adds what its list tells and two brackets
(`TellingLambda`). No induction over trees is needed, because the tree is built in just this
order. `Layout` then says where the words of each open list begin and end: each lies behind
the bracket that opened it, and the list around it ends in front of that bracket. The words
behind the innermost are those of the token taken and the token that waits (`Behind`):
`parse_any` looks at its copy, not at the register, and so each node is put where its word is.
Behind the last word there are only the ends of lambdas that the stale register closes, as
many as the reading counts as open (`Beyond`). That a token comes from the word that was read,
quotes, digits and keywords included, is a part of `ScanReads` (`Worded`); that its node is
what the word means, or one of the mistakes named in `Mistaken`, is `NodeMeant`.

**Arrays.** `Inv` is about the memory that the arrays share. `OwnMemory` says that nothing
is held twice: no two arrays, and no array and block, have the same memory of the allocator.
`OwnRegions` says that an array of the arena lies in front of what its block has `used`, and
before or behind every other array of that block. Both hold while the process runs; with
them goes that an array with a node in it has been allocated, and that `count` is at most
`size`. `malloc` gives memory that nobody holds, so a first push and a `resize` keep
`OwnMemory`; the arena gives what lies behind `used`, so they keep `OwnRegions` as well,
whatever the request: one that overruns its block leaves `used` behind it all the same. A
process that has ended leaves memory in which this still holds, and `FailuresKnown`, a part
of `Inv`, says which call ended it; `ListExact` and `RegionsApart` follow. The loops, that
of `array_ensure_capacity` that doubles, that of `delete_arena` and the sum over a bitset's
words, are recursive functions, and what they compute is shown as for `NewSlots`. `IsList`
is then one step of `ListSpec` for each operation: the shifting loops of `insert`,
`extend_before` and `extend_after`, given in `Array` as closed forms over cells, are the
concatenations that `ListSpec` gives them (`Spliced`), and `remove` drops one node
(`Removed`).

**Bitsets.** `Contents` are the numbers whose word has their bit. That a bit set in one word
changes nothing else is the uniqueness of division by `WordSize`. Two facts need `Inv`: that
the words are in bounds where they are read, and that a word pushed is empty. `next_set` and
`next_clear` return the least number that is in, or not in, the set because of `Searched`:
everything they have passed is not what they look for. `bits_set` returns the cardinality of
the set, one word at a time.

Every safety invariant, action property and refinement that the passing runs check is stated
by a theorem. Only model-checked, and why: liveness (`Ends`, `CollectionEnds`, `FrontEndEnds`,
`CallsReturn`) is out of the prover's reach, and the expected violations of section 4 are
counterexamples, which TLC shows. What a recursive function computes can be reasoned about,
as for `NewSlots`, `Readings`, `Walked`, `InBase` and a machine's steps: it is shown that there
is such a function, by going along its arguments, and then what the function's values are.

## 6. What is not modelled, and the plan

Not modelled: printing (`Value::print`, `ast.cpp`, whose only call is commented out),
reading the source file (`utils.cpp`), libjit itself, the depth of the native stack (`mark`
and the parser recurse, inlined loops `alloca`), exhaustion of memory, and the file, line and
function that `HEAP_DEBUG` and `ALLOCATOR_DEBUG` keep with an allocation.

What could be added: the composition of `Compiler` with `Runtime` on a small instruction
set, so that inlined conditionals and loops are compared by their effect on roots as well.
