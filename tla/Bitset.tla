------------------------------- MODULE Bitset -------------------------------
(***************************************************************************)
(* The Bitset of src/src/bitset.cpp, an array of words of                  *)
(* cstdlib_allocator.  A word is the set of its bits that are set.  Every  *)
(* call but bits_set first has ensure push words, one at a time, and       *)
(* next_set and next_clear call get for one bit after the other.           *)
(*                                                                         *)
(* Nothing in src/src calls Bitset; its user here is its tests, which use  *)
(* nothing else.                                                           *)
(***************************************************************************)
EXTENDS Arrays

CONSTANTS
  WordSize,    \* WORD_SIZE, 32 in the code
  Bits         \* what the tests call it with

ASSUME BitsetAssumption == WordSize \in Nat \ {0} /\ Bits \subseteq Nat

VARIABLES
  user,        \* who runs: "program", as in Arrays, or "test"
  doing        \* the call in progress, its argument and the bit it is at

vars == <<arraysVars, user, doing>>

Idle == [op |-> "none", start |-> 0, n |-> 0]

Init ==
  /\ ArraysInit
  /\ user \in {"program", "test"}
  /\ user = "test" => Code.allocator = "arena" /\ Other.allocator = "arena"
  /\ doing = Idle

-----------------------------------------------------------------------------
(* Words and bits.                                                         *)

Words == arrays.words
WordOf(n) == n \div WordSize
BitOf(n) == n % WordSize

Operations == {"set", "clear", "toggle", "get", "next_set", "next_clear"}

Begin(op, n) ==
  /\ doing = Idle /\ status = "running"
  /\ doing' = [op |-> op, start |-> n, n |-> n]
  /\ UNCHANGED arraysVars

\* The condition of ensure's loop.
Missing(n) == Words.count <= WordOf(n)

Ensure ==
  /\ doing # Idle /\ status = "running" /\ Missing(doing.n)
  /\ Becomes(Push(Memory, "words", {}))
  /\ UNCHANGED <<call, doing>>

\* The word that holds the bit has been ensured.
Ensured == doing # Idle /\ status = "running" /\ ~Missing(doing.n)
Word == Words.cells[WordOf(doing.n) + 1]
Bit == BitOf(doing.n)
IsSet == Bit \in Word

Return(m, answer) ==
  Answers(doing.op, doing.start, 0, Touched(m, "words", WordOf(doing.n) + 1), answer)
    /\ doing' = Idle
Rewrite(word) ==
  Return([Memory EXCEPT !.arrays.words.cells[WordOf(doing.n) + 1] = word], NoAnswer)

SetBit == Ensured /\ doing.op = "set" /\ Rewrite(Word \cup {Bit})
ClearBit == Ensured /\ doing.op = "clear" /\ Rewrite(Word \ {Bit})
ToggleBit ==
  /\ Ensured /\ doing.op = "toggle"
  /\ Rewrite(IF IsSet THEN Word \ {Bit} ELSE Word \cup {Bit})
GetBit == Ensured /\ doing.op = "get" /\ Return(Memory, Truth(IsSet))

BitsSet ==
  LET ones[i \in 0 .. Words.count] ==
        IF i = 0 THEN 0 ELSE ones[i - 1] + Cardinality(Words.cells[i])
  IN  /\ doing = Idle
      /\ Answers("bits_set", 0, 0, Memory, Value(ones[Words.count]))
      /\ UNCHANGED doing

\* next_set and next_clear, with the answer of one get.
Searching == Ensured /\ doing.op \in {"next_set", "next_clear"}
Found == IsSet = (doing.op = "next_set")

\* The last bit that is looked at; the code has no such bound.
LastBit == Max(Bits) + 1

\* Mutant of LookFurther: n is not moved on.
LookFurtherStuck == Searching /\ ~Found /\ UNCHANGED <<arraysVars, doing>>

\* Mutant of LookFurther: a bit is passed over.
LookFurtherFar ==
  /\ Searching /\ ~Found /\ doing.n < LastBit
  /\ doing' = [doing EXCEPT !.n = @ + 2]
  /\ UNCHANGED arraysVars

LookFurther ==
  /\ Searching /\ ~Found /\ doing.n < LastBit
  /\ doing' = [doing EXCEPT !.n = @ + 1]
  /\ UNCHANGED arraysVars

Find == Searching /\ Found /\ Return(Memory, Value(doing.n))

-----------------------------------------------------------------------------
Perform ==
  \/ Ensure \/ SetBit \/ ClearBit \/ ToggleBit \/ GetBit
  \/ LookFurther \/ Find

BitsetNext ==
  \/ \E op \in Operations, n \in Bits : Begin(op, n)
  \/ Perform
  \/ BitsSet

Next ==
  /\ UNCHANGED user
  /\ \/ user = "program" /\ ArraysNext /\ UNCHANGED doing
     \/ user = "test" /\ BitsetNext

\* A call that was begun goes on.
Spec == Init /\ [][Next]_vars /\ WF_vars(Perform /\ UNCHANGED user)

-----------------------------------------------------------------------------
(* Properties.                                                             *)

\* As long as everything is defined, the arrays are lists, call by call and
\* answer by answer, through growing, moving and arenas that give out old data
\* for good.  extend_after the end of the code is the exception: it leaves a
\* gap and puts its last node behind count.
IsList ==
  List!Init /\ [][user = "program" => ListStep]_<<Code.cells, Other.cells, call>>

\* A bitset is a set: every answer is the set's, across words that are added
\* by any call, by questions too.
Elements == {e * WordSize + b : e \in 0 .. Words.count - 1, b \in 0 .. WordSize - 1}
Contents == {n \in Elements : BitOf(n) \in Words.cells[WordOf(n) + 1]}
AsSet == INSTANCE SetSpec WITH set <- Contents
IsBitset == AsSet!Init /\ [][user = "test" => AsSet!Next]_<<Contents, call>>

\* Every call returns, however many words it has to push, next_set if there is
\* something to find: next_clear always finds the words that it pushes.
CallsReturn ==
  /\ doing.op \in Operations \ {"next_set"} ~> doing = Idle
  /\ (doing.op = "next_set" /\ \E b \in Contents : b >= doing.n) ~> doing = Idle
=============================================================================
