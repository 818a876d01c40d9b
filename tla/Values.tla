------------------------------- MODULE Values -------------------------------
(***************************************************************************)
(* The runtime's tagged value, struct Value of src/src/runtime.h, and the  *)
(* operations of src/src/runtime.cpp that read nothing but their operands: *)
(* truthiness, equality, hashing and the results of the two-operand        *)
(* instructions.                                                           *)
(*                                                                         *)
(* A value is a record of its type tag, the pointer `a' to the allocation  *)
(* that owns it (Null unless the value is a heap object) and its payload.  *)
(* A pointer to characters is identified with the string it points to, and *)
(* lambdas carry no payload: which code a lambda runs is left open by the  *)
(* modules that execute programs.                                          *)
(***************************************************************************)
EXTENDS Integers, FiniteSets

CONSTANTS
  Addr,           \* addresses malloc may give an Allocation
  Strings,        \* contents of the strings and names of the program
  Half,           \* s64 is modelled by the integers -Half .. Half - 1
  NoData,         \* payload of a value whose payload is never read
  Wild,           \* an uninitialized payload pointer
  HashU64(_),     \* hash_u64 (and hash_ptr) of src/src/hash.h
  HashString(_)   \* hash_string of src/src/hash.h

Null == 0

ASSUME AddrAssumption == Addr \subseteq Nat \ {Null} /\ IsFiniteSet(Addr)
ASSUME StringsAssumption == IsFiniteSet(Strings)
ASSUME HalfAssumption == Half \in Nat \ {0}
ASSUME WildAssumption == Wild # NoData

-----------------------------------------------------------------------------
(* Values.                                                                 *)

\* "INVALID" stands for every tag byte above VALUE_NATIVE.
Types == {"TRUE", "FALSE", "NIL", "NUMBER", "STRING", "REFERENCE",
          "OBJECT", "LAMBDA", "NATIVE", "INVALID"}

Ints == -Half .. Half - 1
Data == Ints \cup Strings \cup {NoData, Wild}
Fits(type, data) ==
  /\ type = "NUMBER" => data \in Ints
  /\ type \in {"STRING", "REFERENCE"} => data \in Strings \cup {Wild}
Value == {v \in [type : Types, a : Addr \cup {Null}, data : Data] :
            Fits(v.type, v.data)}

\* A value that owns no allocation: Value(_type) sets a to 0.
Plain(type, data) == [type |-> type, a |-> Null, data |-> data]
\* Mutant of Object: the type tag is not set on the new object.
ObjectUntagged(addr) == [type |-> "NIL", a |-> addr, data |-> NoData]

Object(addr) == [type |-> "OBJECT", a |-> addr, data |-> NoData]

NilV    == Plain("NIL", NoData)
BoolV(b) == Plain(IF b THEN "TRUE" ELSE "FALSE", NoData)
NumberV(n) == Plain("NUMBER", n)
LambdaV == Plain("LAMBDA", NoData)
NativeV == Plain("NATIVE", NoData)

\* What memset(0) leaves in the slots of a table of values.
ZeroV == BoolV(TRUE)

-----------------------------------------------------------------------------
(* Value::is_truthy and Value::operator==                                  *)

\* is_truthy has no case for natives and falls through to assert(false).
HasTruth(v) == v.type \notin {"NATIVE", "INVALID"}

Truthy(v) ==
  \/ v.type \in {"TRUE", "STRING", "REFERENCE", "OBJECT", "LAMBDA"}
  \/ v.type = "NUMBER" /\ v.data # 0

\* Objects and lambdas are compared by owner; every lambda's owner is Null.
ValueEq(x, y) ==
  /\ x.type = y.type
  /\ \/ x.type \in {"TRUE", "FALSE", "NIL"}
     \/ x.type \in {"NUMBER", "STRING", "REFERENCE"} /\ x.data = y.data
     \/ x.type \in {"OBJECT", "LAMBDA"} /\ x.a = y.a

\* __value_hash, total on the values it has a case for.
Hashable(v) == v.type \notin {"NATIVE", "INVALID"}

ASSUME HashAssumption ==
  /\ \A n \in Ints \cup Addr \cup {Null} : HashU64(n) \in Nat
  /\ \A s \in Strings : HashString(s) \in Nat

ValueHash(v) ==
  CASE v.type = "FALSE"                   -> 0
    [] v.type = "TRUE"                    -> 1
    [] v.type = "NIL"                     -> 2
    [] v.type = "NUMBER"                  -> HashU64(v.data)
    [] v.type \in {"STRING", "REFERENCE"} -> HashString(v.data)
    [] v.type \in {"OBJECT", "LAMBDA"}    -> HashU64(v.a)

-----------------------------------------------------------------------------
(* The two-operand instructions: the set of values `c' may hold when the   *)
(* handler replaces `a' by it.  The empty set means the handler stops the  *)
(* process: assert(false), or the divide trap.                             *)

Numbers(x, y) == x.type = "NUMBER" /\ y.type = "NUMBER"
Booleans(x, y) == {x.type, y.type} \subseteq {"TRUE", "FALSE"}

\* Mutant of Wrap: arithmetic that does not wrap.
WrapNever(n) == n

\* s64 arithmetic wraps, as the compiler's plain add, sub and imul do.
Wrap(n) == ((n + Half) % (2 * Half)) - Half

\* C++ division and remainder truncate toward zero.
Abs(n) == IF n < 0 THEN -n ELSE n
Sign(n) == IF n < 0 THEN -1 ELSE 1
Quotient(m, n) == Sign(m) * Sign(n) * (Abs(m) \div Abs(n))
Remainder(m, n) == m - n * Quotient(m, n)
DivideTraps(m, n) == n = 0 \/ (m = -Half /\ n = -1)

\* Bit i of the two's complement representation.
Bit(n, i) == ((n + 2 * Half) \div 2 ^ i) % 2
BitSet(n) == {i \in 0 .. Half : 2 ^ i < 2 * Half /\ Bit(n, i) = 1}
WithBits(bits) == {n \in Ints : BitSet(n) = bits}

\* The type tag, never written, is whatever the stack frame held.
Uninitialized ==
  {Plain(t, NoData) : t \in {"TRUE", "FALSE", "NIL", "INVALID"}}
    \cup {NumberV(n) : n \in Ints}
    \cup {Plain(t, Wild) : t \in {"STRING", "REFERENCE", "OBJECT",
                                  "LAMBDA", "NATIVE"}}

EqResults(x, y) ==
  IF "INVALID" \in {x.type, y.type} THEN {} ELSE {BoolV(ValueEq(x, y))}
LtResults(x, y) == IF Numbers(x, y) THEN {BoolV(x.data < y.data)} ELSE {}
GtResults(x, y) == IF Numbers(x, y) THEN {BoolV(x.data > y.data)} ELSE {}
AndResults(x, y) ==
  IF Booleans(x, y) THEN {BoolV(x.type = "TRUE" /\ y.type = "TRUE")}
  ELSE IF Numbers(x, y)
  THEN {NumberV(n) : n \in WithBits(BitSet(x.data) \cap BitSet(y.data))}
  ELSE {}
OrResults(x, y) ==
  IF Booleans(x, y) THEN {BoolV(x.type = "TRUE" \/ y.type = "TRUE")}
  ELSE IF Numbers(x, y)
  THEN {NumberV(n) : n \in WithBits(BitSet(x.data) \cup BitSet(y.data))}
  ELSE {}
\* __rt_add is the one handler without a final else: c.type stays unset.
AddResults(x, y) ==
  IF Numbers(x, y) THEN {NumberV(Wrap(x.data + y.data))}
  ELSE IF "STRING" \in {x.type, y.type} THEN {}
  ELSE Uninitialized
SubResults(x, y) ==
  IF Numbers(x, y) THEN {NumberV(Wrap(x.data - y.data))} ELSE {}
MulResults(x, y) ==
  IF Numbers(x, y) THEN {NumberV(Wrap(x.data * y.data))} ELSE {}
DivResults(x, y) ==
  IF Numbers(x, y) /\ ~DivideTraps(x.data, y.data)
  THEN {NumberV(Quotient(x.data, y.data))} ELSE {}
ModResults(x, y) ==
  IF Numbers(x, y) /\ ~DivideTraps(x.data, y.data)
  THEN {NumberV(Remainder(x.data, y.data))} ELSE {}

BinaryOps == {"eq", "lt", "gt", "and", "or", "add", "sub", "mul", "div", "mod"}

Results(op, x, y) ==
  CASE op = "eq"  -> EqResults(x, y)
    [] op = "lt"  -> LtResults(x, y)
    [] op = "gt"  -> GtResults(x, y)
    [] op = "and" -> AndResults(x, y)
    [] op = "or"  -> OrResults(x, y)
    [] op = "add" -> AddResults(x, y)
    [] op = "sub" -> SubResults(x, y)
    [] op = "mul" -> MulResults(x, y)
    [] op = "div" -> DivResults(x, y)
    [] op = "mod" -> ModResults(x, y)

\* strcmp on an uninitialized pointer.
ReadsWild(op, x, y) ==
  /\ op = "eq" /\ x.type = y.type
  /\ x.type \in {"STRING", "REFERENCE"} /\ Wild \in {x.data, y.data}
=============================================================================
