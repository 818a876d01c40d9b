----------------------------- MODULE MCRuntime -----------------------------
(***************************************************************************)
(* Instances of Runtime for TLC.  Each specification below lets programs   *)
(* use a part of the instruction set, so that the bounds can be spent on   *)
(* the interactions that part has.                                         *)
(***************************************************************************)
EXTENDS Runtime, FiniteSetsExt

CONSTANTS
  nameX,     \* a string
  MaxProps   \* bound on the properties of all objects together

\* hash_u64 maps 0 to 0.  On the small instances it is the identity, so that
\* an object's address and a number can meet in a slot; nameX lands in slot
\* 0, the first that mark looks at.
MCHashU64(n) == IF n < 0 THEN 3 - n ELSE n
MCHashString(s) == 8

RefX == Plain("REFERENCE", nameX)

-----------------------------------------------------------------------------
(* Objects without properties, on the stack and in a variable.             *)

HeapConstants == {RefX}

FlatNext ==
  \/ StackOps \/ VariableOps \/ EndOfMain
  \/ Binary("eq") \/ \E a \in Addr : NewObj(a)

FlatSpec == Init /\ [][FlatNext]_vars

-----------------------------------------------------------------------------
(* Objects with properties.                                                *)

Props(cs) ==
  MapThenSumSet(LAMBDA x : IF cs[x] = Freed THEN 0 ELSE cs[x].table.count, Addr)

PropsNext ==
  \/ (\E v \in Constants : PushConstant(v)) \/ Dup \/ Swap
  \/ (\E a \in Addr : NewObj(a)) \/ GetProp
  \/ SetProp /\ Props(cells') <= MaxProps
  \/ VariableOps \/ EndOfMain

PropsSpec == Init /\ [][PropsNext]_vars

\* All of it, with fewer properties when there are more objects: enough for
\* three objects, for two that are each other's properties, and for an object
\* with two properties.
HeapNext ==
  /\ PropsNext \/ Drop
  /\ \/ Cardinality(Live') + Props(cells') <= 3
     \/ \A x \in Live' : x < 3 /\ cells'[x].next < 3 /\ cells'[x].table.count = 1

HeapSpec == Init /\ [][HeapNext]_vars

-----------------------------------------------------------------------------
(* Operators on every kind of value, and lambdas, natives, conditionals    *)
(* and loops.                                                              *)

OpsConstants ==
  {NumberV(n) : n \in Ints} \cup {BoolV(TRUE), BoolV(FALSE), LambdaV}
    \cup {RefX, Plain("STRING", nameX)}

OpsNext ==
  \/ StackOps \/ OperatorOps \/ Load \/ CallOps
  \/ \E a \in Addr : NewObj(a)

OpsSpec == Init /\ [][OpsNext]_vars
=============================================================================
