------------------------------ MODULE SetSpec ------------------------------
(***************************************************************************)
(* What a user of Bitset relies on: a finite set of naturals.  `call' is   *)
(* the last call that returned, with its answer.                           *)
(***************************************************************************)
EXTENDS Integers, FiniteSets

CONSTANT Bits

VARIABLES set, call

Said(op, n, answer) ==
  call' = [op |-> op, index |-> n, value |-> 0, answer |-> answer]

Init == set = {} /\ call = [op |-> "none"]

Set(n) == set' = set \cup {n} /\ Said("set", n, <<>>)
Clear(n) == set' = set \ {n} /\ Said("clear", n, <<>>)
Toggle(n) ==
  set' = (IF n \in set THEN set \ {n} ELSE set \cup {n}) /\ Said("toggle", n, <<>>)
Get(n) == UNCHANGED set /\ Said("get", n, IF n \in set THEN <<1>> ELSE <<0>>)

\* The answers are the first from n on; next_set has one only if there is one.
NextSet(n) ==
  /\ UNCHANGED set
  /\ \E b \in set : n <= b /\ (n .. b - 1) \cap set = {} /\ Said("next_set", n, <<b>>)
NextClear(n) ==
  /\ UNCHANGED set
  /\ \E b \in n .. n + Cardinality(set) :
       b \notin set /\ n .. b - 1 \subseteq set /\ Said("next_clear", n, <<b>>)

BitsSet == UNCHANGED set /\ Said("bits_set", 0, <<Cardinality(set)>>)

Next ==
  \/ \E n \in Bits :
       Set(n) \/ Clear(n) \/ Toggle(n) \/ Get(n) \/ NextSet(n) \/ NextClear(n)
  \/ BitsSet
=============================================================================
