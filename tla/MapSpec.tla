------------------------------ MODULE MapSpec ------------------------------
(***************************************************************************)
(* What a user of Hash_Table<K, V> relies on: a finite map that answers    *)
(* from what was put last.  `call' is the last call, `ret' its answer.     *)
(***************************************************************************)
CONSTANTS Keys, Vals, ZeroVal

VARIABLES map, call, ret

Calls(op, k, v) == call' = [op |-> op, key |-> k, value |-> v]
Says(b) == ret' = [yes |-> b, value |-> ZeroVal]
Gives(b, v) == ret' = [yes |-> b, value |-> v]
Has(k) == k \in DOMAIN map
With(k, v) == [j \in DOMAIN map \cup {k} |-> IF j = k THEN v ELSE map[j]]

Init ==
  /\ map = << >>
  /\ call = [op |-> "none", key |-> ZeroVal, value |-> ZeroVal]
  /\ ret = [yes |-> FALSE, value |-> ZeroVal]

Put(k, v) ==
  /\ Calls("put", k, v) /\ Says(FALSE)
  /\ map' = With(k, v)

PutIfContains(k, v) ==
  /\ Calls("put_if_contains", k, v) /\ Says(Has(k))
  /\ map' = IF Has(k) THEN With(k, v) ELSE map

GetOrElse(k, v) ==
  /\ Calls("get_or_else", k, v) /\ Gives(FALSE, IF Has(k) THEN map[k] ELSE v)
  /\ UNCHANGED map

Get(k) ==
  /\ Calls("get", k, ZeroVal)
  /\ Gives(FALSE, IF Has(k) THEN map[k] ELSE ZeroVal)
  /\ UNCHANGED map

GetPtr(k) ==
  /\ Calls("get_ptr", k, ZeroVal)
  /\ Gives(Has(k), IF Has(k) THEN map[k] ELSE ZeroVal)
  /\ UNCHANGED map

ContainsKey(k) ==
  Calls("contains_key", k, ZeroVal) /\ Says(Has(k)) /\ UNCHANGED map

Next ==
  \E k \in Keys :
    \/ \E v \in Vals : Put(k, v) \/ PutIfContains(k, v) \/ GetOrElse(k, v)
    \/ Get(k) \/ GetPtr(k) \/ ContainsKey(k)

Spec == Init /\ [][Next]_<<map, call, ret>>
=============================================================================
