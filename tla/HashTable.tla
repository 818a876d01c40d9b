----------------------------- MODULE HashTable -----------------------------
(***************************************************************************)
(* One Hash_Table<K, V> of src/src/hash_table.h and its callers: every     *)
(* sequence of calls on a table that starts empty.  The operations are     *)
(* those of TableOps; here they are actions, which record the call and its  *)
(* answer.                                                                 *)
(*                                                                         *)
(* remove has no caller in src/src, only in the tests.  So a table has one *)
(* of two users: the program, which puts and looks up, and a test, which   *)
(* makes every change a table may undergo; its lookups are left out,       *)
(* because they change nothing.                                            *)
(***************************************************************************)
EXTENDS TableOps

CONSTANTS
  Keys, Vals,  \* what the program puts
  TestKeys,    \* what a test puts and removes
  TestVals,
  MaxSize      \* bound on the size of the table, not in the code

\* Keys are unsigned integers, or names, which eq_fn compares by contents.
ASSUME KeysAssumption ==
  /\ \A k \in Keys \cup TestKeys : Hash(k) \in Nat
  /\ \A j, k \in Keys \cup TestKeys : Eq(j, k) <=> j = k

VARIABLES
  table,
  call,        \* the last call
  ret,         \* and its answer
  user         \* "program" or "test"

tableVars == <<table, call, ret, user>>

KeysOf(u) == IF u = "program" THEN Keys ELSE TestKeys
ValsOf(u) == IF u = "program" THEN Vals ELSE TestVals

Calls(op, k, v) == call' = [op |-> op, key |-> k, value |-> v]
Says(b) == ret' = [yes |-> b, value |-> ZeroValue]
Gives(b, v) == ret' = [yes |-> b, value |-> v]

Init ==
  /\ user \in {"program", "test"}
  /\ table = NewTable
  /\ call = [op |-> "none", key |-> ZeroValue, value |-> ZeroValue]
  /\ ret = [yes |-> FALSE, value |-> ZeroValue]

DoPut(k, v) ==
  /\ Put(table, k, v).size <= MaxSize
  /\ Calls("put", k, v) /\ Says(FALSE)
  /\ table' = Put(table, k, v)

DoPutIfContains(k, v) ==
  /\ PutIfContains(table, k, v).size <= MaxSize
  /\ Calls("put_if_contains", k, v) /\ Says(PutIfContainsHit(table, k))
  /\ table' = PutIfContains(table, k, v)

\* A lookup that meets neither its key nor an EMPTY slot does not return.
Lookup(k) == ~Loops(table, k) /\ UNCHANGED table
ValueOr(k, v) == IF Found(table, k) THEN ValueAt(table, k) ELSE v

DoGetOrElse(k, v) ==
  Lookup(k) /\ Calls("get_or_else", k, v) /\ Gives(FALSE, ValueOr(k, v))

DoGet(k) ==
  Lookup(k) /\ Calls("get", k, ZeroValue) /\ Gives(FALSE, ValueOr(k, ZeroValue))

DoGetPtr(k) ==
  /\ Lookup(k) /\ Calls("get_ptr", k, ZeroValue)
  /\ Gives(Found(table, k), ValueOr(k, ZeroValue))

DoContainsKey(k) ==
  Lookup(k) /\ Calls("contains_key", k, ZeroValue) /\ Says(Found(table, k))

DoRemove(k) ==
  /\ ~Loops(table, k)
  /\ Calls("remove", k, ZeroValue) /\ Says(Found(table, k))
  /\ table' = Remove(table, k)

Change(k) == \E v \in ValsOf(user) : DoPut(k, v) \/ DoPutIfContains(k, v)

Ask(k) ==
  \/ \E v \in ValsOf(user) : DoGetOrElse(k, v)
  \/ DoGet(k) \/ DoGetPtr(k) \/ DoContainsKey(k)

Next ==
  /\ \E k \in KeysOf(user) :
       \/ Change(k)
       \/ user = "program" /\ Ask(k)
       \/ user = "test" /\ DoRemove(k)
  /\ UNCHANGED user

Spec == Init /\ [][Next]_tableVars

-----------------------------------------------------------------------------
(* Properties.                                                             *)

\* Used without remove, the table is a map: every answer of put_if_contains,
\* get, get_or_else, get_ptr and contains_key is the answer of the map that
\* the puts so far make up, across collisions and growing.
Contents ==
  [k \in {j \in KeysOf(user) : Found(table, j)} |-> ValueAt(table, k)]
Map == INSTANCE MapSpec WITH map <- Contents, ZeroVal <- ZeroValue
IsMap == Map!Init /\ [][user = "program" => Map!Next]_<<Contents, call, ret>>

\* Used without remove, every lookup comes to an end: a key that is not there
\* is looked for until an EMPTY slot is met, and growing at size - 2 keeps one.
LookupsReturn ==
  \/ user = "test" \/ IsVoid(table)
  \/ \E i \in Slots(table) : table.hashes[i] = EMPTY

\* Every entry can be reached by a lookup that starts where its hash says:
\* no EMPTY slot lies between the two.  Tombstones are what keeps this true
\* when remove takes an entry away.
Home(i) == table.hashes[i] % table.size
EntriesReachable ==
  \A i \in OccupiedSlots(table) :
    \A d \in 0 .. (i - Home(i) + table.size) % table.size :
      table.hashes[(Home(i) + d) % table.size] # EMPTY

\* count, on which growing and the early returns of the lookups depend, is
\* the number of occupied slots, however entries were put, overwritten,
\* moved by growing, or removed.
CountExact == table.count = Cardinality(OccupiedSlots(table))

\* Only remove, called with that key, makes a key disappear: not the removal
\* of an entry it had to step over, and not growing.
NoKeyLost ==
  [][\A k \in KeysOf(user) :
       Found(table, k) /\ ~DoRemove(k) => Found(table', k)]_tableVars

\* hash_table_tests.cpp:83-89: after x.remove(7), x.contains_key(7) is false.
RemovedIsGone ==
  [][\A k \in KeysOf(user) : DoRemove(k) => ~Found(table', k)]_tableVars
=============================================================================
