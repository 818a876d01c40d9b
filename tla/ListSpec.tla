------------------------------ MODULE ListSpec ------------------------------
(***************************************************************************)
(* What a user of Array<T> relies on: a list that does as it is told, and  *)
(* answers from what it holds.  `other' is the array whose nodes are put    *)
(* into the list; `call' is the last call on either, with its answer.      *)
(* Places count from 0.                                                    *)
(***************************************************************************)
EXTENDS Integers, SequencesExt

CONSTANT Vals

VARIABLES list, other, call

Said(op, index, value, answer) ==
  call' = [op |-> op, index |-> index, value |-> value, answer |-> answer]
Does(op, index, value) == Said(op, index, value, <<>>)
Truth(b) == IF b THEN <<1>> ELSE <<0>>
Places == 0 .. Len(list)

Init == list = <<>> /\ other = <<>> /\ call = [op |-> "none"]

Push(v) ==
  \/ list' = Append(list, v) /\ UNCHANGED other /\ Does("push", 0, v)
  \/ list' = Append(list, v) /\ UNCHANGED other /\ Does("push_ref", 0, v)

Pop ==
  /\ list # <<>>
  /\ list' = Front(list) /\ UNCHANGED other
  /\ Said("pop", 0, 0, <<Last(list)>>) \/ Does("drop", 0, 0)

Clear == list' = <<>> /\ UNCHANGED other /\ Does("clear", 0, 0)

Insert(i, v) ==
  /\ i < Len(list) /\ UNCHANGED other
  /\ \/ list' = InsertAt(list, i + 1, v) /\ Does("insert_before", i, v)
     \/ list' = InsertAt(list, i + 2, v) /\ Does("insert_after", i, v)

Spliced(i) == SubSeq(list, 1, i) \o other \o SubSeq(list, i + 1, Len(list))

\* There is no place to extend after in an empty list, or at its end.
Extend(i) ==
  /\ UNCHANGED other
  /\ \/ list' = Spliced(i) /\ Does("extend_before", i, 0)
     \/ i < Len(list) /\ list' = Spliced(i + 1) /\ Does("extend_after", i, 0)
     \/ other = <<>> /\ UNCHANGED list /\ Does("extend_after", i, 0)

\* The last takes the place of the one that is removed, or all move down.
RemoveIt(i) ==
  /\ UNCHANGED other
  /\ \/ /\ Said("unordered_remove", i, 0, Truth(i < Len(list)))
        /\ list' = IF i < Len(list)
                   THEN Front([list EXCEPT ![i + 1] = Last(list)]) ELSE list
     \/ /\ Said("ordered_remove", i, 0, Truth(i < Len(list)))
        /\ list' = IF i < Len(list) THEN RemoveAt(list, i + 1) ELSE list

Is(i, v) == i < Len(list) /\ list[i + 1] = v
IndexOf(v) ==
  /\ UNCHANGED <<list, other>>
  /\ \E i \in Places \cup {-1} :
       /\ Said("index_of", 0, v, <<i>>)
       /\ \A j \in Places : Is(j, v) => i # -1 /\ i <= j
       /\ i # -1 => Is(i, v)

\* What the other array is for: to be filled, and given up.
Fill(v) == UNCHANGED list /\ other' = Append(other, v) /\ Does("fill", 0, v)
Renew == UNCHANGED list /\ other' = <<>> /\ Does("renew", 0, 0)

Next ==
  \/ \E v \in Vals : Push(v) \/ Fill(v) \/ IndexOf(v)
  \/ Pop \/ Clear \/ Renew
  \/ \E i \in Places : Extend(i) \/ RemoveIt(i) \/ \E v \in Vals : Insert(i, v)
=============================================================================
