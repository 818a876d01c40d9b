---------------------------- MODULE MCHashTable ----------------------------
(***************************************************************************)
(* A table of four slots that may grow once, with keys that collide: 0 and *)
(* 2 have the same hash (hashes below 2 are moved up by 2), and 6 shares a *)
(* slot with them at one size and not at the other.                        *)
(***************************************************************************)
EXTENDS HashTable

MCHash(k) == k
MCEq(j, k) == j = k
=============================================================================
