------------------------------ MODULE MCArrays ------------------------------
(***************************************************************************)
(* Arrays of few nodes, over an arena whose first block is full once the   *)
(* code has grown once, and bitsets of few words.                          *)
(***************************************************************************)
EXTENDS Bitset

MCBodies == {<<1>>, <<1, 2>>}
=============================================================================
