---------------------------- MODULE MCSharedZone ----------------------------
(***************************************************************************)
(* A small zone: two workers, tokens that collide on their first slot and  *)
(* wrap around the table, and a wall clock that crosses their validity.    *)
(***************************************************************************)
EXTENDS SharedZone, TLC

CONSTANTS w1, w2

\* Every token hashes to the last slot: the second wraps around to slot 0.
MCStart == [t \in Tokens |-> Capacity - 1]

Symmetry == Permutations({w1, w2}) \union Permutations(Tokens)
=============================================================================
