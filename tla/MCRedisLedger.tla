--------------------------- MODULE MCRedisLedger ---------------------------
(***************************************************************************)
(* Small clusters: two jobs race for the same token or for two tokens,     *)
(* Redis's clock crosses their validity in both directions.                *)
(***************************************************************************)
EXTENDS RedisLedger, TLC

Symmetry == Permutations(Jobs) \union Permutations(Tokens) \union Permutations(Nodes)
=============================================================================
