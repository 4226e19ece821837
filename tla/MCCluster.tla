----------------------------- MODULE MCCluster -----------------------------
(***************************************************************************)
(* One slot and a queue of two or fewer: four requests reach every limit,  *)
(* and a queue in which the first connects fail and the next succeeds.     *)
(***************************************************************************)
EXTENDS Cluster, TLC

Symmetry == Permutations(Requests)
=============================================================================
