------------------------------ MODULE Verifier ------------------------------
(***************************************************************************)
(* The verifiers of a worker: address ranges, the feeds that fill them,    *)
(* and the reverse DNS verdicts that are asked for when no range confirms  *)
(* a client.                                                               *)
(*                                                                         *)
(* The three parts share no variable: a feed is parsed into a range set of *)
(* its own, and verifier_result uses the verdict of fcrdns_cached without  *)
(* changing anything for it.  Every property is about one part, so it is   *)
(* enough to let one part move while the others rest in their initial      *)
(* state; interleaving them would only multiply the states.                *)
(***************************************************************************)
EXTENDS VerdictCache, Feeds

verifierVars == <<vars, rangesVars, feedsVars>>

VerifierInit == Init /\ RangesInit /\ FeedsInit

VerifierNext ==
  \/ RangesInit /\ FeedsInit /\ Next /\ UNCHANGED <<rangesVars, feedsVars>>
  \/ Init /\ FeedsInit /\ RangesNext /\ UNCHANGED <<vars, feedsVars>>
  \/ Init /\ RangesInit /\ FeedsNext /\ UNCHANGED <<vars, rangesVars>>

VerifierSpec == VerifierInit /\ [][VerifierNext]_verifierVars /\ Fairness

=============================================================================
