------------------------------- MODULE OneUse -------------------------------
(***************************************************************************)
(* What a redemption store promises, whichever store it is: the shared     *)
(* memory zone of one nginx host (module SharedZone) or the Redis primary  *)
(* of a cluster (module RedisLedger).                                      *)
(*                                                                         *)
(* A challenge token is redeemed at most once, and a token that the store  *)
(* has once seen as expired stays closed: no later clock reading, reload,  *)
(* restart or epoch rotation opens it again.                               *)
(***************************************************************************)
EXTENDS Naturals

CONSTANTS Tokens        \* authenticated challenge tokens and no-JS grants

VARIABLES
  uses,                 \* uses[t]: how often token t was redeemed
  closed                \* tokens that can no longer be redeemed

vars == <<uses, closed>>

TypeOK ==
  /\ uses \in [Tokens -> Nat]
  /\ closed \in SUBSET Tokens

Init ==
  /\ uses = [t \in Tokens |-> 0]
  /\ closed = {}

\* Tokens expire, or the store that issued them is retired.
Close ==
  /\ closed \subseteq closed'
  /\ UNCHANGED uses

\* The store accepts token t.
Redeem(t) ==
  /\ uses[t] = 0
  /\ t \notin closed'
  /\ closed \subseteq closed'
  /\ uses' = [uses EXCEPT ![t] = 1]

Next ==
  \/ Close
  \/ \E t \in Tokens : Redeem(t)

Spec == Init /\ [][Next]_vars
=============================================================================
