------------------------------- MODULE MCGate -------------------------------
\* Locations that share clients: a weak and a strong proof of work, a short
\* and a long no-JS wait, short and long lifetimes, a required proof, no key.
EXTENDS Gate, TLC

CONSTANTS c1, c2, k1, k2, h1, i1, i2

Location(kind, level, ttl, proof) ==
  [enabled |-> TRUE, decision |-> "challenge", kind |-> kind, level |-> level,
   key |-> h1, ttl |-> ttl, proof |-> proof, skew |-> 0]

Locations ==
  {[Location("pow", 1, 1, FALSE) EXCEPT !.decision = "verify"],
   Location("pow", 2, 2, TRUE),
   Location("nojs", 1, 2, TRUE), Location("nojs", 2, 1, FALSE),
   [Location("pow", 1, 2, FALSE) EXCEPT !.key = NoHmac]}

Symmetry == Permutations(Clients) \union Permutations(Keys) \union Permutations(Issuers)

=============================================================================
