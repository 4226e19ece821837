----------------------------- MODULE MCVerifier -----------------------------
\* Three clients for the verdict cache; eight IPv4 and two IPv6 addresses for
\* the ranges, with documents whose prefixes nest, touch, repeat or are
\* invalid; and configurations that are accepted, refused, or name a verifier
\* twice.
EXTENDS Verifier

CONSTANTS i1, i2, i3, t1, t2

\* A name with the suffix, one that only looks like it, and no name.
MCSuffixes == {<<"googlebot", "com">>}
MCHosts == {<<"crawl", "googlebot", "com">>, <<"notgooglebot", "com">>, <<>>}

MCFamilies == {"v4", "v6"}
MCWidth == [f \in MCFamilies |-> IF f = "v4" THEN 3 ELSE 1]

Host(a) == [addr |-> a, bits |-> 3]
Entries ==
  {[v4 |-> c, v6 |-> NoPrefix] :
     c \in {Host(2), Host(3), Host(7), [addr |-> 5, bits |-> 2], [addr |-> 3, bits |-> 1],
            [addr |-> 6, bits |-> 4]}}
  \union {[v4 |-> Host(5), v6 |-> [addr |-> 0, bits |-> 0]],
          [v4 |-> NoPrefix, v6 |-> [addr |-> 1, bits |-> 1]],
          [v4 |-> NoPrefix, v6 |-> NoPrefix]}
MCFeedDocs == UNION {[1 .. n -> Entries] : n \in 0 .. 2}

\* Two good documents, one with a bad entry behind a good one, one that is too
\* long, and none.
Listing(v4, v6) == [v4 |-> v4, v6 |-> v6]
V6Host == [addr |-> 1, bits |-> 1]
MCDocuments ==
  {<<>>, <<Listing(Host(2), NoPrefix)>>, <<Listing(Host(5), NoPrefix), Listing(NoPrefix, V6Host)>>,
   <<Listing(NoPrefix, V6Host), Listing([addr |-> 6, bits |-> 4], NoPrefix)>>,
   [i \in 1 .. 3 |-> Listing(Host(2), V6Host)]}

Block(name, urls, refresh, max_stale) ==
  [name |-> name, urls |-> urls, refresh |-> refresh, max_stale |-> max_stale]
MCConfigs ==
  {<<Block("a", 2, Unset, Unset)>>,
   <<Block("a", 1, 1, Unset), Block("b", 0, 3, 2)>>,
   <<Block("a", 2, 1, 1), Block("a", 1, 2, 3)>>}
MCClients == {[family |-> "v4", address |-> 2], [family |-> "v6", address |-> 1]}

=============================================================================
