------------------------------ MODULE MCServed ------------------------------
EXTENDS Served

\* The numbers stand for others: MaxU64 for 2^64 - 1, a body limit of 3 for
\* VERIFY_LIMIT, a difficulty of 2 for the default 50000.
MCDefaults ==
  [enabled |-> 0, decision |-> Unset, page_path |-> Blank, difficulty |-> 2,
   ipv4_prefix |-> 32, ipv6_prefix |-> 128, policy |-> "default", hmac_key_file |-> Blank,
   clearance_ttl |-> 43200, endpoint |-> "/.pow/", replay |-> 1, replay_max_body |-> 1,
   cookie_name |-> "pow_clearance", cookie_scope_suffix |-> 1, cookie_domain |-> Blank,
   cookie_path |-> "/", cookie_samesite |-> "Lax", cookie_secure |-> 1, cookie_httponly |-> 1]

MCValues ==
  [enabled |-> {0, 1}, decision |-> {"map"}, page_path |-> {"unreadable"}, difficulty |-> {0, 3},
   ipv4_prefix |-> {0, 24}, ipv6_prefix |-> {129}, policy |-> {"other"},
   hmac_key_file |-> {"k1", "k2"},
   clearance_ttl |-> {0}, endpoint |-> {Blank}, replay |-> {0, 1}, replay_max_body |-> {3},
   cookie_name |-> {"c"}, cookie_scope_suffix |-> {0},
   cookie_domain |-> {Blank, [dot |-> TRUE, host |-> "a"], [dot |-> FALSE, host |-> "a"]},
   cookie_path |-> {"/p"}, cookie_samesite |-> {"None"}, cookie_secure |-> {0, 1},
   cookie_httponly |-> {0}]

\* A gate that is on for the server.
MCGiven ==
  {[Nothing EXCEPT !["http"]["hmac_key_file"] = "k1", !["server"]["enabled"] = 1]}

MCTexts ==
  {Silent} \union
  {[form |-> f, n |-> 0] : f \in {"allow", "deny", "verify", "js", "nojs", "unknown"}} \union
  {[form |-> "number", n |-> i] : i \in {0, 3, 65}} \union
  {[form |-> "nojs_delay", n |-> i] : i \in {0, 31, 33}}

=============================================================================
