---------------------------- MODULE Configuration ----------------------------
(***************************************************************************)
(* How a location gets its settings: directives are written at http,       *)
(* server and location level, nginx merges them downwards and the module   *)
(* validates the result, and each worker resolves a location on its first  *)
(* request, which is when it reads the HMAC key file.                      *)
(*                                                                         *)
(* One http block, one server and its locations.  A setting is a name with *)
(* a value; all settings are merged by one rule, in which a number is      *)
(* unset by NGX_CONF_UNSET and a string by being empty; trusted,           *)
(* proof_skew and require_proof are merged by it too and left out, and so  *)
(* is nojs_page_path, which is to page_path what ipv6_prefix is to         *)
(* ipv4_prefix.  A key is the contents of its file; Weak stands for every  *)
(* file that is missing, unreadable or shorter than MIN_HMAC_KEY_LEN.      *)
(***************************************************************************)
EXTENDS Integers, FiniteSets

CONSTANTS
  Locations,
  Values,         \* the values a directive may write, for each setting
  Defaults,       \* the default of each setting
  Unset, Blank,   \* NGX_CONF_UNSET, the empty string
  Given,          \* what the configuration says before further directives
  MaxDirectives,  \* bound on those
  Contents,       \* what a key file may hold
  Weak,
  Unresolved      \* a OnceLock that is empty

Settings == DOMAIN Defaults
Blocks == {"http", "server"} \union Locations

\* The LocationConf of every block, as the slot setters leave it.
Parsed(w) ==
  /\ DOMAIN w = Blocks
  /\ \A b \in Blocks : DOMAIN w[b] = Settings /\ \A n \in Settings : w[b][n] \in Values[n] \union {Unset}

ASSUME ConfigurationAssumption ==
  /\ DOMAIN Values = Settings /\ MaxDirectives \in Nat
  /\ {"enabled", "decision", "page_path", "difficulty", "ipv4_prefix", "ipv6_prefix", "policy",
      "hmac_key_file", "clearance_ttl", "endpoint", "replay", "replay_max_body", "cookie_name",
      "cookie_scope_suffix", "cookie_domain", "cookie_path", "cookie_samesite", "cookie_secure",
      "cookie_httponly"} = Settings
  /\ Defaults["hmac_key_file"] = Blank
  /\ Values["difficulty"] \union {Defaults["difficulty"]} \subseteq Nat
  /\ Values["clearance_ttl"] \union {Defaults["clearance_ttl"]} \subseteq Int
  /\ Weak \in Contents /\ Unresolved \notin Contents
  /\ \A w \in Given : Parsed(w)

VARIABLES
  stage,          \* "parsing", "running" or "refused"
  written,        \* the LocationConf of each block as parsed
  directives,     \* how many were added to it
  conf,           \* the LocationConf of each location after the merge
  keys,           \* KEYS, the worker's cache of the files
  resolved        \* the Cfg of each location in the worker

configVars == <<stage, written, directives, conf, keys, resolved>>

Paths == Values["hmac_key_file"] \union {Blank}

-----------------------------------------------------------------------------

\* The contexts of the command table: pow_gate_decision is not for http.
AllowedIn(block, n) == block = "http" => n # "decision"

\* A slot setter of the command table; nginx refuses a directive out of its
\* context, and the setter a second write ("is duplicate").
Directive(block, n, v) ==
  /\ stage = "parsing" /\ directives < MaxDirectives
  /\ directives' = directives + 1
  /\ IF AllowedIn(block, n) /\ written[block][n] = Unset
     THEN written' = [written EXCEPT ![block][n] = v] /\ UNCHANGED stage
     ELSE stage' = "refused" /\ UNCHANGED written
  /\ UNCHANGED <<conf, keys, resolved>>

IsSet(v) == v \notin {Unset, Blank}

\* Faulty variant: an explicit 0 counts as unset.
MergedTruthy(child, prev) ==
  [n \in Settings |-> IF IsSet(child[n]) /\ (n \in {"enabled", "replay"} => child[n] # 0) THEN child[n]
                      ELSE IF IsSet(prev[n]) THEN prev[n] ELSE Defaults[n]]

\* merge_flag, merge_uint, merge_str and the others: set here, else
\* inherited, else the default.
Merged(child, prev) ==
  [n \in Settings |-> IF IsSet(child[n]) THEN child[n]
                      ELSE IF IsSet(prev[n]) THEN prev[n] ELSE Defaults[n]]

\* merge_location_conf returns an error; usable are the key files that it can
\* read and that are long enough.
Refuses(c, usable) ==
  \/ c["ipv4_prefix"] \notin 1 .. 32 \/ c["ipv6_prefix"] \notin 1 .. 128
  \/ /\ c["enabled"] # 0
     /\ \/ c["difficulty"] = 0 \/ c["clearance_ttl"] <= 0
        \/ c["hmac_key_file"] \notin usable
        \/ c["page_path"] = "unreadable"

Server == Merged(written["server"], written["http"])

\* The end of the http block: the server is merged with it, then every
\* location with the merged server.  Any error refuses the configuration.
Configure(usable) ==
  LET merged == [l \in Locations |-> Merged(written[l], Server)]
  IN /\ stage = "parsing"
     /\ IF Refuses(Server, usable) \/ \E l \in Locations : Refuses(merged[l], usable)
        THEN stage' = "refused" /\ UNCHANGED conf
        ELSE stage' = "running" /\ conf' = merged
     /\ UNCHANGED <<written, directives, keys, resolved>>

\* Faulty variant: the file is read for every location.
LoadKeyAgain(path, found) == found

\* load_key: a path is read once per worker, and a failure is remembered too.
LoadKey(path, found) == IF keys[path] # Unresolved THEN keys[path] ELSE found

\* Faulty variant: the name covers the domain as it is spelled.
EffectiveNameSpelled(c) ==
  <<c["cookie_name"], c["cookie_domain"], c["cookie_samesite"], c["cookie_secure"]>>

\* scoped_name over what defines the scope of the cookie, normalised, or the
\* bare name.
EffectiveName(c) ==
  IF c["cookie_scope_suffix"] = 0 THEN <<c["cookie_name"]>>
  ELSE <<c["cookie_name"],
         IF c["cookie_domain"] = Blank THEN Blank ELSE c["cookie_domain"].host,
         c["cookie_samesite"],
         c["cookie_secure"] # 0 \/ c["cookie_samesite"] = "None",
         c["cookie_path"], c["cookie_httponly"] # 0, c["endpoint"], c["policy"],
         c["ipv4_prefix"], c["ipv6_prefix"]>>

\* build_cfg
BuildCfg(c, key) ==
  [key |-> key, key_ok |-> key # Weak, difficulty |-> c["difficulty"],
   replay |-> c["replay"] # 0, replay_max_body |-> c["replay_max_body"],
   mapped |-> c["decision"] # Unset,
   name |-> EffectiveName(c), domain |-> c["cookie_domain"], path |-> c["cookie_path"],
   http_only |-> c["cookie_httponly"] # 0, samesite |-> c["cookie_samesite"], secure |-> c["cookie_secure"] # 0]

\* resolve, on the first request of a location where the gate is on.  What the
\* worker finds in the file may differ from what the master validated and from
\* what it would have found earlier; it is Weak if the worker's user cannot
\* read the file.
Resolve(l, found) ==
  LET path == conf[l]["hmac_key_file"]
      key == LoadKey(path, IF path = Blank THEN Weak ELSE found)
  IN /\ stage = "running" /\ conf[l]["enabled"] # 0 /\ resolved[l] = Unresolved
     /\ keys' = [keys EXCEPT ![path] = key]
     /\ resolved' = [resolved EXCEPT ![l] = BuildCfg(conf[l], key)]
     /\ UNCHANGED <<stage, written, directives, conf>>

Undecided == [l \in Locations |-> Unresolved]
Nothing == [b \in Blocks |-> [n \in Settings |-> Unset]]

ConfigInit ==
  /\ stage = "parsing"
  /\ written \in Given
  /\ directives = 0
  /\ conf = Undecided
  /\ keys = [p \in Paths |-> Unresolved]
  /\ resolved = Undecided

ConfigNext ==
  \/ \E block \in Blocks, n \in Settings : \E v \in Values[n] : Directive(block, n, v)
  \/ \E usable \in SUBSET Values["hmac_key_file"] : Configure(usable)
  \/ \E l \in Locations, found \in Contents : Resolve(l, found)

-----------------------------------------------------------------------------

\* Reference: the value of a setting is written in the nearest block around
\* the location that says something about it.
Nearest(l, n) ==
  LET around == <<l, "server", "http">>
      saying == {i \in DOMAIN around : IsSet(written[around[i]][n])}
  IN IF saying = {} THEN Defaults[n]
     ELSE written[around[CHOOSE i \in saying : \A j \in saying : i <= j]][n]

\* A configuration that starts means what it says: each location has the
\* settings of the nearest block around it, `pow_gate off' included, and no
\* enabled location runs with a difficulty or lifetime of 0 or without prefix.
MeansWhatItSays ==
  stage = "running" => \A l \in Locations :
    /\ \A n \in Settings : conf[l][n] = Nearest(l, n)
    /\ Nearest(l, "ipv4_prefix") \in 1 .. 32 /\ Nearest(l, "ipv6_prefix") \in 1 .. 128
    /\ Nearest(l, "enabled") # 0 => Nearest(l, "difficulty") > 0 /\ Nearest(l, "clearance_ttl") > 0

\* Locations of a worker that name the same key file use the same key, so that
\* each accepts what the other issued, although the file is read when each of
\* them is first used and may change, vanish or become unreadable in between;
\* a location whose file was unusable at that moment fails closed.
OneKeyPerFile ==
  \A l, m \in Locations :
    resolved[l] # Unresolved /\ resolved[m] # Unresolved
      /\ Nearest(l, "hmac_key_file") = Nearest(m, "hmac_key_file")
    => resolved[l].key = resolved[m].key /\ (resolved[l].key_ok <=> resolved[l].key # Weak)

\* What a browser sees of the Set-Cookie of build_set_cookie: a leading dot of
\* the domain says nothing, and SameSite=None makes the cookie Secure.
Seen(c) ==
  <<IF c.domain = Blank THEN Blank ELSE c.domain.host, c.path, c.http_only,
    c.samesite, c.secure \/ c.samesite = "None">>

\* Two locations that scope their cookie names share a name only if browsers
\* treat their cookies alike, so that neither cookie hides the other; and they
\* do share it when they differ only in spelling.
SameNameSameCookie ==
  \A l, m \in Locations :
    /\ resolved[l] # Unresolved /\ resolved[m] # Unresolved
    /\ Nearest(l, "cookie_scope_suffix") # 0 /\ Nearest(m, "cookie_scope_suffix") # 0
    => /\ resolved[l].name = resolved[m].name => Seen(resolved[l]) = Seen(resolved[m])
       /\ /\ Seen(resolved[l]) = Seen(resolved[m])
          /\ \A n \in {"cookie_name", "endpoint", "policy", "ipv4_prefix", "ipv6_prefix"} : Nearest(l, n) = Nearest(m, n)
          => resolved[l].name = resolved[m].name

-----------------------------------------------------------------------------

\* What these rest on: what runs is the merge of what was written, and what a
\* worker resolved was built from it with the key it keeps for the file.
ConfigInv ==
  /\ Parsed(written) /\ DOMAIN keys = Paths /\ DOMAIN resolved = Locations
  /\ stage = "running" => \A l \in Locations :
       /\ conf[l] = Merged(written[l], Server)
       /\ \E usable \in SUBSET Values["hmac_key_file"] : ~Refuses(conf[l], usable)
  /\ \A l \in Locations : resolved[l] # Unresolved =>
       LET key == keys[conf[l]["hmac_key_file"]]
       IN stage = "running" /\ key # Unresolved /\ resolved[l] = BuildCfg(conf[l], key)

=============================================================================
