-------------------------------- MODULE Gate --------------------------------
(***************************************************************************)
(* The gate as its clients see it: challenges and no-JS grants are handed  *)
(* out, redeemed once, and exchanged for clearances that let requests pass *)
(* until they expire.                                                      *)
(*                                                                         *)
(* Each request is served under the configuration of some location; the    *)
(* locations differ in what they demand, in lifetimes and in signing keys. *)
(* A token is a record that only an issuing action creates, because it is  *)
(* authenticated by a MAC; its fields are the ones the MAC covers.  The    *)
(* client context is the client and the issuer (the identity of the        *)
(* redemption store): address, User-Agent and cookie scope are the client. *)
(* One-time redemption is what SharedZone and RedisLedger establish and is *)
(* the set `spent' here.                                                   *)
(***************************************************************************)
EXTENDS Integers, FiniteSets

CONSTANTS
  Clients,
  Keys,         \* key pairs of clients
  NoKey,        \* the empty public key of a no-JS clearance
  Confs,        \* the configurations of the locations
  Issuers,      \* identities the redemption store may have over time
  NoHmac,       \* a signing key that could not be loaded
  Cluster,      \* redemption goes to Redis
  Grace,        \* CHALLENGE_GRACE and NOJS_GRACE
  MaxTime,      \* bound on the wall clock
  MaxTokens,    \* bound on the tokens issued
  MaxInFlight   \* bound on the redemptions under way

\* A location: key is its HMAC key, required its Assurance, ttl and skew are
\* pow_gate_clearance_ttl and pow_gate_proof_skew, proof is
\* pow_gate_require_proof.
Conf == [enabled : BOOLEAN, decision : {"allow", "deny", "verify", "challenge"},
         kind : {"pow", "nojs"}, level : Nat \ {0}, key : {c.key : c \in Confs},
         ttl : Nat \ {0}, proof : BOOLEAN, skew : Nat]

ASSUME GateAssumption ==
  /\ Confs \subseteq Conf
  /\ Grace \in Nat \ {0} /\ MaxTime \in Nat /\ MaxTokens \in Nat /\ MaxInFlight \in Nat
  /\ Cluster \in BOOLEAN
  /\ NoKey \notin Keys

VARIABLES
  wall,         \* runtime::now()
  issuer,       \* redemption::issuer()
  store,        \* "up", "down" (transport) or "fenced"
  challenges,   \* PoW challenges issued
  grants,       \* no-JS grants issued
  prepared,     \* clearances verified and waiting for their redemption
  spent,        \* redeemed tokens
  clearances,   \* clearances handed out
  redeemed,     \* history: what was redeemed, by whom and when
  pages         \* history: the no-JS pages served, each with its grant and delay

tokens == <<challenges, grants>>
history == <<redeemed, pages>>
vars == <<wall, issuer, store, tokens, prepared, spent, clearances, history>>

Issued == Cardinality(challenges) + Cardinality(grants)
Ids == 1 .. MaxTokens

-----------------------------------------------------------------------------

\* cluster::available, where there is a cluster
Available == Cluster => store = "up"

\* Assurance::satisfies
Satisfies(got, conf) == got.kind = conf.kind /\ got.level >= conf.level

\* client_context: none without an issuer, and a fenced cluster has none.
HasContext == store # "fenced"

\* The MAC is by this key over this context.
Bound(t, conf, c) == t.key = conf.key /\ t.client = c /\ t.issuer = issuer

\* GET challenge: nothing is issued without a key, a store or a context, or
\* where the location demands a no-JS wait.
IssueChallenge(conf, c, pk) ==
  /\ conf.key # NoHmac /\ Available /\ HasContext
  /\ conf.kind = "pow"
  /\ Issued < MaxTokens
  /\ challenges' = challenges \union
       {[id |-> Issued + 1, key |-> conf.key, client |-> c, issuer |-> issuer,
         pk |-> pk, level |-> conf.level, exp |-> wall + Grace]}
  /\ UNCHANGED <<wall, issuer, store, grants, prepared, spent, clearances, history>>

\* The access handler serves the no-JS page with a grant.  It does not look at
\* the signing key: a grant made without one is refused by pass.
ServeNoJs(conf, c) ==
  /\ conf.enabled /\ conf.decision = "challenge"
  /\ conf.kind = "nojs"
  /\ Available /\ HasContext
  /\ Issued < MaxTokens
  /\ grants' = grants \union
       {[id |-> Issued + 1, key |-> conf.key, client |-> c, issuer |-> issuer,
         iat |-> wall, delay |-> conf.level]}
  /\ pages' = pages \union {[id |-> Issued + 1, shown |-> conf.level, at |-> wall]}
  /\ UNCHANGED <<wall, issuer, store, challenges, prepared, spent, clearances, redeemed>>

\* clearance::issue, put aside until the store has accepted the token.
Prepare(id, expires, conf, c, pk) ==
  /\ Cardinality(prepared) < MaxInFlight
  /\ prepared' = prepared \union
    {[id |-> id, expires |-> expires, level |-> conf.level, kind |-> conf.kind,
      key |-> conf.key, client |-> c, issuer |-> issuer, pk |-> pk,
      iat |-> wall, exp |-> wall + conf.ttl]}

\* Faulty variant: the clearance names the key of the submission, whoever the
\* challenge was for.
VerifyBodyAnyKey(conf, c, pk, ch) ==
  /\ conf.key # NoHmac /\ HasContext
  /\ conf.kind = "pow"
  /\ Bound(ch, conf, c)
  /\ ch.level = conf.level
  /\ ch.exp > wall
  /\ Prepare(ch.id, ch.exp, conf, c, pk)
  /\ UNCHANGED <<wall, issuer, store, tokens, spent, clearances, history>>

\* POST verify: the challenge is for this context, this key and the difficulty
\* the location demands now; the solution and the signature are checked and
\* are assumed right here, since a wrong one only leads to a refusal.
VerifyBody(conf, c, pk, ch) ==
  /\ conf.key # NoHmac /\ HasContext
  /\ conf.kind = "pow"
  /\ Bound(ch, conf, c) /\ ch.pk = pk
  /\ ch.level = conf.level
  /\ ch.exp > wall
  /\ Prepare(ch.id, ch.exp, conf, c, pk)
  /\ UNCHANGED <<wall, issuer, store, tokens, spent, clearances, history>>

\* nojs::verify up to the wait.
GrantValid(conf, c, g) ==
  /\ conf.key # NoHmac /\ HasContext
  /\ conf.kind = "nojs"
  /\ Bound(g, conf, c)
  /\ g.iat <= wall /\ wall - g.iat < Grace

\* GET pass with a grant that has waited long enough, for the delay the
\* location demands now.
Pass(conf, c, g) ==
  /\ GrantValid(conf, c, g)
  /\ wall >= g.iat + g.delay
  /\ g.delay = conf.level
  /\ Prepare(g.id, g.iat + Grace, conf, c, NoKey)
  /\ UNCHANGED <<wall, issuer, store, tokens, spent, clearances, history>>

\* Faulty variant: the fresh grant keeps the old start of the wait.
PassTooEarlyKeeps(conf, c, g) ==
  /\ GrantValid(conf, c, g)
  /\ wall < g.iat + g.delay
  /\ Issued < MaxTokens
  /\ grants' = grants \union
       {[id |-> Issued + 1, key |-> conf.key, client |-> c, issuer |-> issuer,
         iat |-> g.iat, delay |-> conf.level]}
  /\ pages' = pages \union {[id |-> Issued + 1, shown |-> g.delay, at |-> wall]}
  /\ UNCHANGED <<wall, issuer, store, challenges, prepared, spent, clearances, redeemed>>

\* GET pass too early: a fresh grant with the delay the location demands now,
\* on a page that shows the delay of the grant that came back.
PassTooEarly(conf, c, g) ==
  /\ GrantValid(conf, c, g)
  /\ wall < g.iat + g.delay
  /\ Issued < MaxTokens
  /\ grants' = grants \union
       {[id |-> Issued + 1, key |-> conf.key, client |-> c, issuer |-> issuer,
         iat |-> wall, delay |-> conf.level]}
  /\ pages' = pages \union {[id |-> Issued + 1, shown |-> g.delay, at |-> wall]}
  /\ UNCHANGED <<wall, issuer, store, challenges, prepared, spent, clearances, redeemed>>

\* The store accepts the token and the prepared clearance is sent.
Accept(p) ==
  /\ p.id \notin spent
  /\ wall < p.expires
  /\ spent' = spent \union {p.id}
  /\ prepared' = prepared \ {p}
  /\ clearances' = clearances \union
       {[key |-> p.key, client |-> p.client, issuer |-> p.issuer, pk |-> p.pk,
         kind |-> p.kind, level |-> p.level, iat |-> p.iat, exp |-> p.exp]}
  /\ redeemed' = redeemed \union
       {[id |-> p.id, at |-> p.iat]}
  /\ UNCHANGED <<wall, issuer, store, tokens, pages>>

\* The token is spent or expired, the store full or unavailable.
Reject(p) ==
  /\ prepared' = prepared \ {p}
  /\ UNCHANGED <<wall, issuer, store, tokens, spent, clearances, history>>

\* The wall clock advances or is corrected.
SetWall(t) ==
  /\ wall' = t
  /\ UNCHANGED <<issuer, store, tokens, prepared, spent, clearances, history>>

\* The transport to Redis fails or recovers, or Redis reports another epoch.
SetStore(s) ==
  /\ Cluster /\ store # "fenced"
  /\ store' = s
  /\ UNCHANGED <<wall, issuer, tokens, prepared, spent, clearances, history>>

\* A reload, which lifts a fence, or a restart or reload with another store,
\* which has an issuer that never was before.
Renew(i) ==
  /\ i # issuer => \A t \in challenges \union grants : t.issuer # i
  /\ issuer' = i
  /\ store' = "up"
  /\ UNCHANGED <<wall, tokens, prepared, spent, clearances, history>>

Init ==
  /\ wall = 0
  /\ issuer \in Issuers
  /\ store = "up"
  /\ challenges = {} /\ grants = {}
  /\ prepared = {} /\ spent = {}
  /\ clearances = {}
  /\ redeemed = {} /\ pages = {}

Next ==
  \/ \E conf \in Confs, c \in Clients :
       \/ ServeNoJs(conf, c)
       \/ \E pk \in Keys : IssueChallenge(conf, c, pk)
       \/ \E pk \in Keys, ch \in challenges : VerifyBody(conf, c, pk, ch)
       \/ \E g \in grants : Pass(conf, c, g) \/ PassTooEarly(conf, c, g)
  \/ \E p \in prepared : Accept(p) \/ Reject(p)
  \/ \E t \in 0 .. MaxTime : SetWall(t)
  \/ \E s \in {"up", "down", "fenced"} : SetStore(s)
  \/ \E i \in Issuers : Renew(i)

Spec == Init /\ [][Next]_vars

-----------------------------------------------------------------------------
(* The answer to a request, which changes nothing.  A request presents one *)
(* of the clearances, may carry a signed proof [key, ts], and may come     *)
(* from fetch, which could have carried one.                               *)

NoProof == [key |-> NoKey, ts |-> 0]

\* proof::check
ProofValid(proof, pk, skew) ==
  /\ proof.key = pk /\ pk # NoKey
  /\ proof.ts - wall <= skew /\ wall - proof.ts <= skew

\* Faulty variant: the age of the cookie is not compared with the lifetime
\* that this location grants.
ClearedByExpiry(conf, c, cookie, proof, fetch) ==
  /\ conf.key # NoHmac /\ HasContext
  /\ Bound(cookie, conf, c)
  /\ Satisfies(cookie, conf)
  /\ cookie.exp > wall /\ cookie.iat <= wall
  /\ IF proof # NoProof THEN ProofValid(proof, cookie.pk, conf.skew)
     ELSE ~conf.proof \/ ~fetch

\* check_clearance, with every check of use_authenticated_payload.
Cleared(conf, c, cookie, proof, fetch) ==
  /\ conf.key # NoHmac /\ HasContext
  /\ Bound(cookie, conf, c)
  /\ Satisfies(cookie, conf)
  /\ cookie.exp > wall /\ cookie.iat <= wall
  /\ wall - cookie.iat < conf.ttl
  /\ IF proof # NoProof THEN ProofValid(proof, cookie.pk, conf.skew)
     ELSE ~conf.proof \/ ~fetch

\* pow_gate_access, for a request outside the endpoint: whether it reaches
\* the upstream.  bot is the answer of the verifier.
Passes(conf, c, cookie, proof, fetch, trusted, bot) ==
  \/ ~conf.enabled
  \/ trusted
  \/ conf.decision = "allow"
  \/ conf.decision = "verify" /\ bot
  \/ conf.decision \in {"verify", "challenge"} /\ Cleared(conf, c, cookie, proof, fetch)

Proofs == {NoProof} \union [key : Keys, ts : 0 .. MaxTime]

\* The challenge or grant behind a redemption, as it was issued.
Origin(r) == CHOOSE t \in challenges \union grants : t.id = r.id

\* Redemption r earns client c the assurance conf demands: the token was
\* issued to c by the present store under the key of conf, it demanded as
\* much as conf does now, and it was redeemed within the lifetime conf grants.
Earns(r, conf, c) ==
  LET t == Origin(r)
  IN /\ Bound(t, conf, c)
     /\ IF conf.kind = "pow" THEN t \in challenges /\ t.level >= conf.level
                             ELSE t \in grants /\ t.delay >= conf.level
     /\ r.at <= wall /\ wall - r.at < conf.ttl

\* A request of a client that has not earned a challenged location does not
\* pass it, unless it is trusted or a verified bot: the client must have
\* redeemed a token which demanded at least what this location demands, under
\* its key and from the present store, no longer ago than the location's
\* lifetime.  The cookie may come from another location with other demands and
\* lifetimes, and the store and the clock may have changed since.
AccessIsEarned ==
  \A conf \in Confs, c \in Clients :
    conf.enabled /\ conf.decision \in {"verify", "challenge"}
      /\ ~(\E r \in redeemed : Earns(r, conf, c))
    => \A cookie \in clearances, proof \in Proofs, fetch \in BOOLEAN :
         ~Passes(conf, c, cookie, proof, fetch, FALSE, FALSE)

\* A request with a proof passes only when the proof is by the key its
\* challenge was issued to, and where proofs are required a fetch without one
\* does not pass; a no-JS client can sign nothing.
ProofByRedeemer ==
  \A conf \in Confs, c \in Clients, cookie \in clearances, proof \in Proofs, fetch \in BOOLEAN :
    Cleared(conf, c, cookie, proof, fetch) =>
      IF proof = NoProof THEN conf.proof => ~fetch
      ELSE \E r \in redeemed : Earns(r, conf, c) /\ Origin(r) \in challenges
                               /\ Origin(r).pk = proof.key

\* A no-JS grant is redeemed only after the wait it demands has passed since
\* the page that carried it was served, whatever page the client came back
\* from early and whatever delay that page showed.
WaitWasServed ==
  \A r \in redeemed : Origin(r) \in grants =>
    \E page \in pages : page.id = r.id /\ page.at + Origin(r).delay <= r.at

\* "Transport failures stop new issuance": no challenge and no grant is handed
\* out while Redis is unreachable.
IssuanceStops == [][store = "down" => UNCHANGED tokens]_vars

\* What holds of it: meanwhile no challenge is issued, and a grant only in place
\* of one that the same client has brought back too early.
RefreshedWhileDown ==
  [][store = "down" =>
       /\ challenges' = challenges
       /\ \A g \in grants' \ grants : \E old \in grants :
            /\ old.key = g.key /\ old.client = g.client /\ old.issuer = g.issuer
            /\ g.iat = wall /\ wall < old.iat + old.delay]_vars

-----------------------------------------------------------------------------
(* What the safety properties rest on.                                     *)

Tokens == challenges \union grants

\* A token has a number of its own and is a challenge or a grant, not both.
TokensAreNumbered ==
  /\ IsFiniteSet(challenges) /\ IsFiniteSet(grants)
  /\ challenges \intersect grants = {}
  /\ \A t \in Tokens : t.id \in 1 .. Issued
  /\ \A t, u \in Tokens : t.id = u.id => t = u

\* A grant counts from when its page was served.
GrantsHavePages ==
  \A g \in grants :
    /\ g.iat \in Nat /\ g.delay \in Nat
    /\ \E page \in pages : page.id = g.id /\ page.at = g.iat

\* Clearance k asserts what its token t was issued for.
Backs(t, k) ==
  /\ t.key = k.key /\ t.client = k.client /\ t.issuer = k.issuer
  /\ IF k.kind = "pow" THEN t \in challenges /\ t.level = k.level /\ t.pk = k.pk
     ELSE t \in grants /\ t.delay = k.level /\ k.pk = NoKey

Waited(t, at) == t \in grants => t.iat + t.delay <= at

\* What waits for the store, what it accepted and what was handed out all stem
\* from a token.
ClearancesAreBacked ==
  /\ \A p \in prepared :
       \E t \in Tokens : t.id = p.id /\ Backs(t, p) /\ Waited(t, p.iat)
  /\ \A r \in redeemed : \E t \in Tokens : t.id = r.id /\ Waited(t, r.at)
  /\ \A k \in clearances :
       \E r \in redeemed, t \in Tokens : t.id = r.id /\ r.at = k.iat /\ Backs(t, k)

IndInv ==
  wall \in Nat /\ TokensAreNumbered /\ GrantsHavePages /\ ClearancesAreBacked

=============================================================================
