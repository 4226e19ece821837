----------------------------- MODULE GateProofs -----------------------------
(***************************************************************************)
(* What a request must have done to pass the gate, for any clients, keys,  *)
(* locations, stores and clock corrections.                                *)
(*                                                                         *)
(* The argument: every clearance leads back to one token (IndInv), since   *)
(* tokens have numbers of their own; what the clearance asserts is what    *)
(* that token was issued for, and check_clearance compares it with what    *)
(* the location demands now.                                               *)
(***************************************************************************)
EXTENDS Gate, FiniteSetTheorems, TLAPS

USE DEF tokens, history, vars

LEMMA InitInv == Init => IndInv
<1> SUFFICES ASSUME Init PROVE IndInv
  OBVIOUS
<1>1. TokensAreNumbered
  BY FS_EmptySet DEF Init, TokensAreNumbered, Tokens
<1>2. QED
  BY <1>1 DEF Init, IndInv, GrantsHavePages, ClearancesAreBacked

\* A token with the next number joins those that are there.
LEMMA NewToken ==
  ASSUME TokensAreNumbered, NEW new, new.id = Issued + 1,
         \/ challenges' = challenges \union {new} /\ grants' = grants
         \/ grants' = grants \union {new} /\ challenges' = challenges
  PROVE  TokensAreNumbered' /\ Tokens' = Tokens \union {new} /\ new \notin Tokens
<1>1. /\ IsFiniteSet(challenges) /\ IsFiniteSet(grants)
      /\ Cardinality(challenges) \in Nat /\ Cardinality(grants) \in Nat /\ Issued \in Nat
  BY FS_CardinalityType DEF TokensAreNumbered, Issued
<1>2. new \notin Tokens
  BY <1>1 DEF TokensAreNumbered
<1>3. Tokens' = Tokens \union {new}
  BY DEF Tokens
<1>4. IsFiniteSet(challenges') /\ IsFiniteSet(grants') /\ Issued' = Issued + 1
  <2>1. CASE challenges' = challenges \union {new} /\ grants' = grants
    <3>1. IsFiniteSet(challenges') /\ Cardinality(challenges') = Cardinality(challenges) + 1
      BY <1>1, <1>2, <2>1, FS_AddElement DEF Tokens
    <3>2. QED
      BY <1>1, <2>1, <3>1 DEF Issued
  <2>2. CASE grants' = grants \union {new} /\ challenges' = challenges
    <3>1. IsFiniteSet(grants') /\ Cardinality(grants') = Cardinality(grants) + 1
      BY <1>1, <1>2, <2>2, FS_AddElement DEF Tokens
    <3>2. QED
      BY <1>1, <2>2, <3>1 DEF Issued
  <2>3. QED
    BY <2>1, <2>2
<1>5. challenges' \intersect grants' = {}
  BY <1>2 DEF TokensAreNumbered, Tokens
<1>6. \A t \in Tokens' : t.id \in 1 .. Issued'
  BY <1>1, <1>3, <1>4 DEF TokensAreNumbered
<1>7. \A t, u \in Tokens' : t.id = u.id => t = u
  BY <1>1, <1>3 DEF TokensAreNumbered
<1>8. QED
  BY <1>2, <1>3, <1>4, <1>5, <1>6, <1>7 DEF TokensAreNumbered

\* What is backed by the tokens stays so when there is a new one.
LEMMA StillBacked ==
  ASSUME IndInv, NEW new, new \notin Tokens, Tokens' = Tokens \union {new},
         \/ challenges' = challenges \union {new} /\ grants' = grants
         \/ grants' = grants \union {new} /\ challenges' = challenges,
         UNCHANGED <<prepared, redeemed, clearances>>
  PROVE  ClearancesAreBacked'
<1>1. ASSUME NEW t \in Tokens
      PROVE  /\ t \in Tokens' /\ (t \in challenges' <=> t \in challenges)
             /\ (t \in grants' <=> t \in grants)
  BY DEF Tokens
<1>2. \A t \in Tokens : \A k : Backs(t, k) => Backs(t, k)'
  BY <1>1 DEF Backs
<1>3. \A t \in Tokens : \A at : Waited(t, at) => Waited(t, at)'
  BY <1>1 DEF Waited
<1>4. \A p \in prepared' : \E t \in Tokens' : t.id = p.id /\ Backs(t, p)' /\ Waited(t, p.iat)'
  BY <1>1, <1>2, <1>3 DEF IndInv, ClearancesAreBacked
<1>5. \A r \in redeemed' : \E t \in Tokens' : t.id = r.id /\ Waited(t, r.at)'
  BY <1>1, <1>3 DEF IndInv, ClearancesAreBacked
<1>6. \A k \in clearances' :
        \E r \in redeemed', t \in Tokens' : t.id = r.id /\ r.at = k.iat /\ Backs(t, k)'
  BY <1>1, <1>2 DEF IndInv, ClearancesAreBacked
<1>7. QED
  BY <1>4, <1>5, <1>6 DEF ClearancesAreBacked

\* GET challenge.
LEMMA ChallengeStep ==
  ASSUME IndInv, NEW conf \in Confs, NEW c \in Clients, NEW pk \in Keys, IssueChallenge(conf, c, pk)
  PROVE  IndInv'
<1> DEFINE new == [id |-> Issued + 1, key |-> conf.key, client |-> c, issuer |-> issuer,
                   pk |-> pk, level |-> conf.level, exp |-> wall + Grace]
<1>1. /\ challenges' = challenges \union {new}
      /\ UNCHANGED <<wall, grants, prepared, clearances, redeemed, pages>>
  BY DEF IssueChallenge
<1>2. new.id = Issued + 1
  OBVIOUS
<1> HIDE DEF new
<1>3. TokensAreNumbered' /\ Tokens' = Tokens \union {new} /\ new \notin Tokens
  BY <1>1, <1>2, NewToken DEF IndInv
<1>4. ClearancesAreBacked'
  BY <1>1, <1>3, StillBacked
<1>5. GrantsHavePages'
  BY <1>1 DEF IndInv, GrantsHavePages
<1>6. QED
  BY <1>1, <1>3, <1>4, <1>5 DEF IndInv

\* A no-JS page with a grant, after a first request or one that came back too
\* early.
LEMMA GrantStep ==
  ASSUME IndInv, NEW conf \in Confs, NEW c \in Clients,
         ServeNoJs(conf, c) \/ \E g \in grants : PassTooEarly(conf, c, g)
  PROVE  IndInv'
<1> DEFINE new == [id |-> Issued + 1, key |-> conf.key, client |-> c, issuer |-> issuer,
                   iat |-> wall, delay |-> conf.level]
<1>1. PICK shown :
        /\ grants' = grants \union {new}
        /\ pages' = pages \union {[id |-> Issued + 1, shown |-> shown, at |-> wall]}
        /\ UNCHANGED <<wall, challenges, prepared, clearances, redeemed>>
  BY Zenon DEF ServeNoJs, PassTooEarly
<1>2. new.id = Issued + 1 /\ new.iat = wall /\ new.delay = conf.level
  OBVIOUS
<1> HIDE DEF new
<1>3. TokensAreNumbered' /\ Tokens' = Tokens \union {new} /\ new \notin Tokens
  BY <1>1, <1>2, NewToken DEF IndInv
<1>4. ClearancesAreBacked'
  BY <1>1, <1>3, StillBacked
<1>5. GrantsHavePages'
  <2>1. conf.level \in Nat /\ wall \in Nat
    BY GateAssumption DEF Conf, IndInv
  <2>2. \E page \in pages' : page.id = new.id /\ page.at = new.iat
    <3> DEFINE page == [id |-> Issued + 1, shown |-> shown, at |-> wall]
    <3>1. page \in pages' /\ page.id = new.id /\ page.at = new.iat
      BY <1>1, <1>2
    <3>2. QED
      BY <3>1
  <2>3. ASSUME NEW g \in grants
        PROVE  /\ g.iat \in Nat /\ g.delay \in Nat
               /\ \E page \in pages' : page.id = g.id /\ page.at = g.iat
    BY <1>1 DEF IndInv, GrantsHavePages
  <2>4. QED
    BY <1>1, <1>2, <2>1, <2>2, <2>3 DEF GrantsHavePages
<1>6. QED
  BY <1>1, <1>3, <1>4, <1>5 DEF IndInv

\* verify and pass prepare a clearance that says what the token was for.
LEMMA PrepareStep ==
  ASSUME IndInv, NEW conf \in Confs, NEW c \in Clients,
         \/ \E pk \in Keys, ch \in challenges : VerifyBody(conf, c, pk, ch)
         \/ \E g \in grants : Pass(conf, c, g)
  PROVE  IndInv'
<1>1. PICK new :
        /\ prepared' = prepared \union {new}
        /\ \E t \in Tokens : t.id = new.id /\ Backs(t, new) /\ Waited(t, new.iat)
  <2>1. ASSUME NEW pk \in Keys, NEW ch \in challenges, VerifyBody(conf, c, pk, ch)
        PROVE  \E new : /\ prepared' = prepared \union {new}
                        /\ \E t \in Tokens : t.id = new.id /\ Backs(t, new) /\ Waited(t, new.iat)
    <3> DEFINE new == [id |-> ch.id, expires |-> ch.exp, level |-> conf.level, kind |-> conf.kind,
                       key |-> conf.key, client |-> c, issuer |-> issuer, pk |-> pk,
                       iat |-> wall, exp |-> wall + conf.ttl]
    <3>1. prepared' = prepared \union {new}
      BY <2>1 DEF VerifyBody, Prepare
    <3>2. ch \in Tokens /\ ch \notin grants
      BY DEF Tokens, IndInv, TokensAreNumbered
    <3>3. ch.id = new.id /\ Backs(ch, new)
      BY <2>1 DEF VerifyBody, Bound, Backs
    <3>4. Waited(ch, new.iat)
      BY <3>2 DEF Waited
    <3> HIDE DEF new
    <3>5. QED
      BY <3>1, <3>2, <3>3, <3>4
  <2>2. ASSUME NEW g \in grants, Pass(conf, c, g)
        PROVE  \E new : /\ prepared' = prepared \union {new}
                        /\ \E t \in Tokens : t.id = new.id /\ Backs(t, new) /\ Waited(t, new.iat)
    <3> DEFINE new == [id |-> g.id, expires |-> g.iat + Grace, level |-> conf.level, kind |-> conf.kind,
                       key |-> conf.key, client |-> c, issuer |-> issuer, pk |-> NoKey,
                       iat |-> wall, exp |-> wall + conf.ttl]
    <3>1. prepared' = prepared \union {new}
      BY <2>2 DEF Pass, Prepare
    <3>2. g \in Tokens
      BY DEF Tokens
    <3>3. g.id = new.id /\ Backs(g, new)
      BY <2>2 DEF Pass, GrantValid, Bound, Backs
    <3>4. Waited(g, new.iat)
      BY <2>2 DEF Pass, Waited, IndInv, GrantsHavePages
    <3> HIDE DEF new
    <3>5. QED
      BY <3>1, <3>2, <3>3, <3>4
  <2>3. QED
    BY <2>1, <2>2
<1>2. UNCHANGED <<wall, challenges, grants, clearances, redeemed, pages>>
  BY DEF VerifyBody, Pass
<1>3. Tokens' = Tokens /\ TokensAreNumbered' /\ GrantsHavePages'
  BY <1>2 DEF IndInv, TokensAreNumbered, GrantsHavePages, Tokens, Issued
<1>4. \A t, k : (Backs(t, k) <=> Backs(t, k)') /\ (Waited(t, k) <=> Waited(t, k)')
  BY <1>2 DEF Backs, Waited
<1>5. ClearancesAreBacked'
  <2>1. \A p \in prepared' : \E t \in Tokens : t.id = p.id /\ Backs(t, p) /\ Waited(t, p.iat)
    BY <1>1 DEF IndInv, ClearancesAreBacked
  <2>2. QED
    BY <1>2, <1>3, <1>4, <2>1 DEF IndInv, ClearancesAreBacked
<1>6. QED
  BY <1>2, <1>3, <1>5 DEF IndInv

\* The store accepts.
LEMMA AcceptStep ==
  ASSUME IndInv, NEW p \in prepared, Accept(p)
  PROVE  IndInv'
<1> DEFINE k == [key |-> p.key, client |-> p.client, issuer |-> p.issuer, pk |-> p.pk,
                 kind |-> p.kind, level |-> p.level, iat |-> p.iat, exp |-> p.exp]
           r == [id |-> p.id, at |-> p.iat]
<1>1. /\ prepared' = prepared \ {p} /\ clearances' = clearances \union {k}
      /\ redeemed' = redeemed \union {r}
      /\ UNCHANGED <<wall, challenges, grants, pages>>
  BY DEF Accept
<1>2. PICK t \in Tokens : t.id = p.id /\ Backs(t, p) /\ Waited(t, p.iat)
  BY DEF IndInv, ClearancesAreBacked
<1>3. Backs(t, k) /\ t.id = r.id /\ r.at = k.iat /\ Waited(t, r.at)
  BY <1>2 DEF Backs
<1> HIDE DEF k, r
<1>4. Tokens' = Tokens /\ TokensAreNumbered' /\ GrantsHavePages'
  BY <1>1 DEF IndInv, TokensAreNumbered, GrantsHavePages, Tokens, Issued
<1>5. \A u, x : (Backs(u, x) <=> Backs(u, x)') /\ (Waited(u, x) <=> Waited(u, x)')
  BY <1>1 DEF Backs, Waited
<1>6. ClearancesAreBacked'
  <2>1. \A x \in redeemed' : \E u \in Tokens : u.id = x.id /\ Waited(u, x.at)
    BY <1>1, <1>2, <1>3 DEF IndInv, ClearancesAreBacked
  <2>2. \A x \in clearances' :
          \E y \in redeemed', u \in Tokens : u.id = y.id /\ y.at = x.iat /\ Backs(u, x)
    BY <1>1, <1>2, <1>3 DEF IndInv, ClearancesAreBacked
  <2>3. \A x \in prepared' : \E u \in Tokens : u.id = x.id /\ Backs(u, x) /\ Waited(u, x.iat)
    BY <1>1 DEF IndInv, ClearancesAreBacked
  <2>4. QED
    BY <1>4, <1>5, <2>1, <2>2, <2>3 DEF ClearancesAreBacked
<1>7. QED
  BY <1>1, <1>4, <1>6 DEF IndInv

\* The other steps issue and accept nothing.
LEMMA OtherStep ==
  ASSUME IndInv, wall' \in Nat, prepared' \subseteq prepared,
         UNCHANGED <<challenges, grants, clearances, redeemed, pages>>
  PROVE  IndInv'
<1>1. Tokens' = Tokens /\ TokensAreNumbered' /\ GrantsHavePages'
  BY DEF IndInv, TokensAreNumbered, GrantsHavePages, Tokens, Issued
<1>2. \A u, x : (Backs(u, x) <=> Backs(u, x)') /\ (Waited(u, x) <=> Waited(u, x)')
  BY DEF Backs, Waited
<1>3. ClearancesAreBacked'
  BY <1>1, <1>2 DEF IndInv, ClearancesAreBacked
<1>4. QED
  BY <1>1, <1>3 DEF IndInv

LEMMA NextInv == IndInv /\ [Next]_vars => IndInv'
<1> SUFFICES ASSUME IndInv, [Next]_vars PROVE IndInv'
  OBVIOUS
<1>1. ASSUME NEW p \in prepared, Reject(p) PROVE IndInv'
  BY <1>1, OtherStep DEF Reject, IndInv
<1>2. ASSUME NEW t \in 0 .. MaxTime, SetWall(t) PROVE IndInv'
  BY <1>2, OtherStep, GateAssumption DEF SetWall
<1>3. ASSUME NEW x, SetStore(x) \/ Renew(x) PROVE IndInv'
  BY <1>3, OtherStep DEF SetStore, Renew, IndInv
<1>4. CASE UNCHANGED vars
  BY <1>4, OtherStep DEF IndInv
<1>5. QED
  BY <1>1, <1>2, <1>3, <1>4, ChallengeStep, GrantStep, PrepareStep, AcceptStep DEF Next

LEMMA Invariance == Spec => []IndInv
BY InitInv, NextInv, PTL DEF Spec

\* The number of a redemption names its token.
LEMMA OriginIsToken ==
  ASSUME IndInv, NEW r, NEW t \in Tokens, t.id = r.id
  PROVE  Origin(r) = t
BY DEF IndInv, TokensAreNumbered, Origin, Tokens

\* What check_clearance accepts was earned by a redemption whose token has the
\* key of the clearance.
LEMMA ClearedIsEarned ==
  ASSUME IndInv, NEW conf \in Confs, NEW c \in Clients, NEW cookie \in clearances,
         NEW proof, NEW fetch, Cleared(conf, c, cookie, proof, fetch)
  PROVE  \E r \in redeemed : /\ Earns(r, conf, c)
                             /\ cookie.pk # NoKey =>
                                  Origin(r) \in challenges /\ Origin(r).pk = cookie.pk
<1>1. PICK r \in redeemed, t \in Tokens : t.id = r.id /\ r.at = cookie.iat /\ Backs(t, cookie)
  BY DEF IndInv, ClearancesAreBacked
<1>2. Origin(r) = t
  BY <1>1, OriginIsToken
<1>3. Bound(t, conf, c) /\ r.at <= wall /\ wall - r.at < conf.ttl
  BY <1>1 DEF Cleared, Bound, Backs
<1>4. cookie.kind = conf.kind /\ cookie.level >= conf.level
  BY DEF Cleared, Satisfies
<1>5. Earns(r, conf, c)
  BY <1>1, <1>2, <1>3, <1>4 DEF Earns, Backs
<1>6. cookie.pk # NoKey => Origin(r) \in challenges /\ Origin(r).pk = cookie.pk
  BY <1>1, <1>2 DEF Backs
<1>7. QED
  BY <1>5, <1>6

-----------------------------------------------------------------------------

(***************************************************************************)
(* access.rs, pow_gate_access: whoever passes a challenged location has    *)
(* redeemed a token that demanded at least as much, under its key and from *)
(* the present store, within its lifetime.                                 *)
(***************************************************************************)
THEOREM OnlyEarnedAccess == Spec => []AccessIsEarned
<1>1. IndInv => AccessIsEarned
  <2> SUFFICES ASSUME IndInv, NEW conf \in Confs, NEW c \in Clients,
                      conf.enabled, conf.decision \in {"verify", "challenge"},
                      NEW cookie \in clearances, NEW proof \in Proofs, NEW fetch \in BOOLEAN,
                      Passes(conf, c, cookie, proof, fetch, FALSE, FALSE)
               PROVE  \E r \in redeemed : Earns(r, conf, c)
    BY Zenon DEF AccessIsEarned
  <2>1. Cleared(conf, c, cookie, proof, fetch)
    BY DEF Passes
  <2>2. QED
    BY <2>1, ClearedIsEarned
<1>2. QED
  BY <1>1, Invariance, PTL

(***************************************************************************)
(* clearance.rs and proof.rs: a proof that is accepted is by the key the   *)
(* redeemed challenge was issued to, and no fetch passes without one where *)
(* the location requires it.                                               *)
(***************************************************************************)
THEOREM ProofsAreTheRedeemers == Spec => []ProofByRedeemer
<1>1. IndInv => ProofByRedeemer
  <2> SUFFICES ASSUME IndInv, NEW conf \in Confs, NEW c \in Clients, NEW cookie \in clearances,
                      NEW proof \in Proofs, NEW fetch \in BOOLEAN,
                      Cleared(conf, c, cookie, proof, fetch)
               PROVE  IF proof = NoProof THEN conf.proof => ~fetch
                      ELSE \E r \in redeemed : Earns(r, conf, c) /\ Origin(r) \in challenges
                                               /\ Origin(r).pk = proof.key
    BY DEF ProofByRedeemer
  <2>1. CASE proof = NoProof
    BY <2>1 DEF Cleared
  <2>2. CASE proof # NoProof
    <3>1. cookie.pk = proof.key /\ cookie.pk # NoKey
      BY <2>2 DEF Cleared, ProofValid
    <3>2. QED
      BY <2>2, <3>1, ClearedIsEarned
  <2>3. QED
    BY <2>1, <2>2
<1>2. QED
  BY <1>1, Invariance, PTL

(***************************************************************************)
(* engine/nojs.rs, verify: a grant is redeemed only when the wait it asks  *)
(* for is over, counted from the page that carried it.                     *)
(***************************************************************************)
THEOREM WaitsAreServed == Spec => []WaitWasServed
<1>1. IndInv => WaitWasServed
  <2> SUFFICES ASSUME IndInv, NEW r \in redeemed, Origin(r) \in grants
               PROVE  \E page \in pages : page.id = r.id /\ page.at + Origin(r).delay <= r.at
    BY DEF WaitWasServed
  <2>1. PICK t \in Tokens : t.id = r.id /\ Waited(t, r.at)
    BY DEF IndInv, ClearancesAreBacked
  <2>2. Origin(r) = t
    BY <2>1, OriginIsToken
  <2>3. PICK page \in pages : page.id = t.id /\ page.at = t.iat
    BY <2>2 DEF IndInv, GrantsHavePages
  <2>4. QED
    BY <2>1, <2>2, <2>3 DEF Waited
<1>2. QED
  BY <1>1, Invariance, PTL

(***************************************************************************)
(* engine/pow.rs and engine/nojs.rs: while Redis is unreachable nothing is *)
(* issued but a grant in place of one that came back too early, to the     *)
(* client that brought it.  (That much is what IssuanceStops is violated   *)
(* by.)                                                                    *)
(***************************************************************************)
THEOREM OutagesOnlyRefresh == Spec => RefreshedWhileDown
<1> DEFINE Down == store = "down" => Cluster
           Refreshed(g) == \E old \in grants :
             /\ old.key = g.key /\ old.client = g.client /\ old.issuer = g.issuer
             /\ g.iat = wall /\ wall < old.iat + old.delay
           Only == store = "down" => challenges' = challenges /\ \A g \in grants' \ grants : Refreshed(g)
<1>1. Init => Down
  BY DEF Init
<1>2. Down /\ [Next]_vars => Down'
  <2> SUFFICES ASSUME Down, [Next]_vars, store' = "down" PROVE Cluster
    OBVIOUS
  <2>1. ASSUME NEW s, SetStore(s) PROVE Cluster
    BY <2>1 DEF SetStore
  <2>2. CASE store' = store
    BY <2>2
  <2>3. QED
    BY <2>1, <2>2, SMTT(30) DEF Next, ServeNoJs, IssueChallenge, VerifyBody, Pass, PassTooEarly, Accept, Reject,
                                SetWall, Renew, vars
<1>3. ASSUME Down, [Next]_vars PROVE Only
  <2> SUFFICES ASSUME store = "down" PROVE challenges' = challenges /\ \A g \in grants' \ grants : Refreshed(g)
    OBVIOUS
  <2>1. ~Available
    BY <1>3 DEF Available
  <2>2. ASSUME NEW conf \in Confs, NEW c \in Clients, NEW g \in grants, PassTooEarly(conf, c, g)
        PROVE  challenges' = challenges /\ \A n \in grants' \ grants : Refreshed(n)
    <3> DEFINE new == [id |-> Issued + 1, key |-> conf.key, client |-> c, issuer |-> issuer,
                       iat |-> wall, delay |-> conf.level]
    <3>1. challenges' = challenges /\ grants' = grants \union {new}
      BY <2>2 DEF PassTooEarly
    <3>2. g.key = conf.key /\ g.client = c /\ g.issuer = issuer /\ wall < g.iat + g.delay
      BY <2>2 DEF PassTooEarly, GrantValid, Bound
    <3>3. new.key = conf.key /\ new.client = c /\ new.issuer = issuer /\ new.iat = wall
      OBVIOUS
    <3> HIDE DEF new
    <3>4. Refreshed(new)
      BY <3>2, <3>3
    <3>5. QED
      BY <3>1, <3>4, Zenon
  <2>3. CASE UNCHANGED tokens
    BY <2>3 DEF tokens
  <2> HIDE DEF Refreshed
  <2>4. ASSUME NEW conf \in Confs, NEW c \in Clients PROVE ~ServeNoJs(conf, c)
    BY <2>1 DEF ServeNoJs
  <2>5. ASSUME NEW conf \in Confs, NEW c \in Clients, NEW pk \in Keys PROVE ~IssueChallenge(conf, c, pk)
    BY <2>1 DEF IssueChallenge
  <2>6. ASSUME NEW conf \in Confs, NEW c \in Clients, NEW pk \in Keys, NEW ch \in challenges,
               VerifyBody(conf, c, pk, ch)
        PROVE  UNCHANGED tokens
    BY <2>6, Zenon DEF VerifyBody
  <2>7. ASSUME NEW conf \in Confs, NEW c \in Clients, NEW g \in grants, Pass(conf, c, g)
        PROVE  UNCHANGED tokens
    BY <2>7, Zenon DEF Pass
  <2>8. ASSUME NEW p \in prepared, Accept(p) \/ Reject(p) PROVE UNCHANGED tokens
    BY <2>8, Zenon DEF Accept, Reject
  <2>9. ASSUME NEW t, SetWall(t) \/ SetStore(t) \/ Renew(t) PROVE UNCHANGED tokens
    BY <2>9, Zenon DEF SetWall, SetStore, Renew
  <2>10. CASE UNCHANGED vars
    BY <2>3, <2>10, Zenon DEF vars
  <2>11. QED
    BY <1>3, <2>2, <2>3, <2>4, <2>5, <2>6, <2>7, <2>8, <2>9, <2>10, Zenon DEF Next
<1>4. QED
  BY <1>1, <1>2, <1>3, PTL DEF Spec, RefreshedWhileDown

=============================================================================
