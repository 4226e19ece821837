----------------------------- MODULE SharedZone -----------------------------
(***************************************************************************)
(* Local redemption: the nginx workers of one host share a memory zone     *)
(* that holds the one-use table of module Redemption, a random issuer and  *)
(* a high-water clock (ngx-http-pow-gate/src/redemption.rs).               *)
(*                                                                         *)
(* A worker verifies a submission (engine/pow.rs, engine/nojs.rs), takes   *)
(* the zone's mutex, samples the clock inside it, runs `consume' and       *)
(* releases the mutex.  Between any two of these steps other workers run,  *)
(* the wall clock is corrected in either direction, a worker dies, or the  *)
(* master brings up a zone with a new issuer (restart, or a reload that    *)
(* leaves and re-enters local mode).  A graceful reload hands the old zone *)
(* to the new workers and changes nothing in it.                           *)
(***************************************************************************)
EXTENDS Redemption

CONSTANTS
  Workers,              \* nginx worker slots
  NoWorker,             \* an unlocked mutex
  Zones,                \* zones the master ever creates; a zone's name is its issuer
  FirstZone,            \* the zone of the first start
  Validity,             \* CHALLENGE_GRACE and NOJS_GRACE, both 120 seconds
  MaxTime               \* bound on wall clock readings

ASSUME WorkerAssumption == NoWorker \notin Workers
ASSUME ZoneAssumption == FirstZone \in Zones
ASSUME ValidityAssumption == Validity \in Nat \ {0}
ASSUME TimeAssumption == MaxTime \in Nat

VARIABLES
  wall,                 \* runtime::now()
  current,              \* the zone of the master's configuration cycle
  created,              \* zones created so far
  mutex,                \* mutex[z]: the worker inside the critical section of z
  last_now,             \* State.last_now of each zone
  entries,              \* State.entries of each zone
  pc,                   \* where each worker is
  mapped,               \* ZONE of each worker
  token,                \* the token a worker is redeeming
  now,                  \* the clock sample a worker took under the mutex
  issued,               \* issued[t]: the zone that issued t and its expiry
  minted,               \* history: clearances sent for t
  replayed,             \* history: tokens answered with Reused
  lost                  \* history: tokens spent by a worker that died before replying

store == <<mutex, last_now, entries>>
worker == <<pc, mapped, token, now>>
history == <<minted, replayed, lost>>
vars == <<wall, current, created, store, worker, issued, history>>

Time == 0 .. MaxTime

Unissued == [zone |-> FirstZone, expires |-> 0]

\* An issued token expires at a positive time; calloc leaves expires 0.
IsIssued(t) == issued[t].expires > 0

\* A slot the mutex holder is writing when it dies: two fields, any subset.
Torn(old, new) ==
  {[id |-> i, expires |-> e] : i \in {old.id, new.id}, e \in {old.expires, new.expires}}

TypeOK ==
  /\ wall \in Time
  /\ created \in SUBSET Zones
  /\ current \in created
  /\ mutex \in [Zones -> Workers \union {NoWorker}]
  /\ last_now \in [Zones -> Time]
  /\ entries \in [Zones -> [Slots -> Entry]]
  /\ pc \in [Workers -> {"idle", "verified", "locked"}]
  /\ mapped \in [Workers -> created]
  /\ token \in [Workers -> Tokens \union {NoToken}]
  /\ now \in [Workers -> Time]
  /\ issued \in [Tokens -> [zone : created, expires : Nat]]
  /\ minted \in [Tokens -> Nat]
  /\ replayed \in SUBSET Tokens
  /\ lost \in SUBSET Tokens
-----------------------------------------------------------------------------
Init ==
  /\ wall \in Time
  /\ current = FirstZone
  /\ created = {FirstZone}
  /\ mutex = [z \in Zones |-> NoWorker]
  /\ last_now = [z \in Zones |-> 0]
  /\ entries = [z \in Zones |-> [i \in Slots |-> EmptyEntry]]
  /\ pc = [w \in Workers |-> "idle"]
  /\ mapped = [w \in Workers |-> FirstZone]
  /\ token = [w \in Workers |-> NoToken]
  /\ now = [w \in Workers |-> 0]
  /\ issued = [t \in Tokens |-> Unissued]
  /\ minted = [t \in Tokens |-> 0]
  /\ replayed = {}
  /\ lost = {}

\* A worker issues a challenge or a no-JS grant, bound to its zone's issuer.
Issue(w, t) ==
  /\ pc[w] = "idle"
  /\ ~IsIssued(t)
  /\ issued' = [issued EXCEPT ![t] = [zone |-> mapped[w], expires |-> wall + Validity]]
  /\ UNCHANGED <<wall, current, created, store, worker, history>>

\* A submission passes every check before redemption: its context carries the
\* issuer of the worker's zone, and it is not expired by the wall clock.
Verify(w, t) ==
  /\ pc[w] = "idle"
  /\ IsIssued(t)
  /\ issued[t].zone = mapped[w]
  /\ issued[t].expires > wall
  /\ pc' = [pc EXCEPT ![w] = "verified"]
  /\ token' = [token EXCEPT ![w] = t]
  /\ UNCHANGED <<wall, current, created, store, mapped, now, issued, history>>

\* Faulty variant: the sample is not kept as the zone's high-water mark.
LockForgetful(w) ==
  LET z == mapped[w]
  IN /\ pc[w] = "verified"
     /\ mutex[z] = NoWorker
     /\ mutex' = [mutex EXCEPT ![z] = w]
     /\ now' = [now EXCEPT ![w] = wall]
     /\ pc' = [pc EXCEPT ![w] = "locked"]
     /\ UNCHANGED <<wall, current, created, last_now, entries, mapped, token, issued, history>>

\* ngx_shmtx_lock, then the clock sample and the high-water mark.
Lock(w) ==
  LET z == mapped[w]
      sample == IF wall > last_now[z] THEN wall ELSE last_now[z]
  IN /\ pc[w] = "verified"
     /\ mutex[z] = NoWorker
     /\ mutex' = [mutex EXCEPT ![z] = w]
     /\ now' = [now EXCEPT ![w] = sample]
     /\ last_now' = [last_now EXCEPT ![z] = sample]
     /\ pc' = [pc EXCEPT ![w] = "locked"]
     /\ UNCHANGED <<wall, current, created, entries, mapped, token, issued, history>>

\* `consume' on the shared table, ngx_shmtx_unlock, and the answer: only
\* Accepted carries the Set-Cookie of the prepared grant.
Consume(w) ==
  LET z == mapped[w]
      t == token[w]
      outcome == ConsumeOutcome(entries[z], t, issued[t].expires, now[w])
  IN /\ pc[w] = "locked"
     /\ entries' = [entries EXCEPT ![z] = ConsumeEntries(@, t, issued[t].expires, now[w])]
     /\ mutex' = [mutex EXCEPT ![z] = NoWorker]
     /\ pc' = [pc EXCEPT ![w] = "idle"]
     /\ token' = [token EXCEPT ![w] = NoToken]
     /\ now' = [now EXCEPT ![w] = 0]
     /\ replayed' = IF outcome = "Reused" THEN replayed \union {t} ELSE replayed
     /\ minted' = IF outcome = "Accepted" THEN [minted EXCEPT ![t] = @ + 1] ELSE minted
     /\ UNCHANGED <<wall, current, created, last_now, mapped, issued, lost>>

\* The replacement of a worker that exits or dies maps the zone of the current
\* cycle; nginx's master releases a mutex the dead worker held.
Replace(w) ==
  /\ pc' = [pc EXCEPT ![w] = "idle"]
  /\ mapped' = [mapped EXCEPT ![w] = current]
  /\ token' = [token EXCEPT ![w] = NoToken]
  /\ now' = [now EXCEPT ![w] = 0]
  /\ mutex' = [z \in Zones |-> IF mutex[z] = w THEN NoWorker ELSE mutex[z]]
  /\ UNCHANGED <<wall, current, created, last_now, issued, minted, replayed>>

Exit(w) ==
  /\ Replace(w)
  /\ UNCHANGED <<entries, lost>>

\* A worker is killed while it writes its entry: the slot keeps any mix of the
\* old and the new fields, and no answer is sent.
DieWriting(w) ==
  LET z == mapped[w]
      t == token[w]
      i == FirstFree(entries[z], t, now[w])
  IN /\ pc[w] = "locked"
     /\ ConsumeOutcome(entries[z], t, issued[t].expires, now[w]) = "Accepted"
     /\ \E e \in Torn(entries[z][i], [id |-> t, expires |-> issued[t].expires]) :
          entries' = [entries EXCEPT ![z][i] = e]
     /\ lost' = lost \union {t}
     /\ Replace(w)

\* The wall clock advances or is corrected, in either direction.
SetWall(time) ==
  /\ wall' = time
  /\ UNCHANGED <<current, created, store, worker, issued, history>>

\* init_zone without an old zone: zeroed table and clock, fresh random issuer.
\* Workers of the old cycle keep the zone they mapped.
CreateZone(z) ==
  /\ z \notin created
  /\ created' = created \union {z}
  /\ current' = z
  /\ mutex' = [mutex EXCEPT ![z] = NoWorker]
  /\ last_now' = [last_now EXCEPT ![z] = 0]
  /\ entries' = [entries EXCEPT ![z] = [i \in Slots |-> EmptyEntry]]
  /\ UNCHANGED <<wall, worker, issued, history>>

Next ==
  \/ \E w \in Workers, t \in Tokens : Issue(w, t) \/ Verify(w, t)
  \/ \E w \in Workers : Lock(w) \/ Consume(w) \/ Exit(w) \/ DieWriting(w)
  \/ \E time \in Time : SetWall(time)
  \/ \E z \in Zones : CreateZone(z)

Spec == Init /\ [][Next]_vars
-----------------------------------------------------------------------------
\* redemption.rs: a token is keyed by its authenticated text, not by its
\* nonce, so however often and through whichever workers it is submitted, at
\* most one clearance is minted from it - across clock corrections, worker
\* deaths inside the critical section and new zones.
MintedOnce == \A t \in Tokens : minted[t] <= 1

\* The 409 "replay" answer is never wrong: `consume' returns Reused only for a
\* token that was really spent, by a minted clearance or by a worker that died
\* before it could reply.  Slots reused by other tokens and torn entries never
\* condemn a fresh token.
ReusedIsHonest ==
  \A t \in replayed : minted[t] > 0 \/ t \in lost

\* redemption.rs header: "live entries are never evicted, including when
\* capacity runs out".  No step of any worker, dying ones included, changes a
\* slot that is live at the zone's clock after the step.
LiveEntriesKept ==
  [][\A z \in created : \A i \in Slots :
       Live(entries[z][i], last_now'[z]) => entries'[z][i] = entries[z][i]]_vars

-----------------------------------------------------------------------------
(* Why it works: the parts of the inductive invariant. *)

\* The clock sample of the mutex holder is the zone's high-water mark: no
\* other worker moves the mark during the critical section.
SampleIsCurrent ==
  \A w \in Workers : pc[w] = "locked" =>
    /\ mutex[mapped[w]] = w
    /\ now[w] = last_now[mapped[w]]

\* A worker redeems only tokens that its own zone issued.
TokenInHand ==
  \A w \in Workers : pc[w] # "idle" =>
    /\ token[w] \in Tokens
    /\ IsIssued(token[w])
    /\ issued[token[w]].zone = mapped[w]

\* A token that was redeemed is out of date for its zone, or still occupies a
\* slot of its own probe window, with its own expiry.
Remembered(t) ==
  LET z == issued[t].zone
  IN \/ last_now[z] >= issued[t].expires
     \/ \E i \in Window(t) : entries[z][i] = [id |-> t, expires |-> issued[t].expires]

SpentIsRemembered ==
  \A t \in Tokens : minted[t] > 0 => IsIssued(t) /\ Remembered(t)

\* Whatever id a slot shows belongs to a token somebody really redeemed.
SlotsAreSpent ==
  \A z \in Zones : \A i \in Slots :
    LET id == entries[z][i].id
    IN id # NoToken => minted[id] > 0 \/ id \in lost

IndInv ==
  /\ TypeOK
  /\ SampleIsCurrent
  /\ TokenInHand
  /\ SpentIsRemembered
  /\ SlotsAreSpent
  /\ MintedOnce
  /\ ReusedIsHonest
-----------------------------------------------------------------------------
\* Once a zone has seen a token expired, or has spent it, nothing reopens it.
Promise == INSTANCE OneUse WITH
  uses <- minted,
  closed <- {t \in Tokens : IsIssued(t) /\ last_now[issued[t].zone] >= issued[t].expires}

\* The zone keeps the promise of the abstract store.
ImplementsOneUse == Promise!Spec
=============================================================================
