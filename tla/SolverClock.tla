----------------------------- MODULE SolverClock -----------------------------
(***************************************************************************)
(* The server-anchored clock of solver.js and the fetch that it wraps: the *)
(* page stamps every request with a signed time, which the gate holds to   *)
(* within pow_gate_proof_skew of its own.                                  *)
(*                                                                         *)
(* The monotonic timer of the page stops in standby while the wall clock   *)
(* goes on, and the user may set the wall clock.  One request is followed; *)
(* the others of the page, whose replies come in any order, start the      *)
(* resync that serves them all and move the anchor under it.               *)
(*                                                                         *)
(* Only differences of times matter, so that every time is kept relative   *)
(* to the server's clock, in half seconds; the error of the anchor is in   *)
(* quarters, as half of a round trip is added to it.                       *)
(***************************************************************************)
EXTENDS Integers

CONSTANTS
  PROOF_SKEW,     \* seconds the gate tolerates
  CLOCK_DRIFT,    \* CLOCK_DRIFT_MS, in half seconds
  Leg,            \* bound on how long signing and a request, or a reply, take
  Lead,           \* bound on the tries before the challenge is answered
  Pauses, Jumps,  \* lengths of a standby, changes of the wall clock
  MaxError,       \* bound on the error that standby adds up to, in quarters
  MaxDrift        \* bound on how far the wall clock is set from the timer

ASSUME ClockAssumption ==
  /\ {PROOF_SKEW, CLOCK_DRIFT, Leg, Lead, MaxError, MaxDrift} \subseteq Nat
  /\ Pauses \subseteq Nat /\ Jumps \subseteq Int

VARIABLES
  half,           \* the half of a second the server's clock is in: 0 or 1
  clock,          \* the anchor
  resyncing,      \* the exchange of the shared resync
  request         \* the wrapped fetch

clockVars == <<half, clock, resyncing, request>>

Magnitude(n) == IF n < 0 THEN -n ELSE n

\* An exchange: for how long the monotonic timer ran since it was sent, for
\* how long the reply is stamped, whether the device slept on the way
\* (history).
NotStamped == -1
Sent == [mono |-> 0, stamp |-> NotStamped, slept |-> FALSE]
NoExchange == [mono |-> -1, stamp |-> NotStamped, slept |-> FALSE]

\* ts is the signed time less the server's.  A request that is done keeps what
\* the properties ask about.
Fresh(at) ==
  [at |-> at, safe |-> FALSE, attempt |-> 0, ts |-> 0, since |-> 0, skewed |-> FALSE, exchange |-> NoExchange]
Unsent == Fresh("idle")
NoRequest == Fresh("none")

-----------------------------------------------------------------------------

\* syncClock when a reply is received.  The stamp is the whole seconds of the
\* time at which it was made; half a second is added, and half of the round
\* trip.  sound is history: nothing has happened that the page cannot notice.
SyncClockIn(h, x) ==
  [error |-> 2 - 2 * ((h + x.stamp) % 2) - 2 * x.stamp + x.mono,
   drift |-> 0, old |-> FALSE, sound |-> ~x.slept]

SyncClock(x) == SyncClockIn(half, x)

\* Faulty variant: only the age counts.
ClockStaleByAge(c) == c.old

\* clockStale: the anchor is old, or the wall clock and the timer disagree.
ClockStale(c) == c.old \/ Magnitude(c.drift) > CLOCK_DRIFT

\* The end of signProof: the whole seconds of nowSec.
Signed(r, c) ==
  [r EXCEPT !.at = "signed", !.since = 0, !.ts = 2 * ((c.error - 2 * half) \div 4) + half]

\* The head of the loop of the wrapped fetch, where signProof waits for a
\* resync if the anchor is stale.  GET and HEAD are safe to repeat.
Fetch(safe) ==
  /\ request.at = "idle"
  /\ IF ClockStale(clock)
     THEN /\ request' = [request EXCEPT !.at = "waiting", !.safe = safe]
          /\ resyncing' = IF resyncing = NoExchange THEN Sent ELSE resyncing
     ELSE /\ request' = Signed([request EXCEPT !.safe = safe], clock)
          /\ UNCHANGED resyncing
  /\ UNCHANGED <<half, clock>>

\* visibilitychange, or another request of the page.
Visible ==
  /\ ClockStale(clock) /\ resyncing = NoExchange
  /\ resyncing' = Sent
  /\ UNCHANGED <<half, clock, request>>

\* status answers the resync with X-Pow-Now.
StampResync ==
  /\ resyncing # NoExchange /\ resyncing.stamp = NotStamped
  /\ resyncing' = [resyncing EXCEPT !.stamp = 0]
  /\ UNCHANGED <<half, clock, request>>

\* The resync ends with its reply, or with an error or its timeout and then
\* keeps the anchor; whoever waits for it signs.
Resync(replied) ==
  LET c == IF replied THEN SyncClock(resyncing) ELSE [clock EXCEPT !.sound = FALSE]
  IN /\ resyncing # NoExchange
     /\ replied => resyncing.stamp # NotStamped
     /\ clock' = c
     /\ resyncing' = NoExchange
     /\ request' = IF request.at = "waiting" THEN Signed(request, c) ELSE request
     /\ UNCHANGED half

\* The signed request goes out.
SendProof ==
  /\ request.at = "signed"
  /\ request' = [request EXCEPT !.at = "sent",
                   !.exchange = [Sent EXCEPT !.slept = request.exchange.slept]]
  /\ UNCHANGED <<half, clock, resyncing>>

\* The gate compares the timestamp with the whole seconds of its clock, and
\* answers with them.
Handle ==
  /\ request.at = "sent"
  /\ request' = [request EXCEPT !.at = "answered", !.ts = 0, !.since = 0,
                   !.exchange.stamp = 0,
                   !.skewed = Magnitude(request.ts + half) > 2 * PROOF_SKEW]
  /\ UNCHANGED <<half, clock, resyncing>>

\* Faulty variant: the retry keeps the anchor that was rejected.
AdoptedNever(r) == clock

\* syncFromHeader: a reply that blames the timestamp moves the anchor.
Adopted(r) == IF r.skewed THEN SyncClock(r.exchange) ELSE clock

\* The reply of a wrapped fetch: a rejected request that is safe to repeat is
\* signed and sent once more, with the anchor it has just brought.
Reply ==
  LET r == request
      slept == [NoExchange EXCEPT !.slept = r.exchange.slept]
  IN /\ r.at = "answered"
     /\ clock' = Adopted(r)
     /\ request' = IF r.skewed /\ r.attempt = 0 /\ r.safe
                   THEN Signed([r EXCEPT !.attempt = 1, !.skewed = FALSE, !.exchange = slept], Adopted(r))
                   ELSE [r EXCEPT !.at = "done", !.since = 0, !.exchange = slept]
     /\ UNCHANGED <<half, resyncing>>

\* The late reply of another request does the same to the anchor.
OtherReply(mono, stamp) ==
  /\ stamp <= mono /\ mono <= stamp + Leg
  /\ clock' = SyncClock([mono |-> mono, stamp |-> stamp, slept |-> FALSE])
  /\ UNCHANGED <<half, resyncing, request>>

\* The fetch rejects and so does the wrapped one.
Lost ==
  /\ request.at \in {"sent", "answered"}
  /\ request' = [Unsent EXCEPT !.at = "done", !.safe = request.safe, !.attempt = request.attempt]
  /\ UNCHANGED <<half, clock, resyncing>>

\* d half seconds pass, in which the timer of the page runs on or does not.
ExchangeAfter(x, d, runs) ==
  IF x = NoExchange THEN x
  ELSE [mono |-> IF runs THEN x.mono + d ELSE x.mono,
        stamp |-> IF x.stamp = NotStamped THEN x.stamp ELSE x.stamp + d,
        slept |-> x.slept \/ ~runs]

RequestAfter(r, d, runs) ==
  [r EXCEPT !.ts = IF r.at \in {"signed", "sent"} THEN r.ts - d ELSE r.ts,
            !.since = IF runs /\ r.at \in {"signed", "sent", "answered"} THEN r.since + d ELSE r.since,
            !.exchange = IF r.at \in {"sent", "answered"} THEN ExchangeAfter(r.exchange, d, runs)
                         ELSE IF r.at = "signed" THEN [r.exchange EXCEPT !.slept = @ \/ ~runs]
                         ELSE r.exchange]

Elapses(d, runs) ==
  /\ half' = (half + d) % 2
  /\ resyncing' = ExchangeAfter(resyncing, d, runs)
  /\ request' = RequestAfter(request, d, runs)

\* Time goes on; what is under way takes no longer than Leg, and a resync not
\* longer than its timeout.
Later ==
  /\ request.since < Leg
  /\ resyncing.mono < 2 * Leg
  /\ Elapses(1, TRUE)
  /\ UNCHANGED clock

\* CLOCK_MAX_AGE_MS have passed since the anchor was set.
Age ==
  /\ ~ClockStale(clock)
  /\ clock' = [clock EXCEPT !.old = TRUE]
  /\ UNCHANGED <<half, resyncing, request>>

\* The device sleeps: the timer stops, and with it the time of the page.  At
\* most once in an exchange.
Standby(d) ==
  /\ clock.error - 2 * d >= -MaxError /\ clock.drift + d <= MaxDrift
  /\ ~resyncing.slept /\ ~request.exchange.slept
  /\ Elapses(d, FALSE)
  /\ clock' = [clock EXCEPT !.error = @ - 2 * d, !.drift = @ + d]

\* The user or NTP sets the wall clock back, which may make up for a standby.
SetWall(j) ==
  /\ Magnitude(clock.drift - j) <= MaxDrift
  /\ clock' = [clock EXCEPT !.drift = @ - j, !.sound = FALSE]
  /\ UNCHANGED <<half, resyncing, request>>

\* attempt has anchored the clock to the reply of challenge, and counts the
\* round trip from the first of the tries that fetchBounded made.
Anchor(tries, h) ==
  /\ request = NoRequest
  /\ half' = h
  /\ clock' = SyncClockIn(h, [mono |-> tries, stamp |-> 0, slept |-> FALSE])
  /\ request' = Unsent
  /\ UNCHANGED resyncing

ClockInit ==
  /\ half = 0
  /\ clock = SyncClock([mono |-> 0, stamp |-> 0, slept |-> FALSE])
  /\ resyncing = NoExchange
  /\ request = NoRequest

Following ==
  \/ \E safe \in BOOLEAN : Fetch(safe)
  \/ SendProof \/ Handle \/ Reply \/ Lost
  \/ \E stamp \in 0 .. Leg, mono \in 0 .. 2 * Leg : OtherReply(mono, stamp)
  \/ Visible \/ StampResync
  \/ \E replied \in BOOLEAN : Resync(replied)
  \/ Later \/ Age
  \/ \E d \in Pauses : Standby(d)
  \/ \E j \in Jumps : SetWall(j)

\* Until the request is done.
ClockNext ==
  \/ \E tries \in 0 .. Lead, h \in {0, 1} : Anchor(tries, h)
  \/ request.at \notin {"none", "done"} /\ Following

-----------------------------------------------------------------------------

\* A wrong clock costs a request one round trip and nothing else: a GET whose
\* timestamp the gate rejects is repeated with the gate's own time and then
\* accepted, whatever the anchor was worth before, however the replies of other
\* requests and the resync interleave, unless the device slept on the way; and
\* a POST is never sent a second time.
SkewRecovered ==
  /\ ~request.safe => request.attempt = 0
  /\ request.at = "done" /\ request.skewed => ~request.safe \/ request.exchange.slept

\* The longest exchange that may set the anchor.
Longest == IF Lead > 2 * Leg THEN Lead ELSE 2 * Leg

\* A proof runs ahead of the server by no more than half of the longest
\* exchange that may have set the anchor and half a second, and behind by no
\* more than half of a resync, the CLOCK_DRIFT of standby that goes unnoticed
\* and the second that is cut off; whatever the wall clock shows.  Only a
\* failed resync, a wall clock that is set, or sleep within the exchange itself
\* can hide more.
StampedOnTime ==
  request.at = "idle" /\ clock.sound /\ ~ClockStale(clock)
  => 2 * Signed(request, clock).ts \in -(2 * Leg + 2 * CLOCK_DRIFT + 3) .. Longest + 2

-----------------------------------------------------------------------------

(***************************************************************************)
(* What these rest on.                                                     *)
(***************************************************************************)

Exchanges == [mono : Int, stamp : Int, slept : BOOLEAN]
Anchors == [error : Int, drift : Int, old : BOOLEAN, sound : BOOLEAN]
Requests ==
  [at : {"none", "idle", "waiting", "signed", "sent", "answered", "done"}, safe : BOOLEAN,
   attempt : {0, 1}, ts : Int, since : Int, skewed : BOOLEAN, exchange : Exchanges]

ClockType ==
  half \in {0, 1} /\ clock \in Anchors /\ resyncing \in Exchanges /\ request \in Requests

\* How long the ways of a request and of a resync have taken.
ResyncWays ==
  resyncing # NoExchange /\ ~resyncing.slept =>
    resyncing.mono \in 0 .. 2 * Leg /\ resyncing.stamp \in {NotStamped} \union 0 .. resyncing.mono

RequestWays ==
  LET x == request.exchange
  IN /\ request.since \in 0 .. Leg
     /\ ~x.slept =>
          /\ request.at = "sent" => x.mono \in 0 .. request.since
          /\ request.at = "answered" => x.stamp \in 0 .. request.since /\ x.mono \in x.stamp .. x.stamp + Leg

\* The wall clock shows the standby that an anchor has not followed.
AnchorInv ==
  clock.sound => clock.drift >= 0 /\ clock.error + 2 * clock.drift \in -(2 * Leg) .. Longest + 2

\* A retry is signed with the time of the reply that rejected the request.
RetryInv ==
  /\ ~request.safe => request.attempt = 0
  /\ request.attempt = 1 => request.at \in {"signed", "sent", "answered", "done"}
  /\ request.attempt = 1 /\ ~request.exchange.slept =>
       /\ request.at \in {"signed", "sent"} =>
            /\ (request.ts + half) % 2 = 0
            /\ 2 * (request.ts + request.since) \in -(Leg + 3) .. Leg + 2
       /\ request.at \in {"answered", "done"} => ~request.skewed
  /\ request.at = "done" /\ request.skewed => ~request.safe \/ request.exchange.slept

ClockInv == ClockType /\ ResyncWays /\ RequestWays /\ AnchorInv /\ RetryInv

\* What the gate tolerates covers a request's way and half of a reply's.
LegsAreShort == PROOF_SKEW > 0 /\ 3 * Leg <= 4 * PROOF_SKEW

=============================================================================
