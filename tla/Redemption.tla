----------------------------- MODULE Redemption -----------------------------
(***************************************************************************)
(* The bounded one-use table of pow-gate-core (redemption.rs): a fixed     *)
(* array probed linearly from a hash of the token id.  `consume' scans at  *)
(* most ProbeLimit slots; a slot is live while its expiry is later than    *)
(* `now', and only slots that are not live are written.                    *)
(*                                                                         *)
(* The SHA-256 id of a token is taken to be injective, so a token stands   *)
(* for its own id.                                                         *)
(***************************************************************************)
EXTENDS Integers

CONSTANTS
  Tokens,               \* challenge tokens
  NoToken,              \* the all-zero id of a slot never written
  Capacity,             \* entries.len(), 32768 in the zone
  ProbeLimit,           \* 64
  Start                 \* Start[t]: first eight bytes of the id, as a number

ASSUME TokenAssumption == NoToken \notin Tokens
ASSUME CapacityAssumption == Capacity \in Nat
ASSUME ProbeAssumption == ProbeLimit \in Nat \ {0}
ASSUME StartAssumption == Start \in [Tokens -> Nat]

Slots == 0 .. Capacity - 1

Entry == [id : Tokens \union {NoToken}, expires : Int]

EmptyEntry == [id |-> NoToken, expires |-> 0]

\* entries.len().min(64)
Probes == IF Capacity < ProbeLimit THEN Capacity ELSE ProbeLimit

Index(id, probe) == (Start[id] + probe) % Capacity

\* The slots a token may be looked for and written in.
Window(id) == {Index(id, probe) : probe \in 0 .. Probes - 1}

Live(entry, now) == entry.expires > now

\* Faulty variant: any live entry of the window counts as the token's own.
AlreadySpentAnyId(entries, id, now) ==
  \E i \in Window(id) : Live(entries[i], now)

AlreadySpent(entries, id, now) ==
  \E i \in Window(id) : Live(entries[i], now) /\ entries[i].id = id

\* Faulty variant: slots are reclaimed one second early.
FreeProbesEarly(entries, id, now) ==
  {probe \in 0 .. Probes - 1 : ~Live(entries[Index(id, probe)], now + 1)}

FreeProbes(entries, id, now) ==
  {probe \in 0 .. Probes - 1 : ~Live(entries[Index(id, probe)], now)}

FirstFree(entries, id, now) ==
  Index(id, CHOOSE p \in FreeProbes(entries, id, now) :
              \A q \in FreeProbes(entries, id, now) : p <= q)

\* Faulty variant: the scan stops at the first free slot.
ConsumeOutcomeFirstSlot(entries, id, expires, now) ==
  LET free == FreeProbes(entries, id, now)
      hit == \E p \in 0 .. Probes - 1 :
               /\ Live(entries[Index(id, p)], now)
               /\ entries[Index(id, p)].id = id
               /\ \A q \in free : p < q
  IN IF expires <= now THEN "Expired"
     ELSE IF hit THEN "Reused"
     ELSE IF free # {} THEN "Accepted"
     ELSE "Full"

\* The verdict of `consume', in the order of its early returns.  The scan
\* goes on after it has found a free slot, so a live entry anywhere in the
\* window wins over a free slot.
ConsumeOutcome(entries, id, expires, now) ==
  IF expires <= now THEN "Expired"
  ELSE IF AlreadySpent(entries, id, now) THEN "Reused"
  ELSE IF FreeProbes(entries, id, now) # {} THEN "Accepted"
  ELSE "Full"

\* The table `consume' leaves behind.
ConsumeEntries(entries, id, expires, now) ==
  IF ConsumeOutcome(entries, id, expires, now) = "Accepted"
  THEN [entries EXCEPT ![FirstFree(entries, id, now)] =
          [id |-> id, expires |-> expires]]
  ELSE entries
=============================================================================
