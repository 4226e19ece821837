# A TLA+ model of ngx_http_pow_gate

The repository is an nginx module that makes clients earn access: a browser
solves a proof of work (or a client without JavaScript waits), redeems the
signed token once, and receives a signed clearance cookie that lets later
requests pass. This directory models the parts of it that are hard to test,
checks them with TLC on small instances, and proves the safety properties among
them with TLAPS for every instance.

Paths below are relative to the repository: `gate/` stands for
`src/ngx-http-pow-gate/src/` and `core/` for `src/pow-gate-core/src/`.

## 1. The system

### Components, their state and their operations

| component | code | state | operations |
|---|---|---|---|
| one-use table | `core/redemption.rs` | array of `(id, expires)` | `consume`: probe at most 64 slots, find, accept or refuse |
| shared redemption zone | `gate/redemption.rs` | table, high-water clock and issuer in shared memory, one mutex | `configure`, `init_zone`, `activate`, `consume`, `finish` |
| Redis redemption script | `core/redis.rs`, `scripts/redis-epoch.py` | epoch, clock and marker keys with a TTL | `CONSUME`, `HEALTH`, provision, rotate |
| Redis client of a worker | `gate/cluster.rs` | active set, queue, flags, one `Job` per redemption | `redeem`, `connect`, `write`, `read`, `timeout`, `aborted`, `poll`, `complete` |
| challenge, solution | `core/pow.rs`, `gate/engine/pow.rs` | none (signed tokens) | issue, verify |
| no-JS grant | `core/nojs.rs`, `gate/engine/nojs.rs` | none (signed tokens) | issue, pass |
| clearance, proof | `core/clearance.rs`, `core/proof.rs`, `core/context.rs`, `gate/engine/clearance.rs` | none (signed cookies) | issue, check |
| access decision | `gate/access.rs`, `core/decision.rs` | none | allow, deny, verify, challenge |
| request life cycle | `gate/challenge.rs`, `gate/replay.rs`, `gate/body_limit.rs`, `gate/response.rs`, `gate/runtime.rs` | reference count, body in memory or file, counters, cleanup entry of one request | body read, spill, collection, callback, redemption, answer, abort |
| reverse DNS verdict cache | `core/verdict_cache.rs`, `gate/verifier.rs` | map of verdicts, generation, sweep time; channel; resolver threads | `begin`, `complete`, `cancel`, `fcrdns_cached`, `dns_pool` |
| address ranges | `core/ranges.rs` | sorted intervals per family | `add_cidr`, `add_feed_json`, `contains` |
| browser solver | `assets/solver.js` | attempt counters, captured request, navigation marker, clock anchor | `run`, `attempt`, `fetchBounded`, `clearanceAccepted`, `replay`, `syncClock`, the wrapped `fetch` |
| crawler feeds | `core/feeds.rs`, `gate/verifier.rs` | verifier blocks of a cycle, registry of a worker, snapshots behind an atomic pointer | parse, reload, respawn, refresh, read with an age limit |
| difficulty target | `core/target.rs` | none | `2^256 / difficulty`, compare |
| configuration | `gate/config.rs`, `gate/runtime.rs`, `core/cookie.rs` | location settings, key files, resolved locations of a worker | parse, merge, validate, resolve |
| encodings, MAC, cookies, URIs | `core/codec.rs`, `mac.rs`, `cookie.rs`, `uri.rs`, `replay.rs` | none | pure functions |
| observability, module glue | `gate/observability.rs`, `gate/lib.rs` | nginx variables | write once |

### How they interact

* A worker runs one event loop. The access handler reads clearances, and
  either passes the request on, answers it, or starts a body read whose callback
  comes back inside the handler's own call or much later (`RequestLife`).
* Verified tokens go to a redemption store: under a mutex in shared memory
  (`SharedZone`), or over a socket to Redis (`Cluster`), which runs one script
  (`RedisLedger`). The answer decides between the clearance and a refusal.
* The store's identity (random issuer of the zone, or the epoch in Redis) is
  part of the context each token is bound to, so tokens do not survive the store
  that issued them (`Gate`).
* A location's directives are merged and validated by the master, and resolved
  by each worker when the location is first used (`Configuration`); the request
  is then handled under the result (`Served`), which also decides what work it
  demands (`Demand`).
* The verifier's cache is shared between the loop and resolver threads through a
  mutex and a bounded channel (`VerdictCache`); refreshers publish feeds while
  requests read them (`Feeds`), and feeds fill address ranges (`Ranges`).
* The solver talks to all of this over HTTP from a page that can be closed,
  reloaded and challenged again (`Solver`), and leaves behind a clock and a
  wrapped `fetch` that sign the page's later requests (`SolverClock`).

### What is hard

Concurrency: workers over one zone; nodes over one Redis; deadlines, replies
and aborts that end the same job; connect failures nested in the drain loop;
resolver threads that answer late. Failure: a worker killed while it writes an
entry; Redis losing keys or memory; a full channel; one bad feed entry; a failed
reload followed by a respawn; a key file that changes between two locations; a
temporary file that is read back in pieces or not at all; a confirmation that
throws. Order and time: wall clocks that move both ways, TTLs and high-water
marks on different clocks, a timer that stops in standby, expiry between check
and use, health replies that cross an epoch change, a refresh between the two
loads of one reader. Limits: table, queue, cache, channel, body.
`PROJECT.json` lists each hazard at its line with the properties that cover it.

### What makes each component correct

* A token yields at most one clearance, whatever happens to the store; a refusal
  as "already used" is true (`MintedOnce`, `AcceptedOnce`, `ReusedIsHonest`).
* Both stores are the same thing to the rest of the system (`OneUse`).
* The Redis client keeps its limits, frees each job once, answers each request
  once, and recovers.
* Access is earned by a redemption that meets what the location demands now.
* A request is answered once and released, and its body is collected byte for
  byte.
* The work that is accepted is the work that the location demands.
* A configuration that starts means what it says, and locations that share a key
  file or a cookie name agree.
* A DNS verdict is only used while it is recent, and is never applied to a newer
  entry.
* Ranges answer exactly for the addresses that were named, and what a verifier
  reports is true of its sources.
* The solver never posts a token twice, leaves the page only when verified, and
  stops; a wrong clock costs a request at most one retry.

## 2. The modules

    OneUse        <--- implemented by --- SharedZone, RedisLedger
    Redemption    <--- extended by ------ SharedZone
    Cluster, Gate                         (on their own)
    Configuration, Demand <- RequestLife  composed in Served
    Ranges <- Feeds, VerdictCache         composed in Verifier
    Solver, SolverClock                   composed in Page

`MC*` modules give constants their values for TLC; `*Proofs` modules hold the
theorems. `Page` and `Solver` have only numbers as constants and are checked
directly. Operators that are introduced by "Faulty variant" are never used by a
specification; each is a plausible mistake in the operator that follows, and
shows that some property would notice it. The last part of a module, "what the
safety properties rest on", holds its inductive invariant.

**OneUse** is the abstract store: `uses[t]` goes from 0 to 1 at most once, and
never for a token in `closed`, which only grows.

**Redemption** is the table algorithm of `core/redemption.rs` as operators. The
SHA-256 id of a token is taken to be injective.

**SharedZone** is `gate/redemption.rs`. A worker verifies a token (`Verify`,
with the wall clock), takes the mutex and samples the clock (`Lock`), and
consumes and answers (`Consume`). It may be replaced when idle (`Exit`) or die
while it writes the entry (`DieWriting`), when the slot holds any mix of old and
new fields. `CreateZone` is a restart or a change of size: workers of the old
cycle keep the zone they mapped. `SetWall` moves the clock both ways.
`last_now` is the high-water mark of the zone.

**RedisLedger** is the script and the keys it uses. A node sends a job, Redis
executes it later or never, the reply may come after the node gave up.
`Execute` is the script in the order of its early returns; `ExecuteOOM` fails at
its first write, the only one that Redis refuses for lack of memory; `Reclaim` is
key expiry on Redis's clock, moved by `SetTime` at most `MaxBehind` behind its
maximum; `LoseEpoch`, `LoseClock`, `LoseAll` are data loss; `Export`, `Provision`,
`Rotate` are `redis-epoch.py`; `Reload` deploys the epoch file to a node;
`HealthFence` is the failed health script.

**Cluster** is the event loop side of the same redemption: every handler of
`gate/cluster.rs` is one action, and `complete` includes its drain loop, with
connect failures that come back into it. A partial write or a split reply is one
step.

**Gate** puts tokens, grants, clearances and locations together. Tokens are
records that only issuing actions create. Locations differ in kind, level, key,
lifetime and proof requirement, so that a token issued under one is presented
under another. `Passes` is the access handler's answer for a request.

**Configuration** follows directives from the text (`Directive`) through the
merge of http, server and location level and its validation (`Configure`) to
`Resolve`, which a worker does for a location on its first request and where it
reads the key file, whose contents may have changed since. All settings are
merged by one rule; a cookie domain is a record with or without its leading dot.

**Demand** is `Decision::parse`, `assurance_for` and the difficulty target: the
long division of `2^256` and the comparison digit by digit, at a small base, next
to the numbers they stand for. A decision text is its form in the grammar and the
number in it.

**RequestLife** is one request. The access handler routes it; a body read takes a
reference and its callback runs inside the handler's call (`inside`) or later.
The client sends the body in any pieces (`Arrive`) through the counting filter,
nginx may spill what it holds to a file (`Spill`), and `request_body_limited`
collects it from memory or with any sequence of partial reads (`CollectFile`).
Then the page is rendered (`BodyReadyPage`) or the solution verified
(`VerifyBody`) and redeemed, at once or by a job with a cleanup entry (`Redeem`,
`Complete`, `Terminate`). Bytes are numbered in the order in which the client
sends them.

**Served** is `RequestLife` under a location of `Configuration`. A request reads
nothing of the configuration but the resolved location, which never changes, so
a behaviour follows the configuration until a request is accepted and that
request from then on.

**VerdictCache** splits a lookup where the code releases the mutex: `begin`
(`BeginCached`, `BeginMiss`), `TrySend` or `Cancel`, `Recv`, `Complete`. The
names and addresses that DNS yields are free.

**Ranges** has the interval algorithms at small address widths, next to the set
of addresses that the accepted prefixes name.

**Feeds** has the verifier blocks and their parsing, the cycles of the master
(`Reload` that succeeds or fails, `Respawn`), the refresher of each verifier
(`Refresh`, one source at a time, with any document or a failure) and
`verifier_result`, which samples the clock once and loads the snapshots twice
(`Ask`, `FirstLoad`, `SecondLoad`).

**Verifier** puts these three together. They share no variable, so one of them
moves while the others rest.

**Solver** is the control flow of `run`: attempts, bounded fetches, search with
its sequential fallback, verification, confirmation, replay, reload, page close
and the navigation marker. Storage is taken to work, on one URL. A replay that
`fetch` answers with a challenge page ends like one that reaches the content: the
page is written into the same window, where `__POW_STARTED__` keeps `run` from
starting again. A form, a redirect or a reload that is challenged is a new load.

**SolverClock** is the anchor of the page's clock and the wrapped `fetch`. Times
are kept relative to the server's clock, in half seconds (`half` is where in its
second the server is), and the error of the anchor in quarters, because half of a
round trip goes into it. One request is followed; the others are their replies
(`OtherReply`) and the resync they share (`Visible`, `Resync`). `Standby` stops
the timer, `SetWall` moves the wall clock.

**Page** lets the clock run after a `run` that ended in a replay. The clock
depends on nothing `run` did but the reply that anchored it, so it is followed
after the shortest such run.

Assumptions everywhere: MACs and signatures cannot be forged, hashes do not
collide, and random identities (issuers, epochs) do not repeat.

## 3. The runs

| run | instance | checks |
|---|---|---|
| `shared_zone` | 2 workers, 2 tokens, 2 zones, 2 slots probed from the last one | `MintedOnce`, `ReusedIsHonest`, `LiveEntriesKept`, `ImplementsOneUse` |
| `redis` | 1 node, 2 jobs, 2 epochs, clock corrections of 1 with skew 1 | `AcceptedOnce`, `MintedFromAcceptance`, `ReusedIsHonest`, `ImplementsOneUse` |
| `redis_rollback` | corrections of 3 with skew 1 | `AcceptedOnce`, violated |
| `cluster` | 4 requests, 1 connection, queue of 2 | `NoIdleSlot`, `NoDanglingJob`, `FinishedOnce`, `MintIsConfirmed`, `FencedForGood` |
| `cluster_liveness` | 2 requests, AUTH, fair | `EveryJobEnds`, `Recovers` |
| `verifier` | 3 clients, 2 threads, cache of 2, channel of 1; 8 and 2 addresses, prefixes that nest, touch, repeat or are invalid; feeds of up to 2 entries, 2 names, 3 configurations | `NoOrphanEntry`, `ResolvedOnce`, `ConfirmedRecently`, `LiveVerdictsKept`, `LateReplyIgnored`, `EveryLookupEnds`; `Exact`; `ReportIsTrue`, `RegistryOfCycle` |
| `request_life` | 2 locations, 2 directives besides those that turn the gate on, 3 key file contents; limit 3, bodies of up to 4 bytes, every cut; base 4 with 2 digits | `MeansWhatItSays`, `OneKeyPerFile`, `SameNameSameCookie`; `Accounted`, `BodyExact`, `WorkIsDemanded`, `EveryRequestEnds` |
| `capture` | same | `ReplayIsWhole`, violated |
| `gate` | 5 locations, 1 client with 2 keys, 2 issuers, 2 tokens | `AccessIsEarned`, `ProofByRedeemer`, `WaitWasServed` |
| `gate_issuance` | same locations, 1 key | `IssuanceStops`, violated |
| `solver` | 3 attempts, 4 fetches, 2 probes, 3 reloads (the code's own limits); skew 1 s, drift 1 s, legs of half a second | `TokenPostedOnce`, `LeavesVerified`, `NavigationsBounded`, `RunEnds`; `SkewRecovered`, `StampedOnTime` |
| `solver_confirm` | 3 attempts, 4 fetches, 2 probes, 3 reloads | `LeavesConfirmed`, violated |

**Bounds.** Two tokens that hash to the same slot force probing and wrap-around;
torn entries of a dead worker fill the second slot, so that the refusal of a full
window happens too. The wall clock runs to 2, past the expiry of a token with a
lifetime of 1; Redis's clock runs to 3, where the first markers end. One Redis
token suffices since tokens share nothing in Redis but clock and epoch, and one
node since a reload gives it every epoch while its older jobs are still on their
way. In `gate` the context of a token varies by its issuer; the client is the
other half of the same comparison. Four requests over one connection and a queue
of two reach the full pool and a drain over several waiting jobs. Three addresses
over two cache entries reach the full cache and the sweep. The configurations of
`verifier` are one that is accepted, one that is refused and one that names a
verifier twice; time runs past the staleness limit of a feed. Two directives set
one setting at two levels, or two settings of two locations. A body of four bytes
passes the limit of three by one and is cut, spilled and read back in every way;
levels up to 3 at base 4 with two digits have targets with and without remainder,
and `MaxU64` and `MaxI64` are passed by one text each. Standby is shorter or longer than the
drift that the solver notices, and a changed wall clock may cancel it. The bounds
on time, generations and issued tokens are guards of the actions; `verifier`
turns off the deadlock check because time and generations are used up at the end.
Symmetry is only used where no liveness is checked.

**Fairness.** `Cluster`: timers fire (weak fairness of `Timeout` and of the poll
timer), and Redis answers some health check again and again (strong fairness of
the health job's steps; `Recovers` is only promised then). `VerdictCache`: the
loop finishes `fcrdns_cached`, threads keep receiving, a lookup ends; requests
and time need not go on. `Served`: nginx runs what is runnable, and body reads
and jobs have deadlines (`Terminate`, `Complete`); the client and whoever writes
the configuration owe nothing. `Solver` and `Page`: each await has a deadline, a
watchdog or a fixed amount of work, and the clock goes on.

### What the violated runs show

* `redis_rollback`: the comment of `CONSUME` says that the high-water key
  "prevents backward clock adjustments from reopening a token whose spent marker
  already expired". The script raises that key only on accepted or repeated
  redemptions, after the skew check, while markers expire on Redis's own clock.
  A clock that runs ahead, lets the marker expire and is set back further than the
  margin in the TTL covers reopens the token. Within the margin (twice the
  correction is at most skew + 1) the theorem below shows that it cannot.
* `gate_issuance`: `docs/redis.md` says "Transport failures stop new issuance".
  A no-JS grant that comes back too early is answered with a fresh grant without
  asking whether Redis is available. Its redemption is still refused.
* `capture`: a comment of `gate/replay.rs` says "Any reason the request cannot be
  captured (unreadable body, unsafe target) degrades to the plain page".
  `body_ready` takes an unreadable body for an empty one, so that the page
  carries the request without its body.
* `solver_confirm`: `docs/challenge-page.md` says "The solver confirms
  server-side cookie acceptance before replaying a captured request or
  reloading". When the confirmation throws in an attempt that is not the last,
  `ok` is still true and the loop ends as if confirmed.

A fifth disagreement has no run of its own. `core/target.rs` says that at
difficulty 1 "every hash passes", and both it and `docs/protocol.md` ask for a hash
below `floor(2^256 / difficulty)`, which every hash is. But the target of
difficulty 1 is the largest hash, and `hash_below` is strict, so that this one hash
of 2^256 is refused. `WorkIsDemanded` is stated against the documented bound and
names this hash as its only exception; without the exception TLC finds it.

## 4. What is proved

Every theorem holds for any sets of workers, tokens, zones, nodes, jobs, epochs,
requests, addresses, threads, clients, keys and locations and any limits,
lifetimes and skew, under the named assumptions in the modules (names of absent
values are not members, lifetimes and limits are positive). Each rests on an
inductive invariant that TLC also checked on the instance of the run.

**SharedZoneProofs**: `TypeCorrect`, `OneClearancePerToken`,
`ReplayAnswerIsHonest`, `LiveEntriesAreKept`, `ZoneImplementsOneUse`.
`MintedOnce` alone is not inductive. The invariant `IndInv` adds: the clock sample
of the mutex holder is the zone's high-water mark (`SampleIsCurrent`); a worker
holds only tokens its own zone issued (`TokenInHand`); a redeemed token is past
its expiry at the high-water mark, or still has its own intact entry in its own
probe window (`SpentIsRemembered`); an id in any slot, torn or not, belongs to a
token somebody redeemed (`SlotsAreSpent`). Its first lemmas are about the table:
what `consume` returns and which slot it may write.

**RedisLedgerProofs**: `RedisAcceptsOnce`, `ClearancesAreAccepted`,
`RedisReplayIsHonest`, `RedisImplementsOneUse`, under the condition
`ClockIsSteady` (`2 * MaxBehind <= Skew + 1`). The invariant says that an accepted
token is retired by its epoch or a lost clock, or out of date for every clock
reading still possible, or covered by a marker that outlives those readings
(`SpentIsRemembered`), together with bounds on the clocks (`ClockBounds`),
freshness of epochs (`EpochsAreUsed`), and honest replies on their way
(`RepliesAreHonest`, `MintedFromAcceptance`).

**ClusterProofs**: `LimitsAreKept`, `JobsHaveOnePlace`, `AnsweredAtMostOnce`,
`FenceIsPermanent`, `MintNeedsConfirmation`, `WaitingIsFair`. The phase of a job tells where the
runtime holds it and which timer, socket and cleanup entry it owns (`Placed`), and
a fenced worker is not ready (`FenceHolds`). Every job ends in `complete`; what
its drain loop takes from the queue is stated once and used for every handler
(`Drain`): a prefix, so that with `Retained`, which keeps the others in their
order, nobody is overtaken (`FirstComeFirstServed`).

**VerifierProofs**: `EntriesHaveLookups`, `LookupsResolveOnce`, `GrantsAreRecent`,
`FullCacheEvictsNothingLive`, `LateRepliesChangeNothing`, `LookupsKeepTheirTurn`,
for the cache's own `Spec`. The invariant says that no generation is newer than
the counter and none in flight is answered (`NumbersInUse`), that a generation is
in one place (`OnePlace`), and that a positive verdict is backed by a confirmation
that is at least as recent (`VerdictsAreBacked`). A lemma (`VerifierHasItsParts`)
carries the theorems about `Spec`, `RangesSpec` and `FeedsSpec` over to
`VerifierSpec`, which the run checks.

**FeedsProofs**: `RangesAreExact`, for any prefixes and documents and any width of
an address. `Exact` is inductive with the type of the vectors (`RangesInv`),
because it has the order of the vectors in it: in an ordered vector the interval
before the partition point is the only one that can hold an address
(`ContainsMeansCovers`), the intervals that meet a new one are a run
(`InsertProperties`), and merging neighbours in sorted order loses and gains no
address (`MergeStep`, `NormalizeProperties`). `SortedProperties` says that the
sort yields an ordered vector of the same elements, and `IntervalIsNamed` that an
interval holds the addresses which share the leading bits of its prefix.
`RegistryFollowsCycle` and `ReportsAreTrue`, for any configurations, documents and
clients: `FeedsInv` says that the registry is what the accepted configuration
parses to, for a new worker and for one that replaces a dead one; that each place
of a vector holds the ranges of the last good document of its own source, with the
instant of the fetch (`Sources`, `Backed`); and what `verifier_result` knows
between its loads (`Readers`).

**ServedProofs**: `RequestsAreReleasedOnce`, `BodiesAreExact`, for `ServedSafety`,
which is `ServedSpec` without fairness. Where a request stands determines whether
the handler is on the stack, whether a job holds it and whether it was answered
(`Control`), and with these the reference count; the bytes that nginx holds and
those that are collected are the first of the body in order (`Numbered`), and the
filter's counter is their number (`Counted`). `PagesCarryNoPart` is what remains
true of the comment that `capture` refutes: a page carries the whole body or none
of it. And, over the same specification,
`ConfigurationMeansWhatItSays`, `KeysAreShared`, `NamesTellCookiesApart`, for any
locations, values and files, from `ConfigInv`: what runs is the merge of what was
written and passed the validation, and what a worker resolved was built from it
with the key that it keeps for the file. That the merge of merges says what the
nearest block says is a lemma of its own (`MergedIsNearest`). `TargetAdmits` is
about `difficulty_to_target` and `hash_below`, for every difficulty, base and
number of digits (256 and 32 in the code): the hashes below the target of `d` are
those below `floor(2^256 / d)`, without the largest of all where `d = 1`. After each digit
of the long division the part of the dividend read so far is `d` times the digits
written plus the remainder, which is below `d`, so that no digit is cut by its
byte (`LongDivision`, `TargetIsQuotient`); and the first digit in which two hashes
differ decides which number is smaller (`HashBelowIsLess`). From it follows
`SolutionsShowDemandedWork`, with the invariant `DemandInv`: where a body is read
the gate is on, and the difficulty of the worker's `Cfg` is the one written for
its location and above 0, which needs `ConfigInv`.

**GateProofs**: `OnlyEarnedAccess`, `ProofsAreTheRedeemers`, `WaitsAreServed`, and
`OutagesOnlyRefresh`, which bounds what `gate_issuance` shows: while Redis is
unreachable only a grant that came back too early is replaced, for its own client.
Tokens have numbers of their own (`TokensAreNumbered`), every grant has the page
that carried it (`GrantsHavePages`), and every clearance that is prepared or
handed out says what one token was issued for (`ClearancesAreBacked`).

**SolverProofs**: `TokensArePostedOnce`, `LeavesAfterVerify`, `NavigationsEnd`, for
`PageSafety`, which is `PageSpec` without fairness. A token that is
searched for has not been posted (`PostsInv`), `ok` is only true in a load that
was verified (`LeavesInv`), and the marker counts at least the navigations in a
row while `run` works (`MarkerInv`). `SkewIsRecovered` and `ProofsAreOnTime` are
about the clock of the page, for every drift, standby, delay and change of the
wall clock, under `LegsAreShort`: the tolerated skew covers the way of a request
and half that of a reply (with a shorter skew a retry may be late as well). Their
`ClockInv` bounds how long each way has taken (`RequestWays`, `ResyncWays`); an
anchor nothing hidden has happened to is off by half of its exchange and by the
standby that the wall clock shows (`AnchorInv`); and a retry is signed with the
time of the reply that rejected the request (`RetryInv`).

**Induction.** What a loop computes for sequences and numbers of any length is
proved with a few lemmas that stand at the beginning of `FeedsProofs` and
`ServedProofs`: the least element of a set (`LeastNatural`), induction up to a
bound (`UpTo`), the function that a recursion defines (`Recursion`), and the size
of a set that has every predecessor of its members (`InitialSegment`). They take
sets and functions where a text book has predicates and operations, since the
provers find no instances of the latter. Loops of the code are written as
recursive functions over `0 .. n` for the same reason.

**What liveness rests on.** Fairness and ENABLED are outside the prover's reach, so
`EveryJobEnds`, `Recovers`, `EveryLookupEnds`, `EveryRequestEnds` and `RunEnds` are
only model-checked. Their safety halves are proved, for every value of the
constants. `RequestsMoveOn`: each step of a handler, a callback or a job lowers the
distance of a request from its end (`Distance` of `RequestLife`), or reads more of
the file without leaving its place; arrivals and spills never raise it, and at
distance 0 the reference count is 0. `RunsUpItsBudget`: each step of `run` lowers
the attempts, stages, probes, tries or requests that are left, in this order
(`Closer`), except that `solveSequential` goes on while the challenge is not
expired; hiding the page, an expiring challenge and an expiring marker never raise
them. `LookupsKeepTheirTurn`: a lookup stays in its place of the channel, moves one
place up, or goes to one idle thread, which keeps it until it is answered. For the
jobs of `Cluster` it is `JobsHaveOnePlace`: a live job has its deadline armed, and
`complete` ends it. What fairness adds is that the next step is taken. These
action properties were checked with TLC on the instances of `request_life`,
`solver`, `verifier` and `cluster` before they were proved, like the two
properties that bound a finding; no run repeats them.

The four violated properties are refuted by TLC.

## 5. What is not modelled

* Cryptography, encodings, HTML, JSON and the RESP codec: pure functions over
  bytes, reduced to what they accept and yield. The text of a captured request in
  the page (`core/replay.rs`) is one of them; that it refuses a target or a method
  is a free choice.
* Sockets, headers, templates, logging and nginx variables: input and output
  without state of their own.
* The configuration blocks of Redis and of the redemption zone; settings that are
  merged by the same rule as those in `Configuration`.
* The no-JS return path check; the solver's workers in detail, its key storage and
  its display.
* Whether a replayed request was processed when its reply was lost: it depends on
  the upstream and on how the browser resubmits a form.
* Benchmarks and module glue.
