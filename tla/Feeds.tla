-------------------------------- MODULE Feeds --------------------------------
(***************************************************************************)
(* The crawler feeds of a worker: how `pow_gate_verifier' blocks reach its *)
(* registry, how the refresher thread of a verifier publishes the feed of  *)
(* each source, and how verifier_result reads them while they change.      *)
(*                                                                         *)
(* The master parses a new configuration into a map that belongs to the    *)
(* new cycle, and forks workers from the cycle that is active.  A worker   *)
(* starts with empty feeds.  A refresher holds one snapshot per source and *)
(* stores the vector after every source; between fetch and store nothing   *)
(* is shared, so a source is one step.  verifier_result samples the clock  *)
(* once and loads the vector twice, and the refresher runs in between.     *)
(*                                                                         *)
(* `accepted', `served' and the field `truth' of the reader are history:   *)
(* the text of the active configuration, the last good document of each    *)
(* source, and whether the report agrees with them.                        *)
(***************************************************************************)
EXTENDS Ranges

CONSTANTS
  Names,          \* verifier names, in blocks and in decisions
  Clients,        \* client addresses, [family, address]
  Documents,      \* what a source may serve; <<>> for a fetch that fails
  Configs,        \* the sequences of verifier blocks a configuration may hold
  DefaultRefresh, \* 12 h
  DefaultStale,   \* 48 h
  MaxUrls,        \* 32
  MaxPeriod,      \* 365 d
  Jitter,         \* the tenth of `refresh' a sleep is shortened or extended by
  MaxInstant      \* bound on the monotonic clock

VARIABLES
  instant,        \* Instant::now()
  configured,     \* MainConf.verifiers of the active cycle
  registry,       \* the worker's runtime registry
  published,      \* Verifier.ranges of each verifier in the registry
  position,       \* the source its refresher fetches next
  wake,           \* when its refresher goes on
  reader,         \* verifier_result
  accepted,
  served

worker == <<registry, published, position, wake, reader>>
feedsVars == <<instant, configured, worker, accepted, served>>

Unset == -1
Blocks == [name : Names, urls : Nat, refresh : Int, max_stale : Int]

ASSUME FeedsAssumption ==
  /\ DefaultRefresh \in Nat \ {0} /\ DefaultStale \in Nat \ {0}
  /\ DefaultRefresh <= DefaultStale
  /\ MaxUrls \in Nat /\ MaxPeriod \in Nat /\ Jitter \in Nat /\ MaxInstant \in Nat
  /\ Configs \subseteq Seq(Blocks) /\ Documents \subseteq Seq(FeedEntries)
  /\ Clients \subseteq UNION {[family : {f}, address : Addresses(f)] : f \in Families}

NoSnapshot == [ranges |-> Empty, updated |-> -1]
NoDocument == [doc |-> <<>>, at |-> -1]

-----------------------------------------------------------------------------
(* Parsing of the verifier blocks.                                         *)

\* parse_time
TimeOK(t) == t \in 1 .. MaxPeriod

\* verifier_inner on the lines of a block: the Builder, whose defaults hold
\* where a line is missing.
Builder(block) ==
  [urls |-> block.urls,
   refresh |-> IF block.refresh = Unset THEN DefaultRefresh ELSE block.refresh,
   max_stale |-> IF block.max_stale = Unset THEN DefaultStale ELSE block.max_stale]

\* The block is refused, by a line of its own or by register.
Refused(block) ==
  \/ \E t \in {block.refresh, block.max_stale} : t # Unset /\ ~TimeOK(t)
  \/ block.urls > MaxUrls
  \/ Builder(block).max_stale < Builder(block).refresh

\* register: a later block of the same name takes the place of an earlier one.
Register(map, block) ==
  [n \in DOMAIN map \union {block.name} |-> IF n = block.name THEN Builder(block) ELSE map[n]]

Parsed(blocks) ==
  LET map[i \in 0 .. Len(blocks)] == IF i = 0 THEN [n \in {} |-> 0] ELSE Register(map[i - 1], blocks[i])
  IN map[Len(blocks)]

-----------------------------------------------------------------------------
(* Cycles and workers.                                                     *)

Idle == [step |-> "idle"]

\* start_refreshers: the worker's registry is the map of the cycle it was
\* forked from, and a refresher starts for every verifier.
StartRefreshers(map) ==
  /\ registry' = map
  /\ published' = [n \in DOMAIN map |-> [i \in 1 .. map[n].urls |-> NoSnapshot]]
  /\ position' = [n \in DOMAIN map |-> 1]
  /\ wake' = [n \in DOMAIN map |-> instant]
  /\ reader' = Idle
  /\ served' = [n \in DOMAIN map |-> [i \in 1 .. map[n].urls |-> NoDocument]]

\* Faulty variant: the blocks are registered in a map of the process, so that
\* a configuration that is refused later has changed it.
ReloadInPlace(blocks, fails) ==
  /\ configured' = Parsed(blocks)
  /\ IF fails \/ \E i \in DOMAIN blocks : Refused(blocks[i])
     THEN UNCHANGED <<worker, accepted, served>>
     ELSE accepted' = blocks /\ StartRefreshers(Parsed(blocks))
  /\ UNCHANGED instant

\* The master reads a configuration.  A refused block, or a failure anywhere
\* else, drops the new cycle with its map; otherwise the cycle becomes active
\* and a worker is forked from it.
Reload(blocks, fails) ==
  /\ IF fails \/ \E i \in DOMAIN blocks : Refused(blocks[i])
     THEN UNCHANGED <<configured, worker, accepted, served>>
     ELSE /\ configured' = Parsed(blocks)
          /\ accepted' = blocks
          /\ StartRefreshers(Parsed(blocks))
  /\ UNCHANGED instant

\* The worker dies, and the master forks another from the active cycle.
Respawn ==
  /\ StartRefreshers(configured)
  /\ UNCHANGED <<instant, configured, accepted>>

-----------------------------------------------------------------------------
(* The refresher.                                                          *)

\* FeedSnapshot::parse: no snapshot of a document without a usable prefix.
Parses(doc) == doc # <<>> /\ WellFormed(doc)
Snapshot(doc) == [ranges |-> Extended(Empty, doc), updated |-> instant]

\* Faulty variant: a failed fetch empties the place of its source.
ReplacedOrDropped(feeds, i, doc) ==
  [feeds EXCEPT ![i] = IF Parses(doc) THEN Snapshot(doc) ELSE NoSnapshot]

\* A source's snapshot is replaced by a good document only.
Replaced(feeds, i, doc) == IF Parses(doc) THEN [feeds EXCEPT ![i] = Snapshot(doc)] ELSE feeds

\* The body of the loop of spawn_refresher for one source, whose fetch yields
\* doc: <<>> for a failed, timed out or oversized one.  The sleep
\* follows the last source.
Refresh(n, doc) ==
  LET i == position[n]
      last == i = registry[n].urls
  IN /\ registry[n].urls > 0
     /\ instant >= wake[n]
     /\ published' = [published EXCEPT ![n] = Replaced(@, i, doc)]
     /\ served' = IF Parses(doc) THEN [served EXCEPT ![n][i] = [doc |-> doc, at |-> instant]]
                  ELSE served
     /\ position' = [position EXCEPT ![n] = IF last THEN 1 ELSE @ + 1]
     /\ \E j \in -Jitter .. Jitter :
          wake' = [wake EXCEPT ![n] = IF last THEN instant + registry[n].refresh + j ELSE instant]
     /\ UNCHANGED <<instant, configured, registry, reader, accepted>>

-----------------------------------------------------------------------------
(* verifier_result.                                                        *)

\* FeedSnapshot::age saturates: a snapshot may be younger than `now'.
Age(snapshot, now) == IF now > snapshot.updated THEN now - snapshot.updated ELSE 0

FreshSnapshot(snapshot, now, max_stale) == Age(snapshot, now) < max_stale

SnapshotContains(snapshot, client, now, max_stale) ==
  /\ FreshSnapshot(snapshot, now, max_stale)
  /\ ContainsInterval(snapshot.ranges[client.family], client.address)

\* The snapshots a load sees; a source that never answered has none.
Loaded(n) == {published[n][i] : i \in DOMAIN published[n]} \ {NoSnapshot}

\* Reference: some source of the verifier, as configured, last served a
\* document that names the client, less than max_stale before `now'.
Listed(n, client, now) ==
  \E i \in DOMAIN served[n] :
    /\ served[n][i] # NoDocument
    /\ now < served[n][i].at + Parsed(accepted)[n].max_stale
    /\ client.address \in NamedBy(client.family, served[n][i].doc)

Stale(n, now) ==
  \E i \in DOMAIN served[n] :
    served[n][i] # NoDocument /\ now >= served[n][i].at + Parsed(accepted)[n].max_stale

\* The verifier is looked up and the clock sampled.
Ask(n, client) ==
  /\ reader.step \in {"idle", "done"}
  /\ reader' = IF n \in DOMAIN registry
               THEN [step |-> "asked", name |-> n, client |-> client, now |-> instant]
               ELSE [step |-> "done", reason |-> "unknown_verifier", truth |-> n \notin DOMAIN Parsed(accepted)]
  /\ UNCHANGED <<instant, configured, registry, published, position, wake, accepted, served>>

\* The first load: a fresh snapshot with the client confirms it.  Otherwise
\* the reverse DNS verdict may, and then the vector is loaded again.
FirstLoad(dns) ==
  /\ reader.step = "asked"
  /\ LET listed == \E s \in Loaded(reader.name) :
           SnapshotContains(s, reader.client, reader.now, registry[reader.name].max_stale)
         truth == Listed(reader.name, reader.client, reader.now)
     IN reader' = CASE listed -> [step |-> "done", reason |-> "verified_range", truth |-> truth]
                    [] ~listed /\ dns -> [step |-> "done", reason |-> "verified_dns", truth |-> ~truth]
                    [] OTHER -> [step |-> "reload", name |-> reader.name, now |-> reader.now, truth |-> ~truth]
  /\ UNCHANGED <<instant, configured, registry, published, position, wake, accepted, served>>

\* The second load picks the reason to report.
SecondLoad ==
  /\ reader.step = "reload"
  /\ LET stale == \E s \in Loaded(reader.name) :
           ~FreshSnapshot(s, reader.now, registry[reader.name].max_stale)
     IN reader' = [step |-> "done", reason |-> IF stale THEN "feed_stale" ELSE "verifier_unconfirmed",
                   truth |-> reader.truth /\ stale = Stale(reader.name, reader.now)]
  /\ UNCHANGED <<instant, configured, registry, published, position, wake, accepted, served>>

TickInstant ==
  /\ instant < MaxInstant
  /\ instant' = instant + 1
  /\ UNCHANGED <<configured, worker, accepted, served>>

FeedsInit ==
  /\ instant = 0
  /\ configured = [n \in {} |-> 0] /\ accepted = <<>>
  /\ registry = configured /\ published = configured /\ position = configured
  /\ wake = configured /\ served = configured
  /\ reader = Idle

FeedsNext ==
  \/ \E blocks \in Configs, fails \in BOOLEAN : Reload(blocks, fails)
  \/ Respawn
  \/ \E n \in DOMAIN registry, doc \in Documents : Refresh(n, doc)
  \/ \E n \in Names, client \in Clients : Ask(n, client)
  \/ \E dns \in BOOLEAN : FirstLoad(dns)
  \/ SecondLoad
  \/ TickInstant

FeedsSpec == FeedsInit /\ [][FeedsNext]_feedsVars

-----------------------------------------------------------------------------

\* What verifier_result reports is true of the sources, although the refresher
\* publishes and the clock moves between its two loads: "verified_range"
\* exactly for a client that the last good document of some source names,
\* while that document is younger than the max_stale of the active
\* configuration, and "feed_stale" exactly when some document is older.  A
\* failed fetch neither drops nor renews what another source, or an earlier
\* fetch, supplied.
ReportIsTrue == reader.step = "done" => reader.truth

\* "A respawn after a FAILED reload must use its still-active cycle's policy":
\* the registry of every worker is what the last accepted configuration says,
\* and its refreshers keep one place for each source.
RegistryOfCycle ==
  /\ registry = Parsed(accepted)
  /\ \A n \in DOMAIN registry : Len(published[n]) = registry[n].urls

-----------------------------------------------------------------------------
(* What both rest on.                                                      *)

Builders == [urls : Nat, refresh : Nat \ {0}, max_stale : Nat \ {0}]
IsRegistry(map) == DOMAIN map \subseteq Names /\ map \in [DOMAIN map -> Builders]

Snapshots == [ranges : [Families -> Seq(Int \X Int)], updated : Int]
Fetched == [doc : Seq(FeedEntries), at : Int]

\* A place of the vector holds the ranges of the last good document of its
\* source and the instant it was fetched at, or nothing if there was none.
Backed(snapshot, last) ==
  \/ snapshot = NoSnapshot /\ last = NoDocument
  \/ /\ Parses(last.doc) /\ last.at \in Nat
     /\ snapshot = [ranges |-> Extended(Empty, last.doc), updated |-> last.at]

Sources(n) ==
  /\ published[n] \in [1 .. registry[n].urls -> Snapshots]
  /\ served[n] \in [1 .. registry[n].urls -> Fetched]
  /\ registry[n].urls > 0 => position[n] \in 1 .. registry[n].urls
  /\ \A i \in 1 .. registry[n].urls : Backed(published[n][i], served[n][i])

\* verifier_result, from the lookup to the report.
Readers ==
  {Idle}
  \union [step : {"asked"}, name : DOMAIN registry, client : Clients, now : Nat]
  \union [step : {"reload"}, name : DOMAIN registry, now : Nat, truth : {TRUE}]
  \union [step : {"done"}, truth : {TRUE},
          reason : {"unknown_verifier", "verified_range", "verified_dns", "feed_stale", "verifier_unconfirmed"}]

FeedsInv ==
  /\ instant \in Nat
  /\ registry = Parsed(accepted) /\ configured = registry /\ IsRegistry(registry)
  /\ published \in [DOMAIN registry -> Seq(Snapshots)]
  /\ served \in [DOMAIN registry -> Seq(Fetched)]
  /\ position \in [DOMAIN registry -> Nat]
  /\ \A n \in DOMAIN registry : Sources(n)
  /\ reader \in Readers

=============================================================================
