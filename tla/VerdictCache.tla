---------------------------- MODULE VerdictCache ----------------------------
(***************************************************************************)
(* The cache of forward-confirmed reverse DNS verdicts of one verifier,    *)
(* and the pool of resolver threads behind it.                             *)
(*                                                                         *)
(* The event loop of a worker asks for an address: `begin' answers from    *)
(* the cache, or opens an entry under a fresh generation (all under the    *)
(* mutex of the cache).  The mutex is released before the job goes to the  *)
(* bounded channel; if the channel is full the entry is cancelled under a  *)
(* second lock.  Resolver threads take jobs, resolve for as long as they   *)
(* need, and `complete' them under the mutex.  Between any two of these    *)
(* steps the clock may pass the lifetime of the entry.                     *)
(*                                                                         *)
(* A host name is the sequence of its labels.  `confirmed' and `answered'  *)
(* are history: which lookups the resolver answered, and when each address *)
(* was last confirmed.                                                     *)
(***************************************************************************)
EXTENDS Naturals, Sequences, FiniteSets

CONSTANTS
  Ips,          \* client addresses
  Threads,      \* DNS_THREADS resolver threads; none when no thread could start
  NoJob,        \* a thread waiting in recv; the loop between two requests
  Hosts,        \* names the reverse lookup may yield; <<>> when it fails
  FcrdnsSuffixes, \* Verifier.fcrdns_suffixes
  Capacity,     \* DNS_CACHE_ENTRIES
  QueueSize,    \* DNS_QUEUE_CAPACITY
  Ttl,          \* lifetime of a verdict, in seconds
  MaxTime,      \* bound on the monotonic clock
  MaxLookups    \* bound on the generations handed out

ASSUME CacheAssumption ==
  /\ Capacity \in Nat \ {0} /\ QueueSize \in Nat \ {0} /\ Ttl \in Nat \ {0}
  /\ MaxTime \in Nat /\ MaxLookups \in Nat
ASSUME JobAssumption == NoJob \notin [ip : Ips, generation : Nat]
ASSUME HostAssumption == Hosts \union FcrdnsSuffixes \subseteq Seq(STRING)

VARIABLES
  now,          \* Instant::now()
  entries,      \* the HashMap: a function on the cached addresses
  next_sweep,
  generation,
  sending,      \* the job fcrdns_cached holds between begin and try_send
  queue,        \* the sync_channel
  working,      \* the job each resolver thread resolves
  confirmed,    \* history: address -> instant of its last confirmation
  answered,     \* history: generations whose lookup completed
  granted       \* the address the last lookup answered Cached(true) for

cache == <<entries, next_sweep, generation>>
history == <<confirmed, answered>>
vars == <<now, cache, sending, queue, working, history, granted>>

Generations == 1 .. MaxLookups
Never == MaxTime + Ttl + 1

-----------------------------------------------------------------------------

\* Faulty variant: an entry lives one second too long.
FreshLong(entry) == now - entry.at <= Ttl

\* now.saturating_duration_since(entry.at) < self.ttl
Fresh(entry) == now - entry.at < Ttl

Without(f, gone) == [k \in DOMAIN f \ gone |-> f[k]]
With(f, k, e) == [i \in DOMAIN f \union {k} |-> IF i = k THEN e ELSE f[i]]

\* Faulty variant: the sweep empties the cache.
SweptAll(ip) == Without(entries, DOMAIN entries)

\* The entries after `begin' dropped the stale entry of ip and, when the cache
\* is still full and the sweep is due, every other stale entry.
Swept(ip) ==
  LET kept == Without(entries, {ip})
  IN Without(kept, {k \in DOMAIN kept : ~Fresh(kept[k])})

SweepDue(ip) ==
  Cardinality(DOMAIN entries \ {ip}) >= Capacity /\ now >= next_sweep

\* begin answers Cached.
BeginCached(ip) ==
  /\ sending = NoJob
  /\ ip \in DOMAIN entries /\ Fresh(entries[ip])
  /\ granted' = IF entries[ip].verdict THEN {ip} ELSE {}
  /\ UNCHANGED <<now, cache, sending, queue, working, history>>

NoRoom(kept) == Cardinality(DOMAIN kept) >= Capacity

\* begin answers Full or Start: the stale entry of ip goes, a due sweep runs,
\* and a new entry is opened where there is room.
BeginMiss(ip) ==
  LET kept == IF SweepDue(ip) THEN Swept(ip) ELSE Without(entries, {ip})
  IN /\ sending = NoJob
     /\ ip \in DOMAIN entries => ~Fresh(entries[ip])
     /\ next_sweep' = IF SweepDue(ip) THEN now + 1 ELSE next_sweep
     /\ granted' = {}
     /\ \/ /\ NoRoom(kept)
           /\ entries' = kept
           /\ UNCHANGED <<generation, sending>>
        \/ /\ ~NoRoom(kept)
           /\ generation < MaxLookups
           /\ generation' = generation + 1
           /\ entries' = With(kept, ip,
                [verdict |-> FALSE, at |-> now, generation |-> generation'])
           /\ sending' = [ip |-> ip, generation |-> generation']
     /\ UNCHANGED <<now, queue, working, history>>

\* try_send puts the job in the channel.
TrySend ==
  /\ sending # NoJob
  /\ Threads # {} /\ Len(queue) < QueueSize
  /\ queue' = Append(queue, sending)
  /\ sending' = NoJob
  /\ granted' = {}
  /\ UNCHANGED <<now, cache, working, history>>

\* Faulty variant: the refused job leaves its entry behind.
CancelNothing ==
  /\ sending # NoJob
  /\ Threads = {} \/ Len(queue) = QueueSize
  /\ sending' = NoJob
  /\ granted' = {}
  /\ UNCHANGED <<now, cache, queue, working, history>>

\* The generation of the entry of the job is still the one of the job.
Current(job) ==
  job.ip \in DOMAIN entries /\ entries[job.ip].generation = job.generation

\* try_send is refused: there is no pool or the channel is full.  `cancel'
\* then removes the entry.
Cancel ==
  /\ sending # NoJob
  /\ Threads = {} \/ Len(queue) = QueueSize
  /\ entries' = IF Current(sending) THEN Without(entries, {sending.ip}) ELSE entries
  /\ sending' = NoJob
  /\ granted' = {}
  /\ UNCHANGED <<now, next_sweep, generation, queue, working, history>>

\* Faulty variant: the thread only peeks at the job, so it is resolved again
\* and again and every thread has the same one.
RecvPeek(t) ==
  /\ working[t] = NoJob
  /\ queue # <<>>
  /\ working' = [working EXCEPT ![t] = Head(queue)]
  /\ granted' = {}
  /\ UNCHANGED <<now, cache, sending, queue, history>>

\* A resolver thread takes the next job, under the lock of the receiver.
Recv(t) ==
  /\ working[t] = NoJob
  /\ queue # <<>>
  /\ working' = [working EXCEPT ![t] = Head(queue)]
  /\ queue' = Tail(queue)
  /\ granted' = {}
  /\ UNCHANGED <<now, cache, sending, history>>

\* host_matches_suffix: the suffix itself, or a name below it.
HostMatchesSuffix(host, suffix) ==
  /\ host # <<>> /\ suffix # <<>>
  /\ \/ host = suffix
     \/ Len(host) > Len(suffix) /\ SubSeq(host, Len(host) - Len(suffix) + 1, Len(host)) = suffix

\* fcrdns_confirm: one name passes the suffix and the forward check.
FcrdnsConfirm(ip, host, addresses) ==
  (\E s \in FcrdnsSuffixes : HostMatchesSuffix(host, s)) /\ ip \in addresses

\* Reference: some trailing labels of the host are a configured suffix, and
\* the host resolves to the address.
Genuine(ip, host, addresses) ==
  ip \in addresses /\ \E k \in DOMAIN host : SubSeq(host, k, Len(host)) \in FcrdnsSuffixes

\* Faulty variant: the generation is not compared.
CompleteAny(t, host, addresses) ==
  LET job == working[t]
      verdict == FcrdnsConfirm(job.ip, host, addresses)
  IN /\ job # NoJob
     /\ entries' = IF job.ip \in DOMAIN entries
                   THEN [entries EXCEPT ![job.ip].verdict = verdict, ![job.ip].at = now]
                   ELSE entries
     /\ confirmed' = IF Genuine(job.ip, host, addresses) THEN [confirmed EXCEPT ![job.ip] = now] ELSE confirmed
     /\ answered' = answered \union {job.generation}
     /\ working' = [working EXCEPT ![t] = NoJob]
     /\ granted' = {}
     /\ UNCHANGED <<now, next_sweep, generation, sending, queue>>

\* The lookup ends with the names and addresses DNS gave, and `complete' stores
\* the verdict in the entry that asked for it, if that entry is still there.
Complete(t, host, addresses) ==
  LET job == working[t]
      verdict == FcrdnsConfirm(job.ip, host, addresses)
  IN /\ job # NoJob
     /\ entries' = IF Current(job)
                   THEN [entries EXCEPT ![job.ip].verdict = verdict, ![job.ip].at = now]
                   ELSE entries
     /\ confirmed' = IF Genuine(job.ip, host, addresses) THEN [confirmed EXCEPT ![job.ip] = now] ELSE confirmed
     /\ answered' = answered \union {job.generation}
     /\ working' = [working EXCEPT ![t] = NoJob]
     /\ granted' = {}
     /\ UNCHANGED <<now, next_sweep, generation, sending, queue>>

\* reverse_dns finds a name or none, forward_dns the addresses of it or none.
Resolved(t) ==
  \E host \in Hosts, addresses \in {{}, Ips} : Complete(t, host, addresses)

\* A second passes.
Tick ==
  /\ now < MaxTime
  /\ now' = now + 1
  /\ granted' = {}
  /\ UNCHANGED <<cache, sending, queue, working, history>>

Init ==
  /\ now = 0
  /\ entries = [i \in {} |-> 0]
  /\ next_sweep = 0
  /\ generation = 0
  /\ sending = NoJob
  /\ queue = <<>>
  /\ working = [t \in Threads |-> NoJob]
  /\ confirmed = [i \in Ips |-> Never]
  /\ answered = {}
  /\ granted = {}

Next ==
  \/ \E ip \in Ips : BeginCached(ip) \/ BeginMiss(ip)
  \/ TrySend
  \/ Cancel
  \/ \E t \in Threads : Recv(t)
  \/ \E t \in Threads : Resolved(t)
  \/ Tick

Spec == Init /\ [][Next]_vars

(***************************************************************************)
(* The loop finishes fcrdns_cached without waiting for anyone, a thread    *)
(* keeps calling recv, and a lookup of the C library ends (its resolver    *)
(* has a timeout).  Requests and time need not go on.                      *)
(***************************************************************************)
Fairness ==
  /\ WF_vars(TrySend) /\ WF_vars(Cancel)
  /\ \A t \in Threads :
       WF_vars(Recv(t)) /\ WF_vars(Resolved(t))

-----------------------------------------------------------------------------

InFlight ==
  ({sending} \union {queue[i] : i \in DOMAIN queue} \union {working[t] : t \in Threads})
    \ {NoJob}

\* An entry without an answer always has its lookup under way: a refused
\* try_send leaves no pending entry that would answer "not confirmed" for a
\* whole lifetime without anyone asking the resolver.  And the entries stay
\* within Capacity, whatever sweep and cancel leave behind.
NoOrphanEntry ==
  /\ Cardinality(DOMAIN entries) <= Capacity
  /\ \A k \in DOMAIN entries :
       \/ entries[k].generation \in answered
       \/ [ip |-> k, generation |-> entries[k].generation] \in InFlight

\* No lookup is resolved twice: a job is in one place only, and not answered.
ResolvedOnce ==
  /\ \A i, j \in DOMAIN queue : queue[i] = queue[j] => i = j
  /\ \A t \in Threads : working[t] # NoJob =>
       /\ working[t].generation \notin answered
       /\ \A i \in DOMAIN queue : queue[i] # working[t]
       /\ \A u \in Threads : working[u] = working[t] => u = t

\* A request passes as "verified_dns" only if, within the last Ttl, reverse DNS
\* gave its address one name that has a configured suffix and resolves back to
\* the address, however late lookups of older entries end.
ConfirmedRecently == \A ip \in granted : confirmed[ip] <= now /\ now - confirmed[ip] < Ttl

\* "Full caches fail closed rather than evicting live verdicts": a step takes
\* a fresh entry out of the cache only when it cancels that entry's own lookup.
LiveVerdictsKept ==
  [][\A k \in DOMAIN entries :
       Fresh(entries[k]) /\ k \notin DOMAIN entries' =>
         sending = [ip |-> k, generation |-> entries[k].generation]]_vars

\* "Generation IDs prevent late DNS replies changing newer entries": an entry
\* changes in place at most once, by the end of the lookup it was opened for.
LateReplyIgnored ==
  [][\A k \in DOMAIN entries \intersect DOMAIN entries' :
       entries'[k] # entries[k] =>
         \/ entries'[k].generation > entries[k].generation
         \/ /\ entries'[k].generation = entries[k].generation
            /\ answered' = answered \union {entries[k].generation}
            /\ entries[k].generation \notin answered]_vars

\* A lookup only moves on: from the loop to the end of the channel or out of
\* the cache, through the channel in its turn, to one idle thread, and from
\* there to its answer; none is dropped, overtaken or handed to another thread.
LookupsMoveOn ==
  [][/\ sending' # sending /\ sending # NoJob =>
          \/ queue' = Append(queue, sending)
          \/ ~(sending.ip \in DOMAIN entries' /\ entries'[sending.ip].generation = sending.generation)
     /\ \A i \in DOMAIN queue :
          \/ i \in DOMAIN queue' /\ queue'[i] = queue[i]
          \/ i - 1 \in DOMAIN queue' /\ queue'[i - 1] = queue[i]
          \/ i = 1 /\ \E t \in Threads : working[t] = NoJob /\ working'[t] = queue[1]
     /\ \A t \in Threads : working[t] # NoJob /\ working'[t] # working[t] =>
          working'[t] = NoJob /\ working[t].generation \in answered']_vars

\* Every lookup that was opened is answered or its entry is cancelled.
EveryLookupEnds ==
  \A g \in Generations :
    (\E job \in InFlight : job.generation = g)
      ~> ~(\E job \in InFlight : job.generation = g)

-----------------------------------------------------------------------------
(* What the safety properties rest on.                                     *)

Job == [ip : Ips, generation : Nat]
Entry == [verdict : BOOLEAN, at : Nat, generation : Nat]

\* The type of every variable.
TypeOK ==
  /\ now \in Nat /\ next_sweep \in Nat /\ generation \in Nat
  /\ DOMAIN entries \in SUBSET Ips /\ IsFiniteSet(DOMAIN entries)
  /\ entries \in [DOMAIN entries -> Entry]
  /\ sending \in Job \union {NoJob}
  /\ queue \in Seq(Job)
  /\ working \in [Threads -> Job \union {NoJob}]
  /\ confirmed \in [Ips -> Nat]
  /\ answered \in SUBSET Nat
  /\ granted \in SUBSET Ips

\* Nothing is newer than the generation counter, and what is in flight is not
\* answered.
NumbersInUse ==
  /\ \A g \in answered : g <= generation
  /\ \A k \in DOMAIN entries : entries[k].generation <= generation
  /\ \A job \in InFlight : job.generation <= generation /\ job.generation \notin answered

\* No generation is in two places.
OnePlace ==
  /\ \A i, j \in DOMAIN queue : queue[i].generation = queue[j].generation => i = j
  /\ \A t \in Threads : working[t] # NoJob =>
       /\ \A i \in DOMAIN queue : queue[i].generation # working[t].generation
       /\ \A u \in Threads :
            working[u] # NoJob /\ working[u].generation = working[t].generation => u = t
  /\ sending # NoJob =>
       /\ \A i \in DOMAIN queue : queue[i].generation # sending.generation
       /\ \A t \in Threads : working[t] # NoJob => working[t].generation # sending.generation

\* A positive verdict is no younger than the last confirmation of its address.
VerdictsAreBacked ==
  \A k \in DOMAIN entries :
    /\ entries[k].at <= now
    /\ entries[k].verdict => entries[k].at <= confirmed[k] /\ confirmed[k] <= now

IndInv ==
  TypeOK /\ NumbersInUse /\ OnePlace /\ NoOrphanEntry /\ VerdictsAreBacked /\ ConfirmedRecently

=============================================================================
