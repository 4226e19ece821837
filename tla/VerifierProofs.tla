--------------------------- MODULE VerifierProofs ---------------------------
(***************************************************************************)
(* The verdict cache confirms nobody on an old or a foreign answer, for    *)
(* any number of addresses, threads, entries and lookups.                  *)
(*                                                                         *)
(* The argument: a generation is handed out once and its job is in one     *)
(* place only (OnePlace), so an entry is answered by its own lookup or not *)
(* at all; a positive verdict is stamped when its address is confirmed     *)
(* (VerdictsAreBacked), so a fresh one is a recent confirmation.           *)
(***************************************************************************)
EXTENDS Verifier, FiniteSetTheorems, SequenceTheorems, TLAPS

USE DEF cache, history, vars

\* A name that passes the suffix test has a configured suffix as its trailing
\* labels.
LEMMA SuffixIsTrailing ==
  ASSUME NEW host \in Seq(STRING), NEW suffix \in Seq(STRING), HostMatchesSuffix(host, suffix)
  PROVE  \E k \in DOMAIN host : SubSeq(host, k, Len(host)) = suffix
<1>1. Len(host) \in Nat \ {0} /\ Len(suffix) \in Nat \ {0} /\ DOMAIN host = 1 .. Len(host)
  BY EmptySeq DEF HostMatchesSuffix
<1>2. CASE host = suffix
  <2>1. SubSeq(host, 1, Len(host)) = suffix /\ 1 \in DOMAIN host
    BY <1>1, <1>2, SubSeqFull
  <2>2. QED
    BY <2>1
<1>3. CASE Len(host) > Len(suffix) /\ SubSeq(host, Len(host) - Len(suffix) + 1, Len(host)) = suffix
  <2> DEFINE k == Len(host) - Len(suffix) + 1
  <2>1. k \in DOMAIN host
    BY <1>1, <1>3
  <2>2. QED
    BY <1>3, <2>1, Zenon
<1>4. QED
  BY <1>2, <1>3 DEF HostMatchesSuffix

\* fcrdns_confirm confirms genuine names only.
LEMMA ConfirmedIsGenuine ==
  ASSUME NEW ip, NEW host \in Hosts, NEW addresses, FcrdnsConfirm(ip, host, addresses)
  PROVE  Genuine(ip, host, addresses)
<1>1. PICK s \in FcrdnsSuffixes : HostMatchesSuffix(host, s)
  BY DEF FcrdnsConfirm
<1>2. host \in Seq(STRING) /\ s \in Seq(STRING)
  BY HostAssumption
<1>3. QED
  BY <1>1, <1>2, SuffixIsTrailing, Zenon DEF FcrdnsConfirm, Genuine

\* Who is in flight.
LEMMA Flying ==
  ASSUME TypeOK
  PROVE  /\ \A x : x \in InFlight <=>
              /\ x # NoJob
              /\ x = sending \/ (\E i \in DOMAIN queue : x = queue[i]) \/ (\E t \in Threads : x = working[t])
         /\ \A x \in InFlight : x \in Job
         /\ \A i \in DOMAIN queue : queue[i] # NoJob
<1>0. NoJob \notin Job
  BY JobAssumption DEF Job
<1>1. \A i \in DOMAIN queue : queue[i] \in Job /\ queue[i] # NoJob
  BY <1>0 DEF TypeOK
<1>2. \A x : x \in InFlight <=>
              /\ x # NoJob
              /\ x = sending \/ (\E i \in DOMAIN queue : x = queue[i]) \/ (\E t \in Threads : x = working[t])
  BY DEF InFlight
<1>3. QED
  BY <1>1, <1>2, SMTT(30) DEF TypeOK

\* The empty cache satisfies the invariant.
LEMMA InitInv == Init => IndInv
<1> SUFFICES ASSUME Init PROVE IndInv
  OBVIOUS
<1> USE DEF Init
<1>1. DOMAIN entries = {}
  OBVIOUS
<1>2. TypeOK
  <2>1. entries \in [DOMAIN entries -> Entry]
    BY <1>1
  <2>2. Never \in Nat
    BY CacheAssumption DEF Never
  <2>3. QED
    BY <1>1, <2>1, <2>2, FS_EmptySet DEF TypeOK
<1>3. InFlight = {}
  BY <1>2, Flying
<1>4. NumbersInUse /\ OnePlace
  BY <1>1, <1>3 DEF NumbersInUse, OnePlace
<1>5. NoOrphanEntry
  BY <1>1, FS_EmptySet, CacheAssumption DEF NoOrphanEntry
<1>6. QED
  BY <1>1, <1>2, <1>4, <1>5 DEF IndInv, VerdictsAreBacked, ConfirmedRecently

\* begin answers from the cache.
LEMMA CachedStep ==
  ASSUME IndInv, NEW ip \in Ips, BeginCached(ip)
  PROVE  IndInv'
<1> USE DEF BeginCached
<1>1. InFlight' = InFlight
  BY DEF InFlight
<1>2. TypeOK'
  BY DEF IndInv, TypeOK
<1>3. ConfirmedRecently'
  <2>1. CASE entries[ip].verdict
    <3>1. /\ entries[ip].at \in Nat /\ confirmed[ip] \in Nat /\ now \in Nat
          /\ entries[ip].at <= confirmed[ip] /\ confirmed[ip] <= now
          /\ now - entries[ip].at < Ttl
      BY <2>1 DEF IndInv, TypeOK, Entry, VerdictsAreBacked, Fresh
    <3>2. confirmed[ip] <= now /\ now - confirmed[ip] < Ttl
      BY <3>1, CacheAssumption
    <3>3. QED
      BY <2>1, <3>2 DEF ConfirmedRecently
  <2>2. CASE ~entries[ip].verdict
    BY <2>2 DEF ConfirmedRecently
  <2>3. QED
    BY <2>1, <2>2
<1>4. QED
  BY <1>1, <1>2, <1>3 DEF IndInv, NumbersInUse, OnePlace, NoOrphanEntry, VerdictsAreBacked

\* The entries `begin' keeps are entries of before, all but stale ones.
LEMMA KeptEntries ==
  ASSUME IndInv, NEW ip \in Ips, ip \in DOMAIN entries => ~Fresh(entries[ip]),
         NEW kept, kept = IF SweepDue(ip) THEN Swept(ip) ELSE Without(entries, {ip})
  PROVE  /\ DOMAIN kept \subseteq DOMAIN entries /\ ip \notin DOMAIN kept
         /\ kept = [k \in DOMAIN kept |-> entries[k]]
         /\ \A k \in DOMAIN entries : Fresh(entries[k]) => k \in DOMAIN kept
         /\ IsFiniteSet(DOMAIN kept) /\ Cardinality(DOMAIN kept) \in Nat
         /\ Cardinality(DOMAIN kept) <= Capacity
<1>1. /\ DOMAIN kept \subseteq DOMAIN entries /\ ip \notin DOMAIN kept
      /\ kept = [k \in DOMAIN kept |-> entries[k]]
      /\ \A k \in DOMAIN entries : Fresh(entries[k]) => k \in DOMAIN kept
  <2>1. CASE SweepDue(ip)
    BY <2>1 DEF Swept, Without
  <2>2. CASE ~SweepDue(ip)
    BY <2>2 DEF Without
  <2>3. QED
    BY <2>1, <2>2
<1>2. IsFiniteSet(DOMAIN entries) /\ Cardinality(DOMAIN entries) <= Capacity
  BY DEF IndInv, TypeOK, NoOrphanEntry
<1>3. IsFiniteSet(DOMAIN kept) /\ Cardinality(DOMAIN kept) <= Cardinality(DOMAIN entries)
  BY <1>1, <1>2, FS_Subset, Zenon
<1>4. Cardinality(DOMAIN kept) \in Nat /\ Cardinality(DOMAIN entries) \in Nat
  BY <1>2, <1>3, FS_CardinalityType
<1>5. QED
  BY <1>1, <1>2, <1>3, <1>4, CacheAssumption

\* begin finds no room.
LEMMA FullStep ==
  ASSUME IndInv, NEW kept,
         DOMAIN kept \subseteq DOMAIN entries, kept = [k \in DOMAIN kept |-> entries[k]],
         IsFiniteSet(DOMAIN kept), Cardinality(DOMAIN kept) <= Capacity,
         entries' = kept, next_sweep' \in Nat, granted' = {},
         UNCHANGED <<generation, sending, now, queue, working, history>>
  PROVE  IndInv'
<1>1. InFlight' = InFlight
  BY DEF InFlight
<1>2. DOMAIN entries' \subseteq DOMAIN entries /\ \A k \in DOMAIN entries' : entries'[k] = entries[k]
  OBVIOUS
<1>3. TypeOK'
  <2>1. entries' \in [DOMAIN entries' -> Entry]
    BY DEF IndInv, TypeOK
  <2>2. QED
    BY <2>1 DEF IndInv, TypeOK
<1>4. NoOrphanEntry'
  BY <1>1, <1>2 DEF IndInv, NoOrphanEntry
<1>5. NumbersInUse' /\ OnePlace'
  BY <1>1, <1>2 DEF IndInv, NumbersInUse, OnePlace
<1>6. QED
  BY <1>2, <1>3, <1>4, <1>5 DEF IndInv, VerdictsAreBacked, ConfirmedRecently

\* begin opens an entry under a fresh generation.
LEMMA StartStep ==
  ASSUME IndInv, NEW ip \in Ips, NEW kept,
         DOMAIN kept \subseteq DOMAIN entries, kept = [k \in DOMAIN kept |-> entries[k]],
         ip \notin DOMAIN kept,
         IsFiniteSet(DOMAIN kept), Cardinality(DOMAIN kept) \in Nat, Cardinality(DOMAIN kept) < Capacity,
         sending = NoJob, generation' = generation + 1,
         entries' = With(kept, ip, [verdict |-> FALSE, at |-> now, generation |-> generation']),
         sending' = [ip |-> ip, generation |-> generation'],
         next_sweep' \in Nat, granted' = {}, UNCHANGED <<now, queue, working, history>>
  PROVE  IndInv'
<1> DEFINE new == [verdict |-> FALSE, at |-> now, generation |-> generation']
<1>1. generation \in Nat /\ generation' \in Nat /\ generation' > generation /\ now \in Nat
  BY DEF IndInv, TypeOK
<1>2. /\ DOMAIN entries' = DOMAIN kept \union {ip}
      /\ entries'[ip] = new
      /\ \A k \in DOMAIN kept : entries'[k] = entries[k] /\ k \in DOMAIN entries /\ k # ip
      /\ new.generation = generation' /\ new.at = now /\ new.verdict = FALSE
  BY DEF With
<1>3. TypeOK'
  <2>1. new \in Entry /\ sending' \in Job
    BY <1>1 DEF Entry, Job
  <2> HIDE DEF new
  <2>2. entries' \in [DOMAIN entries' -> Entry]
    <3>1. \A k \in DOMAIN entries' : entries'[k] \in Entry
      BY <1>2, <2>1, Zenon DEF IndInv, TypeOK
    <3>2. entries' = [k \in DOMAIN entries' |-> entries'[k]]
      BY DEF With
    <3>3. QED
      BY <3>1, <3>2, Zenon
  <2>3. IsFiniteSet(DOMAIN entries')
    BY <1>2, FS_AddElement
  <2>4. DOMAIN entries' \in SUBSET Ips
    BY <1>2 DEF IndInv, TypeOK
  <2>5. QED
    BY <1>1, <2>1, <2>2, <2>3, <2>4, Zenon DEF IndInv, TypeOK
<1> HIDE DEF new
<1>4. InFlight' = InFlight \union {sending'}
  <2>1. sending' \in [ip : Ips, generation : Nat]
    BY <1>1
  <2>2. sending' # NoJob
    BY <2>1, JobAssumption
  <2>3. QED
    BY <2>2 DEF InFlight
<1>5. \A x \in InFlight : x \in Job /\ x.generation <= generation
  BY Flying DEF IndInv, NumbersInUse
<1>6. NumbersInUse'
  <2>1. generation' \notin answered
    BY <1>1 DEF IndInv, TypeOK, NumbersInUse
  <2>2. \A x \in InFlight' : x.generation <= generation' /\ x.generation \notin answered
    BY <1>1, <1>4, <1>5, <2>1 DEF IndInv, NumbersInUse, Job
  <2>3. \A k \in DOMAIN entries' : entries'[k].generation <= generation'
    <3>1. \A k \in DOMAIN entries : entries[k].generation \in Nat /\ entries[k].generation <= generation
      <4>1. \A k \in DOMAIN entries : entries[k] \in Entry
        BY DEF IndInv, TypeOK
      <4>2. QED
        BY <4>1 DEF IndInv, Entry, NumbersInUse
    <3>2. ASSUME NEW k \in DOMAIN kept PROVE entries'[k].generation <= generation'
      <4>1. entries'[k] = entries[k] /\ k \in DOMAIN entries
        BY <1>2, Zenon
      <4>2. entries[k].generation \in Nat /\ entries[k].generation <= generation
        BY <3>1, <4>1
      <4>3. QED
        BY <1>1, <4>1, <4>2
    <3>3. entries'[ip].generation <= generation'
      BY <1>1, <1>2
    <3>4. QED
      BY <1>2, <3>2, <3>3, Zenon
  <2>4. \A g \in answered' : g <= generation'
    BY <1>1, SMTT(30) DEF IndInv, TypeOK, NumbersInUse
  <2>5. QED
    BY <2>2, <2>3, <2>4, Zenon DEF NumbersInUse
<1>7. OnePlace'
  <2>1. \A i \in DOMAIN queue : queue[i].generation # generation'
    BY <1>1, <1>5, Flying DEF IndInv, Job
  <2>2. \A t \in Threads : working[t] # NoJob => working[t].generation # generation'
    BY <1>1, <1>5, Flying DEF IndInv, Job
  <2>3. QED
    BY <2>1, <2>2 DEF IndInv, OnePlace
<1>8. NoOrphanEntry'
  <2>1. Cardinality(DOMAIN entries') <= Capacity
    <3>1. Cardinality(DOMAIN entries') = Cardinality(DOMAIN kept) + 1
      BY <1>2, FS_AddElement
    <3>2. QED
      BY <3>1, CacheAssumption
  <2>2. [ip |-> ip, generation |-> entries'[ip].generation] \in InFlight'
    BY <1>2, <1>4
  <2>3. \A k \in DOMAIN kept : \/ entries'[k].generation \in answered
                              \/ [ip |-> k, generation |-> entries'[k].generation] \in InFlight'
    BY <1>2, <1>4, Zenon DEF IndInv, NoOrphanEntry
  <2>4. QED
    BY <1>2, <2>1, <2>2, <2>3, Zenon DEF NoOrphanEntry
<1>9. VerdictsAreBacked' /\ ConfirmedRecently'
  <2>1. ASSUME NEW k \in DOMAIN kept
        PROVE  /\ entries'[k].at <= now
               /\ entries'[k].verdict => entries'[k].at <= confirmed[k] /\ confirmed[k] <= now
    BY <1>2, Zenon DEF IndInv, VerdictsAreBacked
  <2>2. entries'[ip].at <= now /\ ~entries'[ip].verdict
    BY <1>1, <1>2
  <2>3. QED
    BY <1>2, <2>1, <2>2, Zenon DEF VerdictsAreBacked, ConfirmedRecently
<1>10. QED
  BY <1>3, <1>6, <1>7, <1>8, <1>9 DEF IndInv

\* The job goes from the loop into the channel.
LEMMA SendStep ==
  ASSUME IndInv, TrySend
  PROVE  IndInv'
<1> USE DEF TrySend
<1>1. sending \in Job /\ queue \in Seq(Job) /\ Len(queue) \in Nat /\ DOMAIN queue = 1 .. Len(queue)
  BY DEF IndInv, TypeOK
<1>2. /\ queue' \in Seq(Job) /\ DOMAIN queue' = 1 .. Len(queue) + 1
      /\ \A i \in 1 .. Len(queue) : queue'[i] = queue[i]
      /\ queue'[Len(queue) + 1] = sending
  <2>1. queue' = Append(queue, sending)
    OBVIOUS
  <2> HIDE DEF TrySend
  <2>2. QED
    BY <1>1, <2>1, AppendProperties
<1>3. TypeOK'
  BY <1>2 DEF IndInv, TypeOK
<1>4. InFlight' = InFlight
  <2>1. \A x : (\E i \in DOMAIN queue' : x = queue'[i]) <=> (\E i \in DOMAIN queue : x = queue[i]) \/ x = sending
    BY <1>1, <1>2
  <2>2. ASSUME NEW x PROVE x \in InFlight <=> x \in InFlight'
    BY <2>1 DEF InFlight
  <2>3. QED
    BY <2>2, Zenon
<1>5. OnePlace'
  <2>1. \A i \in DOMAIN queue : queue[i].generation # sending.generation
    BY DEF IndInv, OnePlace
  <2>2. \A t \in Threads : working[t] # NoJob => working[t].generation # sending.generation
    BY DEF IndInv, OnePlace
  <2>3. \A i, j \in DOMAIN queue' : queue'[i].generation = queue'[j].generation => i = j
    BY <1>1, <1>2, <2>1 DEF IndInv, OnePlace
  <2>4. \A t \in Threads : working[t] # NoJob =>
          \A i \in DOMAIN queue' : queue'[i].generation # working[t].generation
    BY <1>1, <1>2, <2>2 DEF IndInv, OnePlace
  <2>5. QED
    BY <2>3, <2>4 DEF IndInv, OnePlace
<1>6. QED
  BY <1>3, <1>4, <1>5 DEF IndInv, NumbersInUse, NoOrphanEntry, VerdictsAreBacked, ConfirmedRecently

\* A refused job takes its entry with it.
LEMMA CancelStep ==
  ASSUME IndInv, Cancel
  PROVE  IndInv'
<1> USE DEF Cancel
<1>1. /\ DOMAIN entries' \subseteq DOMAIN entries
      /\ \A k \in DOMAIN entries' : entries'[k] = entries[k]
      /\ entries' = [k \in DOMAIN entries' |-> entries[k]]
      /\ Current(sending) => sending.ip \notin DOMAIN entries'
  BY DEF Without, IndInv, TypeOK
<1>2. TypeOK'
  <2>1. IsFiniteSet(DOMAIN entries')
    BY <1>1, FS_Subset, Zenon DEF IndInv, TypeOK
  <2>2. entries' \in [DOMAIN entries' -> Entry]
    BY <1>1, Zenon DEF IndInv, TypeOK
  <2>3. QED
    BY <1>1, <2>1, <2>2, Zenon DEF IndInv, TypeOK
<1>3. InFlight' \subseteq InFlight /\ \A x \in InFlight : x # sending => x \in InFlight'
  BY DEF InFlight
<1>4. Cardinality(DOMAIN entries') <= Capacity
  <2>1. IsFiniteSet(DOMAIN entries) /\ Cardinality(DOMAIN entries) <= Capacity
    BY DEF IndInv, TypeOK, NoOrphanEntry
  <2>2. IsFiniteSet(DOMAIN entries') /\ Cardinality(DOMAIN entries') <= Cardinality(DOMAIN entries)
    BY <1>1, <2>1, FS_Subset, Zenon
  <2>3. Cardinality(DOMAIN entries) \in Nat /\ Cardinality(DOMAIN entries') \in Nat
    BY <2>1, <2>2, FS_CardinalityType
  <2>4. QED
    BY <2>1, <2>2, <2>3, CacheAssumption
<1>5. NoOrphanEntry'
  <2>1. ASSUME NEW k \in DOMAIN entries'
        PROVE  \/ entries'[k].generation \in answered
               \/ [ip |-> k, generation |-> entries'[k].generation] \in InFlight'
    <3> DEFINE job == [ip |-> k, generation |-> entries[k].generation]
    <3>1. entries'[k] = entries[k] /\ k \in DOMAIN entries
      BY <1>1, Zenon
    <3>2. job # sending
      <4> SUFFICES ASSUME job = sending PROVE FALSE
        OBVIOUS
      <4>1. sending.ip = k /\ sending.generation = entries[k].generation
        OBVIOUS
      <4>2. Current(sending)
        BY <3>1, <4>1 DEF Current
      <4>3. QED
        BY <1>1, <4>1, <4>2
    <3>3. entries[k].generation \in answered \/ job \in InFlight
      BY <3>1 DEF IndInv, NoOrphanEntry
    <3>4. QED
      BY <1>3, <3>1, <3>2, <3>3, Zenon
  <2>2. QED
    BY <1>4, <2>1, Zenon DEF NoOrphanEntry
<1>6. NumbersInUse' /\ OnePlace'
  BY <1>1, <1>3, ZenonT(40) DEF IndInv, NumbersInUse, OnePlace
<1>7. QED
  BY <1>1, <1>2, <1>5, <1>6, Zenon DEF IndInv, VerdictsAreBacked, ConfirmedRecently

\* The job goes from the channel to a thread.
LEMMA RecvStep ==
  ASSUME IndInv, NEW t \in Threads, Recv(t)
  PROVE  IndInv'
<1> USE DEF Recv
<1> DEFINE first == queue[1]
<1>1. /\ queue \in Seq(Job) /\ Len(queue) \in Nat \ {0} /\ DOMAIN queue = 1 .. Len(queue)
      /\ first \in Job /\ Head(queue) = first
  BY EmptySeq DEF IndInv, TypeOK
<1>2. /\ queue' \in Seq(Job) /\ DOMAIN queue' = 1 .. Len(queue) - 1
      /\ \A i \in 1 .. Len(queue) - 1 : queue'[i] = queue[i + 1] /\ i + 1 \in DOMAIN queue /\ i + 1 # 1
  BY <1>1, HeadTailProperties
<1>3. working' = [u \in Threads |-> IF u = t THEN first ELSE working[u]]
  BY <1>1, Zenon DEF IndInv, TypeOK
<1>4. first # NoJob
  BY <1>1, JobAssumption DEF Job
<1>5. TypeOK'
  BY <1>1, <1>2, <1>3 DEF IndInv, TypeOK
<1> HIDE DEF first
<1>6. InFlight' = InFlight
  <2>1. \A x : (\E i \in DOMAIN queue : x = queue[i]) <=> (\E i \in DOMAIN queue' : x = queue'[i]) \/ x = first
    <3>1. ASSUME NEW i \in DOMAIN queue
          PROVE  (\E k \in DOMAIN queue' : queue[i] = queue'[k]) \/ queue[i] = first
      <4>1. CASE i = 1
        BY <4>1 DEF first
      <4>2. CASE i # 1
        <5>1. i - 1 \in DOMAIN queue' /\ (i - 1) + 1 = i
          BY <1>1, <1>2, <4>2
        <5>2. queue'[i - 1] = queue[i]
          BY <1>2, <5>1
        <5>3. QED
          BY <5>1, <5>2
      <4>3. QED
        BY <4>1, <4>2
    <3>2. 1 \in DOMAIN queue /\ queue[1] = first
      BY <1>1 DEF first
    <3>3. QED
      BY <1>2, <3>1, <3>2
  <2>2. \A x : x # NoJob =>
          ((\E u \in Threads : x = working'[u]) <=> (\E u \in Threads : x = working[u]) \/ x = first)
    BY <1>3
  <2>3. ASSUME NEW x PROVE x \in InFlight <=> x \in InFlight'
    <3>1. x \in InFlight <=>
            /\ x # NoJob
            /\ x = sending \/ (\E i \in DOMAIN queue : x = queue[i]) \/ (\E u \in Threads : x = working[u])
      BY DEF InFlight
    <3>2. x \in InFlight' <=>
            /\ x # NoJob
            /\ x = sending \/ (\E i \in DOMAIN queue' : x = queue'[i]) \/ (\E u \in Threads : x = working'[u])
      BY DEF InFlight
    <3>3. QED
      BY <2>1, <2>2, <3>1, <3>2, ZenonT(40)
  <2>4. QED
    BY <2>3, Zenon
<1>7. OnePlace'
  <2> USE DEF IndInv, OnePlace
  <2>1. \A i \in DOMAIN queue : i # 1 => queue[i].generation # first.generation
    BY <1>1 DEF first
  <2>2. \A u \in Threads : working[u] # NoJob => working[u].generation # first.generation
    BY <1>1 DEF first
  <2>3. \A i, j \in DOMAIN queue' : queue'[i].generation = queue'[j].generation => i = j
    <3> SUFFICES ASSUME NEW i \in DOMAIN queue', NEW j \in DOMAIN queue',
                        queue'[i].generation = queue'[j].generation
                 PROVE  i = j
      OBVIOUS
    <3>1. queue[i + 1].generation = queue[j + 1].generation /\ i + 1 \in DOMAIN queue /\ j + 1 \in DOMAIN queue
      BY <1>2
    <3>2. i + 1 = j + 1
      BY <3>1
    <3>3. QED
      BY <1>1, <1>2, <3>2
  <2>4. \A i \in DOMAIN queue' : queue'[i].generation # first.generation
    BY <1>2, <2>1
  <2>5. ASSUME NEW u \in Threads, working'[u] # NoJob
        PROVE  \A i \in DOMAIN queue' : queue'[i].generation # working'[u].generation
    BY <1>2, <1>3, <2>4, <2>5
  <2>6. ASSUME NEW u \in Threads, NEW v \in Threads, working'[u] # NoJob, working'[v] # NoJob,
               working'[u].generation = working'[v].generation
        PROVE  u = v
    BY <1>3, <2>2, <2>6
  <2>7. sending # NoJob => first.generation # sending.generation
    BY <1>1 DEF first
  <2>8. sending # NoJob =>
          /\ \A i \in DOMAIN queue' : queue'[i].generation # sending.generation
          /\ \A u \in Threads : working'[u] # NoJob => working'[u].generation # sending.generation
    BY <1>2, <1>3, <2>7
  <2>9. QED
    BY <2>3, <2>5, <2>6, <2>8
<1>8. QED
  BY <1>5, <1>6, <1>7 DEF IndInv, NumbersInUse, NoOrphanEntry, VerdictsAreBacked, ConfirmedRecently

\* A lookup ends: its verdict goes into its own entry, if that is still there.
LEMMA ResolvedStep ==
  ASSUME IndInv, NEW t \in Threads, NEW host \in Hosts, NEW addresses, Complete(t, host, addresses)
  PROVE  IndInv'
<1> DEFINE job == working[t]
           verdict == FcrdnsConfirm(job.ip, host, addresses)
<1>1. /\ job \in Job /\ job # NoJob /\ job.ip \in Ips /\ job.generation \in Nat
      /\ now \in Nat /\ now' = now
  BY DEF Complete, IndInv, TypeOK, Job
<1>2. /\ entries' = IF Current(job)
                    THEN [entries EXCEPT ![job.ip].verdict = verdict, ![job.ip].at = now]
                    ELSE entries
      /\ confirmed' = IF Genuine(job.ip, host, addresses) THEN [confirmed EXCEPT ![job.ip] = now]
                      ELSE confirmed
      /\ answered' = answered \union {job.generation}
      /\ working' = [working EXCEPT ![t] = NoJob]
      /\ granted' = {}
      /\ UNCHANGED <<now, next_sweep, generation, sending, queue>>
  BY DEF Complete
<1>3. verdict \in BOOLEAN /\ (verdict => confirmed' = [confirmed EXCEPT ![job.ip] = now])
  BY <1>2, ConfirmedIsGenuine DEF FcrdnsConfirm
<1> HIDE DEF job, verdict
<1>4. \A k \in DOMAIN entries : entries[k] \in Entry
  BY DEF IndInv, TypeOK
<1>5. DOMAIN entries' = DOMAIN entries
  BY <1>2
<1>6. ASSUME NEW k \in DOMAIN entries
      PROVE  /\ entries'[k] \in Entry
             /\ entries'[k].generation = entries[k].generation
             /\ entries'[k] = entries[k] \/ (k = job.ip /\ entries'[k].at = now /\ entries'[k].verdict = verdict)
  <2>1. CASE Current(job) /\ k = job.ip
    <3>1. entries'[k] = [entries[k] EXCEPT !.verdict = verdict, !.at = now]
      BY <1>2, <2>1
    <3>2. QED
      BY <1>1, <1>3, <1>4, <2>1, <3>1, Zenon DEF Entry
  <2>2. CASE ~(Current(job) /\ k = job.ip)
    <3>1. entries'[k] = entries[k]
      BY <1>2, <2>2
    <3>2. QED
      BY <1>4, <3>1
  <2>3. QED
    BY <2>1, <2>2
<1>7. confirmed' \in [Ips -> Nat] /\ \A k \in Ips : confirmed'[k] = now \/ confirmed'[k] = confirmed[k]
  BY <1>1, <1>2 DEF IndInv, TypeOK
<1>8. \A u \in Threads : working'[u] = IF u = t THEN NoJob ELSE working[u]
  BY <1>2 DEF IndInv, TypeOK
<1>9. TypeOK'
  <2>1. entries' \in [DOMAIN entries' -> Entry]
    <3>1. entries' = [k \in DOMAIN entries' |-> entries'[k]]
      BY <1>2, Zenon DEF IndInv, TypeOK
    <3>2. QED
      BY <1>5, <1>6, <3>1
  <2>2. working' \in [Threads -> Job \union {NoJob}]
    BY <1>2 DEF IndInv, TypeOK
  <2>3. QED
    BY <1>1, <1>2, <1>5, <1>7, <2>1, <2>2 DEF IndInv, TypeOK
<1>10. \A x \in InFlight' : x \in InFlight /\ x.generation # job.generation
  <2>1. ASSUME NEW x \in InFlight' PROVE x \in InFlight
    BY <1>2, <1>8 DEF InFlight
  <2>2. ASSUME NEW x \in InFlight' PROVE x.generation # job.generation
    <3>1. CASE x = sending /\ x # NoJob
      BY <1>1, <3>1 DEF IndInv, OnePlace, job
    <3>2. CASE \E i \in DOMAIN queue : x = queue[i]
      BY <1>1, <3>2 DEF IndInv, OnePlace, job
    <3>3. CASE \E u \in Threads : x = working'[u] /\ x # NoJob
      <4>1. PICK u \in Threads : x = working[u] /\ u # t /\ x # NoJob
        BY <1>8, <3>3
      <4>2. QED
        BY <1>1, <4>1 DEF IndInv, OnePlace, job
    <3>4. QED
      BY <1>2, <3>1, <3>2, <3>3 DEF InFlight
  <2>3. QED
    BY <2>1, <2>2
<1>11. \A x \in InFlight : x # job => x \in InFlight'
  BY <1>2, <1>8 DEF InFlight, job
<1>12. NumbersInUse'
  <2>1. job \in InFlight
    BY <1>1 DEF InFlight, job
  <2>2. job.generation <= generation
    BY <2>1 DEF IndInv, NumbersInUse
  <2>3. \A x \in InFlight' : x.generation <= generation /\ x.generation \notin answered'
    BY <1>2, <1>10 DEF IndInv, NumbersInUse
  <2>4. \A k \in DOMAIN entries' : entries'[k].generation <= generation
    BY <1>5, <1>6 DEF IndInv, NumbersInUse
  <2>5. \A g \in answered' : g <= generation
    BY <1>2, <2>2 DEF IndInv, NumbersInUse
  <2>6. QED
    BY <1>2, <2>3, <2>4, <2>5 DEF NumbersInUse
<1>13. OnePlace'
  BY <1>2, <1>8 DEF IndInv, OnePlace
<1>14. NoOrphanEntry'
  <2>1. ASSUME NEW k \in DOMAIN entries
        PROVE  \/ entries'[k].generation \in answered'
               \/ [ip |-> k, generation |-> entries'[k].generation] \in InFlight'
    <3> DEFINE own == [ip |-> k, generation |-> entries[k].generation]
    <3>1. entries[k].generation \in answered \/ own \in InFlight
      BY DEF IndInv, NoOrphanEntry
    <3>2. own = job => entries[k].generation = job.generation
      OBVIOUS
    <3>3. entries'[k].generation = entries[k].generation
      BY <1>6
    <3>4. QED
      BY <1>2, <1>11, <3>1, <3>2, <3>3
  <2>2. QED
    BY <1>5, <2>1 DEF IndInv, NoOrphanEntry
<1>15. VerdictsAreBacked'
  <2>1. ASSUME NEW k \in DOMAIN entries
        PROVE  /\ entries'[k].at <= now
               /\ entries'[k].verdict => entries'[k].at <= confirmed'[k] /\ confirmed'[k] <= now
    <3>1. k \in Ips /\ confirmed[k] \in Nat /\ entries[k].at \in Nat
      BY <1>4 DEF IndInv, TypeOK, Entry
    <3>2. CASE entries'[k] = entries[k]
      <4>1. /\ entries[k].at <= now
            /\ entries[k].verdict => entries[k].at <= confirmed[k] /\ confirmed[k] <= now
        BY DEF IndInv, VerdictsAreBacked
      <4>2. confirmed'[k] = now \/ confirmed'[k] = confirmed[k]
        BY <1>7, <3>1
      <4>3. entries[k].verdict => entries[k].at <= confirmed'[k] /\ confirmed'[k] <= now
        BY <1>1, <3>1, <4>1, <4>2
      <4>4. QED
        BY <3>2, <4>1, <4>3
    <3>3. CASE k = job.ip /\ entries'[k].at = now /\ entries'[k].verdict = verdict
      <4>1. verdict => confirmed'[k] = now
        BY <1>3, <3>1, <3>3 DEF IndInv, TypeOK
      <4>2. QED
        BY <1>1, <3>3, <4>1
    <3>4. QED
      BY <1>6, <3>2, <3>3
  <2>2. QED
    BY <1>2, <1>5, <2>1 DEF VerdictsAreBacked
<1>16. QED
  BY <1>2, <1>9, <1>12, <1>13, <1>14, <1>15 DEF IndInv, ConfirmedRecently

\* A second passes.
LEMMA TickStep ==
  ASSUME IndInv, Tick
  PROVE  IndInv'
<1> USE DEF Tick
<1>1. now \in Nat /\ now' = now + 1
  BY DEF IndInv, TypeOK
<1>2. InFlight' = InFlight
  BY DEF InFlight
<1>3. VerdictsAreBacked'
  <2>1. ASSUME NEW k \in DOMAIN entries
        PROVE  /\ entries[k].at <= now'
               /\ entries[k].verdict => entries[k].at <= confirmed[k] /\ confirmed[k] <= now'
    <3>1. entries[k].at \in Nat /\ confirmed[k] \in Nat
      BY DEF IndInv, TypeOK, Entry
    <3>2. QED
      BY <1>1, <3>1 DEF IndInv, VerdictsAreBacked
  <2>2. QED
    BY <2>1 DEF VerdictsAreBacked
<1>4. TypeOK'
  BY <1>1 DEF IndInv, TypeOK
<1>5. QED
  BY <1>2, <1>3, <1>4 DEF IndInv, NumbersInUse, OnePlace, NoOrphanEntry, ConfirmedRecently

\* Every step keeps the invariant.
LEMMA NextInv == IndInv /\ [Next]_vars => IndInv'
<1> SUFFICES ASSUME IndInv, [Next]_vars PROVE IndInv'
  OBVIOUS
<1>1. ASSUME NEW ip \in Ips, BeginMiss(ip) PROVE IndInv'
  <2> DEFINE kept == IF SweepDue(ip) THEN Swept(ip) ELSE Without(entries, {ip})
  <2>1. /\ DOMAIN kept \subseteq DOMAIN entries /\ ip \notin DOMAIN kept
        /\ kept = [k \in DOMAIN kept |-> entries[k]]
        /\ IsFiniteSet(DOMAIN kept) /\ Cardinality(DOMAIN kept) \in Nat
        /\ Cardinality(DOMAIN kept) <= Capacity
    BY <1>1, KeptEntries, Zenon DEF BeginMiss
  <2>2. next_sweep' \in Nat /\ granted' = {} /\ sending = NoJob
    BY <1>1 DEF BeginMiss, IndInv, TypeOK
  <2>3. CASE entries' = kept /\ UNCHANGED <<generation, sending>>
    BY <1>1, <2>1, <2>2, <2>3, FullStep, SMTT(30) DEF BeginMiss
  <2>4. CASE /\ ~NoRoom(kept) /\ generation' = generation + 1
             /\ entries' = With(kept, ip, [verdict |-> FALSE, at |-> now, generation |-> generation'])
             /\ sending' = [ip |-> ip, generation |-> generation']
    <3>1. Cardinality(DOMAIN kept) < Capacity
      BY <2>1, <2>4, CacheAssumption DEF NoRoom
    <3>2. UNCHANGED <<now, queue, working, history>>
      BY <1>1 DEF BeginMiss
    <3> HIDE DEF kept
    <3>3. QED
      BY <2>1, <2>2, <2>4, <3>1, <3>2, StartStep
  <2>5. QED
    BY <1>1, <2>3, <2>4 DEF BeginMiss
<1>2. ASSUME NEW t \in Threads, Resolved(t) PROVE IndInv'
  BY <1>2, ResolvedStep DEF Resolved
<1>3. CASE UNCHANGED vars
  <2>1. InFlight' = InFlight
    BY <1>3 DEF InFlight
  <2>2. TypeOK'
    BY <1>3 DEF IndInv, TypeOK
  <2>3. QED
    BY <1>3, <2>1, <2>2 DEF IndInv, NumbersInUse, OnePlace, NoOrphanEntry, VerdictsAreBacked, ConfirmedRecently
<1>4. QED
  BY <1>1, <1>2, <1>3, CachedStep, SendStep, CancelStep, RecvStep, TickStep DEF Next

LEMMA Invariance == Spec => []IndInv
BY InitInv, NextInv, PTL DEF Spec

-----------------------------------------------------------------------------

(***************************************************************************)
(* The cache never holds more than Capacity entries, and each entry has    *)
(* been answered or has its lookup under way: `cancel' takes back what a   *)
(* refused try_send would leave behind.                                    *)
(***************************************************************************)
THEOREM EntriesHaveLookups == Spec => []NoOrphanEntry
<1>1. IndInv => NoOrphanEntry
  BY DEF IndInv
<1>2. QED
  BY <1>1, Invariance, PTL

(***************************************************************************)
(* A lookup is in the channel or with one thread, never in two places, and *)
(* never again after its answer: recv hands each job to one thread.        *)
(***************************************************************************)
THEOREM LookupsResolveOnce == Spec => []ResolvedOnce
<1>1. IndInv => ResolvedOnce
  <2> SUFFICES ASSUME IndInv PROVE ResolvedOnce
    OBVIOUS
  <2>1. \A i, j \in DOMAIN queue : queue[i] = queue[j] => i = j
    BY DEF IndInv, OnePlace
  <2>2. ASSUME NEW t \in Threads, working[t] # NoJob
        PROVE  /\ working[t].generation \notin answered
               /\ \A i \in DOMAIN queue : queue[i] # working[t]
               /\ \A u \in Threads : working[u] = working[t] => u = t
    <3>1. working[t] \in InFlight
      BY <2>2 DEF InFlight
    <3>2. QED
      BY <2>2, <3>1 DEF IndInv, OnePlace, NumbersInUse
  <2>3. QED
    BY <2>1, <2>2 DEF ResolvedOnce
<1>2. QED
  BY <1>1, Invariance, PTL

(***************************************************************************)
(* `begin' answers Cached(true) only for an address that reverse and       *)
(* forward DNS confirmed less than Ttl ago.                                *)
(***************************************************************************)
THEOREM GrantsAreRecent == Spec => []ConfirmedRecently
<1>1. IndInv => ConfirmedRecently
  BY DEF IndInv
<1>2. QED
  BY <1>1, Invariance, PTL

\* What a step leaves in the entries.
LEMMA EntriesAfterStep ==
  ASSUME IndInv, [Next]_vars
  PROVE  \/ entries' = entries
         \/ \E ip \in Ips : BeginMiss(ip)
         \/ Cancel
         \/ \E t \in Threads : Resolved(t)
BY Zenon DEF Next, vars, cache, BeginCached, TrySend, Recv, Tick

(***************************************************************************)
(* A full cache evicts no live verdict: whatever `begin' drops is stale,   *)
(* and `cancel' takes only the entry whose job was refused.                *)
(***************************************************************************)
THEOREM FullCacheEvictsNothingLive == Spec => LiveVerdictsKept
<1>1. IndInv /\ [Next]_vars =>
        [\A k \in DOMAIN entries :
           Fresh(entries[k]) /\ k \notin DOMAIN entries' =>
             sending = [ip |-> k, generation |-> entries[k].generation]]_vars
  <2> SUFFICES ASSUME IndInv, [Next]_vars,
                      NEW k \in DOMAIN entries, Fresh(entries[k]), k \notin DOMAIN entries'
               PROVE  sending = [ip |-> k, generation |-> entries[k].generation]
    OBVIOUS
  <2>1. ASSUME NEW ip \in Ips, BeginMiss(ip) PROVE FALSE
    <3>1. k # ip
      BY <2>1 DEF BeginMiss
    <3>2. k \in DOMAIN Swept(ip) /\ k \in DOMAIN Without(entries, {ip})
      BY <3>1 DEF Swept, Without
    <3>3. QED
      BY <2>1, <3>2, SMTT(30) DEF BeginMiss, With
  <2>2. CASE Cancel
    <3>1. sending \in Job
      BY <2>2 DEF Cancel, IndInv, TypeOK
    <3>2. Current(sending) /\ k = sending.ip
      BY <2>2 DEF Cancel, Without
    <3>3. QED
      BY <3>1, <3>2 DEF Current, Job
  <2>3. ASSUME NEW t \in Threads, Resolved(t) PROVE FALSE
    BY <2>3 DEF Resolved, Complete
  <2>4. QED
    BY <2>1, <2>2, <2>3, EntriesAfterStep
<1>2. QED
  BY <1>1, Invariance, PTL DEF Spec, LiveVerdictsKept

(***************************************************************************)
(* A late DNS reply changes no newer entry: `complete' writes to an entry  *)
(* only under the generation it was opened with, and only once.            *)
(***************************************************************************)
THEOREM LateRepliesChangeNothing == Spec => LateReplyIgnored
<1>1. IndInv /\ [Next]_vars =>
        [\A k \in DOMAIN entries \intersect DOMAIN entries' :
           entries'[k] # entries[k] =>
             \/ entries'[k].generation > entries[k].generation
             \/ /\ entries'[k].generation = entries[k].generation
                /\ answered' = answered \union {entries[k].generation}
                /\ entries[k].generation \notin answered]_vars
  <2> SUFFICES ASSUME IndInv, [Next]_vars,
                      NEW k \in DOMAIN entries, k \in DOMAIN entries', entries'[k] # entries[k]
               PROVE  \/ entries'[k].generation > entries[k].generation
                      \/ /\ entries'[k].generation = entries[k].generation
                         /\ answered' = answered \union {entries[k].generation}
                         /\ entries[k].generation \notin answered
    OBVIOUS
  <2>1. ASSUME NEW ip \in Ips, BeginMiss(ip) PROVE entries'[k].generation > entries[k].generation
    <3> DEFINE kept == IF SweepDue(ip) THEN Swept(ip) ELSE Without(entries, {ip})
    <3>1. kept = [i \in DOMAIN kept |-> entries[i]]
      BY <2>1, KeptEntries, Zenon DEF BeginMiss
    <3> HIDE DEF kept
    <3>2. CASE entries' = kept
      BY <3>1, <3>2
    <3>3. CASE /\ generation' = generation + 1
               /\ entries' = With(kept, ip, [verdict |-> FALSE, at |-> now, generation |-> generation'])
      <4>1. k = ip
        BY <3>1, <3>3 DEF With
      <4>2. entries'[k].generation = generation + 1
        BY <3>3, <4>1 DEF With
      <4>3. entries[k].generation <= generation /\ entries[k].generation \in Nat /\ generation \in Nat
        BY DEF IndInv, TypeOK, NumbersInUse, Entry
      <4>4. QED
        BY <4>2, <4>3
    <3>4. QED
      BY <2>1, <3>2, <3>3, Zenon DEF BeginMiss, kept
  <2>2. CASE Cancel
    BY <2>2 DEF Cancel, Without
  <2>3. ASSUME NEW t \in Threads, Resolved(t)
        PROVE  /\ entries'[k].generation = entries[k].generation
               /\ answered' = answered \union {entries[k].generation}
               /\ entries[k].generation \notin answered
    <3> DEFINE job == working[t]
    <3>1. PICK host \in Hosts, addresses \in {{}, Ips} : Complete(t, host, addresses)
      BY <2>3 DEF Resolved
    <3>2. /\ job # NoJob /\ answered' = answered \union {job.generation}
          /\ Current(job) /\ k = job.ip
      BY <3>1 DEF Complete
    <3>3. entries'[k] = [entries[k] EXCEPT !.verdict = FcrdnsConfirm(job.ip, host, addresses), !.at = now]
      BY <3>1, <3>2 DEF Complete
    <3>4. entries[k] \in Entry
      BY DEF IndInv, TypeOK
    <3>5. job \in InFlight
      BY <3>2 DEF InFlight
    <3>6. entries[k].generation = job.generation /\ job.generation \notin answered
      BY <3>2, <3>5 DEF Current, IndInv, NumbersInUse
    <3>7. QED
      BY <3>2, <3>3, <3>4, <3>6 DEF Entry
  <2>4. QED
    BY <2>1, <2>2, <2>3, EntriesAfterStep
<1>2. QED
  BY <1>1, Invariance, PTL DEF Spec, LateReplyIgnored

(***************************************************************************)
(* verifier.rs, fcrdns_cached and the resolver pool: a lookup only moves   *)
(* on, through the channel in its turn and from one thread to its answer.  *)
(* With threads that keep calling recv and lookups that end, this is why   *)
(* EveryLookupEnds holds for any channel and any number of threads.        *)
(***************************************************************************)
THEOREM LookupsKeepTheirTurn == Spec => LookupsMoveOn
<1> DEFINE Sent ==
             sending' # sending /\ sending # NoJob =>
               \/ queue' = Append(queue, sending)
               \/ ~(sending.ip \in DOMAIN entries' /\ entries'[sending.ip].generation = sending.generation)
           Passed ==
             \A i \in DOMAIN queue :
               \/ i \in DOMAIN queue' /\ queue'[i] = queue[i]
               \/ i - 1 \in DOMAIN queue' /\ queue'[i - 1] = queue[i]
               \/ i = 1 /\ \E t \in Threads : working[t] = NoJob /\ working'[t] = queue[1]
           Answer ==
             \A t \in Threads : working[t] # NoJob /\ working'[t] # working[t] =>
               working'[t] = NoJob /\ working[t].generation \in answered'
<1>1. ASSUME IndInv, [Next]_vars PROVE Sent /\ Passed /\ Answer
  <2>0. queue \in Seq(Job) /\ working \in [Threads -> Job \union {NoJob}]
    BY <1>1 DEF IndInv, TypeOK
  <2>1. ASSUME NEW ip \in Ips, BeginCached(ip) \/ BeginMiss(ip) PROVE Sent /\ Passed /\ Answer
    <3>1. sending = NoJob /\ queue' = queue /\ working' = working
      BY <2>1 DEF BeginCached, BeginMiss
    <3>2. QED
      BY <3>1
  <2>2. CASE TrySend
    <3>1. queue' = Append(queue, sending) /\ working' = working /\ sending \in Job
      BY <1>1, <2>2 DEF TrySend, IndInv, TypeOK
    <3>2. \A i \in DOMAIN queue : i \in DOMAIN queue' /\ queue'[i] = queue[i]
      BY <2>0, <3>1, AppendProperties
    <3>3. QED
      BY <3>1, <3>2
  <2>3. CASE Cancel
    <3>1. queue' = queue /\ working' = working
      BY <2>3 DEF Cancel
    <3>2. ~(sending.ip \in DOMAIN entries' /\ entries'[sending.ip].generation = sending.generation)
      BY <2>3 DEF Cancel, Current, Without
    <3>3. QED
      BY <3>1, <3>2
  <2>4. ASSUME NEW t \in Threads, Recv(t) PROVE Sent /\ Passed /\ Answer
    <3>1. /\ working[t] = NoJob /\ queue # <<>> /\ sending' = sending
          /\ working' = [working EXCEPT ![t] = Head(queue)] /\ queue' = Tail(queue)
      BY <2>4 DEF Recv
    <3>2. /\ Head(queue) = queue[1] /\ Tail(queue) \in Seq(Job) /\ Len(Tail(queue)) = Len(queue) - 1
          /\ \A i \in 1 .. Len(Tail(queue)) : Tail(queue)[i] = queue[i + 1]
      BY <2>0, <3>1, HeadTailProperties
    <3>3. working'[t] = queue[1] /\ \A u \in Threads \ {t} : working'[u] = working[u]
      BY <2>0, <3>1, <3>2
    <3>4. ASSUME NEW i \in DOMAIN queue, i # 1
          PROVE  i - 1 \in DOMAIN queue' /\ queue'[i - 1] = queue[i]
      <4>1. i - 1 \in 1 .. Len(Tail(queue)) /\ (i - 1) + 1 = i
        BY <2>0, <3>2, <3>4
      <4>2. DOMAIN queue' = 1 .. Len(Tail(queue))
        BY <3>1, <3>2
      <4>3. QED
        BY <3>1, <3>2, <4>1, <4>2
    <3>5. Passed
      BY <3>1, <3>3, <3>4
    <3>6. Answer
      BY <3>1, <3>3
    <3>7. QED
      BY <3>1, <3>5, <3>6
  <2>5. ASSUME NEW t \in Threads, Resolved(t) PROVE Sent /\ Passed /\ Answer
    <3>1. PICK host \in Hosts, addresses \in {{}, Ips} : Complete(t, host, addresses)
      BY <2>5 DEF Resolved
    <3>2. /\ sending' = sending /\ queue' = queue
          /\ working' = [working EXCEPT ![t] = NoJob]
          /\ answered' = answered \union {working[t].generation}
      BY <3>1 DEF Complete
    <3>3. working'[t] = NoJob /\ \A u \in Threads \ {t} : working'[u] = working[u]
      BY <2>0, <3>2
    <3>4. QED
      BY <3>2, <3>3
  <2>6. CASE Tick \/ UNCHANGED vars
    <3>1. UNCHANGED <<sending, queue, working>>
      BY <2>6 DEF Tick, vars
    <3>2. QED
      BY <3>1
  <2> HIDE DEF Sent, Passed, Answer
  <2>7. QED
    BY <1>1, <2>1, <2>2, <2>3, <2>4, <2>5, <2>6 DEF Next
<1>2. QED
  BY <1>1, Invariance, PTL DEF Spec, LookupsMoveOn

-----------------------------------------------------------------------------
(* The composition.                                                        *)

\* The cache, the range set and the feeds share no state: a behaviour of
\* Verifier is a behaviour of each of them, and what is shown for one of them
\* on its own, here and in FeedsProofs, holds in the composition.
LEMMA VerifierHasItsParts == VerifierSpec => Spec /\ RangesSpec /\ FeedsSpec
<1>1. VerifierInit => Init /\ RangesInit /\ FeedsInit
  BY DEF VerifierInit
<1>2. [VerifierNext]_verifierVars => [Next]_vars /\ [RangesNext]_rangesVars /\ [FeedsNext]_feedsVars
  BY DEF VerifierNext, verifierVars
<1>3. QED
  BY <1>1, <1>2, PTL DEF VerifierSpec, Spec, RangesSpec, FeedsSpec
=============================================================================
