-------------------------- MODULE SharedZoneProofs --------------------------
(***************************************************************************)
(* The shared zone redeems a token at most once, for any number of         *)
(* workers, tokens, zones and slots, any probe limit and any clock.        *)
(*                                                                         *)
(* The argument: the mutex holder's clock sample is the zone's high-water  *)
(* mark (SampleIsCurrent), so a slot it may overwrite is out of date for   *)
(* good; a redeemed token that is not out of date therefore still sits in  *)
(* its own probe window (SpentIsRemembered), where the next scan finds it. *)
(***************************************************************************)
EXTENDS SharedZone, WellFoundedInduction, TLAPS

\* A non-empty set of natural numbers has a least element.
LEMMA LeastNatural ==
  ASSUME NEW S \in SUBSET Nat, S # {}
  PROVE  \E p \in S : \A q \in S : p <= q
<1> DEFINE R == {pair \in Nat \X Nat : pair[1] < pair[2]}
<1>1. IsWellFoundedOn(R, Nat)
  BY NatLessThanWellFounded DEF OpToRel
<1> HIDE DEF R
<1>2. PICK p \in S : \A q \in S : <<q, p>> \notin R
  BY <1>1, WFMin, Zenon
<1>3. ASSUME NEW q \in S
      PROVE  p <= q
  <2>1. <<q, p>> \notin R
    BY <1>2
  <2>2. q \in Nat /\ p \in Nat
    OBVIOUS
  <2>3. ~(q < p)
    <3>1. <<q, p>> \in Nat \X Nat /\ <<q, p>>[1] = q /\ <<q, p>>[2] = p
      BY <2>2
    <3>2. QED
      BY <2>1, <3>1 DEF R
  <2>4. QED
    BY <2>2, <2>3
<1>4. QED
  BY <1>3

\* redemption.rs:36-40: every probed index is an index of the table.
LEMMA IndexInSlots ==
  ASSUME NEW id \in Tokens, NEW probe \in 0 .. Probes - 1
  PROVE  Index(id, probe) \in Slots
<1>1. Capacity \in Nat /\ ProbeLimit \in Nat
  BY CapacityAssumption, ProbeAssumption
<1>2. Capacity > 0
  BY <1>1 DEF Probes
<1>3. Start[id] + probe \in Nat
  BY <1>1, StartAssumption DEF Probes
<1>4. QED
  BY <1>1, <1>2, <1>3 DEF Index, Slots

\* The probe window of a token lies in the table.
LEMMA WindowInSlots == \A id \in Tokens : Window(id) \subseteq Slots
BY IndexInSlots, Zenon DEF Window

\* redemption.rs:45-52: the slot `consume' writes lies in the probe window of
\* the token, and it is not live.
LEMMA FirstFreeIsFree ==
  ASSUME NEW table, NEW id \in Tokens, NEW time,
         FreeProbes(table, id, time) # {}
  PROVE  /\ FirstFree(table, id, time) \in Window(id)
         /\ ~Live(table[FirstFree(table, id, time)], time)
<1> DEFINE F == FreeProbes(table, id, time)
           p == CHOOSE p \in F : \A q \in F : p <= q
<1>1. F \in SUBSET Nat
  BY CapacityAssumption, ProbeAssumption DEF FreeProbes, Probes
<1>2. p \in F
  <2>1. \E m \in F : \A q \in F : m <= q
    BY <1>1, LeastNatural
  <2>2. QED
    BY <2>1
<1>3. p \in 0 .. Probes - 1 /\ ~Live(table[Index(id, p)], time)
  BY <1>2 DEF FreeProbes
<1>4. FirstFree(table, id, time) = Index(id, p)
  BY DEF FirstFree
<1>5. QED
  BY <1>3, <1>4, Zenon DEF Window

\* redemption.rs:49-55: `consume' writes at most one slot, inside the token's
\* window, and only over a slot that is not live; it writes exactly when it
\* answers Accepted.
LEMMA ConsumeTable ==
  ASSUME NEW table \in [Slots -> Entry], NEW id \in Tokens,
         NEW expires \in Int, NEW time
  PROVE  LET after == ConsumeEntries(table, id, expires, time)
             outcome == ConsumeOutcome(table, id, expires, time)
             new == [id |-> id, expires |-> expires]
         IN /\ after \in [Slots -> Entry]
            /\ outcome # "Accepted" => after = table
            /\ outcome = "Accepted" =>
                 /\ ~(expires <= time)
                 /\ ~AlreadySpent(table, id, time)
                 /\ \E j \in Window(id) :
                      /\ j \in Slots
                      /\ ~Live(table[j], time)
                      /\ after = [table EXCEPT ![j] = new]
            /\ outcome = "Reused" => AlreadySpent(table, id, time)
<1> DEFINE after == ConsumeEntries(table, id, expires, time)
           outcome == ConsumeOutcome(table, id, expires, time)
           new == [id |-> id, expires |-> expires]
           j == FirstFree(table, id, time)
<1>1. CASE outcome # "Accepted"
  <2>1. after = table
    BY <1>1 DEF ConsumeEntries
  <2>2. outcome = "Reused" => AlreadySpent(table, id, time)
    BY DEF ConsumeOutcome
  <2>3. QED
    BY <1>1, <2>1, <2>2
<1>2. CASE outcome = "Accepted"
  <2>1. /\ ~(expires <= time)
        /\ ~AlreadySpent(table, id, time)
        /\ FreeProbes(table, id, time) # {}
    BY <1>2 DEF ConsumeOutcome
  <2>2. j \in Window(id) /\ ~Live(table[j], time)
    BY <2>1, FirstFreeIsFree
  <2>3. j \in Slots
    BY <2>2, WindowInSlots
  <2>4. after = [table EXCEPT ![j] = new]
    BY <1>2 DEF ConsumeEntries
  <2>5. new \in Entry
    BY DEF Entry
  <2>6. after \in [Slots -> Entry]
    BY <2>3, <2>4, <2>5
  <2>7. QED
    BY <1>2, <2>1, <2>2, <2>3, <2>4, <2>6, Zenon
<1>3. QED
  BY <1>1, <1>2

USE DEF store, worker, history, vars

\* Init establishes the inductive invariant.
LEMMA InitInv == Init => IndInv
<1> SUFFICES ASSUME Init PROVE IndInv
  OBVIOUS
<1> USE ZoneAssumption, TimeAssumption DEF Init
<1>1. TypeOK
  <2>1. EmptyEntry \in Entry
    BY DEF EmptyEntry, Entry
  <2>2. entries \in [Zones -> [Slots -> Entry]]
    BY <2>1
  <2>3. issued \in [Tokens -> [zone : created, expires : Nat]]
    BY DEF Unissued
  <2>4. QED
    BY <2>2, <2>3 DEF TypeOK, Time
<1>2. SampleIsCurrent /\ TokenInHand
  BY DEF SampleIsCurrent, TokenInHand
<1>3. SpentIsRemembered /\ MintedOnce
  BY DEF SpentIsRemembered, MintedOnce
<1>4. SlotsAreSpent
  BY DEF SlotsAreSpent, EmptyEntry
<1>5. ReusedIsHonest
  BY Zenon DEF ReusedIsHonest
<1>6. QED
  BY <1>1, <1>2, <1>3, <1>4, <1>5 DEF IndInv

\* What a worker knows about the token it is redeeming.
LEMMA InHand ==
  ASSUME IndInv, NEW w \in Workers, pc[w] # "idle"
  PROVE  /\ mapped[w] \in Zones /\ mapped[w] \in created
         /\ token[w] \in Tokens
         /\ IsIssued(token[w])
         /\ issued[token[w]].zone = mapped[w]
         /\ issued[token[w]].expires \in Int
         /\ entries[mapped[w]] \in [Slots -> Entry]
         /\ now[w] \in Int
BY DEF IndInv, TypeOK, TokenInHand, Time

\* Dying inside the write touches one slot of the window, and that slot is not
\* live.
LEMMA TornWrite ==
  ASSUME IndInv, NEW w \in Workers, DieWriting(w)
  PROVE  LET z == mapped[w]
             t == token[w]
         IN \E j \in Slots, e \in Entry :
              /\ ~Live(entries[z][j], now[w])
              /\ e.id \in {entries[z][j].id, t}
              /\ entries' = [entries EXCEPT ![z][j] = e]
<1> DEFINE z == mapped[w]
           t == token[w]
           j == FirstFree(entries[z], t, now[w])
           new == [id |-> t, expires |-> issued[t].expires]
<1>1. pc[w] # "idle"
  BY DEF DieWriting
<1>2. /\ t \in Tokens
      /\ issued[t].expires \in Int
      /\ entries[z] \in [Slots -> Entry]
  BY <1>1, InHand
<1>3. FreeProbes(entries[z], t, now[w]) # {}
  BY DEF DieWriting, ConsumeOutcome
<1>4. j \in Window(t) /\ ~Live(entries[z][j], now[w])
  BY <1>2, <1>3, FirstFreeIsFree
<1>5. j \in Slots
  BY <1>2, <1>4, WindowInSlots
<1>6. PICK e \in Torn(entries[z][j], new) : entries' = [entries EXCEPT ![z][j] = e]
  BY Zenon DEF DieWriting
<1>7. e \in Entry /\ e.id \in {entries[z][j].id, t}
  <2>1. entries[z][j] \in Entry
    BY <1>2, <1>5
  <2>2. PICK a \in {entries[z][j].id, new.id}, b \in {entries[z][j].expires, new.expires} :
          e = [id |-> a, expires |-> b]
    <3> HIDE DEF new, j, t, z
    <3>1. QED
      BY <1>6 DEF Torn
  <2>3. a \in Tokens \union {NoToken} /\ b \in Int
    BY <1>2, <2>1, <2>2 DEF Entry
  <2>4. QED
    BY <2>2, <2>3 DEF Entry
<1>8. QED
  BY <1>4, <1>5, <1>6, <1>7, Zenon

\* Every step keeps the types.
LEMMA TypeStep == IndInv /\ [Next]_vars => TypeOK'
<1> SUFFICES ASSUME IndInv, [Next]_vars PROVE TypeOK'
  OBVIOUS
<1>0. TypeOK
  BY DEF IndInv
<1> USE TimeAssumption, ValidityAssumption
<1>1. ASSUME NEW w \in Workers, NEW t \in Tokens, Issue(w, t) PROVE TypeOK'
  <2>1. [zone |-> mapped[w], expires |-> wall + Validity] \in [zone : created, expires : Nat]
    BY <1>0 DEF TypeOK, Time
  <2>2. QED
    BY <1>0, <1>1, <2>1 DEF TypeOK, Issue
<1>2. ASSUME NEW w \in Workers, NEW t \in Tokens, Verify(w, t) PROVE TypeOK'
  BY <1>0, <1>2 DEF TypeOK, Verify
<1>3. ASSUME NEW w \in Workers, Lock(w) PROVE TypeOK'
  BY <1>0, <1>3 DEF TypeOK, Lock, Time
<1>4. ASSUME NEW w \in Workers, Consume(w) PROVE TypeOK'
  <2> DEFINE z == mapped[w]
             t == token[w]
  <2>1. pc[w] # "idle"
    BY <1>4 DEF Consume
  <2>2. /\ z \in Zones
        /\ t \in Tokens
        /\ issued[t].expires \in Int
        /\ entries[z] \in [Slots -> Entry]
    BY <2>1, InHand
  <2>3. ConsumeEntries(entries[z], t, issued[t].expires, now[w]) \in [Slots -> Entry]
    BY <2>2, ConsumeTable
  <2>4. entries' \in [Zones -> [Slots -> Entry]]
    BY <1>0, <1>4, <2>2, <2>3 DEF TypeOK, Consume
  <2>5. minted' \in [Tokens -> Nat] /\ replayed' \in SUBSET Tokens
    BY <1>0, <1>4, <2>2 DEF TypeOK, Consume
  <2>6. QED
    BY <1>0, <1>4, <2>4, <2>5 DEF TypeOK, Consume, Time
<1>5. ASSUME NEW w \in Workers, Exit(w) PROVE TypeOK'
  BY <1>0, <1>5 DEF TypeOK, Exit, Replace, Time
<1>6. ASSUME NEW w \in Workers, DieWriting(w) PROVE TypeOK'
  <2>1. entries' \in [Zones -> [Slots -> Entry]]
    <3> DEFINE z == mapped[w]
    <3>1. PICK j \in Slots, e \in Entry : entries' = [entries EXCEPT ![z][j] = e]
      BY <1>6, TornWrite
    <3>2. QED
      BY <1>0, <3>1 DEF TypeOK
  <2>2. token[w] \in Tokens
    BY <1>6, InHand DEF DieWriting
  <2>3. QED
    BY <1>0, <1>6, <2>1, <2>2 DEF TypeOK, DieWriting, Replace, Time
<1>7. ASSUME NEW time \in Time, SetWall(time) PROVE TypeOK'
  BY <1>0, <1>7 DEF TypeOK, SetWall
<1>8. ASSUME NEW z \in Zones, CreateZone(z) PROVE TypeOK'
  <2>1. entries' \in [Zones -> [Slots -> Entry]]
    BY <1>0, <1>8 DEF TypeOK, CreateZone, EmptyEntry, Entry
  <2>2. issued' \in [Tokens -> [zone : created', expires : Nat]]
    BY <1>0, <1>8 DEF TypeOK, CreateZone
  <2>3. QED
    BY <1>0, <1>8, <2>1, <2>2 DEF TypeOK, CreateZone, Time
<1>9. CASE UNCHANGED vars
  BY <1>0, <1>9 DEF TypeOK
<1>10. QED
  BY <1>1, <1>2, <1>3, <1>4, <1>5, <1>6, <1>7, <1>8, <1>9 DEF Next

\* The mutex is held by the worker in the critical section, whose clock sample
\* stays the high-water mark; and a worker's token stays issued by its zone.
LEMMA CriticalStep == IndInv /\ [Next]_vars => SampleIsCurrent' /\ TokenInHand'
<1> SUFFICES ASSUME IndInv, [Next]_vars PROVE SampleIsCurrent' /\ TokenInHand'
  OBVIOUS
<1>0. TypeOK /\ SampleIsCurrent /\ TokenInHand
  BY DEF IndInv
<1> USE WorkerAssumption, TokenAssumption DEF SampleIsCurrent, TokenInHand, IsIssued
<1>1. ASSUME NEW w \in Workers, NEW t \in Tokens, Issue(w, t)
      PROVE  SampleIsCurrent' /\ TokenInHand'
  BY <1>0, <1>1 DEF TypeOK, Issue
<1>2. ASSUME NEW w \in Workers, NEW t \in Tokens, Verify(w, t)
      PROVE  SampleIsCurrent' /\ TokenInHand'
  BY <1>0, <1>2 DEF TypeOK, Verify
<1>3. ASSUME NEW w \in Workers, Lock(w)
      PROVE  SampleIsCurrent' /\ TokenInHand'
  BY <1>0, <1>3 DEF TypeOK, Lock
<1>4. ASSUME NEW w \in Workers, Consume(w)
      PROVE  SampleIsCurrent' /\ TokenInHand'
  BY <1>0, <1>4 DEF TypeOK, Consume
<1>5. ASSUME NEW w \in Workers, Replace(w)
      PROVE  SampleIsCurrent' /\ TokenInHand'
  BY <1>0, <1>5 DEF TypeOK, Replace
<1>6. ASSUME NEW time \in Time, SetWall(time)
      PROVE  SampleIsCurrent' /\ TokenInHand'
  BY <1>0, <1>6 DEF TypeOK, SetWall
<1>7. ASSUME NEW z \in Zones, CreateZone(z)
      PROVE  SampleIsCurrent' /\ TokenInHand'
  BY <1>0, <1>7 DEF TypeOK, CreateZone
<1>8. CASE UNCHANGED vars
  BY <1>0, <1>8
<1>9. QED
  BY <1>1, <1>2, <1>3, <1>4, <1>5, <1>6, <1>7, <1>8, Zenon DEF Next, Exit, DieWriting

\* A step of `consume' that mints does so for a token never redeemed before.
LEMMA MintsFresh ==
  ASSUME IndInv, NEW w \in Workers, Consume(w),
         ConsumeOutcome(entries[mapped[w]], token[w], issued[token[w]].expires, now[w]) = "Accepted"
  PROVE  minted[token[w]] = 0
<1> DEFINE z == mapped[w]
           t == token[w]
<1>1. pc[w] = "locked"
  BY DEF Consume
<1>2. /\ t \in Tokens
      /\ issued[t].zone = z
      /\ issued[t].expires \in Int
      /\ entries[z] \in [Slots -> Entry]
      /\ now[w] \in Int
  BY <1>1, InHand
<1>3. now[w] = last_now[z]
  BY <1>1 DEF IndInv, SampleIsCurrent
<1>4. ~(issued[t].expires <= now[w]) /\ ~AlreadySpent(entries[z], t, now[w])
  BY DEF ConsumeOutcome
<1>5. ~Remembered(t)
  <2>1. ~(last_now[z] >= issued[t].expires)
    BY <1>2, <1>3, <1>4
  <2>2. ASSUME NEW i \in Window(t), entries[z][i] = [id |-> t, expires |-> issued[t].expires]
        PROVE  FALSE
    BY <1>2, <1>4, <2>2 DEF AlreadySpent, Live
  <2>3. QED
    BY <1>2, <2>1, <2>2 DEF Remembered
<1>6. QED
  BY <1>2, <1>5 DEF IndInv, TypeOK, SpentIsRemembered

\* No step mints a second clearance.
LEMMA MintedOnceStep == IndInv /\ [Next]_vars => MintedOnce'
<1> SUFFICES ASSUME IndInv, [Next]_vars PROVE MintedOnce'
  OBVIOUS
<1>0. MintedOnce /\ TypeOK
  BY DEF IndInv
<1>1. ASSUME NEW w \in Workers, Consume(w) PROVE MintedOnce'
  <2>1. token[w] \in Tokens
    BY <1>1, InHand DEF Consume
  <2>2. minted' = minted \/ (minted[token[w]] = 0 /\ minted' = [minted EXCEPT ![token[w]] = @ + 1])
    BY <1>1, MintsFresh, Zenon DEF Consume
  <2>3. minted \in [Tokens -> Nat]
    BY <1>0 DEF TypeOK
  <2>4. CASE minted' = minted
    BY <1>0, <2>4 DEF MintedOnce
  <2>5. CASE minted[token[w]] = 0 /\ minted' = [minted EXCEPT ![token[w]] = @ + 1]
    <3>1. ASSUME NEW u \in Tokens PROVE minted'[u] = IF u = token[w] THEN 1 ELSE minted[u]
      BY <2>3, <2>5
    <3>2. QED
      BY <1>0, <3>1 DEF MintedOnce
  <2>6. QED
    BY <2>2, <2>4, <2>5
<1>2. CASE UNCHANGED minted
  BY <1>0, <1>2 DEF MintedOnce
<1>3. QED
  BY <1>1, <1>2, Zenon DEF Next, Issue, Verify, Lock, Exit, DieWriting, Replace, SetWall, CreateZone

\* An overwritten slot was out of date, so a redeemed token that is not out of
\* date keeps its slot; a freshly redeemed one gets a slot of its window.
LEMMA RememberedStep == IndInv /\ [Next]_vars => SpentIsRemembered'
<1> SUFFICES ASSUME IndInv, [Next]_vars, NEW u \in Tokens, minted'[u] > 0
             PROVE  IsIssued(u)' /\ Remembered(u)'
  BY DEF SpentIsRemembered
<1>0. TypeOK /\ TypeOK' /\ SpentIsRemembered /\ SampleIsCurrent
  BY TypeStep DEF IndInv
<1> DEFINE y == issued[u].zone
<1>1. CASE UNCHANGED <<minted, issued, last_now, entries>>
  <2>1. IsIssued(u) /\ Remembered(u)
    BY <1>0, <1>1 DEF SpentIsRemembered
  <2>2. QED
    BY <1>1, <2>1 DEF IsIssued, Remembered
<1>2. ASSUME NEW w \in Workers, NEW t \in Tokens, Issue(w, t)
      PROVE  IsIssued(u)' /\ Remembered(u)'
  <2>1. minted[u] > 0
    BY <1>2 DEF Issue
  <2>2. IsIssued(u) /\ Remembered(u)
    BY <1>0, <2>1 DEF SpentIsRemembered
  <2>3. u # t
    BY <1>2, <2>2 DEF Issue
  <2>4. issued'[u] = issued[u]
    BY <1>0, <1>2, <2>3 DEF Issue, TypeOK
  <2>5. QED
    BY <1>2, <2>2, <2>4 DEF Issue, IsIssued, Remembered
<1>3. ASSUME NEW w \in Workers, Lock(w)
      PROVE  IsIssued(u)' /\ Remembered(u)'
  <2>1. IsIssued(u) /\ Remembered(u)
    BY <1>0, <1>3 DEF Lock, SpentIsRemembered
  <2>2. y \in Zones /\ issued[u].expires \in Nat
    BY <1>0 DEF TypeOK
  <2>3. last_now'[y] >= last_now[y]
    BY <1>0, <1>3, <2>2, TimeAssumption DEF Lock, TypeOK, Time
  <2>4. last_now[y] >= issued[u].expires => last_now'[y] >= issued[u].expires
    BY <1>0, <2>2, <2>3, TimeAssumption DEF TypeOK, Time
  <2>5. QED
    BY <1>3, <2>1, <2>4 DEF Lock, IsIssued, Remembered
<1>4. ASSUME NEW w \in Workers, Consume(w)
      PROVE  IsIssued(u)' /\ Remembered(u)'
  <2> DEFINE z == mapped[w]
             t == token[w]
             new == [id |-> t, expires |-> issued[t].expires]
             outcome == ConsumeOutcome(entries[z], t, issued[t].expires, now[w])
  <2>1. /\ pc[w] = "locked"
        /\ UNCHANGED <<issued, last_now>>
        /\ entries' = [entries EXCEPT ![z] = ConsumeEntries(@, t, issued[t].expires, now[w])]
        /\ minted' = IF outcome = "Accepted" THEN [minted EXCEPT ![t] = @ + 1] ELSE minted
    BY <1>4 DEF Consume
  <2>2. /\ z \in Zones
        /\ t \in Tokens
        /\ IsIssued(t)
        /\ issued[t].zone = z
        /\ issued[t].expires \in Int
        /\ entries[z] \in [Slots -> Entry]
    BY <2>1, InHand
  <2>3. now[w] = last_now[z]
    BY <1>0, <2>1 DEF SampleIsCurrent
  <2>4. CASE outcome # "Accepted"
    <3>1. ConsumeEntries(entries[z], t, issued[t].expires, now[w]) = entries[z]
      BY <2>4 DEF ConsumeEntries
    <3>2. entries' = entries /\ minted' = minted
      BY <1>0, <2>1, <2>2, <2>4, <3>1 DEF TypeOK
    <3>3. QED
      BY <1>1, <2>1, <3>2
  <2>5. CASE outcome = "Accepted"
    <3> DEFINE j == FirstFree(entries[z], t, now[w])
    <3>1. /\ j \in Window(t)
          /\ j \in Slots
          /\ ~Live(entries[z][j], now[w])
          /\ ConsumeEntries(entries[z], t, issued[t].expires, now[w]) = [entries[z] EXCEPT ![j] = new]
      <4>1. FreeProbes(entries[z], t, now[w]) # {}
        BY <2>5, Zenon DEF ConsumeOutcome
      <4>2. j \in Window(t) /\ ~Live(entries[z][j], now[w])
        BY <2>2, <4>1, FirstFreeIsFree
      <4>3. j \in Slots
        BY <2>2, <4>2, WindowInSlots
      <4>4. QED
        BY <2>5, <4>2, <4>3, Zenon DEF ConsumeEntries
    <3> HIDE DEF j
    <3>2. /\ entries'[z] = [entries[z] EXCEPT ![j] = new]
          /\ \A x \in Zones \ {z} : entries'[x] = entries[x]
      BY <1>0, <2>1, <2>2, <3>1 DEF TypeOK
    <3>3. CASE u = t
      <4>1. entries'[z][j] = new
        BY <2>2, <3>1, <3>2
      <4>2. QED
        BY <2>1, <2>2, <3>1, <3>3, <4>1 DEF IsIssued, Remembered
    <3>4. CASE u # t
      <4>1. minted[u] > 0
        BY <1>0, <2>1, <2>2, <3>4 DEF TypeOK
      <4>2. IsIssued(u) /\ Remembered(u)
        BY <1>0, <4>1 DEF SpentIsRemembered
      <4>3. CASE last_now[y] >= issued[u].expires
        BY <2>1, <4>2, <4>3 DEF IsIssued, Remembered
      <4>4. CASE ~(last_now[y] >= issued[u].expires)
        <5>1. PICK i \in Window(u) : entries[y][i] = [id |-> u, expires |-> issued[u].expires]
          BY <4>2, <4>4 DEF Remembered
        <5>2. i \in Slots /\ y \in Zones
          BY <1>0, WindowInSlots DEF TypeOK
        <5>3. entries'[y][i] = entries[y][i]
          <6>1. CASE y # z
            BY <3>2, <5>2, <6>1, Zenon
          <6>2. CASE y = z
            <7>1. Live(entries[z][i], now[w])
              BY <1>0, <2>3, <4>4, <5>1, <5>2, <6>2, TimeAssumption DEF Live, TypeOK, Time
            <7>2. i # j
              BY <3>1, <7>1, Zenon
            <7>3. QED
              BY <2>2, <3>2, <5>2, <6>2, <7>2
          <6>3. QED
            BY <6>1, <6>2, Zenon
        <5>4. QED
          BY <2>1, <4>2, <5>1, <5>3, Zenon DEF IsIssued, Remembered
      <4>5. QED
        BY <4>3, <4>4
    <3>5. QED
      BY <3>3, <3>4
  <2>6. QED
    BY <2>4, <2>5
<1>5. ASSUME NEW w \in Workers, DieWriting(w)
      PROVE  IsIssued(u)' /\ Remembered(u)'
  <2> DEFINE z == mapped[w]
  <2>1. pc[w] = "locked" /\ UNCHANGED <<minted, issued, last_now>>
    BY <1>5 DEF DieWriting, Replace
  <2>2. IsIssued(u) /\ Remembered(u)
    BY <1>0, <2>1 DEF SpentIsRemembered
  <2>3. z \in Zones /\ entries[z] \in [Slots -> Entry]
    BY <2>1, InHand
  <2>4. now[w] = last_now[z]
    BY <1>0, <2>1 DEF SampleIsCurrent
  <2>5. PICK j \in Slots, e \in Entry :
          /\ ~Live(entries[z][j], now[w])
          /\ entries' = [entries EXCEPT ![z][j] = e]
    BY <1>5, TornWrite, SMTT(30)
  <2>6. CASE last_now[y] >= issued[u].expires
    BY <2>1, <2>2, <2>6 DEF IsIssued, Remembered
  <2>7. CASE ~(last_now[y] >= issued[u].expires)
    <3>1. PICK i \in Window(u) : entries[y][i] = [id |-> u, expires |-> issued[u].expires]
      BY <2>2, <2>7 DEF Remembered
    <3>2. i \in Slots /\ y \in Zones
      BY <1>0, WindowInSlots DEF TypeOK
    <3>3. entries'[y][i] = entries[y][i]
      <4>1. y = z => Live(entries[z][i], now[w])
        BY <1>0, <2>4, <2>7, <3>1, <3>2, TimeAssumption DEF Live, TypeOK, Time
      <4>2. y # z \/ i # j
        BY <2>5, <4>1
      <4>3. QED
        BY <1>0, <2>3, <2>5, <3>2, <4>2 DEF TypeOK
    <3>4. QED
      BY <2>1, <2>2, <3>1, <3>3 DEF IsIssued, Remembered
  <2>8. QED
    BY <2>6, <2>7
<1>6. ASSUME NEW x \in Zones, CreateZone(x)
      PROVE  IsIssued(u)' /\ Remembered(u)'
  <2>1. IsIssued(u) /\ Remembered(u)
    BY <1>0, <1>6 DEF CreateZone, SpentIsRemembered
  <2>2. y # x /\ y \in Zones
    BY <1>0, <1>6 DEF CreateZone, TypeOK
  <2>3. last_now'[y] = last_now[y] /\ entries'[y] = entries[y]
    BY <1>0, <1>6, <2>2 DEF CreateZone, TypeOK
  <2>4. QED
    BY <1>6, <2>1, <2>3 DEF CreateZone, IsIssued, Remembered
<1>7. QED
  BY <1>1, <1>2, <1>3, <1>4, <1>5, <1>6 DEF Next, Verify, Exit, Replace, SetWall

\* Only `consume' and a dying writer put an id in a slot, and both account
\* for it in the same step.
LEMMA SlotsStep == IndInv /\ [Next]_vars => SlotsAreSpent'
<1> SUFFICES ASSUME IndInv, [Next]_vars, NEW x \in Zones, NEW i \in Slots,
                    entries'[x][i].id # NoToken
             PROVE  minted'[entries'[x][i].id] > 0 \/ entries'[x][i].id \in lost'
  BY Zenon DEF SlotsAreSpent
<1>0. TypeOK /\ SlotsAreSpent
  BY DEF IndInv
<1> DEFINE id == entries[x][i].id
<1>1. /\ id # NoToken => minted[id] > 0 \/ id \in lost
      /\ entries[x] \in [Slots -> Entry]
      /\ id # NoToken => id \in Tokens
  BY <1>0 DEF SlotsAreSpent, TypeOK, Entry
<1>2. CASE UNCHANGED <<entries, minted, lost>>
  BY <1>1, <1>2
<1>3. ASSUME NEW w \in Workers, Consume(w)
      PROVE  minted'[entries'[x][i].id] > 0 \/ entries'[x][i].id \in lost'
  <2> DEFINE z == mapped[w]
             t == token[w]
             outcome == ConsumeOutcome(entries[z], t, issued[t].expires, now[w])
             j == FirstFree(entries[z], t, now[w])
  <2>1. /\ pc[w] = "locked"
        /\ entries' = [entries EXCEPT ![z] = ConsumeEntries(@, t, issued[t].expires, now[w])]
        /\ minted' = IF outcome = "Accepted" THEN [minted EXCEPT ![t] = @ + 1] ELSE minted
        /\ lost' = lost
    BY <1>3, Zenon DEF Consume
  <2>2. z \in Zones /\ t \in Tokens
    BY <2>1, InHand
  <2>3. \A u \in Tokens : minted[u] > 0 => minted'[u] > 0
    BY <1>0, <2>1, <2>2 DEF TypeOK
  <2>4. entries'[x][i] = entries[x][i] \/ (outcome = "Accepted" /\ entries'[x][i].id = t)
    <3>1. entries'[x] = IF x = z THEN ConsumeEntries(entries[z], t, issued[t].expires, now[w])
                        ELSE entries[x]
      BY <1>0, <2>1, <2>2 DEF TypeOK
    <3>2. CASE x = z /\ outcome = "Accepted"
      <4>1. entries'[x] = [entries[z] EXCEPT ![j] = [id |-> t, expires |-> issued[t].expires]]
        BY <3>1, <3>2 DEF ConsumeEntries
      <4> HIDE DEF j, outcome
      <4>2. entries[z] \in [Slots -> Entry]
        BY <1>1, <3>2
      <4>3. CASE i = j
        <5>1. entries'[x][i] = [id |-> t, expires |-> issued[t].expires]
          BY <4>1, <4>2, <4>3
        <5>2. QED
          BY <3>2, <5>1
      <4>4. CASE i # j
        BY <3>2, <4>1, <4>2, <4>4
      <4>5. QED
        BY <4>3, <4>4
    <3>3. QED
      BY <3>1, <3>2 DEF ConsumeEntries
  <2>5. outcome = "Accepted" => minted'[t] > 0
    BY <1>0, <2>1, <2>2 DEF TypeOK
  <2> HIDE DEF outcome
  <2>6. CASE entries'[x][i] = entries[x][i]
    <3>1. id \in Tokens /\ (minted[id] > 0 \/ id \in lost) /\ entries'[x][i].id = id
      BY <1>1, <2>6
    <3> HIDE DEF id
    <3>2. QED
      BY <2>1, <2>3, <3>1, Zenon
  <2>7. CASE outcome = "Accepted" /\ entries'[x][i].id = t
    BY <2>5, <2>7
  <2>8. QED
    BY <2>4, <2>6, <2>7
<1>4. ASSUME NEW w \in Workers, DieWriting(w)
      PROVE  minted'[entries'[x][i].id] > 0 \/ entries'[x][i].id \in lost'
  <2> DEFINE z == mapped[w]
             t == token[w]
  <2>1. minted' = minted /\ lost' = lost \union {t} /\ pc[w] = "locked"
    BY <1>4 DEF DieWriting, Replace
  <2>2. z \in Zones
    BY <2>1, InHand
  <2>3. PICK j \in Slots, e \in Entry :
          /\ ~Live(entries[z][j], now[w])
          /\ e.id \in {entries[z][j].id, t}
          /\ entries' = [entries EXCEPT ![z][j] = e]
    BY <1>4, TornWrite, Zenon
  <2>4. entries'[x][i].id \in {entries[x][i].id, t}
    BY <1>0, <2>2, <2>3 DEF TypeOK
  <2>5. QED
    BY <1>1, <2>1, <2>4
<1>5. ASSUME NEW z \in Zones, CreateZone(z)
      PROVE  minted'[entries'[x][i].id] > 0 \/ entries'[x][i].id \in lost'
  <2>1. minted' = minted /\ lost' = lost
    BY <1>5 DEF CreateZone
  <2>2. entries'[x][i] = entries[x][i] \/ entries'[x][i] = EmptyEntry
    BY <1>0, <1>5 DEF CreateZone, TypeOK
  <2>3. QED
    BY <1>1, <2>1, <2>2 DEF EmptyEntry
<1>6. QED
  BY <1>2, <1>3, <1>4, <1>5, Zenon DEF Next, Issue, Verify, Lock, Exit, Replace, SetWall

\* Reused is answered for a live slot with the token's id, and such slots are
\* accounted for.
LEMMA ReusedStep == IndInv /\ [Next]_vars => ReusedIsHonest'
<1> SUFFICES ASSUME IndInv, [Next]_vars, NEW u \in replayed'
             PROVE  minted'[u] > 0 \/ u \in lost'
  BY DEF ReusedIsHonest
<1>0. TypeOK /\ ReusedIsHonest /\ SlotsAreSpent
  BY DEF IndInv
<1>1. ASSUME NEW w \in Workers, Consume(w)
      PROVE  minted'[u] > 0 \/ u \in lost'
  <2> DEFINE z == mapped[w]
             t == token[w]
             outcome == ConsumeOutcome(entries[z], t, issued[t].expires, now[w])
  <2>1. /\ pc[w] = "locked"
        /\ replayed' = IF outcome = "Reused" THEN replayed \union {t} ELSE replayed
        /\ minted' = IF outcome = "Accepted" THEN [minted EXCEPT ![t] = @ + 1] ELSE minted
        /\ lost' = lost
    BY <1>1, Zenon DEF Consume
  <2>2. z \in Zones /\ t \in Tokens /\ entries[z] \in [Slots -> Entry]
    BY <2>1, InHand
  <2>3. \A v \in Tokens : minted[v] > 0 => minted'[v] > 0
    BY <1>0, <2>1, <2>2 DEF TypeOK
  <2>4. CASE u \in replayed
    BY <1>0, <2>1, <2>3, <2>4 DEF ReusedIsHonest, TypeOK
  <2>5. CASE u \notin replayed
    <3>1. u = t /\ outcome = "Reused"
      BY <2>1, <2>5
    <3>2. AlreadySpent(entries[z], t, now[w])
      BY <3>1 DEF ConsumeOutcome
    <3>3. PICK i \in Window(t) : entries[z][i].id = t
      BY <3>2 DEF AlreadySpent
    <3>4. i \in Slots /\ t # NoToken
      BY <2>2, WindowInSlots, TokenAssumption
    <3>5. minted[t] > 0 \/ t \in lost
      BY <1>0, <2>2, <3>3, <3>4 DEF SlotsAreSpent
    <3>6. QED
      BY <2>1, <2>2, <2>3, <3>1, <3>5
  <2>6. QED
    BY <2>4, <2>5
<1>2. CASE UNCHANGED <<minted, replayed>> /\ lost \subseteq lost'
  BY <1>0, <1>2 DEF ReusedIsHonest
<1>3. QED
  BY <1>1, <1>2, Zenon
  DEF Next, Issue, Verify, Lock, Exit, DieWriting, Replace, SetWall, CreateZone

LEMMA InductiveStep == IndInv /\ [Next]_vars => IndInv'
BY TypeStep, CriticalStep, RememberedStep, SlotsStep, MintedOnceStep, ReusedStep DEF IndInv

LEMMA Invariance == Spec => []IndInv
BY InitInv, InductiveStep, PTL DEF Spec

\* The state of the zone and of the workers keeps its types, for every number
\* of workers, tokens, zones and slots.
THEOREM TypeCorrect == Spec => []TypeOK
<1>1. IndInv => TypeOK
  BY DEF IndInv
<1>2. QED
  BY <1>1, Invariance, PTL

\* redemption.rs, finish: at most one clearance is ever minted from a token.
THEOREM OneClearancePerToken == Spec => []MintedOnce
<1>1. IndInv => MintedOnce
  BY DEF IndInv
<1>2. QED
  BY <1>1, Invariance, PTL

\* redemption.rs, finish: the "replay" answer is only given for a spent token.
THEOREM ReplayAnswerIsHonest == Spec => []ReusedIsHonest
<1>1. IndInv => ReusedIsHonest
  BY DEF IndInv
<1>2. QED
  BY <1>1, Invariance, PTL

\* redemption.rs: "live entries are never evicted".  Only `consume' and a
\* writer that dies in it change a slot of a zone in use, and only one that is
\* out of date by the zone's clock.
THEOREM LiveEntriesAreKept == Spec => LiveEntriesKept
<1> DEFINE Kept == \A z \in created : \A i \in Slots :
                     Live(entries[z][i], last_now'[z]) => entries'[z][i] = entries[z][i]
<1>1. IndInv /\ [Next]_vars => [Kept]_vars
  <2> SUFFICES ASSUME IndInv, Next, NEW x \in created, NEW i \in Slots,
                      Live(entries[x][i], last_now'[x])
               PROVE  entries'[x][i] = entries[x][i]
    BY Zenon DEF Kept
  <2>0. TypeOK /\ SampleIsCurrent /\ x \in Zones
    BY DEF IndInv, TypeOK
  <2>1. CASE UNCHANGED entries
    BY <2>1, Zenon
  <2>2. ASSUME NEW w \in Workers, Consume(w) PROVE entries'[x][i] = entries[x][i]
    <3> DEFINE z == mapped[w]
               t == token[w]
               j == FirstFree(entries[z], t, now[w])
    <3>1. /\ pc[w] = "locked"
          /\ last_now' = last_now
          /\ entries' = [entries EXCEPT ![z] = ConsumeEntries(@, t, issued[t].expires, now[w])]
      BY <2>2, Zenon DEF Consume
    <3>2. z \in Zones /\ t \in Tokens /\ entries[z] \in [Slots -> Entry]
      BY <3>1, InHand
    <3>3. now[w] = last_now[z]
      BY <2>0, <3>1 DEF SampleIsCurrent
    <3>4. entries'[x] = IF x = z THEN ConsumeEntries(entries[z], t, issued[t].expires, now[w])
                        ELSE entries[x]
      BY <2>0, <3>1, <3>2 DEF TypeOK
    <3>5. CASE x # z
      BY <3>4, <3>5, Zenon
    <3>6. CASE x = z /\ ConsumeOutcome(entries[z], t, issued[t].expires, now[w]) = "Accepted"
      <4>1. FreeProbes(entries[z], t, now[w]) # {}
        BY <3>6 DEF ConsumeOutcome
      <4>2. ~Live(entries[z][j], now[w])
        BY <3>2, <4>1, FirstFreeIsFree, SMTT(30)
      <4>3. i # j
        BY <3>1, <3>3, <3>6, <4>2
      <4>4. entries'[x] = [entries[z] EXCEPT ![j] = [id |-> t, expires |-> issued[t].expires]]
        BY <3>4, <3>6 DEF ConsumeEntries
      <4> HIDE DEF j
      <4>5. QED
        BY <3>2, <3>6, <4>3, <4>4
    <3>7. QED
      BY <3>4, <3>5, <3>6 DEF ConsumeEntries
  <2>3. ASSUME NEW w \in Workers, DieWriting(w) PROVE entries'[x][i] = entries[x][i]
    <3> DEFINE z == mapped[w]
               t == token[w]
    <3>1. pc[w] = "locked" /\ last_now' = last_now
      BY <2>3 DEF DieWriting, Replace
    <3>2. now[w] = last_now[z]
      BY <2>0, <3>1 DEF SampleIsCurrent
    <3>3. PICK j \in Slots, e \in Entry :
            /\ ~Live(entries[z][j], now[w])
            /\ e.id \in {entries[z][j].id, t}
            /\ entries' = [entries EXCEPT ![z][j] = e]
      BY <2>3, TornWrite, Zenon
    <3>4. x # z \/ i # j
      BY <3>1, <3>2, <3>3
    <3>5. QED
      BY <2>0, <3>1, <3>3, <3>4 DEF TypeOK
  <2>4. ASSUME NEW z \in Zones, CreateZone(z) PROVE entries'[x][i] = entries[x][i]
    BY <2>0, <2>4 DEF CreateZone, TypeOK
  <2>5. QED
    BY <2>1, <2>2, <2>3, <2>4, Zenon DEF Next, Issue, Verify, Lock, Exit, Replace, SetWall
<1>2. QED
  BY <1>1, Invariance, PTL DEF Spec, LiveEntriesKept

\* The tokens that the zone which issued them has seen as expired.
Closed == {t \in Tokens : IsIssued(t) /\ last_now[issued[t].zone] >= issued[t].expires}

\* A zone's clock never runs back and an issued token keeps its expiry, so a
\* closed token stays closed.
LEMMA ClosedGrows == IndInv /\ [Next]_vars => Closed \subseteq Closed'
<1> SUFFICES ASSUME IndInv, [Next]_vars, NEW t \in Closed PROVE t \in Closed'
  OBVIOUS
<1>0. TypeOK /\ t \in Tokens /\ IsIssued(t) /\ last_now[issued[t].zone] >= issued[t].expires
  BY DEF IndInv, Closed
<1> DEFINE z == issued[t].zone
<1>1. z \in created /\ z \in Zones /\ issued[t].expires \in Nat
  BY <1>0 DEF TypeOK
<1>2. CASE UNCHANGED <<issued, last_now>>
  BY <1>0, <1>2 DEF Closed, IsIssued
<1>3. ASSUME NEW w \in Workers, NEW u \in Tokens, Issue(w, u) PROVE t \in Closed'
  <2>1. u # t /\ last_now' = last_now
    BY <1>0, <1>3 DEF Issue
  <2>2. issued'[t] = issued[t]
    BY <1>0, <1>3, <2>1 DEF Issue, TypeOK
  <2>3. QED
    BY <1>0, <2>1, <2>2 DEF Closed, IsIssued
<1>4. ASSUME NEW w \in Workers, Lock(w) PROVE t \in Closed'
  <2>1. issued' = issued
    BY <1>4 DEF Lock
  <2>2. last_now'[z] >= issued[t].expires
    BY <1>0, <1>1, <1>4, TimeAssumption DEF Lock, TypeOK, Time
  <2>3. QED
    BY <1>0, <2>1, <2>2 DEF Closed, IsIssued
<1>5. ASSUME NEW x \in Zones, CreateZone(x) PROVE t \in Closed'
  <2>1. issued' = issued /\ last_now'[z] = last_now[z]
    BY <1>0, <1>1, <1>5 DEF CreateZone, TypeOK
  <2>2. QED
    BY <1>0, <2>1 DEF Closed, IsIssued
<1>6. QED
  BY <1>2, <1>3, <1>4, <1>5, Zenon DEF Next, Verify, Consume, Exit, DieWriting, Replace, SetWall

\* The zone implements the abstract one-use store: a step either redeems one
\* token that is neither spent nor closed, or only lets tokens expire.
THEOREM ZoneImplementsOneUse == Spec => ImplementsOneUse
<1>1. Init => Promise!Init
  BY DEF Init, Promise!Init, IsIssued, Unissued
<1>2. IndInv /\ [Next]_vars => [Promise!Next]_(Promise!vars)
  <2> SUFFICES ASSUME IndInv, [Next]_vars PROVE Promise!Next
    OBVIOUS
  <2>0. TypeOK /\ Closed \subseteq Closed'
    BY ClosedGrows DEF IndInv
  <2>1. CASE minted' = minted
    BY <2>0, <2>1 DEF Promise!Next, Promise!Close, Closed
  <2>2. CASE minted' # minted
    <3>1. PICK w \in Workers : Consume(w)
      BY <2>2, Zenon DEF Next, Issue, Verify, Lock, Exit, DieWriting, Replace, SetWall, CreateZone
    <3> DEFINE z == mapped[w]
               t == token[w]
               outcome == ConsumeOutcome(entries[z], t, issued[t].expires, now[w])
    <3>2. /\ pc[w] = "locked"
          /\ minted' = IF outcome = "Accepted" THEN [minted EXCEPT ![t] = @ + 1] ELSE minted
          /\ UNCHANGED <<issued, last_now>>
      BY <3>1, Zenon DEF Consume
    <3>3. outcome = "Accepted"
      BY <2>2, <3>2, Zenon
    <3>4. t \in Tokens /\ issued[t].zone = z
      BY <3>2, InHand
    <3>5. minted[t] = 0
      BY <3>1, <3>3, MintsFresh
    <3>6. minted' = [minted EXCEPT ![t] = 1]
      BY <2>0, <3>2, <3>3, <3>4, <3>5 DEF TypeOK
    <3>7. t \notin Closed'
      <4>1. now[w] = last_now[z]
        BY <3>2 DEF IndInv, SampleIsCurrent
      <4>2. ~(issued[t].expires <= last_now[z])
        BY <3>3, <4>1 DEF ConsumeOutcome
      <4>3. issued[t].expires \in Nat /\ last_now[z] \in Nat
        BY <2>0, <3>4, TimeAssumption DEF TypeOK, Time
      <4>4. QED
        BY <3>2, <3>4, <4>2, <4>3 DEF Closed
    <3>8. \E u \in Tokens : Promise!Redeem(u)
      BY <2>0, <3>4, <3>5, <3>6, <3>7, Zenon DEF Promise!Redeem, Closed
    <3>9. QED
      BY <3>8 DEF Promise!Next
  <2>3. QED
    BY <2>1, <2>2
<1>3. QED
  BY <1>1, <1>2, Invariance, PTL DEF Spec, ImplementsOneUse, Promise!Spec
=============================================================================
