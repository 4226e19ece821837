---------------------------- MODULE ClusterProofs ----------------------------
(***************************************************************************)
(* The Redis client keeps its limits, owns each job in one place, answers  *)
(* each request at most once and stays fenced, for any number of requests, *)
(* connections and queue places.                                           *)
(*                                                                         *)
(* The argument: the phase of a job tells where the runtime holds it and   *)
(* what it owns (Placed).  Every end of a job is one `Release', so what    *)
(* its drain loop does is stated once (Drain) and used for each handler.   *)
(***************************************************************************)
EXTENDS Cluster, FiniteSetTheorems, SequenceTheorems, TLAPS

USE DEF pool, status, job, reply, vars

Distinct(seq) == \A i, k \in DOMAIN seq : seq[i] = seq[k] => i = k
Elements(seq) == {seq[i] : i \in DOMAIN seq}
Before(seq, x, y) == \E i, k \in DOMAIN seq : i < k /\ seq[i] = x /\ seq[k] = y

\* Retained takes the job out and keeps every other one in its turn.
LEMMA RetainedProperties ==
  ASSUME NEW waiting \in Seq(Requests), Distinct(waiting), NEW j
  PROVE  /\ Retained(waiting, j) \in Seq(Requests)
         /\ Distinct(Retained(waiting, j))
         /\ Elements(Retained(waiting, j)) = Elements(waiting) \ {j}
         /\ Len(Retained(waiting, j)) <= Len(waiting)
         /\ \A x, y : Before(Retained(waiting, j), x, y) => Before(waiting, x, y)
<1>1. CASE \E i \in DOMAIN waiting : waiting[i] = j
  <2>1. PICK k \in DOMAIN waiting : waiting[k] = j
    BY <1>1
  <2>2. (CHOOSE i \in DOMAIN waiting : waiting[i] = j) = k
    BY <2>1 DEF Distinct
  <2> DEFINE a == SubSeq(waiting, 1, k - 1)
             b == SubSeq(waiting, k + 1, Len(waiting))
  <2>3. Retained(waiting, j) = a \o b
    BY <1>1, <2>2, Zenon DEF Retained
  <2>4. a \in Seq(Requests) /\ Len(a) = k - 1 /\ \A i \in 1 .. k - 1 : a[i] = waiting[i]
    BY <2>1, SubSeqProperties
  <2>5. /\ b \in Seq(Requests) /\ Len(b) = Len(waiting) - k
        /\ \A i \in 1 .. Len(waiting) - k : b[i] = waiting[k + i]
    BY <2>1, SubSeqProperties
  <2> HIDE DEF a, b
  <2>6. /\ a \o b \in Seq(Requests)
        /\ Len(a \o b) = Len(waiting) - 1
        /\ \A i \in 1 .. Len(waiting) - 1 :
             (a \o b)[i] = IF i < k THEN waiting[i] ELSE waiting[i + 1]
    BY <2>1, <2>4, <2>5, ConcatProperties, SMTT(30)
  <2> DEFINE s == a \o b
  <2>7. DOMAIN s = 1 .. Len(waiting) - 1 /\ DOMAIN waiting = 1 .. Len(waiting) /\ Len(waiting) \in Nat
    BY <2>6
  <2>8. \A i \in DOMAIN s : s[i] = IF i < k THEN waiting[i] ELSE waiting[i + 1]
    BY <2>6, <2>7, Zenon
  <2> HIDE DEF s
  <2>9. Distinct(s)
    BY <2>1, <2>7, <2>8, SMTT(30) DEF Distinct
  <2>10. Elements(s) \subseteq Elements(waiting) \ {j}
    BY <2>1, <2>7, <2>8 DEF Elements, Distinct
  <2>11. ASSUME NEW i \in DOMAIN waiting, waiting[i] # j
         PROVE  \E n \in DOMAIN s : s[n] = waiting[i]
    <3>1. CASE i < k
      BY <3>1, <2>1, <2>7, <2>8
    <3>2. CASE i > k
      <4>1. i - 1 \in DOMAIN s /\ ~(i - 1 < k)
        BY <3>2, <2>1, <2>7
      <4>2. s[i - 1] = waiting[i]
        BY <4>1, <2>8, <2>7
      <4>3. QED
        BY <4>1, <4>2
    <3>3. QED
      BY <3>1, <3>2, <2>11, <2>1, <2>7
  <2>12. Elements(waiting) \ {j} \subseteq Elements(s)
    BY <2>11 DEF Elements
  <2>13. ASSUME NEW m \in DOMAIN s, NEW n \in DOMAIN s, m < n
         PROVE  \E u, v \in DOMAIN waiting : u < v /\ waiting[u] = s[m] /\ waiting[v] = s[n]
    <3> DEFINE u == IF m < k THEN m ELSE m + 1
               v == IF n < k THEN n ELSE n + 1
    <3>1. u \in DOMAIN waiting /\ v \in DOMAIN waiting /\ u < v
      BY <2>1, <2>7, <2>13
    <3>2. waiting[u] = s[m] /\ waiting[v] = s[n]
      BY <2>8
    <3> HIDE DEF u, v
    <3>3. QED
      BY <3>1, <3>2
  <2>14. \A x, y : Before(s, x, y) => Before(waiting, x, y)
    <3> SUFFICES ASSUME NEW x, NEW y, Before(s, x, y) PROVE Before(waiting, x, y)
      OBVIOUS
    <3>1. PICK m \in DOMAIN s, n \in DOMAIN s : m < n /\ s[m] = x /\ s[n] = y
      BY DEF Before
    <3>2. QED
      BY <2>13, <3>1 DEF Before
  <2>15. Retained(waiting, j) = s /\ s \in Seq(Requests) /\ Len(s) <= Len(waiting)
    BY <2>3, <2>6, <2>7 DEF s
  <2>16. Elements(s) = Elements(waiting) \ {j}
    BY <2>10, <2>12
  <2>17. QED
    BY <2>9, <2>14, <2>15, <2>16, Zenon
<1>2. CASE ~ \E i \in DOMAIN waiting : waiting[i] = j
  BY <1>2 DEF Retained, Elements
<1>3. QED
  BY <1>1, <1>2

\* One more element is at most one more.
LEMMA AddOne ==
  ASSUME NEW S, NEW x, IsFiniteSet(S)
  PROVE  Cardinality(S \union {x}) <= Cardinality(S) + 1
<1>1. Cardinality(S) \in Nat
  BY FS_CardinalityType
<1>2. Cardinality(S \union {x}) = IF x \in S THEN Cardinality(S) ELSE Cardinality(S) + 1
  BY FS_AddElement, Zenon
<1>3. QED
  BY <1>1, <1>2

\* What the drain loop takes off the queue, and what it leaves.
Taken(act, pend, bad) == {pend[i] : i \in Popped(act, pend, bad)}
Rest(act, pend, bad) == SubSeq(pend, Cardinality(Popped(act, pend, bad)) + 1, Len(pend))

\* The drain loop takes a prefix of the queue, never exceeds the limit, and
\* stops early only at the limit.
LEMMA Drain ==
  ASSUME NEW act, IsFiniteSet(act), Cardinality(act) <= Connections,
         NEW pend \in Seq(Requests), Distinct(pend), NEW bad
  PROVE  /\ IsFiniteSet(act \union (Taken(act, pend, bad) \ bad))
         /\ Cardinality(act \union (Taken(act, pend, bad) \ bad)) <= Connections
         /\ Taken(act, pend, bad) \subseteq Elements(pend)
         /\ Rest(act, pend, bad) \in Seq(Requests) /\ Len(Rest(act, pend, bad)) <= Len(pend)
         /\ Distinct(Rest(act, pend, bad))
         /\ Elements(Rest(act, pend, bad)) = Elements(pend) \ Taken(act, pend, bad)
         /\ Rest(act, pend, bad) # <<>> =>
              Cardinality(act \union (Taken(act, pend, bad) \ bad)) = Connections
         /\ \A x, y : \/ Before(Rest(act, pend, bad), x, y)
                      \/ x \in Taken(act, pend, bad) /\ y \in Elements(Rest(act, pend, bad))
                      => Before(pend, x, y)
<1> DEFINE Upto(i) == act \union ({pend[k] : k \in 1 .. i} \ bad)
           popped == Popped(act, pend, bad)
           after == act \union ({pend[i] : i \in popped} \ bad)
           n == Cardinality(popped)
           rest == SubSeq(pend, n + 1, Len(pend))
<1>1. Len(pend) \in Nat /\ DOMAIN pend = 1 .. Len(pend)
  OBVIOUS
<1>2. ASSUME NEW i \in 0 .. Len(pend)
      PROVE  IsFiniteSet(Upto(i)) /\ Cardinality(Upto(i)) \in Nat
  <2> DEFINE f == [k \in 1 .. i |-> pend[k]]
             T == {pend[k] : k \in 1 .. i}
  <2>1. IsFiniteSet(1 .. i)
    BY <1>1, FS_Interval
  <2>2. f \in Surjection(1 .. i, T)
    BY DEF Surjection
  <2>3. IsFiniteSet(T)
    BY <2>1, <2>2, FS_Surjection
  <2>4. IsFiniteSet(T \ bad)
    BY <2>3, FS_Difference, Zenon
  <2>5. QED
    BY <2>4, FS_Union, FS_CardinalityType, Zenon
<1>3. ASSUME NEW i \in 0 .. Len(pend), NEW k \in 0 .. i
      PROVE  Cardinality(Upto(k)) <= Cardinality(Upto(i))
  <2>1. Upto(k) \subseteq Upto(i)
    BY <1>1
  <2>2. QED
    BY <1>1, <1>2, <2>1, FS_Subset, Zenon
<1>4. popped = {i \in 1 .. Len(pend) : Cardinality(Upto(i - 1)) < Connections}
  BY <1>1 DEF Popped
<1>5. IsFiniteSet(popped) /\ n \in Nat /\ n <= Len(pend)
  <2>1. IsFiniteSet(1 .. Len(pend)) /\ Cardinality(1 .. Len(pend)) = Len(pend)
    BY <1>1, FS_Interval, SMTT(30)
  <2>2. QED
    BY <1>1, <1>4, <2>1, FS_Subset, FS_CardinalityType, ZenonT(40)
<1> HIDE DEF popped, Upto
<1>6. popped = 1 .. n
  <2>1. IsFiniteSet(1 .. n) /\ Cardinality(1 .. n) = n
    BY <1>5, FS_Interval, SMTT(30)
  <2>2. ASSUME NEW i \in popped
        PROVE  i \in 1 .. n
    <3>1. \A k \in 1 .. i : k \in popped
      <4> SUFFICES ASSUME NEW k \in 1 .. i PROVE k \in popped
        OBVIOUS
      <4>1. i \in 1 .. Len(pend) /\ Cardinality(Upto(i - 1)) < Connections
        BY <1>4
      <4>2. k \in 1 .. Len(pend) /\ k - 1 \in 0 .. i - 1 /\ i - 1 \in 0 .. Len(pend)
        BY <1>1, <4>1
      <4>3. Cardinality(Upto(k - 1)) <= Cardinality(Upto(i - 1))
        BY <1>3, <4>2
      <4>4. Cardinality(Upto(k - 1)) \in Nat /\ Cardinality(Upto(i - 1)) \in Nat
        BY <1>2, <4>2, <1>1
      <4>5. QED
        BY <1>4, <4>1, <4>2, <4>3, <4>4, LimitAssumption
    <3>2. IsFiniteSet(1 .. i) /\ Cardinality(1 .. i) = i /\ i \in Nat \ {0}
      BY <1>1, <1>4, FS_Interval
    <3>3. i <= n
      BY <1>5, <3>1, <3>2, FS_Subset
    <3>4. QED
      BY <3>2, <3>3, <1>5
  <2>3. QED
    BY <1>5, <2>1, <2>2, FS_Subset
<1>7. after = Upto(n)
  BY <1>6, Zenon DEF Upto
<1>8. Cardinality(Upto(n)) <= Connections
  <2>1. CASE n = 0
    <3>1. Upto(n) = act
      BY <2>1 DEF Upto
    <3>2. QED
      BY <3>1
  <2>2. CASE n # 0
    <3>1. n \in popped /\ n \in Nat \ {0}
      BY <1>5, <1>6, <2>2
    <3>2. Cardinality(Upto(n - 1)) < Connections /\ Cardinality(Upto(n - 1)) \in Nat
          /\ IsFiniteSet(Upto(n - 1))
      BY <1>1, <1>2, <1>4, <1>5, <3>1
    <3>3. Upto(n) = Upto(n - 1) \/ Upto(n) = Upto(n - 1) \union {pend[n]}
      <4>1. 1 .. n = (1 .. n - 1) \union {n}
        BY <3>1
      <4>2. {pend[k] : k \in 1 .. n} = {pend[k] : k \in 1 .. n - 1} \union {pend[n]}
        BY <4>1
      <4>3. QED
        BY <4>2, Zenon DEF Upto
    <3>4. Cardinality(Upto(n - 1) \union {pend[n]}) <= Cardinality(Upto(n - 1)) + 1
      BY <3>2, AddOne, Zenon
    <3>5. Cardinality(Upto(n)) \in Nat
      BY <1>1, <1>2, <1>5
    <3>6. CASE Upto(n) = Upto(n - 1)
      BY <3>2, <3>6, LimitAssumption
    <3>7. CASE Upto(n) = Upto(n - 1) \union {pend[n]}
      <4>1. Cardinality(Upto(n)) <= Cardinality(Upto(n - 1)) + 1
        BY <3>4, <3>7
      <4>2. QED
        BY <3>2, <3>5, <4>1, LimitAssumption
    <3>8. QED
      BY <3>3, <3>6, <3>7
  <2>3. QED
    BY <2>1, <2>2
<1>9. /\ rest \in Seq(Requests)
      /\ Len(rest) = Len(pend) - n
      /\ \A i \in 1 .. Len(pend) - n : rest[i] = pend[n + i]
  <2>1. \A i \in n + 1 .. Len(pend) : pend[i] \in Requests
    BY <1>1, <1>5
  <2>2. QED
    BY <1>1, <1>5, <2>1, SubSeqProperties, SMTT(30)
<1> HIDE DEF rest, n
<1>10. DOMAIN rest = 1 .. Len(pend) - n
  BY <1>9
<1>11. Distinct(rest)
  <2> SUFFICES ASSUME NEW i \in DOMAIN rest, NEW k \in DOMAIN rest, rest[i] = rest[k]
               PROVE  i = k
    BY DEF Distinct
  <2>1. n + i \in DOMAIN pend /\ n + k \in DOMAIN pend
    BY <1>1, <1>5, <1>10
  <2>2. pend[n + i] = pend[n + k]
    BY <1>9, <1>10
  <2>3. n + i = n + k
    BY <2>1, <2>2 DEF Distinct
  <2>4. QED
    BY <1>5, <1>10, <2>3
<1>12. Elements(rest) = Elements(pend) \ {pend[i] : i \in popped}
  <2>1. ASSUME NEW x \in Elements(rest)
        PROVE  x \in Elements(pend) \ {pend[i] : i \in popped}
    <3>1. PICK i \in DOMAIN rest : x = rest[i]
      BY DEF Elements
    <3>2. x = pend[n + i] /\ n + i \in DOMAIN pend /\ n + i \notin popped
      BY <1>1, <1>5, <1>6, <1>9, <1>10, <3>1
    <3>3. QED
      BY <3>2, <1>1, <1>5, <1>6 DEF Elements, Distinct
  <2>2. ASSUME NEW i \in DOMAIN pend, pend[i] \notin {pend[k] : k \in popped}
        PROVE  pend[i] \in Elements(rest)
    <3>1. i \notin popped
      BY <2>2
    <3>2. i - n \in 1 .. Len(pend) - n /\ n + (i - n) = i
      BY <1>1, <1>5, <1>6, <3>1
    <3>3. rest[i - n] = pend[i]
      BY <1>9, <3>2
    <3>4. QED
      BY <1>10, <3>2, <3>3 DEF Elements
  <2>3. QED
    BY <2>1, <2>2, Zenon DEF Elements
<1>13. ASSUME rest # <<>>
       PROVE  Cardinality(Upto(n)) = Connections
  <2>1. n < Len(pend)
    BY <1>1, <1>5, <1>9, <1>13, EmptySeq
  <2>2. n + 1 \in 1 .. Len(pend) /\ n + 1 \notin popped /\ (n + 1) - 1 = n
    BY <1>1, <1>5, <1>6, <2>1
  <2>3. ~(Cardinality(Upto(n)) < Connections)
    BY <1>4, <2>2
  <2>4. Cardinality(Upto(n)) \in Nat
    BY <1>1, <1>2, <1>5
  <2>5. QED
    BY <1>8, <2>3, <2>4, LimitAssumption
<1>14. IsFiniteSet(Upto(n)) /\ popped \subseteq DOMAIN pend
  BY <1>1, <1>2, <1>4, <1>5
<1>15. /\ IsFiniteSet(after) /\ Cardinality(after) <= Connections
       /\ rest # <<>> => Cardinality(after) = Connections
  BY <1>7, <1>8, <1>13, <1>14, Zenon
<1>16. Len(rest) <= Len(pend)
  BY <1>1, <1>5, <1>9
<1>17. {pend[i] : i \in popped} \subseteq Elements(pend)
  BY <1>14 DEF Elements
<1>18. Taken(act, pend, bad) = {pend[i] : i \in popped} /\ Rest(act, pend, bad) = rest
  BY DEF Taken, Rest, rest, n, popped
<1>19. after = act \union (Taken(act, pend, bad) \ bad)
  BY <1>18
<1>20. ASSUME NEW x, NEW y, Before(rest, x, y) PROVE Before(pend, x, y)
  <2>1. PICK i \in DOMAIN rest, k \in DOMAIN rest : i < k /\ rest[i] = x /\ rest[k] = y
    BY <1>20 DEF Before
  <2>2. /\ n + i \in DOMAIN pend /\ n + k \in DOMAIN pend /\ n + i < n + k
        /\ pend[n + i] = x /\ pend[n + k] = y
    BY <1>1, <1>5, <1>9, <1>10, <2>1
  <2>3. QED
    BY <2>2 DEF Before
<1>21. ASSUME NEW x \in {pend[i] : i \in popped}, NEW y \in Elements(rest) PROVE Before(pend, x, y)
  <2>1. PICK i \in popped : x = pend[i]
    OBVIOUS
  <2>2. PICK k \in DOMAIN rest : y = rest[k]
    BY DEF Elements
  <2>3. /\ i \in DOMAIN pend /\ n + k \in DOMAIN pend /\ i < n + k
        /\ pend[n + k] = y
    BY <1>1, <1>5, <1>6, <1>9, <1>10, <2>2
  <2>4. QED
    BY <2>1, <2>3 DEF Before
<1> HIDE DEF after
<1>22. QED
  BY <1>9, <1>11, <1>12, <1>15, <1>16, <1>17, <1>18, <1>19, <1>20, <1>21

\* Every way a job ends keeps the invariant: the end of j, the connects that
\* fail behind it, and the waiting jobs that get their slots.
LEMMA ReleaseStep ==
  ASSUME IndInv, NEW j \in AllJobs, NEW outcome \in Outcomes, NEW fence \in BOOLEAN,
         NEW gone, NEW bad \in SUBSET (InQueue \ {j}),
         j \in Requests => answers[j] = 0,
         Release(j, outcome, fence, gone, bad), UNCHANGED <<polling, exiting>>
  PROVE  IndInv'
<1> DEFINE act == active \ {j}
           pend == Retained(pending, j)
           taken == Taken(act, pend, bad)
           started == taken \ bad
           failed == taken \intersect bad
           ended == failed \union {j}
           told == IF gone \/ j = Health THEN failed ELSE failed \union {j}
           own == IF outcome = "Accepted" /\ j \in late THEN "Expired" ELSE outcome
<1>1. /\ pending \in Seq(Requests) /\ Distinct(pending) /\ InQueue = Elements(pending)
      /\ active \in SUBSET Requests /\ IsFiniteSet(active)
  BY DEF IndInv, TypeOK, Placed, Distinct, Elements, InQueue
<1>2. /\ pend \in Seq(Requests) /\ Distinct(pend)
      /\ Elements(pend) = InQueue \ {j} /\ Len(pend) <= Len(pending)
  BY <1>1, RetainedProperties
<1>3. IsFiniteSet(act) /\ Cardinality(act) <= Connections
  <2>1. Cardinality(active) <= Connections
    BY DEF IndInv, NoIdleSlot
  <2>2. IsFiniteSet(act) /\ Cardinality(act) <= Cardinality(active)
    BY <1>1, FS_Subset
  <2>3. Cardinality(act) \in Nat /\ Cardinality(active) \in Nat
    BY <1>1, <2>2, FS_CardinalityType
  <2>4. QED
    BY <2>1, <2>2, <2>3, LimitAssumption
<1>4. /\ active' = act \union started
      /\ pending' = Rest(act, pend, bad)
      /\ phase' = [k \in AllJobs |-> IF k \in ended THEN "freed"
                                     ELSE IF k \in started THEN "connecting" ELSE phase[k]]
      /\ timer' = timer \ ended
      /\ conn' = (conn \ ended) \union started
      /\ cleanup' = cleanup \ ended
      /\ health_busy' = (health_busy /\ j # Health)
      /\ fenced' = (fenced \/ fence)
      /\ ready' = IF j = Health THEN HealthReady(outcome, fence) ELSE ready /\ ~fence
      /\ fresh' = (fresh \/ (j = Health /\ ready'))
      /\ answer' = [r \in Requests |-> IF r \in told THEN IF r = j THEN own ELSE "Full" ELSE answer[r]]
      /\ answers' = [r \in Requests |-> IF r \in told THEN answers[r] + 1 ELSE answers[r]]
  BY Zenon DEF Release, Finish, Taken, Rest
<1> HIDE DEF act, pend
<1>5. /\ IsFiniteSet(active') /\ Cardinality(active') <= Connections
      /\ taken \subseteq Elements(pend)
      /\ pending' \in Seq(Requests) /\ Len(pending') <= Len(pend)
      /\ Distinct(pending')
      /\ Elements(pending') = Elements(pend) \ taken
      /\ pending' # <<>> => Cardinality(active') = Connections
  BY <1>2, <1>3, <1>4, Drain, Zenon
<1>6. taken \subseteq InQueue \ {j}
  BY <1>2, <1>5
<1> HIDE DEF taken
<1>7. InQueue \subseteq Requests /\ Health \notin taken /\ Health \in AllJobs /\ Requests \subseteq AllJobs
  <2>1. InQueue \subseteq Requests
    BY ONLY <1>1 DEF Elements
  <2>2. QED
    BY ONLY <1>6, <2>1, HealthAssumption DEF AllJobs
<1>8. InQueue' = (InQueue \ {j}) \ taken
  BY <1>2, <1>5, Zenon DEF InQueue, Elements
<1>9. TypeOK'
  <2>1. phase' \in [AllJobs -> {"new", "queued", "connecting", "sent", "freed"}]
    BY <1>4 DEF IndInv, TypeOK
  <2>2. active' \in SUBSET Requests
    BY <1>1, <1>4, <1>6, <1>7 DEF act
  <2>3. timer' \in SUBSET AllJobs /\ conn' \in SUBSET AllJobs /\ cleanup' \in SUBSET Requests
    BY <1>4, <1>6, <1>7 DEF IndInv, TypeOK
  <2>4. answers' \in [Requests -> Nat]
    BY <1>4 DEF IndInv, TypeOK
  <2>5. answer' \in [Requests -> Outcomes \union {"none"}]
    BY <1>4 DEF IndInv, TypeOK, Outcomes
  <2>6. {health_busy', ready', fenced', fresh', polling', exiting'} \subseteq BOOLEAN
    BY <1>4, Zenon DEF IndInv, TypeOK, HealthReady
  <2>7. QED
    BY <1>5, <2>1, <2>2, <2>3, <2>4, <2>5, <2>6 DEF TypeOK
<1>10. \A k \in AllJobs : phase'[k] = IF k \in ended THEN "freed"
                                      ELSE IF k \in started THEN "connecting" ELSE phase[k]
  BY <1>4
<1>11. Placed'
  <2> USE DEF IndInv, TypeOK, Placed, Connected, Live
  <2>1. active' = {r \in Requests : Connected(r)}'
    BY <1>1, <1>4, <1>6, <1>7, <1>10 DEF act
  <2>2. InQueue' = {r \in Requests : phase[r] = "queued"}'
    BY <1>6, <1>7, <1>8, <1>10
  <2>3. phase'[Health] # "queued"
    BY <1>7, <1>10
  <2>4. health_busy' <=> Live(Health)'
    BY <1>4, <1>6, <1>7, <1>10, Zenon
  <2>5. conn' = {k \in AllJobs : Connected(k)}'
    BY <1>4, <1>6, <1>7, <1>10
  <2>6. timer' = {k \in AllJobs : Live(k)}'
    BY <1>4, <1>6, <1>7, <1>10
  <2>7. cleanup' = {r \in Requests : Live(r)}'
    BY <1>4, <1>6, <1>7, <1>10
  <2>8. \A i, k \in DOMAIN pending' : pending'[i] = pending'[k] => i = k
    BY <1>5 DEF Distinct
  <2>9. QED
    BY <2>1, <2>2, <2>3, <2>4, <2>5, <2>6, <2>7, <2>8
<1>12. FenceHolds'
  BY <1>4, Zenon DEF FenceHolds, IndInv, HealthReady
<1>13. NoIdleSlot'
  <2>1. Len(pending') <= Queue
    BY <1>1, <1>2, <1>5, LimitAssumption DEF IndInv, NoIdleSlot
  <2>2. conn' \ {Health} = active'
    BY <1>11, HealthAssumption DEF Placed, Connected, AllJobs
  <2>3. QED
    BY <1>5, <2>1, <2>2, Zenon DEF NoIdleSlot
<1>14. FinishedOnce'
  <2>1. SUFFICES ASSUME NEW r \in Requests
                 PROVE  answers'[r] <= 1 /\ (Live(r)' => answers'[r] = 0)
    BY DEF FinishedOnce
  <2>2. r \in told => answers[r] = 0
    BY <1>6 DEF IndInv, FinishedOnce, Placed, Live
  <2>3. Live(r)' => Live(r) /\ r \notin ended
    BY <1>6, <1>7, <1>10 DEF Live, IndInv, Placed
  <2>4. answers[r] \in Nat /\ answers[r] <= 1 /\ (Live(r) => answers[r] = 0)
    BY DEF IndInv, FinishedOnce, TypeOK
  <2>5. answers'[r] = IF r \in told THEN answers[r] + 1 ELSE answers[r]
    BY <1>4
  <2>6. r \in told => r \in ended
    OBVIOUS
  <2> HIDE DEF told, ended
  <2>7. CASE r \in told
    <3>1. answers'[r] = 1
      BY <2>2, <2>5, <2>7
    <3>2. ~Live(r)'
      BY <2>3, <2>6, <2>7
    <3>3. QED
      BY <3>1, <3>2
  <2>8. CASE r \notin told
    <3>1. answers'[r] = answers[r]
      BY <2>5, <2>8
    <3>2. QED
      BY <2>3, <2>4, <3>1
  <2>9. QED
    BY <2>7, <2>8
<1>15. QED
  BY <1>9, <1>11, <1>12, <1>13, <1>14 DEF IndInv

\* activate establishes the invariant.
LEMMA InitInv == Init => IndInv
<1> SUFFICES ASSUME Init PROVE IndInv
  OBVIOUS
<1>1. InQueue = {}
  BY DEF Init, InQueue
<1>2. TypeOK
  <2>1. {health_busy, ready, fenced, fresh, polling, exiting} \subseteq BOOLEAN
    BY Zenon DEF Init
  <2>2. phase \in [AllJobs -> {"new", "queued", "connecting", "sent", "freed"}]
    BY DEF Init
  <2>3. pending \in Seq(Requests) /\ active \in SUBSET Requests /\ IsFiniteSet(active)
    BY FS_EmptySet DEF Init
  <2>4. QED
    BY <2>1, <2>2, <2>3 DEF Init, TypeOK
<1>3. Placed
  BY <1>1 DEF Init, Placed, Connected, Live, AllJobs
<1>4. NoIdleSlot
  BY FS_EmptySet, LimitAssumption DEF Init, NoIdleSlot
<1>5. QED
  BY <1>2, <1>3, <1>4 DEF Init, IndInv, FenceHolds, FinishedOnce, Live

\* A new job on a free slot.
LEMMA ConnectStep ==
  ASSUME IndInv, NEW r \in Requests, RedeemConnect(r)
  PROVE  IndInv'
<1> USE DEF RedeemConnect, Arm
<1>1. r \in AllJobs /\ Health \in AllJobs /\ r # Health
  BY HealthAssumption DEF AllJobs
<1>2. InQueue' = InQueue
  BY DEF InQueue
<1>3. r \notin active
  BY DEF IndInv, Placed, Connected
<1>4. IsFiniteSet(active') /\ Cardinality(active') <= Connections
  <2>1. IsFiniteSet(active) /\ Cardinality(active) \in Nat
    BY FS_CardinalityType DEF IndInv, TypeOK
  <2>2. IsFiniteSet(active') /\ Cardinality(active') <= Cardinality(active) + 1
    BY <2>1, AddOne, FS_AddElement, SMTT(30)
  <2>3. Cardinality(active') \in Nat
    BY <2>2, FS_CardinalityType
  <2>4. QED
    BY <2>1, <2>2, <2>3, LimitAssumption
<1>5. TypeOK'
  BY <1>1, <1>4 DEF IndInv, TypeOK
<1>6. Placed'
  <2>1. \A k \in AllJobs : phase'[k] = IF k = r THEN "connecting" ELSE phase[k]
    BY DEF IndInv, TypeOK
  <2>2. \A k \in AllJobs : (Connected(k)' <=> Connected(k) \/ k = r) /\ (Live(k)' <=> Live(k) \/ k = r)
    BY <2>1 DEF Connected, Live
  <2>3. active' = {x \in Requests : Connected(x)}'
    BY <2>2 DEF IndInv, Placed, AllJobs
  <2>4. InQueue' = {x \in Requests : phase[x] = "queued"}'
    BY <1>2, <2>1 DEF IndInv, Placed, AllJobs
  <2>5. phase'[Health] # "queued" /\ (health_busy' <=> Live(Health)')
    BY <1>1, <2>1, <2>2 DEF IndInv, Placed
  <2>6. conn' = {x \in AllJobs : Connected(x)}'
    BY <1>1, <2>2 DEF IndInv, Placed
  <2>7. timer' = {x \in AllJobs : Live(x)}'
    BY <1>1, <2>2 DEF IndInv, Placed
  <2>8. cleanup' = {x \in Requests : Live(x)}'
    BY <2>2 DEF IndInv, Placed, AllJobs
  <2>9. QED
    BY <2>3, <2>4, <2>5, <2>6, <2>7, <2>8 DEF IndInv, Placed
<1>7. NoIdleSlot'
  <2>1. conn' \ {Health} = active'
    BY <1>6, HealthAssumption DEF Placed, Connected, AllJobs
  <2>2. pending' = <<>>
    <3>1. Cardinality(active) \in Nat
      BY FS_CardinalityType DEF IndInv, TypeOK
    <3>2. QED
      BY <3>1, LimitAssumption DEF IndInv, NoIdleSlot
  <2>3. QED
    BY <1>4, <2>1, <2>2, Zenon DEF IndInv, NoIdleSlot
<1>8. FinishedOnce'
  BY <1>1 DEF IndInv, TypeOK, FinishedOnce, Live
<1>9. QED
  BY <1>5, <1>6, <1>7, <1>8 DEF IndInv, FenceHolds

\* A new job at the end of the queue.
LEMMA QueueStep ==
  ASSUME IndInv, NEW r \in Requests, RedeemQueue(r)
  PROVE  IndInv'
<1> USE DEF RedeemQueue, Arm
<1>1. r \in AllJobs /\ Health \in AllJobs /\ r # Health
  BY HealthAssumption DEF AllJobs
<1>2. pending \in Seq(Requests) /\ Cardinality(active) \in Nat
  BY FS_CardinalityType DEF IndInv, TypeOK
<1>3. /\ pending' \in Seq(Requests) /\ Len(pending') = Len(pending) + 1
      /\ \A i \in 1 .. Len(pending) : pending'[i] = pending[i]
      /\ pending'[Len(pending) + 1] = r
  <2>1. pending' = Append(pending, r)
    OBVIOUS
  <2> HIDE DEF RedeemQueue, Arm
  <2>2. QED
    BY ONLY <1>2, <2>1, r \in Requests, AppendProperties
<1>4. DOMAIN pending = 1 .. Len(pending) /\ DOMAIN pending' = 1 .. Len(pending) + 1 /\ Len(pending) \in Nat
  BY <1>2, <1>3
<1>5. InQueue' = InQueue \union {r} /\ r \notin InQueue
  <2>1. r \notin InQueue
    BY DEF IndInv, Placed
  <2>2. InQueue' \subseteq InQueue \union {r}
    BY <1>3, <1>4 DEF InQueue
  <2>3. InQueue \union {r} \subseteq InQueue'
    BY <1>3, <1>4 DEF InQueue
  <2>4. QED
    BY <2>1, <2>2, <2>3
<1>6. \A i, k \in DOMAIN pending' : pending'[i] = pending'[k] => i = k
  <2> SUFFICES ASSUME NEW i \in DOMAIN pending', NEW k \in DOMAIN pending', pending'[i] = pending'[k]
               PROVE  i = k
    OBVIOUS
  <2>1. \A n \in DOMAIN pending : pending[n] # r
    BY <1>5 DEF InQueue
  <2>2. QED
    BY <1>3, <1>4, <2>1 DEF IndInv, Placed
<1>7. TypeOK'
  BY <1>1, <1>3 DEF IndInv, TypeOK
<1>8. \A k \in AllJobs : phase'[k] = IF k = r THEN "queued" ELSE phase[k]
  BY DEF IndInv, TypeOK
<1>9. \A k \in AllJobs : (Connected(k)' <=> Connected(k)) /\ (Live(k)' <=> Live(k) \/ k = r)
  BY <1>8 DEF Connected, Live
<1>10. Placed'
  <2>1. active' = {x \in Requests : Connected(x)}'
    BY <1>9 DEF IndInv, Placed, AllJobs
  <2>2. InQueue' = {x \in Requests : phase[x] = "queued"}'
    BY <1>5, <1>8 DEF IndInv, Placed, AllJobs
  <2>3. phase'[Health] # "queued" /\ (health_busy' <=> Live(Health)')
    BY <1>1, <1>8, <1>9 DEF IndInv, Placed
  <2>4. conn' = {x \in AllJobs : Connected(x)}'
    BY <1>9 DEF IndInv, Placed
  <2>5. timer' = {x \in AllJobs : Live(x)}' /\ cleanup' = {x \in Requests : Live(x)}'
    BY <1>1, <1>9 DEF IndInv, Placed, AllJobs
  <2>6. QED
    BY <1>6, <2>1, <2>2, <2>3, <2>4, <2>5 DEF Placed
<1>11. NoIdleSlot'
  <2>1. Cardinality(active) = Connections
    <3>1. Cardinality(active) >= Connections /\ Cardinality(active) <= Connections
      BY Zenon DEF IndInv, NoIdleSlot
    <3>2. Connections \in Nat
      BY LimitAssumption
    <3> HIDE DEF RedeemQueue, Arm
    <3>3. QED
      BY ONLY <1>2, <3>1, <3>2
  <2>2. ~(Len(pending) >= Queue)
    BY DEF Full
  <2>3. Len(pending') <= Queue
    BY <1>3, <1>4, <2>2, LimitAssumption
  <2>4. QED
    BY <2>1, <2>3 DEF IndInv, NoIdleSlot
<1>12. FinishedOnce'
  BY <1>1, <1>9 DEF IndInv, FinishedOnce, AllJobs
<1>13. QED
  BY <1>7, <1>10, <1>11, <1>12 DEF IndInv, FenceHolds

\* The end of a live job, or of a connect that fails at once.
LEMMA CompleteStep ==
  ASSUME IndInv, NEW j \in AllJobs, NEW outcome \in Outcomes, NEW fence \in BOOLEAN,
         NEW gone \in BOOLEAN, Live(j) \/ j = Health \/ answers[j] = 0,
         complete(j, outcome, fence, gone), UNCHANGED <<polling, exiting>>
  PROVE  IndInv'
<1>1. PICK bad \in SUBSET (InQueue \ {j}) : Release(j, outcome, fence, gone, bad)
  BY DEF complete
<1>2. j \in Requests => answers[j] = 0
  BY HealthAssumption DEF IndInv, FinishedOnce
<1>3. QED
  BY <1>1, <1>2, ReleaseStep

\* What owns a resource is live.
LEMMA OwnersAreLive ==
  ASSUME IndInv, NEW j \in AllJobs
  PROVE  /\ j \in timer \/ j \in conn \/ j \in cleanup => Live(j)
         /\ phase[j] \in {"connecting", "sent"} => Live(j)
BY DEF IndInv, Placed, Connected, Live

\* Steps that touch nothing but AUTH, the clocks and the shutdown.
LEMMA FrameStep ==
  ASSUME IndInv, UNCHANGED <<pool, health_busy, ready, fenced, phase, timer, conn, cleanup, answer, answers>>,
         {fresh', polling', exiting'} \subseteq BOOLEAN
  PROVE  IndInv'
<1>1. InQueue' = InQueue
  BY DEF InQueue
<1>2. \A j : (Live(j)' <=> Live(j)) /\ (Connected(j)' <=> Connected(j))
  BY DEF Live, Connected
<1>3. TypeOK'
  BY DEF IndInv, TypeOK
<1>4. Placed'
  BY <1>1, <1>2 DEF IndInv, Placed
<1>5. NoIdleSlot' /\ FinishedOnce' /\ FenceHolds'
  BY <1>2 DEF IndInv, NoIdleSlot, FinishedOnce, FenceHolds
<1>6. QED
  BY <1>3, <1>4, <1>5 DEF IndInv

\* Every step keeps the invariant.
LEMMA NextInv == IndInv /\ [Next]_vars => IndInv'
<1> SUFFICES ASSUME IndInv, [Next]_vars PROVE IndInv'
  OBVIOUS
<1>a. {"Full", "Accepted", "Reused", "Expired"} \subseteq Outcomes /\ Requests \subseteq AllJobs /\ Health \in AllJobs
  BY DEF Outcomes, AllJobs
<1>b. {fresh, polling, exiting} \subseteq BOOLEAN
  BY DEF IndInv, TypeOK
<1>1. ASSUME NEW r \in Requests, RedeemRefused(r) PROVE IndInv'
  <2>1. InQueue' = InQueue
    BY <1>1, Zenon DEF RedeemRefused, InQueue
  <2>2. answers' = [x \in Requests |-> IF x = r THEN answers[x] + 1 ELSE answers[x]]
        /\ answer' = [x \in Requests |-> IF x = r THEN "Full" ELSE answer[x]]
    BY <1>1 DEF RedeemRefused, Finish
  <2>3. TypeOK'
    <3>1. answers' \in [Requests -> Nat] /\ answer' \in [Requests -> Outcomes \union {"none"}]
      BY <2>2 DEF IndInv, TypeOK, Outcomes
    <3>2. QED
      BY <1>1, <3>1 DEF RedeemRefused, IndInv, TypeOK
  <2>4. FinishedOnce'
    <3>1. phase' = phase /\ phase[r] = "new" /\ answers[r] = 0
      BY <1>1 DEF RedeemRefused
    <3>2. QED
      BY <2>2, <3>1 DEF IndInv, FinishedOnce, Live
  <2>5. QED
    BY <1>1, <2>1, <2>3, <2>4
       DEF RedeemRefused, IndInv, Placed, Connected, Live, NoIdleSlot, FenceHolds
<1>2. ASSUME NEW r \in Requests, RedeemConnect(r) PROVE IndInv'
  BY <1>2, ConnectStep
<1>3. ASSUME NEW r \in Requests, RedeemFailed(r) PROVE IndInv'
  BY <1>a, <1>3, CompleteStep, Zenon DEF RedeemFailed
<1>4. ASSUME NEW r \in Requests, RedeemQueue(r) PROVE IndInv'
  BY <1>4, QueueStep
<1>5. ASSUME NEW r \in Requests, Aborted(r) PROVE IndInv'
  BY <1>a, <1>5, CompleteStep, OwnersAreLive, Zenon DEF Aborted
<1>6. ASSUME NEW r \in Requests, Expire(r) PROVE IndInv'
  BY <1>b, <1>6, FrameStep DEF Expire
<1>7. ASSUME NEW j \in AllJobs, Write(j) PROVE IndInv'
  <2>1. InQueue' = InQueue
    BY <1>7 DEF Write, InQueue
  <2>2. TypeOK'
    BY <1>7 DEF Write, IndInv, TypeOK
  <2>3. Placed'
    BY <1>a, <1>7, <2>1 DEF Write, IndInv, TypeOK, Placed, Connected, Live
  <2>4. FinishedOnce'
    BY <1>a, <1>7 DEF Write, IndInv, TypeOK, FinishedOnce, Live
  <2>5. QED
    BY <1>7, <2>2, <2>3, <2>4 DEF Write, IndInv, NoIdleSlot, FenceHolds
<1>8. ASSUME NEW j \in AllJobs, SocketError(j) PROVE IndInv'
  BY <1>a, <1>8, CompleteStep, OwnersAreLive, Zenon DEF SocketError
<1>9. ASSUME NEW j \in AllJobs, Timeout(j) PROVE IndInv'
  BY <1>a, <1>9, CompleteStep, OwnersAreLive, Zenon DEF Timeout
<1>10. ASSUME NEW j \in AllJobs, NEW ok \in BOOLEAN, AuthReply(j, ok) PROVE IndInv'
  <2>1. CASE ok
    BY <1>b, <1>10, <2>1, FrameStep, Zenon DEF AuthReply
  <2>2. CASE ~ok
    BY <1>a, <1>10, <2>2, CompleteStep, OwnersAreLive, Zenon DEF AuthReply
  <2>3. QED
    BY <2>1, <2>2
<1>11. ASSUME NEW j \in AllJobs, NEW r \in Replies, ScriptReply(j, r) PROVE IndInv'
  <2>1. ReplyOutcome(r) \in Outcomes
    BY DEF ReplyOutcome, Replies, Outcomes
  <2>2. QED
    BY <1>11, <2>1, CompleteStep, OwnersAreLive, Zenon DEF ScriptReply
<1>12. CASE PollConnect
  <2>1. InQueue' = InQueue
    BY <1>12 DEF PollConnect, InQueue
  <2>2. TypeOK'
    BY <1>a, <1>12 DEF PollConnect, IndInv, TypeOK
  <2>3. Placed'
    <3> USE DEF PollConnect, IndInv, Placed
    <3>1. \A k \in AllJobs : phase'[k] = IF k = Health THEN "connecting" ELSE phase[k]
      BY <1>12 DEF TypeOK
    <3>2. \A k \in AllJobs : /\ Connected(k)' <=> Connected(k) \/ k = Health
                             /\ Live(k)' <=> Live(k) \/ k = Health
      BY <3>1 DEF Connected, Live
    <3>3. active' = {x \in Requests : Connected(x)}' /\ cleanup' = {x \in Requests : Live(x)}'
      BY <1>12, <1>a, <3>2, HealthAssumption
    <3>4. InQueue' = {x \in Requests : phase[x] = "queued"}'
      BY <1>a, <2>1, <3>1, HealthAssumption
    <3>5. phase'[Health] # "queued" /\ (health_busy' <=> Live(Health)')
      <4>1. phase'[Health] = "connecting" /\ health_busy'
        BY <1>12, <1>a, <3>1
      <4>2. Live(Health)'
        BY <1>a, <3>2
      <4>3. QED
        BY <4>1, <4>2
    <3>6. conn' = {x \in AllJobs : Connected(x)}' /\ timer' = {x \in AllJobs : Live(x)}'
      BY <1>12, <1>a, <3>2
    <3>7. QED
      BY <1>12, <2>1, <3>3, <3>4, <3>5, <3>6
  <2>4. NoIdleSlot'
    <3>1. conn' \ {Health} = conn \ {Health}
      BY <1>12 DEF PollConnect
    <3>2. QED
      BY <1>12, <3>1, Zenon DEF PollConnect, IndInv, NoIdleSlot
  <2>5. FinishedOnce'
    BY <1>a, <1>12, HealthAssumption DEF PollConnect, IndInv, TypeOK, FinishedOnce, Live
  <2>6. QED
    BY <1>12, <2>2, <2>3, <2>4, <2>5 DEF PollConnect, IndInv, FenceHolds
<1>13. CASE PollFailed
  BY <1>a, <1>13, CompleteStep, Zenon DEF PollFailed
<1>14. CASE PollSkip \/ PollStop \/ Stale \/ Quit \/ UNCHANGED vars
  BY <1>b, <1>14, FrameStep, Zenon DEF PollSkip, PollStop, Stale, Quit
<1>15. QED
  BY <1>1, <1>2, <1>3, <1>4, <1>5, <1>6, <1>7, <1>8, <1>9, <1>10, <1>11, <1>12, <1>13, <1>14 DEF Next

LEMMA Invariance == Spec => []IndInv
BY InitInv, NextInv, PTL DEF Spec

\* cluster.rs, redeem and complete: sockets and waiting requests stay within
\* `connections' and `queue', and nobody waits while a slot is free.
THEOREM LimitsAreKept == Spec => []NoIdleSlot
<1>1. IndInv => NoIdleSlot
  BY DEF IndInv
<1>2. QED
  BY <1>1, Invariance, PTL

\* cluster.rs, complete: a job is held in one place while it lives, and no
\* timer, connection or cleanup handler outlives it.
THEOREM JobsHaveOnePlace == Spec => []NoDanglingJob
<1>1. IndInv => NoDanglingJob
  <2> SUFFICES ASSUME IndInv PROVE NoDanglingJob
    OBVIOUS
  <2> USE DEF IndInv, Placed, Live, Connected
  <2>1. active \intersect InQueue = {}
    OBVIOUS
  <2>2. active \union InQueue = {r \in Requests : Live(r)}
    OBVIOUS
  <2>3. \A j \in timer \union conn \union cleanup : Live(j)
    OBVIOUS
  <2>4. \A r \in Requests : Live(r) => r \in timer /\ r \in cleanup
    BY DEF AllJobs
  <2>5. QED
    BY <2>1, <2>2, <2>3, <2>4 DEF NoDanglingJob
<1>2. QED
  BY <1>1, Invariance, PTL

\* cluster.rs, redeem: a request is finalized at most once, and not while its
\* job lives, whichever of reply, deadline and departure comes first.
THEOREM AnsweredAtMostOnce == Spec => []FinishedOnce
<1>1. IndInv => FinishedOnce
  BY DEF IndInv
<1>2. QED
  BY <1>1, Invariance, PTL

\* cluster.rs, poll and complete: once fenced, a worker is never ready again.
THEOREM FenceIsPermanent == Spec => FencedForGood
<1>1. ASSUME IndInv, IndInv', [Next]_vars, fenced
      PROVE  fenced' /\ ~ready'
  <2>1. ASSUME NEW j \in AllJobs, NEW outcome, NEW fence \in BOOLEAN, NEW gone,
               complete(j, outcome, fence, gone)
        PROVE  fenced'
    BY <1>1, <2>1, Zenon DEF complete, Release
  <2>2. fenced'
    <3>1. \A r \in Requests : r \in AllJobs
      BY DEF AllJobs
    <3>2. Health \in AllJobs
      BY DEF AllJobs
    <3>3. QED
      BY <1>1, <2>1, <3>1, <3>2, Zenon
         DEF Next, RedeemRefused, RedeemConnect, RedeemFailed, RedeemQueue, Aborted, Expire, Arm,
             Write, SocketError, Timeout, AuthReply, ScriptReply, PollSkip, PollConnect,
             PollFailed, PollStop, Stale, Quit
  <2>3. QED
    BY <1>1, <2>2 DEF IndInv, FenceHolds
<1>2. QED
  BY <1>1, Invariance, PTL DEF Spec, FencedForGood

\* cluster.rs, complete: only the script's reply 1, to a token that has not
\* expired, mints a clearance.
THEOREM MintNeedsConfirmation == Spec => MintIsConfirmed
<1> DEFINE Minted(x) == answer[x] # "Accepted" /\ answer'[x] = "Accepted"
<1>1. ASSUME NEW x \in Requests, Minted(x), NEW j \in AllJobs, NEW outcome, NEW fence, NEW gone,
             complete(j, outcome, fence, gone)
      PROVE  x = j /\ outcome = "Accepted" /\ x \notin late
  <2>1. PICK bad : Release(j, outcome, fence, gone, bad)
    BY <1>1 DEF complete
  <2>2. PICK told :
          answer' = [r \in Requests |->
            IF r \in told
            THEN IF r = j THEN IF outcome = "Accepted" /\ j \in late THEN "Expired" ELSE outcome
                 ELSE "Full"
            ELSE answer[r]]
    BY <2>1, Zenon DEF Release, Finish
  <2>3. QED
    BY <1>1, <2>2
<1>2. ASSUME [Next]_vars, NEW x \in Requests, Minted(x)
      PROVE  \E j \in AllJobs, r \in Replies : ScriptReply(j, r)
  <2>1. ASSUME NEW j \in AllJobs, NEW fence, NEW gone, complete(j, "Full", fence, gone)
        PROVE  FALSE
    BY <1>1, <1>2, <2>1
  <2>2. \A r \in Requests : r \in AllJobs
    BY DEF AllJobs
  <2>3. ASSUME NEW r \in Requests PROVE ~RedeemRefused(r)
    BY <1>2 DEF RedeemRefused, Finish
  <2>4. ASSUME NEW r \in Requests PROVE ~(RedeemFailed(r) \/ Aborted(r))
    BY <2>1, <2>2, Zenon DEF RedeemFailed, Aborted
  <2>5. ASSUME NEW r \in Requests PROVE ~(RedeemConnect(r) \/ RedeemQueue(r) \/ Expire(r))
    BY <1>2 DEF RedeemConnect, RedeemQueue, Expire
  <2>6. ASSUME NEW j \in AllJobs PROVE ~(Write(j) \/ SocketError(j) \/ Timeout(j))
    BY <1>2, <2>1, Zenon DEF Write, SocketError, Timeout
  <2>7. ASSUME NEW j \in AllJobs, NEW ok \in BOOLEAN PROVE ~AuthReply(j, ok)
    BY <1>2, <2>1, Zenon DEF AuthReply
  <2>8. ~PollFailed
    BY <2>1, Zenon DEF PollFailed, AllJobs
  <2>9. ~(PollSkip \/ PollConnect \/ PollStop \/ Stale \/ Quit \/ UNCHANGED vars)
    BY <1>2 DEF PollSkip, PollConnect, PollStop, Stale, Quit
  <2>10. QED
    BY <1>2, <2>3, <2>4, <2>5, <2>6, <2>7, <2>8, <2>9 DEF Next
<1>3. [Next]_vars =>
        [\A r \in Requests :
           answer[r] # "Accepted" /\ answer'[r] = "Accepted" => r \in confirmed' /\ r \notin late]_vars
  <2> SUFFICES ASSUME [Next]_vars, NEW x \in Requests, Minted(x)
               PROVE  x \in confirmed' /\ x \notin late
    OBVIOUS
  <2>1. PICK j \in AllJobs, r \in Replies : ScriptReply(j, r)
    BY <1>2
  <2>2. x = j /\ ReplyOutcome(r) = "Accepted" /\ x \notin late
    BY <1>1, <2>1, Zenon DEF ScriptReply
  <2>3. r = "1"
    BY <2>2 DEF ReplyOutcome, Replies
  <2>4. QED
    BY <2>1, <2>2, <2>3, HealthAssumption, Zenon DEF ScriptReply
<1>4. QED
  BY <1>3, PTL DEF Spec, MintIsConfirmed

(***************************************************************************)
(* cluster.rs, pending: the queue is served in the order of arrival,       *)
(* through every nesting of connects that fail inside `complete' and       *)
(* whatever job ends, by a reply, its deadline or a client that left.      *)
(***************************************************************************)
THEOREM WaitingIsFair == Spec => FirstComeFirstServed
<1> DEFINE Last == \A b \in DOMAIN pending' : pending'[b] \notin InQueue => b = Len(pending')
           Turn == \A i, k \in DOMAIN pending : i < k =>
                     /\ pending[k] \in active' => pending[i] \notin InQueue'
                     /\ \A a, b \in DOMAIN pending' :
                          pending'[a] = pending[i] /\ pending'[b] = pending[k] => a < b
<1>1. ASSUME IndInv
      PROVE  /\ pending \in Seq(Requests) /\ Distinct(pending) /\ InQueue = Elements(pending)
             /\ active \in SUBSET Requests /\ IsFiniteSet(active) /\ Cardinality(active) <= Connections
             /\ active \intersect InQueue = {}
  BY <1>1 DEF IndInv, TypeOK, Placed, Connected, NoIdleSlot, Distinct, Elements, InQueue
<1>2. ASSUME IndInv, UNCHANGED pool PROVE Last /\ Turn
  <2>1. pending \in Seq(Requests) /\ Distinct(pending) /\ active \intersect InQueue = {}
    BY <1>1, <1>2
  <2>2. DOMAIN pending \subseteq Int
    BY <2>1
  <2>3. Last
    BY <1>2 DEF InQueue
  <2>4. Turn
    BY <1>2, <2>1, <2>2 DEF InQueue, Distinct
  <2>5. QED
    BY <2>3, <2>4
<1>3. ASSUME IndInv, NEW r \in Requests, RedeemConnect(r) PROVE Last /\ Turn
  <2>1. pending \in Seq(Requests) /\ Distinct(pending) /\ active \intersect InQueue = {}
    BY <1>1, <1>3
  <2>2. DOMAIN pending \subseteq Int /\ r \notin InQueue
    BY <1>3, <2>1 DEF RedeemConnect, Arm, IndInv, Placed
  <2>3. pending' = pending /\ active' = active \union {r}
    BY <1>3 DEF RedeemConnect
  <2>4. QED
    BY <2>1, <2>2, <2>3 DEF InQueue, Distinct
<1>4. ASSUME IndInv, NEW r \in Requests, RedeemQueue(r) PROVE Last /\ Turn
  <2>1. pending \in Seq(Requests) /\ Distinct(pending) /\ active \intersect InQueue = {}
    BY <1>1, <1>4
  <2>2. r \notin InQueue /\ pending' = Append(pending, r) /\ active' = active
    BY <1>4 DEF RedeemQueue, Arm, IndInv, Placed
  <2>3. /\ DOMAIN pending = 1 .. Len(pending) /\ DOMAIN pending' = 1 .. Len(pending) + 1
        /\ Len(pending) \in Nat /\ Len(pending') = Len(pending) + 1
        /\ \A i \in DOMAIN pending : pending'[i] = pending[i]
        /\ pending'[Len(pending) + 1] = r
    BY <2>1, <2>2, AppendProperties
  <2>4. Last
    BY <2>3 DEF InQueue
  <2>5. ASSUME NEW i \in DOMAIN pending, NEW k \in DOMAIN pending, i < k,
               NEW a \in DOMAIN pending', NEW b \in DOMAIN pending',
               pending'[a] = pending[i], pending'[b] = pending[k]
        PROVE  a < b
    <3>1. a # Len(pending) + 1 /\ b # Len(pending) + 1
      BY <2>2, <2>3, <2>5 DEF InQueue
    <3>2. a \in DOMAIN pending /\ b \in DOMAIN pending
      BY <2>3, <3>1
    <3>3. a = i /\ b = k
      BY <2>1, <2>3, <2>5, <3>2 DEF Distinct
    <3>4. QED
      BY <2>5, <3>3
  <2>6. \A k \in DOMAIN pending : pending[k] \notin active'
    BY <2>1, <2>2 DEF InQueue
  <2>7. Turn
    BY <2>5, <2>6
  <2>8. QED
    BY <2>4, <2>7
<1>5. ASSUME IndInv, NEW j, NEW outcome, NEW fence, NEW gone, complete(j, outcome, fence, gone)
      PROVE  Last /\ Turn
  <2>1. PICK bad \in SUBSET (InQueue \ {j}) : Release(j, outcome, fence, gone, bad)
    BY <1>5 DEF complete
  <2> DEFINE act == active \ {j}
             pend == Retained(pending, j)
  <2>2. pending' = Rest(act, pend, bad) /\ active' = act \union (Taken(act, pend, bad) \ bad)
    BY <2>1 DEF Release, Rest, Taken
  <2>3. /\ pending \in Seq(Requests) /\ Distinct(pending) /\ InQueue = Elements(pending)
        /\ IsFiniteSet(active) /\ Cardinality(active) <= Connections
        /\ active \intersect InQueue = {}
    BY <1>1, <1>5
  <2>4. /\ pend \in Seq(Requests) /\ Distinct(pend) /\ Elements(pend) = Elements(pending) \ {j}
        /\ \A x, y : Before(pend, x, y) => Before(pending, x, y)
    BY <2>3, RetainedProperties
  <2>5. IsFiniteSet(act) /\ Cardinality(act) <= Connections
    <3>1. IsFiniteSet(act) /\ Cardinality(act) <= Cardinality(active)
      BY <2>3, FS_Subset
    <3>2. Cardinality(act) \in Nat /\ Cardinality(active) \in Nat
      BY <2>3, <3>1, FS_CardinalityType
    <3>3. QED
      BY <2>3, <3>1, <3>2, LimitAssumption
  <2> HIDE DEF act, pend
  <2>6. /\ pending' \in Seq(Requests)
        /\ Elements(pending') \subseteq Elements(pend)
        /\ \A x, y : \/ Before(pending', x, y)
                     \/ x \in Taken(act, pend, bad) /\ y \in Elements(pending')
                     => Before(pend, x, y)
    <3> DEFINE rest == Rest(act, pend, bad)
    <3>1. /\ rest \in Seq(Requests)
          /\ Elements(rest) = Elements(pend) \ Taken(act, pend, bad)
          /\ \A x, y : \/ Before(rest, x, y)
                       \/ x \in Taken(act, pend, bad) /\ y \in Elements(rest)
                       => Before(pend, x, y)
      BY <2>4, <2>5, Drain, Zenon
    <3>2. pending' = rest
      BY <2>2
    <3> HIDE DEF rest
    <3>3. QED
      BY <3>1, <3>2, Zenon
  <2>7. ASSUME NEW x, NEW y,
               Before(pending', x, y) \/ (x \in Taken(act, pend, bad) /\ y \in Elements(pending'))
        PROVE  Before(pending, x, y)
    BY <2>4, <2>6, <2>7, Zenon
  <2>8. DOMAIN pending \subseteq Int /\ DOMAIN pending' \subseteq Int
    BY <2>3, <2>6
  <2>9. ASSUME NEW i \in DOMAIN pending, NEW k \in DOMAIN pending, i < k
        PROVE  ~Before(pending, pending[k], pending[i])
    BY <2>3, <2>8, <2>9 DEF Before, Distinct
  <2>10. InQueue' = Elements(pending')
    BY DEF InQueue, Elements
  <2>11. Last
    <3>1. \A b \in DOMAIN pending' : pending'[b] \in InQueue
      BY <2>3, <2>4, <2>6 DEF Elements
    <3>2. QED
      BY <3>1
  <2>12. ASSUME NEW i \in DOMAIN pending, NEW k \in DOMAIN pending, i < k, pending[k] \in active'
         PROVE  pending[i] \notin InQueue'
    <3>1. pending[k] \in Taken(act, pend, bad)
      BY <2>2, <2>3, <2>12 DEF act, Elements
    <3>2. QED
      BY <2>7, <2>9, <2>10, <2>12, <3>1
  <2>13. ASSUME NEW i \in DOMAIN pending, NEW k \in DOMAIN pending, i < k,
                NEW a \in DOMAIN pending', NEW b \in DOMAIN pending',
                pending'[a] = pending[i], pending'[b] = pending[k]
         PROVE  a < b
    <3>1. ~Before(pending', pending[k], pending[i])
      BY <2>7, <2>9, <2>13
    <3>2. ~(b < a)
      BY <2>13, <3>1 DEF Before
    <3>3. a # b
      BY <2>3, <2>8, <2>13 DEF Distinct
    <3>4. QED
      BY <2>8, <3>2, <3>3
  <2>14. QED
    BY <2>11, <2>12, <2>13
<1>6. ASSUME IndInv, [Next]_vars PROVE Last /\ Turn
  <2> HIDE DEF Last, Turn
  <2>1. ASSUME NEW r \in Requests,
               RedeemRefused(r) \/ RedeemConnect(r) \/ RedeemFailed(r) \/ RedeemQueue(r)
                 \/ Aborted(r) \/ Expire(r)
        PROVE  Last /\ Turn
    BY <1>2, <1>3, <1>4, <1>5, <1>6, <2>1 DEF RedeemRefused, RedeemFailed, Aborted, Expire
  <2>2. ASSUME NEW j \in AllJobs, Write(j) \/ SocketError(j) \/ Timeout(j) PROVE Last /\ Turn
    BY <1>2, <1>5, <1>6, <2>2 DEF Write, SocketError, Timeout
  <2>3. ASSUME NEW j \in AllJobs, NEW ok \in BOOLEAN, AuthReply(j, ok) PROVE Last /\ Turn
    BY <1>2, <1>5, <1>6, <2>3 DEF AuthReply
  <2>4. ASSUME NEW j \in AllJobs, NEW r \in Replies, ScriptReply(j, r) PROVE Last /\ Turn
    BY <1>5, <1>6, <2>4 DEF ScriptReply
  <2>5. CASE PollSkip \/ PollConnect \/ PollFailed \/ PollStop \/ Stale \/ Quit \/ UNCHANGED vars
    BY <1>2, <1>5, <1>6, <2>5 DEF PollSkip, PollConnect, PollFailed, PollStop, Stale, Quit
  <2>6. QED
    BY <1>6, <2>1, <2>2, <2>3, <2>4, <2>5 DEF Next
<1>7. QED
  BY <1>6, Invariance, PTL DEF Spec, FirstComeFirstServed

=============================================================================
