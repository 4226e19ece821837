----------------------------- MODULE FeedsProofs -----------------------------
(***************************************************************************)
(* A range set confirms exactly the addresses its prefixes name, for any   *)
(* prefixes and documents and any width of an address; and a verifier      *)
(* reports what is true of the documents its sources served, for any       *)
(* configurations.                                                         *)
(*                                                                         *)
(* The argument: inserting keeps a vector sorted and apart, and so does    *)
(* sorting and then merging neighbours; in such a vector the one interval  *)
(* that the binary search looks at decides (RangesInv).                    *)
(* Each published snapshot is the range set of a document that its source  *)
(* served, at the time it carries (Sources), and the registry is what the  *)
(* accepted configuration parses to (FeedsInv).                            *)
(***************************************************************************)
EXTENDS Feeds, FiniteSetTheorems, WellFoundedInduction, TLAPS

\* The empty vector is a sequence over any set, and the only one of length 0.
LEMMA EmptyVec ==
  ASSUME NEW S
  PROVE  /\ << >> \in Seq(S)
         /\ Len(<< >>) = 0
         /\ \A v \in Seq(S) : v # << >> => Len(v) \in Nat \ {0}
OBVIOUS

\* A store at an index of a vector keeps its length and every other element.
LEMMA StoreVec ==
  ASSUME NEW S, NEW v \in Seq(S), NEW k \in 1 .. Len(v), NEW x \in S
  PROVE  /\ [v EXCEPT ![k] = x] \in Seq(S)
         /\ Len([v EXCEPT ![k] = x]) = Len(v)
         /\ \A j \in 1 .. Len(v) :
              [v EXCEPT ![k] = x][j] = IF j = k THEN x ELSE v[j]
OBVIOUS

\* Two vectors joined: the elements of the first, then those of the second.
LEMMA JoinVec ==
  ASSUME NEW S, NEW v \in Seq(S), NEW w \in Seq(S)
  PROVE  /\ v \o w \in Seq(S)
         /\ Len(v \o w) = Len(v) + Len(w)
         /\ \A j \in 1 .. Len(v) + Len(w) :
              (v \o w)[j] = IF j <= Len(v) THEN v[j] ELSE w[j - Len(v)]
OBVIOUS

\* A slice of a vector: its length and its elements.
LEMMA SliceVec ==
  ASSUME NEW S, NEW v, NEW a \in Int, NEW b \in Int,
         \A k \in a .. b : v[k] \in S
  PROVE  /\ SubSeq(v, a, b) \in Seq(S)
         /\ Len(SubSeq(v, a, b)) = IF a <= b THEN b - a + 1 ELSE 0
         /\ \A k \in 1 .. b - a + 1 : SubSeq(v, a, b)[k] = v[a + k - 1]
OBVIOUS

\* A push adds one element at the end of a vector and keeps the others.
LEMMA PushVec ==
  ASSUME NEW S, NEW v \in Seq(S), NEW x \in S
  PROVE  /\ Append(v, x) \in Seq(S)
         /\ Append(v, x) # << >>
         /\ Len(Append(v, x)) = Len(v) + 1
         /\ \A j \in 1 .. Len(v) : Append(v, x)[j] = v[j]
         /\ Append(v, x)[Len(v) + 1] = x
OBVIOUS

-----------------------------------------------------------------------------
(* Induction.  The lemmas take sets and functions where a text book has     *)
(* predicates and operations, of which the provers find no instances.      *)

\* A non-empty set of natural numbers has a least element.
LEMMA LeastNatural ==
  ASSUME NEW S \in SUBSET Nat, S # {}
  PROVE  \E p \in S : \A q \in S : p <= q
<1> DEFINE R == {pair \in Nat \X Nat : pair[1] < pair[2]}
<1>1. IsWellFoundedOn(R, Nat)
  BY NatLessThanWellFounded DEF OpToRel
<1> HIDE DEF R
<1>2. PICK p \in S : \A q \in S : <<q, p>> \notin R
  BY <1>1, WFMin, Zenon
<1>3. ASSUME NEW q \in S
      PROVE  p <= q
  <2>1. <<q, p>> \notin R
    BY <1>2
  <2>2. q \in Nat /\ p \in Nat
    OBVIOUS
  <2>3. ~(q < p)
    <3>1. <<q, p>> \in Nat \X Nat /\ <<q, p>>[1] = q /\ <<q, p>>[2] = p
      BY <2>2
    <3>2. QED
      BY <2>1, <3>1 DEF R
  <2>4. QED
    BY <2>2, <2>3
<1>4. QED
  BY <1>3

\* What holds for 0 and for the successor of each number for which it holds,
\* up to n, holds up to n.
LEMMA UpTo ==
  ASSUME NEW n \in Nat, NEW S, 0 \in S, \A i \in 0 .. n - 1 : i \in S => i + 1 \in S
  PROVE  0 .. n \subseteq S
<1> DEFINE B == {k \in 0 .. n : k \notin S}
<1> SUFFICES ASSUME B # {} PROVE FALSE
  OBVIOUS
<1>1. PICK p \in B : \A q \in B : p <= q
  <2>1. B \in SUBSET Nat
    OBVIOUS
  <2> HIDE DEF B
  <2>2. QED
    BY <2>1, LeastNatural
<1>2. p \in Nat /\ p <= n /\ p # 0 /\ p \notin S
  BY <1>1
<1>3. p - 1 \in 0 .. n - 1 /\ (p - 1) + 1 = p
  BY <1>2
<1>4. p - 1 \in S
  BY <1>1, <1>3
<1>5. QED
  BY <1>2, <1>3, <1>4

\* g starts with c and goes on with D up to n.
Follows(g, n, c, D) == g[0] = c /\ \A i \in 1 .. n : g[i] = D[<<g[i - 1], i>>]

\* A function may be defined by recursion on 0 .. n.
LEMMA Recursion ==
  ASSUME NEW n \in Nat, NEW V, NEW c \in V, NEW D \in [V \X (1 .. n) -> V]
  PROVE  \E g \in [0 .. n -> V] : Follows(g, n, c, D)
<1> DEFINE Good(g, m) == Follows(g, m, c, D)
           S == {m \in 0 .. n : \E g \in [0 .. m -> V] : Good(g, m)}
<1>1. 0 \in S
  <2> DEFINE g == [i \in 0 .. 0 |-> c]
  <2>1. g \in [0 .. 0 -> V] /\ Good(g, 0)
    BY DEF Follows
  <2>2. 0 \in 0 .. n
    OBVIOUS
  <2> HIDE DEF g, Good
  <2>3. QED
    BY <2>1, <2>2
<1>2. ASSUME NEW m \in 0 .. n - 1, m \in S
      PROVE  m + 1 \in S
  <2>1. PICK g \in [0 .. m -> V] : Good(g, m)
    BY <1>2
  <2> DEFINE h == [i \in 0 .. m + 1 |-> IF i = m + 1 THEN D[<<g[m], i>>] ELSE g[i]]
  <2>2. m \in Nat /\ m + 1 \in 1 .. n
    OBVIOUS
  <2>3. D[<<g[m], m + 1>>] \in V
    BY <2>2
  <2>4. h \in [0 .. m + 1 -> V]
    BY <2>2, <2>3
  <2>5. h[0] = c
    BY <2>1, <2>2 DEF Follows
  <2>6. ASSUME NEW i \in 1 .. m + 1
        PROVE  h[i] = D[<<h[i - 1], i>>]
    <3>1. i - 1 \in 0 .. m /\ h[i - 1] = g[i - 1]
      BY <2>2
    <3>2. CASE i = m + 1
      BY <2>2, <3>1, <3>2
    <3>3. CASE i # m + 1
      BY <2>1, <2>2, <3>1, <3>3 DEF Follows
    <3>4. QED
      BY <3>2, <3>3
  <2>7. Good(h, m + 1)
    BY <2>5, <2>6, Zenon DEF Follows
  <2> HIDE DEF Good, h
  <2>8. QED
    BY <2>2, <2>4, <2>7
<1> HIDE DEF S
<1>3. n \in S
  <2>1. 0 .. n \subseteq S
    BY <1>1, <1>2, UpTo
  <2>2. QED
    BY <2>1
<1>4. QED
  BY <1>3 DEF S

\* A set that holds with a number from 1 to n every smaller one is counted by
\* its greatest number.
LEMMA InitialSegment ==
  ASSUME NEW n \in Nat, NEW A \in SUBSET (1 .. n),
         \A i \in A : \A j \in 1 .. n : j <= i => j \in A
  PROVE  Cardinality(A) \in 0 .. n /\ A = 1 .. Cardinality(A)
<1> DEFINE B == (1 .. n + 1) \ A
<1>1. n + 1 \in B /\ B \in SUBSET Nat
  OBVIOUS
<1>2. PICK m \in B : \A q \in B : m <= q
  BY <1>1, LeastNatural, Zenon
<1>3. m \in 1 .. n + 1 /\ m \notin A
  OBVIOUS
<1>4. A = 1 .. m - 1
  <2>1. ASSUME NEW i \in A PROVE i \in 1 .. m - 1
    BY <1>3
  <2>2. ASSUME NEW i \in 1 .. m - 1 PROVE i \in A
    BY <1>2, <1>3
  <2>3. QED
    BY <2>1, <2>2, Zenon
<1>5. Cardinality(1 .. m - 1) = m - 1
  BY <1>3, FS_Interval
<1>6. QED
  BY <1>3, <1>4, <1>5

-----------------------------------------------------------------------------
(* Range sets.                                                             *)

\* The intervals of a vector.
Pairs == Int \X Int

\* The addresses a vector stands for.
Covers(s, x) == \E i \in DOMAIN s : s[i][1] <= x /\ x <= s[i][2]

\* No interval is empty.
Ordered(s) == \A i \in DOMAIN s : s[i][1] <= s[i][2]

\* 1 << n is a positive number.
LEMMA ShlPositive ==
  ASSUME NEW n \in Nat
  PROVE  Shl(n) \in Nat \ {0}
<1> DEFINE V == Nat \ {0}
           D == [p \in V \X (1 .. n) |-> 2 * p[1]]
           Step(g) == [i \in 0 .. n |-> IF i = 0 THEN 1 ELSE 2 * g[i - 1]]
<1>1. 1 \in V /\ D \in [V \X (1 .. n) -> V]
  OBVIOUS
<1>2. PICK g \in [0 .. n -> V] : Follows(g, n, 1, D)
  <2> HIDE DEF D, V
  <2>1. QED
    BY <1>1, Recursion, Zenon
<1>3. g = Step(g)
  <2>1. ASSUME NEW i \in 1 .. n PROVE g[i] = 2 * g[i - 1]
    <3>1. <<g[i - 1], i>> \in V \X (1 .. n)
      OBVIOUS
    <3>2. QED
      BY <1>2, <3>1, Zenon DEF Follows
  <2>2. QED
    BY <1>2, <2>1 DEF Follows
<1> DEFINE power == CHOOSE power : power = Step(power)
<1>4. power = Step(power)
  <2> HIDE DEF Step
  <2>1. QED
    BY <1>3
<1> DEFINE S == {i \in 0 .. n : power[i] \in V}
<1>5. 0 .. n \subseteq S
  <2> HIDE DEF power
  <2>1. \A i \in 0 .. n : power[i] = IF i = 0 THEN 1 ELSE 2 * power[i - 1]
    BY <1>4
  <2>2. 0 \in S
    BY <2>1
  <2>3. ASSUME NEW i \in 0 .. n - 1, i \in S PROVE i + 1 \in S
    <3>1. power[i + 1] = 2 * power[i]
      BY <2>1
    <3>2. power[i] \in V
      BY <2>3
    <3>3. QED
      BY <3>1, <3>2, SMTT(30)
  <2> HIDE DEF S
  <2>4. QED
    BY <2>2, <2>3, UpTo, Zenon
<1>6. power[n] \in V
  BY <1>5
<1>7. Shl(n) = power[n]
  BY DEF Shl
<1>8. QED
  BY <1>6, <1>7

\* The order of Sorted on the places of s.
Before(s, i, j) ==
  IF s[i] = s[j] THEN i <= j ELSE s[i][1] < s[j][1] \/ (s[i][1] = s[j][1] /\ s[i][2] < s[j][2])

Place(s, j) == Cardinality({i \in DOMAIN s : Before(s, i, j)})

\* It is a linear order.
LEMMA BeforeIsLinear ==
  ASSUME NEW s \in Seq(Pairs)
  PROVE  \A i, j, k \in DOMAIN s :
           /\ Before(s, i, j) \/ Before(s, j, i)
           /\ Before(s, i, j) /\ Before(s, j, i) => i = j
           /\ Before(s, i, j) /\ Before(s, j, k) => Before(s, i, k)
           /\ Before(s, i, j) => s[i][1] <= s[j][1]
<1> TAKE i, j, k \in DOMAIN s
<1>1. i \in Int /\ j \in Int /\ k \in Int
  OBVIOUS
<1>2. \A m \in DOMAIN s : s[m][1] \in Int /\ s[m][2] \in Int /\ s[m] = <<s[m][1], s[m][2]>>
  <2> TAKE m \in DOMAIN s
  <2>1. s[m] \in Int \X Int
    BY DEF Pairs
  <2>2. QED
    BY <2>1
<1>3. \A a, b \in DOMAIN s : s[a] = s[b] <=> s[a][1] = s[b][1] /\ s[a][2] = s[b][2]
  <2> TAKE a, b \in DOMAIN s
  <2>1. s[a] = <<s[a][1], s[a][2]>> /\ s[b] = <<s[b][1], s[b][2]>>
    BY <1>2
  <2>2. QED
    BY <2>1, Zenon
<1>4. QED
  BY <1>1, <1>2, <1>3, SMTT(30) DEF Before

\* Every place is taken by one element.
LEMMA PlacesAreTaken ==
  ASSUME NEW s \in Seq(Pairs)
  PROVE  /\ \A j \in DOMAIN s : Place(s, j) \in DOMAIN s
         /\ \A i, j \in DOMAIN s : Place(s, i) <= Place(s, j) => Before(s, i, j)
         /\ \A k \in DOMAIN s : \E j \in DOMAIN s : Place(s, j) = k
<1> DEFINE n == Len(s)
           Down(j) == {i \in DOMAIN s : Before(s, i, j)}
           place == [j \in 1 .. n |-> Place(s, j)]
<1>0. n \in Nat /\ DOMAIN s = 1 .. n
  OBVIOUS
<1> HIDE DEF n
<1>1. n \in Nat /\ DOMAIN s = 1 .. n /\ IsFiniteSet(1 .. n) /\ Cardinality(1 .. n) = n
  BY <1>0, FS_Interval
<1>2. ASSUME NEW j \in 1 .. n
      PROVE  IsFiniteSet(Down(j)) /\ Cardinality(Down(j)) \in 1 .. n
  <2>1. Down(j) \subseteq 1 .. n /\ j \in Down(j)
    BY <1>1, BeforeIsLinear
  <2> HIDE DEF Down
  <2>2. IsFiniteSet(Down(j)) /\ Cardinality(Down(j)) <= n
    BY <1>1, <2>1, FS_Subset
  <2>3. Cardinality(Down(j)) \in Nat /\ Cardinality(Down(j)) # 0
    BY <2>1, <2>2, FS_CardinalityType, FS_EmptySet
  <2>4. QED
    BY <1>1, <2>2, <2>3
<1>3. ASSUME NEW i \in 1 .. n, NEW j \in 1 .. n, i # j, Before(s, i, j)
      PROVE  Cardinality(Down(i)) < Cardinality(Down(j))
  <2>1. Down(i) \subseteq Down(j) /\ j \in Down(j) /\ j \notin Down(i)
    BY <1>1, <1>3, BeforeIsLinear
  <2> HIDE DEF Down
  <2>2. Down(i) \subseteq Down(j) /\ Down(i) # Down(j)
    BY <2>1
  <2>3. Cardinality(Down(i)) <= Cardinality(Down(j)) /\ Cardinality(Down(i)) # Cardinality(Down(j))
    BY <1>2, <2>2, FS_Subset, SMTT(30)
  <2>4. QED
    BY <1>2, <2>3
<1>4. \A j \in 1 .. n : Place(s, j) = Cardinality(Down(j))
  BY DEF Place
<1> HIDE DEF Down
<1>5. ASSUME NEW i \in 1 .. n, NEW j \in 1 .. n, Place(s, i) <= Place(s, j)
      PROVE  Before(s, i, j)
  <2>1. CASE i = j
    BY <1>1, <2>1, BeforeIsLinear
  <2>2. CASE i # j /\ ~Before(s, i, j)
    <3>1. Before(s, j, i)
      BY <1>1, <2>2, BeforeIsLinear
    <3>2. Cardinality(Down(j)) < Cardinality(Down(i))
      BY <1>3, <2>2, <3>1
    <3>3. QED
      BY <1>2, <1>4, <1>5, <3>2
  <2>3. QED
    BY <2>1, <2>2
<1>6. place \in [1 .. n -> 1 .. n]
  BY <1>2, <1>4
<1>7. place \in Injection(1 .. n, 1 .. n)
  <2>1. ASSUME NEW i \in 1 .. n, NEW j \in 1 .. n, place[i] = place[j] PROVE i = j
    <3>1. Place(s, i) <= Place(s, j) /\ Place(s, j) <= Place(s, i)
      BY <1>2, <1>4, <2>1
    <3>2. QED
      BY <1>1, <1>5, <3>1, BeforeIsLinear
  <2> HIDE DEF place
  <2>2. QED
    BY <1>6, <2>1 DEF Injection, IsInjective
<1>8. place \in Surjection(1 .. n, 1 .. n)
  <2> HIDE DEF place
  <2>1. QED
    BY <1>1, <1>7, FS_Injection
<1>9. \A k \in 1 .. n : \E j \in 1 .. n : place[j] = k
  <2> HIDE DEF place
  <2>1. QED
    BY <1>8 DEF Surjection
<1>10. QED
  BY <1>1, <1>2, <1>4, <1>5, <1>9

\* sort_unstable keeps the elements and puts them in the order of their starts.
LEMMA SortedProperties ==
  ASSUME NEW s \in Seq(Pairs)
  PROVE  /\ Sorted(s) \in Seq(Pairs) /\ Len(Sorted(s)) = Len(s)
         /\ \A i \in DOMAIN s : \E k \in DOMAIN s : Sorted(s)[k] = s[i]
         /\ \A k \in DOMAIN s : \E i \in DOMAIN s : Sorted(s)[k] = s[i]
         /\ \A k, l \in DOMAIN s : k <= l => Sorted(s)[k][1] <= Sorted(s)[l][1]
<1> DEFINE at == [k \in DOMAIN s |-> CHOOSE j \in DOMAIN s : Place(s, j) = k]
<1>1. \A k \in DOMAIN s : at[k] \in DOMAIN s /\ Place(s, at[k]) = k
  BY PlacesAreTaken
<1>2. Sorted(s) = [k \in DOMAIN s |-> s[at[k]]]
  BY DEF Sorted, Place, Before
<1>3. \A k \in DOMAIN s : Sorted(s)[k] = s[at[k]]
  BY <1>2
<1> HIDE DEF at
<1>4. Sorted(s) \in Seq(Pairs) /\ Len(Sorted(s)) = Len(s)
  <2>1. Sorted(s) = [k \in 1 .. Len(s) |-> s[at[k]]] /\ Len(s) \in Nat
    BY <1>2
  <2>2. \A k \in 1 .. Len(s) : s[at[k]] \in Pairs
    BY <1>1
  <2>3. QED
    BY <2>1, <2>2
<1>5. ASSUME NEW i \in DOMAIN s
      PROVE  \E k \in DOMAIN s : at[k] = i
  <2> DEFINE k == Place(s, i)
  <2>1. k \in DOMAIN s /\ k \in Int
    BY PlacesAreTaken
  <2>2. at[k] \in DOMAIN s /\ Place(s, at[k]) = k
    BY <1>1, <2>1
  <2>3. Place(s, i) <= Place(s, at[k]) /\ Place(s, at[k]) <= Place(s, i)
    BY <2>1, <2>2
  <2>4. Before(s, i, at[k]) /\ Before(s, at[k], i)
    BY <2>2, <2>3, PlacesAreTaken
  <2>5. at[k] = i
    BY <2>2, <2>4, BeforeIsLinear
  <2>6. QED
    BY <2>1, <2>5
<1>6. ASSUME NEW k \in DOMAIN s, NEW l \in DOMAIN s, k <= l
      PROVE  Sorted(s)[k][1] <= Sorted(s)[l][1]
  <2>1. Before(s, at[k], at[l])
    BY <1>1, <1>6, PlacesAreTaken
  <2>2. QED
    BY <1>1, <1>3, <2>1, BeforeIsLinear, Zenon
<1>7. \A i \in DOMAIN s : \E k \in DOMAIN s : Sorted(s)[k] = s[i]
  BY <1>3, <1>5, SMTT(30)
<1>8. \A k \in DOMAIN s : \E i \in DOMAIN s : Sorted(s)[k] = s[i]
  BY <1>1, <1>3
<1>9. QED
  BY <1>4, <1>6, <1>7, <1>8

\* The elements of a vector of intervals.
LEMMA PairParts ==
  ASSUME NEW s \in Seq(Pairs), NEW i \in DOMAIN s
  PROVE  s[i][1] \in Int /\ s[i][2] \in Int /\ i \in Int
<1>1. s[i] \in Int \X Int
  BY DEF Pairs
<1>2. QED
  BY <1>1

\* One turn of the loop of normalize adds the addresses of one interval.
LEMMA MergeStep ==
  ASSUME NEW used \in Seq(Pairs), IsNormal(used), NEW r \in Pairs, r[1] <= r[2],
         \A i \in DOMAIN used : used[i][1] <= r[1]
  PROVE  /\ Merge(used, r) \in Seq(Pairs)
         /\ IsNormal(Merge(used, r))
         /\ \A i \in DOMAIN Merge(used, r) : Merge(used, r)[i][1] <= r[1]
         /\ \A x \in Int : Covers(Merge(used, r), x) <=> Covers(used, x) \/ (r[1] <= x /\ x <= r[2])
<1> DEFINE n == Len(used)
           last == used[n]
           top == IF r[2] > last[2] THEN r[2] ELSE last[2]
           new == Merge(used, r)
<1>1. r[1] \in Int /\ r[2] \in Int /\ n \in Nat /\ DOMAIN used = 1 .. n
  BY DEF Pairs
<1>2. \A i \in 1 .. n : used[i][1] \in Int /\ used[i][2] \in Int
  BY <1>1, PairParts
<1>0. used # <<>> <=> n # 0
  BY EmptyVec
<1> HIDE DEF n
<1>3. CASE used # <<>> /\ r[1] <= last[2]
  <2>1. n \in 1 .. n /\ last[1] \in Int /\ last[2] \in Int
    BY <1>0, <1>1, <1>2, <1>3
  <2>2. top \in Int /\ last[2] <= top /\ r[2] <= top /\ (top = r[2] \/ top = last[2])
    BY <1>1, <2>1
  <2>3. new = [used EXCEPT ![n] = <<last[1], top>>]
    BY <1>3 DEF Merge, n
  <2>4. DOMAIN new = 1 .. n /\ new[n] = <<last[1], top>> /\ \A i \in 1 .. n - 1 : new[i] = used[i]
    BY <1>1, <2>1, <2>3
  <2>5. new \in Seq(Pairs)
    <3>1. <<last[1], top>> \in Pairs
      BY <2>1, <2>2, SMTT(30) DEF Pairs
    <3>2. QED
      BY <1>1, <2>1, <2>3, <3>1, StoreVec
  <2>6. new[n][1] = last[1] /\ new[n][2] = top
    BY <2>4
  <2> HIDE DEF new, top
  <2>7. \A i \in 1 .. n : new[i][1] = used[i][1]
    BY <1>1, <2>4, <2>6
  <2>8. \A i \in DOMAIN new : new[i][1] <= r[1]
    BY <1>1, <2>4, <2>7
  <2>9. IsNormal(new)
    <3> SUFFICES ASSUME NEW i \in 1 .. n
                 PROVE  /\ new[i][1] <= new[i][2]
                        /\ \A j \in 1 .. n : i < j => new[i][2] < new[j][1]
      BY <2>4 DEF IsNormal
    <3>1. CASE i = n
      BY <1>1, <1>2, <2>1, <2>2, <2>6, <3>1 DEF IsNormal
    <3>2. CASE i # n
      <4>1. i \in 1 .. n - 1
        BY <1>1, <3>2
      <4>2. new[i] = used[i]
        BY <2>4, <4>1
      <4>3. QED
        BY <1>1, <2>7, <4>1, <4>2 DEF IsNormal
    <3>3. QED
      BY <3>1, <3>2
  <2>10. ASSUME NEW x \in Int
         PROVE  Covers(new, x) <=> Covers(used, x) \/ (r[1] <= x /\ x <= r[2])
    <3>1. last[1] <= r[1] /\ r[1] <= last[2]
      BY <1>1, <1>3, <2>1
    <3>2. ASSUME Covers(new, x) PROVE Covers(used, x) \/ (r[1] <= x /\ x <= r[2])
      <4>1. PICK i \in 1 .. n : new[i][1] <= x /\ x <= new[i][2]
        BY <2>4, <3>2 DEF Covers
      <4>2. CASE i # n
        <5>1. i \in 1 .. n - 1
          BY <1>1, <4>2
        <5>2. new[i] = used[i]
          BY <2>4, <5>1
        <5>3. QED
          BY <1>1, <4>1, <5>2, SMTT(30) DEF Covers
      <4>3. CASE i = n /\ x <= last[2]
        BY <1>1, <2>6, <4>1, <4>3 DEF Covers
      <4>4. CASE i = n /\ ~(x <= last[2])
        BY <1>1, <2>1, <2>2, <2>6, <3>1, <4>1, <4>4, SMTT(30)
      <4>5. QED
        BY <4>2, <4>3, <4>4
    <3>3. ASSUME Covers(used, x) PROVE Covers(new, x)
      <4>1. PICK i \in 1 .. n : used[i][1] <= x /\ x <= used[i][2]
        BY <1>1, <3>3 DEF Covers
      <4>2. new[i][1] <= x /\ x <= new[i][2]
        <5>1. CASE i = n
          BY <2>1, <2>2, <2>6, <4>1, <5>1, SMTT(30)
        <5>2. CASE i # n
          BY <1>1, <2>4, <4>1, <5>2
        <5>3. QED
          BY <5>1, <5>2
      <4>3. QED
        BY <2>4, <4>2 DEF Covers
    <3>4. ASSUME r[1] <= x, x <= r[2] PROVE Covers(new, x)
      <4>1. new[n][1] <= x /\ x <= new[n][2]
        BY <1>1, <2>1, <2>2, <2>6, <3>1, <3>4
      <4>2. QED
        BY <2>1, <2>4, <4>1 DEF Covers
    <3>5. QED
      BY <3>2, <3>3, <3>4
  <2>11. QED
    BY <2>5, <2>8, <2>9, <2>10 DEF new
<1>4. CASE ~(used # <<>> /\ r[1] <= last[2])
  <2>1. new = Append(used, r)
    BY <1>4 DEF Merge, n
  <2>2. /\ new \in Seq(Pairs) /\ DOMAIN new = 1 .. n + 1
        /\ new[n + 1] = r /\ \A i \in 1 .. n : new[i] = used[i]
    BY <1>1, <2>1, PushVec DEF n
  <2> HIDE DEF new
  <2>3. \A i \in 1 .. n : used[i][2] < r[1]
    <3> TAKE i \in 1 .. n
    <3>1. n \in 1 .. n /\ last[2] < r[1]
      BY <1>0, <1>1, <1>2, <1>4
    <3>2. CASE i = n
      BY <3>1, <3>2
    <3>3. CASE i # n
      <4>1. i < n
        BY <1>1, <3>3
      <4>2. used[i][2] < last[1] /\ last[1] <= last[2]
        BY <1>1, <3>1, <4>1 DEF IsNormal
      <4>3. QED
        BY <1>1, <1>2, <3>1, <4>2
    <3>4. QED
      BY <3>2, <3>3
  <2>4. \A i \in DOMAIN new : new[i][1] <= r[1]
    <3> TAKE i \in DOMAIN new
    <3>1. i \in 1 .. n \/ i = n + 1
      BY <1>1, <2>2
    <3>2. QED
      BY <1>1, <2>2, <3>1
  <2>5. IsNormal(new)
    <3> SUFFICES ASSUME NEW i \in 1 .. n + 1
                 PROVE  /\ new[i][1] <= new[i][2]
                        /\ \A j \in 1 .. n + 1 : i < j => new[i][2] < new[j][1]
      BY <2>2 DEF IsNormal
    <3>1. CASE i = n + 1
      BY <1>1, <2>2, <3>1
    <3>2. CASE i # n + 1
      <4>1. i \in 1 .. n /\ new[i] = used[i]
        BY <1>1, <2>2, <3>2
      <4>2. used[i][1] <= used[i][2]
        BY <1>1, <4>1 DEF IsNormal
      <4>3. ASSUME NEW j \in 1 .. n + 1, i < j PROVE new[i][2] < new[j][1]
        <5>1. CASE j = n + 1
          BY <2>2, <2>3, <4>1, <5>1
        <5>2. CASE j # n + 1
          <6>1. j \in 1 .. n /\ new[j] = used[j]
            BY <1>1, <2>2, <5>2
          <6>2. QED
            BY <1>1, <4>1, <4>3, <6>1, SMTT(30) DEF IsNormal
        <5>3. QED
          BY <5>1, <5>2
      <4>4. QED
        BY <4>1, <4>2, <4>3
    <3>3. QED
      BY <3>1, <3>2
  <2>6. ASSUME NEW x \in Int
        PROVE  Covers(new, x) <=> Covers(used, x) \/ (r[1] <= x /\ x <= r[2])
    <3>1. \A i : i \in 1 .. n + 1 <=> i \in 1 .. n \/ i = n + 1
      BY <1>1
    <3>2. QED
      BY <1>1, <2>2, <3>1, SMTT(30) DEF Covers
  <2>7. QED
    BY <2>2, <2>4, <2>5, <2>6 DEF new
<1>5. QED
  BY <1>3, <1>4

\* Merge makes a vector of intervals.
LEMMA MergeType ==
  ASSUME NEW used \in Seq(Pairs), NEW r \in Pairs
  PROVE  Merge(used, r) \in Seq(Pairs)
<1>1. CASE used # <<>> /\ r[1] <= used[Len(used)][2]
  <2> DEFINE n == Len(used)
             top == IF r[2] > used[n][2] THEN r[2] ELSE used[n][2]
  <2>1. n \in DOMAIN used
    BY <1>1, EmptyVec
  <2>2. used[n][1] \in Int /\ used[n][2] \in Int /\ r[2] \in Int
    BY <2>1, PairParts DEF Pairs
  <2>3. <<used[n][1], top>> \in Pairs
    BY <2>2 DEF Pairs
  <2>4. Merge(used, r) = [used EXCEPT ![n] = <<used[n][1], top>>]
    BY <1>1 DEF Merge
  <2> HIDE DEF n, top
  <2>5. QED
    BY <2>1, <2>3, <2>4, StoreVec
<1>2. CASE ~(used # <<>> /\ r[1] <= used[Len(used)][2])
  BY <1>2, PushVec DEF Merge
<1>3. QED
  BY <1>1, <1>2

\* normalize leaves sorted intervals that do not overlap, and every address in
\* or out as it was.
LEMMA NormalizeProperties ==
  ASSUME NEW s \in Seq(Pairs), Ordered(s)
  PROVE  /\ Normalize(s) \in Seq(Pairs)
         /\ IsNormal(Normalize(s))
         /\ \A x \in Int : Covers(Normalize(s), x) <=> Covers(s, x)
<1> DEFINE n == Len(s)
           sorted == Sorted(s)
           V == Seq(Pairs)
           D == [p \in V \X (1 .. n) |-> Merge(p[1], sorted[p[2]])]
           Step(g) == [i \in 0 .. n |-> IF i = 0 THEN <<>> ELSE Merge(g[i - 1], sorted[i])]
           done == CHOOSE done : done = Step(done)
<1>0. n \in Nat /\ DOMAIN s = 1 .. n /\ sorted \in V /\ DOMAIN sorted = 1 .. n
  BY SortedProperties
<1>1. Normalize(s) = done[n]
  BY DEF Normalize
<1>2. \A i \in 1 .. n : sorted[i] \in Pairs /\ sorted[i][1] \in Int /\ sorted[i][2] \in Int
  BY <1>0, PairParts
<1>3. \A i \in 1 .. n : sorted[i][1] <= sorted[i][2]
  <2> TAKE i \in 1 .. n
  <2>1. PICK j \in DOMAIN s : sorted[i] = s[j]
    BY <1>0, SortedProperties, ZenonT(40)
  <2>2. QED
    BY <2>1 DEF Ordered
<1>4. \A i, j \in 1 .. n : i <= j => sorted[i][1] <= sorted[j][1]
  BY <1>0, SortedProperties, Zenon
<1>5. \A x \in Int : Covers(sorted, x) <=> Covers(s, x)
  <2> TAKE x \in Int
  <2>1. ASSUME Covers(sorted, x) PROVE Covers(s, x)
    <3>1. PICK k \in 1 .. n : sorted[k][1] <= x /\ x <= sorted[k][2]
      BY <1>0, <2>1 DEF Covers
    <3>2. PICK i \in DOMAIN s : sorted[k] = s[i]
      BY <1>0, SortedProperties, ZenonT(40)
    <3>3. QED
      BY <3>1, <3>2 DEF Covers
  <2>2. ASSUME Covers(s, x) PROVE Covers(sorted, x)
    <3>1. PICK i \in DOMAIN s : s[i][1] <= x /\ x <= s[i][2]
      BY <2>2 DEF Covers
    <3>2. PICK k \in DOMAIN s : sorted[k] = s[i]
      BY SortedProperties
    <3>3. QED
      BY <1>0, <3>1, <3>2 DEF Covers
  <2>3. QED
    BY <2>1, <2>2
<1> HIDE DEF n, sorted
<1>6. <<>> \in V /\ D \in [V \X (1 .. n) -> V]
  <2>1. ASSUME NEW p \in V \X (1 .. n) PROVE Merge(p[1], sorted[p[2]]) \in V
    BY <1>2, MergeType
  <2>2. QED
    BY <2>1
<1>7. PICK g \in [0 .. n -> V] : Follows(g, n, <<>>, D)
  <2> HIDE DEF D, V
  <2>1. QED
    BY <1>0, <1>6, Recursion, Zenon
<1>8. g = Step(g)
  <2>1. ASSUME NEW i \in 1 .. n PROVE g[i] = Merge(g[i - 1], sorted[i])
    <3>1. i - 1 \in 0 .. n
      BY <1>0
    <3>2. <<g[i - 1], i>> \in V \X (1 .. n)
      BY <3>1
    <3>3. D[<<g[i - 1], i>>] = Merge(g[i - 1], sorted[i])
      BY <3>2
    <3>4. QED
      BY <1>7, <3>3, Zenon DEF Follows
  <2>2. g[0] = <<>>
    BY <1>7 DEF Follows
  <2>3. QED
    BY <2>1, <2>2
<1>9. done = Step(done)
  <2> HIDE DEF Step
  <2>1. QED
    BY <1>8
<1> HIDE DEF done, D
<1>10. done[0] = <<>> /\ \A i \in 1 .. n : done[i] = Merge(done[i - 1], sorted[i])
  BY <1>0, <1>9, SMTT(30)
<1> HIDE DEF Step
<1> DEFINE Good(i) ==
             /\ done[i] \in Seq(Pairs) /\ IsNormal(done[i])
             /\ \A k \in DOMAIN done[i] : \A j \in 1 .. n : i < j => done[i][k][1] <= sorted[j][1]
             /\ \A x \in Int : Covers(done[i], x) <=> \E j \in 1 .. i : sorted[j][1] <= x /\ x <= sorted[j][2]
           S == {i \in 0 .. n : Good(i)}
<1>11. 0 \in S
  <2>1. done[0] \in Seq(Pairs) /\ DOMAIN done[0] = {}
    BY <1>10
  <2>2. QED
    BY <1>0, <2>1, SMTT(30) DEF IsNormal, Covers
<1>12. ASSUME NEW i \in 0 .. n - 1, i \in S PROVE i + 1 \in S
  <2> DEFINE j == i + 1
             used == done[i]
             r == sorted[j]
  <2>1. j \in 1 .. n /\ i \in Nat /\ j - 1 = i
    BY <1>0
  <2>2. done[j] = Merge(used, r)
    BY <1>10, <2>1
  <2>3. used \in Seq(Pairs) /\ IsNormal(used)
    BY <1>12
  <2>4. \A k \in DOMAIN used : used[k][1] <= r[1]
    BY <1>12, <2>1
  <2>0. \A x \in Int : Covers(used, x) <=> \E m \in 1 .. i : sorted[m][1] <= x /\ x <= sorted[m][2]
    BY <1>12
  <2> HIDE DEF used, r
  <2>5. r \in Pairs /\ r[1] <= r[2] /\ r[1] \in Int
    BY <1>2, <1>3, <2>1 DEF r
  <2>6. /\ done[j] \in Seq(Pairs) /\ IsNormal(done[j])
        /\ \A k \in DOMAIN done[j] : done[j][k][1] <= r[1]
        /\ \A x \in Int : Covers(done[j], x) <=> Covers(used, x) \/ (r[1] <= x /\ x <= r[2])
    BY <2>2, <2>3, <2>4, <2>5, MergeStep
  <2> HIDE DEF j
  <2>7. ASSUME NEW k \in DOMAIN done[j], NEW m \in 1 .. n, j < m PROVE done[j][k][1] <= sorted[m][1]
    <3>1. r[1] <= sorted[m][1] /\ sorted[m][1] \in Int
      BY <1>2, <1>4, <2>1, <2>7 DEF r
    <3>2. done[j][k][1] <= r[1] /\ done[j][k][1] \in Int
      BY <2>6, PairParts
    <3>3. QED
      BY <2>5, <3>1, <3>2
  <2>8. \A m : m \in 1 .. j <=> m \in 1 .. i \/ m = j
    BY <2>1
  <2>9. \A x \in Int : Covers(done[j], x) <=> \E m \in 1 .. j : sorted[m][1] <= x /\ x <= sorted[m][2]
    BY <2>0, <2>6, <2>8, Zenon DEF r
  <2>10. j \in S
    BY <2>1, <2>6, <2>7, <2>9
  <2>11. QED
    BY <2>10 DEF j
<1>13. n \in S
  <2> HIDE DEF S
  <2>1. 0 .. n \subseteq S
    BY <1>0, <1>11, <1>12, UpTo, Zenon
  <2>2. QED
    BY <1>0, <2>1
<1>14. \A x \in Int : Covers(done[n], x) <=> Covers(sorted, x)
  BY <1>0, <1>13, Zenon DEF Covers
<1>15. QED
  BY <1>1, <1>5, <1>13, <1>14

\* What the binary search of contains_interval finds.
LEMMA ContainsMeansCovers ==
  ASSUME NEW s \in Seq(Pairs), IsNormal(s), NEW x \in Int
  PROVE  ContainsInterval(s, x) <=> Covers(s, x)
<1> DEFINE n == Len(s)
           A == {i \in DOMAIN s : s[i][1] <= x}
           c == Cardinality(A)
<1>1. n \in Nat /\ DOMAIN s = 1 .. n
  OBVIOUS
<1>2. \A i \in 1 .. n : s[i][1] \in Int /\ s[i][2] \in Int
  BY <1>1, PairParts
<1>3. ContainsInterval(s, x) <=> c # 0 /\ x <= s[c][2]
  BY DEF ContainsInterval, PartitionPoint
<1> HIDE DEF n
<1>4. \A i \in A : \A j \in 1 .. n : j <= i => j \in A
  <2> TAKE i \in A
  <2> TAKE j \in 1 .. n
  <2>1. j < i => s[j][1] <= s[j][2] /\ s[j][2] < s[i][1]
    BY <1>1 DEF IsNormal
  <2>2. QED
    BY <1>1, <1>2, <2>1
<1>5. A \in SUBSET (1 .. n)
  BY <1>1
<1>6. c \in 0 .. n /\ A = 1 .. c
  <2> HIDE DEF A
  <2>1. QED
    BY <1>1, <1>4, <1>5, InitialSegment
<1>7. \A i \in 1 .. n : s[i][1] <= x <=> i <= c
  BY <1>1, <1>6
<1> HIDE DEF A, c
<1>8. ASSUME Covers(s, x) PROVE c # 0 /\ x <= s[c][2]
  <2>1. PICK i \in 1 .. n : s[i][1] <= x /\ x <= s[i][2]
    BY <1>1, <1>8 DEF Covers
  <2>2. i <= c /\ c \in 1 .. n
    BY <1>1, <1>6, <1>7, <2>1
  <2>3. i < c => s[i][2] < s[c][1] /\ s[c][1] <= s[c][2]
    BY <1>1, <2>2 DEF IsNormal
  <2>4. QED
    BY <1>1, <1>2, <2>1, <2>2, <2>3, SMTT(30)
<1>9. ASSUME c # 0, x <= s[c][2] PROVE Covers(s, x)
  <2>1. c \in 1 .. n /\ s[c][1] <= x
    BY <1>1, <1>6, <1>7, <1>9
  <2>2. QED
    BY <1>1, <1>9, <2>1 DEF Covers
<1>10. QED
  BY <1>3, <1>8, <1>9

\* insert_interval keeps the vector sorted and without overlaps, and adds the
\* addresses of the interval.
LEMMA InsertProperties ==
  ASSUME NEW s \in Seq(Pairs), IsNormal(s), NEW r \in Pairs, r[1] <= r[2]
  PROVE  /\ InsertInterval(s, r) \in Seq(Pairs)
         /\ IsNormal(InsertInterval(s, r))
         /\ \A x \in Int : Covers(InsertInterval(s, r), x) <=> Covers(s, x) \/ (r[1] <= x /\ x <= r[2])
<1> DEFINE n == Len(s)
           A == {i \in DOMAIN s : s[i][2] < r[1]}
           B == {i \in DOMAIN s : s[i][1] <= r[2]}
           b == Cardinality(A)
           e == Cardinality(B)
           m == IF b < e
                THEN <<IF s[b + 1][1] < r[1] THEN s[b + 1][1] ELSE r[1],
                       IF s[e][2] > r[2] THEN s[e][2] ELSE r[2]>>
                ELSE r
           new == InsertInterval(s, r)
<1>1. n \in Nat /\ DOMAIN s = 1 .. n
  OBVIOUS
<1>2. \A i \in 1 .. n : s[i][1] \in Int /\ s[i][2] \in Int
  BY <1>1, PairParts
<1>3. r[1] \in Int /\ r[2] \in Int
  BY DEF Pairs
<1>4. new = SubSeq(s, 1, b) \o <<m>> \o SubSeq(s, e + 1, n)
  BY DEF InsertInterval, PartitionPoint
<1> HIDE DEF n, new
<1>5. \A i, j \in 1 .. n : s[i][1] <= s[i][2] /\ (i < j => s[i][2] < s[j][1])
  BY <1>1 DEF IsNormal
<1>6. b \in 0 .. n /\ A = 1 .. b
  <2>1. \A i \in A : \A j \in 1 .. n : j <= i => j \in A
    <3> TAKE i \in A
    <3> TAKE j \in 1 .. n
    <3>1. j < i => s[j][2] < s[i][1] /\ s[i][1] <= s[i][2]
      BY <1>1, <1>5
    <3>2. QED
      BY <1>1, <1>2, <1>3, <3>1, SMTT(30)
  <2>2. A \in SUBSET (1 .. n)
    BY <1>1
  <2> HIDE DEF A
  <2>3. QED
    BY <1>1, <2>1, <2>2, InitialSegment
<1>7. e \in 0 .. n /\ B = 1 .. e
  <2>1. \A i \in B : \A j \in 1 .. n : j <= i => j \in B
    <3> TAKE i \in B
    <3> TAKE j \in 1 .. n
    <3>1. j < i => s[j][1] <= s[j][2] /\ s[j][2] < s[i][1]
      BY <1>1, <1>5
    <3>2. QED
      BY <1>1, <1>2, <1>3, <3>1, SMTT(30)
  <2>2. B \in SUBSET (1 .. n)
    BY <1>1
  <2> HIDE DEF B
  <2>3. QED
    BY <1>1, <2>1, <2>2, InitialSegment
<1>8. \A i \in 1 .. n : (s[i][2] < r[1] <=> i <= b) /\ (s[i][1] <= r[2] <=> i <= e)
  BY <1>1, <1>6, <1>7
<1> HIDE DEF A, B, b, e
<1>9. b <= e
  <2>1. CASE b = 0
    BY <1>7, <2>1
  <2>2. CASE b # 0
    <3>1. b \in 1 .. n /\ s[b][2] < r[1] /\ s[b][1] <= s[b][2]
      BY <1>1, <1>5, <1>6, <1>8, <2>2
    <3>2. s[b][1] <= r[2]
      BY <1>2, <1>3, <3>1, SMTT(30)
    <3>3. QED
      BY <1>8, <3>1, <3>2
  <2>3. QED
    BY <2>1, <2>2
\* The new interval reaches over the run it replaces, and no further.
<1>10. /\ m \in Pairs /\ m[1] \in Int /\ m[2] \in Int /\ m[1] <= m[2]
       /\ m[1] <= r[1] /\ r[2] <= m[2]
       /\ \A i \in 1 .. b : s[i][2] < m[1]
       /\ \A i \in e + 1 .. n : m[2] < s[i][1]
       /\ \A i \in b + 1 .. e : m[1] <= s[i][1] /\ s[i][2] <= m[2]
       /\ m[1] < r[1] => b + 1 \in 1 .. n /\ m[1] = s[b + 1][1] /\ r[1] <= s[b + 1][2]
       /\ r[2] < m[2] => e \in 1 .. n /\ m[2] = s[e][2] /\ s[e][1] <= r[2]
  <2>1. \A i \in 1 .. b : i \in 1 .. n /\ s[i][2] < r[1]
    BY <1>1, <1>6, <1>8
  <2>2. \A i \in e + 1 .. n : i \in 1 .. n /\ r[2] < s[i][1]
    <3> TAKE i \in e + 1 .. n
    <3>1. i \in 1 .. n /\ ~(i <= e)
      BY <1>1, <1>7
    <3>2. QED
      BY <1>2, <1>3, <1>8, <3>1
  <2>3. CASE b < e
    <3> DEFINE lo == IF s[b + 1][1] < r[1] THEN s[b + 1][1] ELSE r[1]
               hi == IF s[e][2] > r[2] THEN s[e][2] ELSE r[2]
    <3>1. b + 1 \in 1 .. n /\ e \in 1 .. n /\ ~(b + 1 <= b)
      BY <1>1, <1>6, <1>7, <2>3
    <3>2. s[b + 1][1] \in Int /\ s[b + 1][2] \in Int /\ s[e][1] \in Int /\ s[e][2] \in Int
      BY <1>2, <3>1
    <3>3. r[1] <= s[b + 1][2] /\ s[e][1] <= r[2]
      BY <1>3, <1>8, <3>1, <3>2, SMTT(30)
    <3>4. lo \in Int /\ hi \in Int /\ m = <<lo, hi>>
      BY <1>3, <2>3, <3>2
    <3>5. /\ lo <= r[1] /\ r[2] <= hi /\ lo <= s[b + 1][1] /\ s[e][2] <= hi
          /\ (lo < r[1] => lo = s[b + 1][1])
          /\ (r[2] < hi => hi = s[e][2])
          /\ (lo = r[1] \/ lo = s[b + 1][1]) /\ (hi = r[2] \/ hi = s[e][2])
      BY <1>3, <3>2, SMTT(30)
    <3> HIDE DEF lo, hi, m
    <3>6. m \in Pairs /\ m[1] = lo /\ m[2] = hi
      BY <3>4 DEF Pairs
    <3>7. ASSUME NEW i \in 1 .. b PROVE s[i][2] < lo
      <4>1. i \in 1 .. n /\ s[i][2] < r[1] /\ i < b + 1
        BY <1>6, <2>1
      <4>2. s[i][2] < s[b + 1][1]
        BY <1>5, <3>1, <4>1
      <4>3. QED
        BY <3>5, <4>1, <4>2
    <3>8. ASSUME NEW i \in e + 1 .. n PROVE hi < s[i][1]
      <4>1. i \in 1 .. n /\ r[2] < s[i][1] /\ e < i
        BY <1>7, <2>2
      <4>2. s[e][2] < s[i][1]
        BY <1>5, <3>1, <4>1
      <4>3. QED
        BY <3>5, <4>1, <4>2
    <3>9. ASSUME NEW i \in b + 1 .. e PROVE lo <= s[i][1] /\ s[i][2] <= hi
      <4>1. i \in 1 .. n /\ (i = b + 1 \/ b + 1 < i) /\ (i = e \/ i < e)
        BY <1>1, <1>6, <1>7
      <4>2. b + 1 < i => s[b + 1][1] <= s[b + 1][2] /\ s[b + 1][2] < s[i][1]
        BY <1>5, <3>1, <4>1
      <4>3. i < e => s[i][2] < s[e][1] /\ s[e][1] <= s[e][2]
        BY <1>5, <3>1, <4>1
      <4>4. s[i][1] \in Int /\ s[i][2] \in Int
        BY <1>2, <4>1
      <4>5. s[b + 1][1] <= s[i][1]
        BY <3>2, <4>1, <4>2, <4>4, SMTT(30)
      <4>6. s[i][2] <= s[e][2]
        BY <3>2, <4>1, <4>3, <4>4, SMTT(30)
      <4>7. lo <= s[i][1]
        BY <3>2, <3>4, <3>5, <4>4, <4>5
      <4>8. s[i][2] <= hi
        BY <3>2, <3>4, <3>5, <4>4, <4>6
      <4>9. QED
        BY <4>7, <4>8
    <3>10. lo <= hi
      BY <1>3, <3>4, <3>5
    <3>11. QED
      BY <3>1, <3>3, <3>4, <3>5, <3>6, <3>7, <3>8, <3>9, <3>10
  <2>4. CASE ~(b < e)
    <3>1. m = r /\ b = e
      BY <1>6, <1>7, <1>9, <2>4
    <3> HIDE DEF m
    <3>2. \A i \in b + 1 .. e : FALSE
      BY <1>6, <3>1
    <3>3. QED
      BY <1>3, <2>1, <2>2, <3>1, <3>2
  <2>5. QED
    BY <2>3, <2>4, Zenon
<1> HIDE DEF m
<1> DEFINE shift == e - b - 1
<1>11. /\ new \in Seq(Pairs) /\ DOMAIN new = 1 .. b + 1 + n - e
       /\ \A k \in 1 .. b : new[k] = s[k]
       /\ new[b + 1] = m
       /\ \A k \in b + 2 .. b + 1 + n - e : new[k] = s[k + shift]
  <2> DEFINE left == SubSeq(s, 1, b)
             right == SubSeq(s, e + 1, n)
             front == left \o <<m>>
  <2>1. left \in Seq(Pairs) /\ Len(left) = b /\ \A k \in 1 .. b : left[k] = s[k]
    BY <1>1, <1>6, SliceVec DEF n
  <2>2. right \in Seq(Pairs) /\ Len(right) = n - e /\ \A k \in 1 .. n - e : right[k] = s[e + k]
    <3>1. e + 1 \in Int /\ n \in Int /\ \A i \in e + 1 .. n : s[i] \in Pairs
      BY <1>1, <1>7 DEF n
    <3>2. /\ right \in Seq(Pairs)
          /\ Len(right) = IF e + 1 <= n THEN n - (e + 1) + 1 ELSE 0
          /\ \A i \in 1 .. n - (e + 1) + 1 : right[i] = s[e + 1 + i - 1]
      <4> HIDE DEF right
      <4>1. QED
        BY <3>1, SliceVec, SMTT(30) DEF right
    <3> HIDE DEF right
    <3>3. Len(right) = n - e
      BY <1>1, <1>7, <3>2
    <3>4. ASSUME NEW k \in 1 .. n - e PROVE right[k] = s[e + k]
      <4>1. k \in 1 .. n - (e + 1) + 1 /\ e + 1 + k - 1 = e + k
        BY <1>1, <1>7
      <4>2. QED
        BY <3>2, <4>1
    <3>5. QED
      BY <3>2, <3>3, <3>4
  <2> HIDE DEF left, right
  <2>3. front \in Seq(Pairs) /\ Len(front) = b + 1 /\ front[b + 1] = m /\ \A k \in 1 .. b : front[k] = left[k]
    BY <1>6, <1>10, <2>1
  <2>4. new = front \o right
    BY <1>4 DEF left, right
  <2> HIDE DEF front
  <2>5. new \in Seq(Pairs) /\ Len(new) = b + 1 + (n - e)
    <3>1. front \o right \in Seq(Pairs) /\ Len(front \o right) = Len(front) + Len(right)
      BY <2>2, <2>3, JoinVec, Zenon
    <3>2. QED
      BY <2>2, <2>3, <2>4, <3>1
  <2>6. \A k \in 1 .. b + 1 : new[k] = front[k]
    BY <1>6, <2>2, <2>3, <2>4, SMTT(30)
  <2>7. ASSUME NEW k \in b + 2 .. b + 1 + n - e PROVE new[k] = s[k + shift]
    <3>1. k - (b + 1) \in 1 .. n - e
      BY <1>1, <1>6, <1>7
    <3>2. new[k] = right[k - (b + 1)]
      BY <1>1, <1>6, <1>7, <2>2, <2>3, <2>4, SMTT(30)
    <3>3. right[k - (b + 1)] = s[e + (k - (b + 1))]
      BY <2>2, <3>1
    <3>4. e + (k - (b + 1)) = k + shift
      BY <1>6, <1>7
    <3>5. QED
      BY <3>2, <3>3, <3>4
  <2>8. QED
    BY <1>1, <1>6, <1>7, <2>1, <2>3, <2>5, <2>6, <2>7
<1>12. \A k \in DOMAIN new :
         \/ k \in 1 .. b
         \/ k = b + 1
         \/ k \in b + 2 .. b + 1 + n - e /\ k + shift \in e + 1 .. n
  BY <1>1, <1>6, <1>7, <1>11, SMTT(30)
<1>13. /\ \A k \in 1 .. b : k \in 1 .. n /\ k \in DOMAIN new
       /\ b + 1 \in DOMAIN new
       /\ \A i \in e + 1 .. n : i \in 1 .. n /\ i - shift \in b + 2 .. b + 1 + n - e /\ i - shift \in DOMAIN new
  BY <1>1, <1>6, <1>7, <1>9, <1>11
<1>14. IsNormal(new)
  <2>1. ASSUME NEW k \in DOMAIN new PROVE new[k][1] <= new[k][2]
    <3>1. CASE k \in 1 .. b
      BY <1>5, <1>11, <1>13, <3>1
    <3>2. CASE k = b + 1
      BY <1>10, <1>11, <3>2
    <3>3. CASE k \in b + 2 .. b + 1 + n - e /\ k + shift \in e + 1 .. n
      BY <1>5, <1>11, <1>13, <3>3
    <3>4. QED
      BY <1>12, <3>1, <3>2, <3>3
  <2>2. ASSUME NEW k \in DOMAIN new, NEW l \in DOMAIN new, k < l PROVE new[k][2] < new[l][1]
    <3>1. CASE k \in 1 .. b /\ l \in 1 .. b
      BY <1>5, <1>11, <1>13, <2>2, <3>1
    <3>2. CASE k \in 1 .. b /\ l = b + 1
      BY <1>10, <1>11, <3>2
    <3>3. CASE k \in 1 .. b /\ l \in b + 2 .. b + 1 + n - e /\ l + shift \in e + 1 .. n
      <4>1. k \in 1 .. n /\ l + shift \in 1 .. n /\ k < l + shift
        BY <1>1, <1>6, <1>7, <1>9, <3>3, SMTT(30)
      <4>2. QED
        BY <1>5, <1>11, <3>3, <4>1
    <3>4. CASE k = b + 1 /\ l \in b + 2 .. b + 1 + n - e /\ l + shift \in e + 1 .. n
      BY <1>10, <1>11, <3>4
    <3>5. CASE /\ k \in b + 2 .. b + 1 + n - e /\ k + shift \in e + 1 .. n
               /\ l \in b + 2 .. b + 1 + n - e /\ l + shift \in e + 1 .. n
      <4>1. k + shift \in 1 .. n /\ l + shift \in 1 .. n /\ k + shift < l + shift
        BY <1>1, <1>6, <1>7, <1>13, <2>2, <3>5, SMTT(30)
      <4>2. QED
        BY <1>5, <1>11, <3>5, <4>1
    <3>6. \/ k \in 1 .. b
          \/ k = b + 1 /\ l \notin 1 .. b /\ l # b + 1
          \/ k \in b + 2 .. b + 1 + n - e /\ l \notin 1 .. b /\ l # b + 1
      BY <1>6, <1>11, <1>12, <2>2, SMTT(30)
    <3>7. QED
      BY <1>12, <3>1, <3>2, <3>3, <3>4, <3>5, <3>6
  <2>3. QED
    BY <2>1, <2>2 DEF IsNormal
<1>15. ASSUME NEW x \in Int
       PROVE  Covers(new, x) <=> Covers(s, x) \/ (r[1] <= x /\ x <= r[2])
  <2>1. ASSUME Covers(new, x) PROVE Covers(s, x) \/ (r[1] <= x /\ x <= r[2])
    <3>1. PICK k \in DOMAIN new : new[k][1] <= x /\ x <= new[k][2]
      BY <2>1 DEF Covers
    <3>2. CASE k \in 1 .. b
      BY <1>1, <1>11, <1>13, <3>1, <3>2 DEF Covers
    <3>3. CASE k = b + 1
      <4>1. m[1] <= x /\ x <= m[2]
        BY <1>11, <3>1, <3>3
      <4>2. CASE x < r[1]
        <5>1. b + 1 \in 1 .. n /\ s[b + 1][1] <= x /\ x <= s[b + 1][2]
          BY <1>2, <1>3, <1>10, <4>1, <4>2, SMTT(30)
        <5>2. QED
          BY <1>1, <5>1 DEF Covers
      <4>3. CASE r[2] < x
        <5>1. e \in 1 .. n /\ s[e][1] <= x /\ x <= s[e][2]
          BY <1>2, <1>3, <1>10, <4>1, <4>3, SMTT(30)
        <5>2. QED
          BY <1>1, <5>1 DEF Covers
      <4>4. QED
        BY <1>3, <4>2, <4>3
    <3>4. CASE k \in b + 2 .. b + 1 + n - e /\ k + shift \in e + 1 .. n
      <4>1. k + shift \in 1 .. n /\ new[k] = s[k + shift]
        BY <1>11, <1>13, <3>4
      <4>2. QED
        BY <1>1, <3>1, <4>1 DEF Covers
    <3>5. QED
      BY <1>12, <3>2, <3>3, <3>4
  <2>2. ASSUME Covers(s, x) PROVE Covers(new, x)
    <3>1. PICK i \in 1 .. n : s[i][1] <= x /\ x <= s[i][2]
      BY <1>1, <2>2 DEF Covers
    <3>2. CASE i \in 1 .. b
      BY <1>11, <1>13, <3>1, <3>2, SMTT(30) DEF Covers
    <3>3. CASE i \in b + 1 .. e
      <4>1. m[1] <= x /\ x <= m[2]
        BY <1>2, <1>10, <3>1, <3>3, SMTT(30)
      <4>2. QED
        BY <1>11, <1>13, <4>1 DEF Covers
    <3>4. CASE i \in e + 1 .. n
      <4>1. i - shift \in DOMAIN new /\ i - shift \in b + 2 .. b + 1 + n - e /\ (i - shift) + shift = i
        BY <1>1, <1>6, <1>7, <1>13, <3>4
      <4>2. new[i - shift] = s[i]
        BY <1>11, <4>1
      <4>3. QED
        BY <3>1, <4>1, <4>2 DEF Covers
    <3>5. QED
      BY <1>1, <1>6, <1>7, <3>2, <3>3, <3>4
  <2>3. ASSUME r[1] <= x, x <= r[2] PROVE Covers(new, x)
    <3>1. m[1] <= x /\ x <= m[2]
      BY <1>3, <1>10, <2>3, SMTT(30)
    <3>2. QED
      BY <1>11, <1>13, <3>1 DEF Covers
  <2>4. QED
    BY <2>1, <2>2, <2>3
<1>16. QED
  BY <1>11, <1>14, <1>15 DEF new

\* The numbers with one quotient are the ones of one block.
LEMMA SameQuotient ==
  ASSUME NEW d \in Nat \ {0}, NEW a \in Nat, NEW x \in Nat
  PROVE  (a - (a % d) <= x /\ x <= a - (a % d) + d - 1) <=> x \div d = a \div d
<1> DEFINE q == a \div d
           p == x \div d
           u == a % d
           v == x % d
<1>1. q \in Int /\ p \in Int /\ u \in Int /\ v \in Int
  OBVIOUS
<1>2. a = d * q + u /\ 0 <= u /\ u < d
  OBVIOUS
<1>3. x = d * p + v /\ 0 <= v /\ v < d
  OBVIOUS
<1> HIDE DEF p, q, u, v
<1>4. \A y, z \in Int : y < z => d * y + d <= d * z
  <2> TAKE y, z \in Int
  <2> HAVE y < z
  <2>1. PICK k \in Nat : z = y + 1 + k
    <3>1. z - y - 1 \in Nat /\ z = y + 1 + (z - y - 1)
      OBVIOUS
    <3>2. QED
      BY <3>1
  <2>2. d * z = d * y + d + d * k
    BY <2>1
  <2>3. d * k >= 0 /\ d * y \in Int /\ d * k \in Int
    OBVIOUS
  <2>4. QED
    BY <2>2, <2>3
<1>5. d * q \in Int /\ d * p \in Int
  BY <1>1
<1>6. ASSUME p = q PROVE a - u <= x /\ x <= a - u + d - 1
  <2>1. x = d * q + v
    BY <1>3, <1>6
  <2>2. QED
    BY <1>1, <1>2, <1>3, <1>5, <2>1
<1>7. ASSUME a - u <= x, x <= a - u + d - 1 PROVE p = q
  <2>1. CASE p < q
    <3>1. d * p + d <= d * q
      BY <1>1, <1>4, <2>1
    <3>2. QED
      BY <1>1, <1>2, <1>3, <1>5, <1>7, <3>1
  <2>2. CASE q < p
    <3>1. d * q + d <= d * p
      BY <1>1, <1>4, <2>2
    <3>2. QED
      BY <1>1, <1>2, <1>3, <1>5, <1>7, <3>1
  <2>3. QED
    BY <1>1, <2>1, <2>2
<1>8. QED
  BY <1>6, <1>7 DEF p, q, u

\* push_cidr makes the interval of the addresses that share the leading bits.
LEMMA IntervalIsNamed ==
  ASSUME NEW f \in Families, NEW cidr \in Cidr(f), Valid(f, cidr)
  PROVE  /\ Interval(f, cidr) \in Pairs
         /\ Interval(f, cidr)[1] <= Interval(f, cidr)[2]
         /\ \A x \in Addresses(f) :
              (Interval(f, cidr)[1] <= x /\ x <= Interval(f, cidr)[2]) <=> x \in Named(f, cidr)
<1> DEFINE d == Shl(Width[f] - cidr.bits)
           a == cidr.addr
           start == a - (a % d)
<1>1. Width[f] \in Nat /\ cidr.bits \in Nat /\ a \in Addresses(f) /\ Width[f] - cidr.bits \in Nat
  BY RangesAssumption DEF Cidr, Valid
<1>2. Shl(Width[f]) \in Nat \ {0} /\ d \in Nat \ {0}
  BY <1>1, ShlPositive
<1>3. a \in Nat
  BY <1>1, <1>2 DEF Addresses
<1>4. Interval(f, cidr) = <<start, start + d - 1>>
  BY DEF Interval
<1> HIDE DEF d, a
<1>5. start \in Int
  BY <1>2, <1>3
<1>6. \A x \in Addresses(f) : x \in Nat
  BY <1>1, <1>2 DEF Addresses
<1>7. \A x \in Addresses(f) : x \in Named(f, cidr) <=> x \div d = a \div d
  BY DEF Named, d, a
<1>8. \A x \in Addresses(f) : (start <= x /\ x <= start + d - 1) <=> x \div d = a \div d
  BY <1>2, <1>3, <1>6, SameQuotient, Zenon
<1> HIDE DEF start
<1>9. Interval(f, cidr) \in Pairs /\ Interval(f, cidr)[1] = start /\ Interval(f, cidr)[2] = start + d - 1
  BY <1>2, <1>4, <1>5 DEF Pairs
<1>10. QED
  BY <1>2, <1>5, <1>7, <1>8, <1>9

\* add_feed_json appends the intervals of the document's prefixes.
LEMMA PushedProperties ==
  ASSUME NEW f \in Families, NEW vector \in Seq(Pairs), Ordered(vector),
         NEW feed \in Seq(FeedEntries), WellFormed(feed)
  PROVE  /\ Pushed(f, vector, feed) \in Seq(Pairs)
         /\ Ordered(Pushed(f, vector, feed))
         /\ \A x \in Addresses(f) :
              Covers(Pushed(f, vector, feed), x) <=> Covers(vector, x) \/ x \in NamedBy(f, feed)
<1> DEFINE n == Len(feed)
           V == Seq(Pairs)
           Some(i) == feed[i][f] # NoPrefix
           Add(w, i) == IF feed[i][f] = NoPrefix THEN w ELSE Append(w, Interval(f, feed[i][f]))
           D == [p \in V \X (1 .. n) |-> Add(p[1], p[2])]
           Step(g) == [i \in 0 .. n |-> IF i = 0 THEN vector ELSE Add(g[i - 1], i)]
           after == CHOOSE after : after = Step(after)
<1>1. n \in Nat /\ DOMAIN feed = 1 .. n
  OBVIOUS
<1>2. Pushed(f, vector, feed) = after[n]
  BY DEF Pushed
<1>3. ASSUME NEW i \in 1 .. n, Some(i)
      PROVE  /\ Interval(f, feed[i][f]) \in Pairs
             /\ Interval(f, feed[i][f])[1] <= Interval(f, feed[i][f])[2]
             /\ \A x \in Addresses(f) :
                  (Interval(f, feed[i][f])[1] <= x /\ x <= Interval(f, feed[i][f])[2])
                    <=> x \in Named(f, feed[i][f])
  <2>1. feed[i] \in FeedEntries
    BY <1>1
  <2>2. feed[i][f] \in Cidr(f) /\ Valid(f, feed[i][f])
    BY <1>1, <1>3, <2>1 DEF FeedEntries, WellFormed
  <2>3. QED
    BY <2>2, IntervalIsNamed
<1> HIDE DEF n
<1>4. ASSUME NEW w \in V, NEW i \in 1 .. n PROVE Add(w, i) \in V
  BY <1>3, PushVec
<1>5. vector \in V /\ D \in [V \X (1 .. n) -> V]
  <2> HIDE DEF Add, V
  <2>1. QED
    BY <1>4 DEF V
<1>6. PICK g \in [0 .. n -> V] : Follows(g, n, vector, D)
  <2> HIDE DEF D, V
  <2>1. QED
    BY <1>1, <1>5, Recursion, Zenon
<1>7. g = Step(g)
  <2>1. ASSUME NEW i \in 1 .. n PROVE g[i] = Add(g[i - 1], i)
    <3> HIDE DEF Add
    <3>1. i - 1 \in 0 .. n
      BY <1>1
    <3>2. <<g[i - 1], i>> \in V \X (1 .. n)
      BY <3>1
    <3>3. D[<<g[i - 1], i>>] = Add(g[i - 1], i)
      BY <3>2
    <3>4. QED
      BY <1>6, <3>3, Zenon DEF Follows
  <2>2. g[0] = vector
    BY <1>6 DEF Follows
  <2> HIDE DEF Add
  <2>3. QED
    BY <2>1, <2>2
<1>8. after = Step(after)
  <2> HIDE DEF Step
  <2>1. QED
    BY <1>7
<1> HIDE DEF after, D
<1>9. after[0] = vector /\ \A i \in 1 .. n : after[i] = Add(after[i - 1], i)
  <2> HIDE DEF Add
  <2>1. QED
    BY <1>1, <1>8, SMTT(30)
<1> HIDE DEF Step
<1> DEFINE Good(i) ==
             /\ after[i] \in Seq(Pairs) /\ Ordered(after[i])
             /\ \A x \in Addresses(f) :
                  Covers(after[i], x) <=> \/ Covers(vector, x)
                                          \/ \E j \in 1 .. i : Some(j) /\ x \in Named(f, feed[j][f])
           S == {i \in 0 .. n : Good(i)}
<1>10. 0 \in S
  BY <1>1, <1>9
<1>11. ASSUME NEW i \in 0 .. n - 1, i \in S PROVE i + 1 \in S
  <2> DEFINE j == i + 1
             w == after[i]
  <2>1. j \in 1 .. n /\ i \in Nat /\ j - 1 = i
    BY <1>1
  <2>2. after[j] = Add(w, j)
    BY <1>9, <2>1
  <2>3. /\ w \in Seq(Pairs) /\ Ordered(w)
        /\ \A x \in Addresses(f) :
             Covers(w, x) <=> \/ Covers(vector, x)
                              \/ \E k \in 1 .. i : Some(k) /\ x \in Named(f, feed[k][f])
    BY <1>11
  <2>4. \A k : k \in 1 .. j <=> k \in 1 .. i \/ k = j
    BY <2>1
  <2> HIDE DEF w, j
  <2>5. CASE ~Some(j)
    <3>1. after[j] = w
      BY <2>2, <2>5
    <3>2. Good(j)
      BY <2>3, <2>4, <2>5, <3>1, SMTT(30)
    <3>3. QED
      BY <2>1, <3>2 DEF j
  <2>6. CASE Some(j)
    <3> DEFINE t == Interval(f, feed[j][f])
               m == Len(w)
    <3>1. /\ t \in Pairs /\ t[1] <= t[2]
          /\ \A x \in Addresses(f) : (t[1] <= x /\ x <= t[2]) <=> x \in Named(f, feed[j][f])
      BY <1>3, <2>1, <2>6
    <3>2. after[j] = Append(w, t)
      BY <2>2, <2>6
    <3> HIDE DEF t
    <3>3. /\ after[j] \in Seq(Pairs) /\ DOMAIN after[j] = 1 .. m + 1 /\ DOMAIN w = 1 .. m /\ m \in Nat
          /\ after[j][m + 1] = t /\ \A k \in 1 .. m : after[j][k] = w[k]
      BY <2>3, <3>1, <3>2, PushVec
    <3> HIDE DEF m
    <3>4. \A k : k \in 1 .. m + 1 <=> k \in 1 .. m \/ k = m + 1
      BY <3>3
    <3>5. Ordered(after[j])
      BY <2>3, <3>1, <3>3, <3>4, SMTT(30) DEF Ordered
    <3>6. \A x \in Addresses(f) : Covers(after[j], x) <=> Covers(w, x) \/ (t[1] <= x /\ x <= t[2])
      BY <3>3, <3>4, Zenon DEF Covers
    <3>7. Good(j)
      BY <2>3, <2>4, <2>6, <3>1, <3>3, <3>5, <3>6, Zenon
    <3>8. QED
      BY <2>1, <3>7 DEF j
  <2>7. QED
    BY <2>5, <2>6
<1>12. n \in S
  <2> HIDE DEF S
  <2>1. 0 .. n \subseteq S
    BY <1>1, <1>10, <1>11, UpTo, Zenon
  <2>2. QED
    BY <1>1, <2>1
<1>13. \A x : x \in NamedBy(f, feed) <=> \E j \in 1 .. n : Some(j) /\ x \in Named(f, feed[j][f])
  BY <1>1 DEF NamedBy
<1>14. QED
  BY <1>2, <1>12, <1>13

\* An address is a number.
LEMMA AddressesAreNumbers ==
  ASSUME NEW f \in Families
  PROVE  Addresses(f) \subseteq Nat
<1>1. Width[f] \in Nat
  BY RangesAssumption
<1>2. Shl(Width[f]) \in Nat \ {0}
  BY <1>1, ShlPositive
<1>3. QED
  BY <1>2 DEF Addresses

\* After add_feed_json, contains answers for what it answered for before and
\* for the addresses the document names.
LEMMA ExtendedProperties ==
  ASSUME NEW vectors \in [Families -> Seq(Pairs)], \A f \in Families : IsNormal(vectors[f]),
         NEW feed \in Seq(FeedEntries), WellFormed(feed), NEW f \in Families
  PROVE  /\ Extended(vectors, feed)[f] \in Seq(Pairs)
         /\ IsNormal(Extended(vectors, feed)[f])
         /\ \A x \in Addresses(f) :
              ContainsInterval(Extended(vectors, feed)[f], x)
                <=> ContainsInterval(vectors[f], x) \/ x \in NamedBy(f, feed)
<1> DEFINE s == vectors[f]
           all == Pushed(f, s, feed)
           new == Normalize(all)
<1>1. Extended(vectors, feed)[f] = new
  BY DEF Extended
<1>2. s \in Seq(Pairs) /\ IsNormal(s)
  OBVIOUS
<1> HIDE DEF s
<1>3. Ordered(s)
  BY <1>2 DEF Ordered, IsNormal
<1>4. /\ all \in Seq(Pairs) /\ Ordered(all)
      /\ \A x \in Addresses(f) : Covers(all, x) <=> Covers(s, x) \/ x \in NamedBy(f, feed)
  BY <1>2, <1>3, PushedProperties
<1> HIDE DEF all
<1>5. new \in Seq(Pairs) /\ IsNormal(new) /\ \A x \in Int : Covers(new, x) <=> Covers(all, x)
  BY <1>4, NormalizeProperties
<1> HIDE DEF new
<1>6. ASSUME NEW x \in Addresses(f)
      PROVE  ContainsInterval(new, x) <=> ContainsInterval(s, x) \/ x \in NamedBy(f, feed)
  <2>1. x \in Int
    BY AddressesAreNumbers
  <2>2. ContainsInterval(new, x) <=> Covers(new, x)
    BY <1>5, <2>1, ContainsMeansCovers
  <2>3. ContainsInterval(s, x) <=> Covers(s, x)
    BY <1>2, <2>1, ContainsMeansCovers
  <2>4. QED
    BY <1>4, <1>5, <2>1, <2>2, <2>3
<1>7. QED
  BY <1>1, <1>5, <1>6 DEF s

\* A prefix and a document name addresses of the family.
LEMMA NamedAreAddresses ==
  ASSUME NEW f \in Families
  PROVE  /\ \A cidr : Named(f, cidr) \subseteq Addresses(f)
         /\ \A feed : NamedBy(f, feed) \subseteq Addresses(f)
<1>1. \A cidr : Named(f, cidr) \subseteq Addresses(f)
  BY DEF Named
<1>2. QED
  BY <1>1 DEF NamedBy

\* Empty vectors are normal and contain nothing.
LEMMA EmptyProperties ==
  /\ Empty \in [Families -> Seq(Pairs)]
  /\ \A f \in Families : IsNormal(Empty[f])
  /\ \A f \in Families : \A x \in Addresses(f) : ~ContainsInterval(Empty[f], x)
<1>1. <<>> \in Seq(Pairs) /\ DOMAIN <<>> = {}
  OBVIOUS
<1>2. Empty \in [Families -> Seq(Pairs)] /\ \A f \in Families : Empty[f] = <<>>
  BY DEF Empty
<1>3. IsNormal(<<>>) /\ \A x \in Int : ~Covers(<<>>, x)
  BY <1>1 DEF IsNormal, Covers
<1>4. ASSUME NEW x \in Int PROVE ~ContainsInterval(<<>>, x)
  BY <1>1, <1>3, ContainsMeansCovers, Zenon
<1>5. QED
  BY <1>2, <1>3, <1>4, AddressesAreNumbers

\* An empty range set confirms nobody.
LEMMA RangesInitInv == RangesInit => RangesInv
<1> SUFFICES ASSUME RangesInit PROVE RangesInv
  OBVIOUS
<1>1. ranges = Empty /\ covered = [f \in Families |-> {}]
  BY DEF RangesInit
<1>2. Exact
  BY <1>1, EmptyProperties DEF Exact
<1>3. QED
  BY <1>1, <1>2, EmptyProperties DEF RangesInv, Pairs

\* add_cidr: the range set confirms the addresses of one more prefix.
LEMMA AddCidrStep ==
  ASSUME RangesInv, NEW f \in Families, NEW cidr \in Cidr(f), AddCidr(f, cidr)
  PROVE  RangesInv'
<1> DEFINE s == ranges[f]
           r == Interval(f, cidr)
           new == InsertInterval(s, r)
<1>1. /\ Valid(f, cidr)
      /\ ranges' = [ranges EXCEPT ![f] = new]
      /\ covered' = [covered EXCEPT ![f] = @ \union Named(f, cidr)]
  BY DEF AddCidr
<1>2. ranges \in [Families -> Seq(Pairs)] /\ covered \in [Families -> SUBSET Nat] /\ Exact
  BY DEF RangesInv, Pairs
<1>3. s \in Seq(Pairs) /\ IsNormal(s)
  BY <1>2 DEF Exact
<1>4. /\ r \in Pairs /\ r[1] <= r[2]
      /\ \A x \in Addresses(f) : (r[1] <= x /\ x <= r[2]) <=> x \in Named(f, cidr)
  BY <1>1, IntervalIsNamed
<1> HIDE DEF s, r
<1>5. /\ new \in Seq(Pairs) /\ IsNormal(new)
      /\ \A x \in Int : Covers(new, x) <=> Covers(s, x) \/ (r[1] <= x /\ x <= r[2])
  BY <1>3, <1>4, InsertProperties
<1> HIDE DEF new
<1>6. ASSUME NEW x \in Addresses(f)
      PROVE  ContainsInterval(new, x) <=> ContainsInterval(s, x) \/ x \in Named(f, cidr)
  <2>1. x \in Int
    BY AddressesAreNumbers
  <2>2. ContainsInterval(new, x) <=> Covers(new, x)
    BY <1>5, <2>1, ContainsMeansCovers
  <2>3. ContainsInterval(s, x) <=> Covers(s, x)
    BY <1>3, <2>1, ContainsMeansCovers
  <2>4. QED
    BY <1>4, <1>5, <2>1, <2>2, <2>3
<1>7. {x \in Addresses(f) : ContainsInterval(s, x)} = covered[f]
  BY <1>2 DEF Exact, s
<1>8. {x \in Addresses(f) : ContainsInterval(new, x)} = covered[f] \union Named(f, cidr)
  BY <1>6, <1>7, NamedAreAddresses
<1>9. \A g \in Families :
        /\ ranges'[g] = IF g = f THEN new ELSE ranges[g]
        /\ covered'[g] = IF g = f THEN covered[f] \union Named(f, cidr) ELSE covered[g]
  BY <1>1, <1>2
<1>10. Exact'
  <2> SUFFICES ASSUME NEW g \in Families
               PROVE  /\ IsNormal(ranges'[g])
                      /\ {x \in Addresses(g) : ContainsInterval(ranges'[g], x)} = covered'[g]
    BY DEF Exact
  <2>1. CASE g = f
    BY <1>5, <1>8, <1>9, <2>1
  <2>2. CASE g # f
    <3>1. ranges'[g] = ranges[g] /\ covered'[g] = covered[g]
      BY <1>9, <2>2
    <3>2. QED
      BY <1>2, <3>1 DEF Exact
  <2>3. QED
    BY <2>1, <2>2
<1>11. ranges' \in [Families -> Seq(Pairs)]
  BY <1>1, <1>2, <1>5
<1>12. covered' \in [Families -> SUBSET Nat]
  <2>1. Named(f, cidr) \subseteq Nat
    BY AddressesAreNumbers, NamedAreAddresses
  <2>2. QED
    BY <1>1, <1>2, <2>1
<1>13. QED
  BY <1>10, <1>11, <1>12 DEF RangesInv, Pairs

\* parse_feed: the range set confirms the addresses of the document as well.
LEMMA AddFeedStep ==
  ASSUME RangesInv, NEW feed \in Seq(FeedEntries), AddFeed(feed)
  PROVE  RangesInv'
<1>1. /\ WellFormed(feed)
      /\ ranges' = Extended(ranges, feed)
      /\ covered' = [f \in Families |-> covered[f] \union NamedBy(f, feed)]
  BY DEF AddFeed
<1>2. ranges \in [Families -> Seq(Pairs)] /\ covered \in [Families -> SUBSET Nat] /\ Exact
  BY DEF RangesInv, Pairs
<1>3. \A f \in Families : IsNormal(ranges[f])
  BY <1>2 DEF Exact
<1>4. ASSUME NEW f \in Families
      PROVE  /\ ranges'[f] \in Seq(Pairs) /\ IsNormal(ranges'[f])
             /\ \A x \in Addresses(f) :
                  ContainsInterval(ranges'[f], x)
                    <=> ContainsInterval(ranges[f], x) \/ x \in NamedBy(f, feed)
  BY <1>1, <1>2, <1>3, ExtendedProperties
<1>5. ranges' \in [Families -> Seq(Pairs)]
  <2>1. ranges' = [f \in Families |-> ranges'[f]]
    BY <1>1 DEF Extended
  <2>2. QED
    BY <1>4, <2>1
<1>6. covered' \in [Families -> SUBSET Nat]
  BY <1>1, <1>2, AddressesAreNumbers, NamedAreAddresses
<1>7. Exact'
  <2> SUFFICES ASSUME NEW f \in Families
               PROVE  /\ IsNormal(ranges'[f])
                      /\ {x \in Addresses(f) : ContainsInterval(ranges'[f], x)} = covered'[f]
    BY DEF Exact
  <2>1. covered'[f] = covered[f] \union NamedBy(f, feed)
    BY <1>1
  <2>2. {x \in Addresses(f) : ContainsInterval(ranges[f], x)} = covered[f]
    BY <1>2 DEF Exact
  <2>3. QED
    BY <1>4, <2>1, <2>2, NamedAreAddresses
<1>8. QED
  BY <1>5, <1>6, <1>7 DEF RangesInv, Pairs

\* Every call on a range set keeps RangesInv.
LEMMA RangesNextInv == RangesInv /\ [RangesNext]_rangesVars => RangesInv'
<1> SUFFICES ASSUME RangesInv, [RangesNext]_rangesVars PROVE RangesInv'
  OBVIOUS
<1>1. CASE \E f \in Families : \E cidr \in Cidr(f) : AddCidr(f, cidr)
  BY <1>1, AddCidrStep
<1>2. CASE \E feed \in FeedDocs : AddFeed(feed)
  BY <1>2, AddFeedStep, RangesAssumption
<1>3. CASE UNCHANGED rangesVars
  BY <1>3 DEF rangesVars, RangesInv, Exact
<1>4. QED
  BY <1>1, <1>2, <1>3 DEF RangesNext

(***************************************************************************)
(* The vectors of a range set stay sorted and without overlaps, and its    *)
(* binary search confirms exactly the addresses named by the prefixes of   *)
(* the accepted calls, whichever mix of insert_interval and normalize made *)
(* the vectors.                                                            *)
(***************************************************************************)
THEOREM RangesAreExact == RangesSpec => []Exact
<1>1. RangesInv => Exact
  BY DEF RangesInv
<1>2. QED
  BY <1>1, RangesInitInv, RangesNextInv, PTL DEF RangesSpec

-----------------------------------------------------------------------------
(* Feeds.                                                                  *)

\* What register inserts for a block that was not refused.
LEMMA BuilderType ==
  ASSUME NEW block \in Blocks, ~Refused(block)
  PROVE  Builder(block) \in Builders
<1>1. block.urls \in Nat /\ block.refresh \in Int /\ block.max_stale \in Int
  BY DEF Blocks
<1>2. /\ block.refresh # Unset => block.refresh \in Nat \ {0}
      /\ block.max_stale # Unset => block.max_stale \in Nat \ {0}
  BY <1>1, FeedsAssumption DEF Refused, TimeOK
<1>3. QED
  BY <1>1, <1>2, FeedsAssumption DEF Builder, Builders

\* The map the blocks of a configuration are registered in.
LEMMA ParsedProperties ==
  ASSUME NEW blocks \in Seq(Blocks), \A i \in DOMAIN blocks : ~Refused(blocks[i])
  PROVE  /\ IsRegistry(Parsed(blocks))
         /\ blocks = <<>> => Parsed(blocks) = [n \in {} |-> 0]
<1> DEFINE k == Len(blocks)
           none == [n \in {} |-> 0]
           V == UNION {[names -> Builders] : names \in SUBSET Names}
           D == [p \in V \X (1 .. k) |-> Register(p[1], blocks[p[2]])]
           Step(g) == [i \in 0 .. k |-> IF i = 0 THEN none ELSE Register(g[i - 1], blocks[i])]
           map == CHOOSE map : map = Step(map)
<1>1. k \in Nat /\ DOMAIN blocks = 1 .. k /\ (blocks = <<>> => k = 0)
  OBVIOUS
<1>2. Parsed(blocks) = map[k]
  BY DEF Parsed
<1> HIDE DEF k
<1>3. none \in V
  <2>1. none \in [{} -> Builders] /\ {} \in SUBSET Names
    OBVIOUS
  <2>2. QED
    BY <2>1, Zenon
<1>4. ASSUME NEW w \in V, NEW i \in 1 .. k PROVE Register(w, blocks[i]) \in V
  <2>1. PICK names \in SUBSET Names : w \in [names -> Builders]
    OBVIOUS
  <2>2. blocks[i] \in Blocks /\ ~Refused(blocks[i])
    BY <1>1
  <2>3. Builder(blocks[i]) \in Builders /\ blocks[i].name \in Names
    BY <2>2, BuilderType DEF Blocks
  <2>4. Register(w, blocks[i]) \in [names \union {blocks[i].name} -> Builders]
    BY <2>1, <2>3 DEF Register
  <2>5. names \union {blocks[i].name} \in SUBSET Names
    BY <2>3
  <2>6. QED
    BY <2>4, <2>5
<1>5. D \in [V \X (1 .. k) -> V]
  <2> HIDE DEF V
  <2>1. QED
    BY <1>4
<1>6. PICK g \in [0 .. k -> V] : Follows(g, k, none, D)
  <2> HIDE DEF D, V, none
  <2>1. QED
    BY <1>1, <1>3, <1>5, Recursion, Zenon
<1>7. g = Step(g)
  <2> HIDE DEF V, none
  <2>1. ASSUME NEW i \in 1 .. k PROVE g[i] = Register(g[i - 1], blocks[i])
    <3>1. i - 1 \in 0 .. k
      BY <1>1
    <3>2. <<g[i - 1], i>> \in V \X (1 .. k)
      BY <3>1
    <3>3. D[<<g[i - 1], i>>] = Register(g[i - 1], blocks[i])
      BY <3>2
    <3>4. QED
      BY <1>6, <3>3, Zenon DEF Follows
  <2>2. g[0] = none
    BY <1>6 DEF Follows
  <2>3. QED
    BY <2>1, <2>2
<1>8. map = Step(map)
  <2> HIDE DEF Step
  <2>1. QED
    BY <1>7
<1> HIDE DEF map, D, V, none
<1>9. map[0] = none /\ \A i \in 1 .. k : map[i] = Register(map[i - 1], blocks[i])
  BY <1>1, <1>8
<1> HIDE DEF Step
<1> DEFINE S == {i \in 0 .. k : map[i] \in V}
<1>10. 0 \in S
  BY <1>1, <1>3, <1>9
<1>11. \A i \in 0 .. k - 1 : i \in S => i + 1 \in S
  <2> SUFFICES ASSUME NEW i \in 0 .. k - 1, i \in S PROVE i + 1 \in S
    OBVIOUS
  <2>1. i + 1 \in 1 .. k /\ (i + 1) - 1 = i
    BY <1>1
  <2>2. map[i + 1] = Register(map[i], blocks[i + 1])
    BY <1>9, <2>1
  <2>3. QED
    BY <1>1, <1>4, <2>1, <2>2
<1>12. k \in S
  <2> HIDE DEF S
  <2>1. 0 .. k \subseteq S
    BY <1>1, <1>10, <1>11, UpTo, Zenon
  <2>2. QED
    BY <1>1, <2>1
<1>13. map[k] \in V
  BY <1>12
<1>14. IsRegistry(map[k])
  <2>1. PICK names \in SUBSET Names : map[k] \in [names -> Builders]
    BY <1>13, SMTT(30) DEF V
  <2>2. QED
    BY <2>1 DEF IsRegistry
<1>15. blocks = <<>> => map[k] = [n \in {} |-> 0]
  BY <1>1, <1>9 DEF none
<1>16. QED
  BY <1>2, <1>14, <1>15

\* The parts of the map of a cycle.
LEMMA RegistryParts ==
  ASSUME IsRegistry(registry), NEW n \in DOMAIN registry
  PROVE  registry[n].urls \in Nat /\ registry[n].refresh \in Nat /\ registry[n].max_stale \in Nat \ {0}
<1>1. registry[n] \in Builders
  BY DEF IsRegistry
<1>2. QED
  BY <1>1 DEF Builders

\* A snapshot confirms exactly the addresses its document names.
LEMMA SnapshotOfDocument ==
  ASSUME NEW doc \in Seq(FeedEntries), Parses(doc)
  PROVE  /\ Extended(Empty, doc) \in [Families -> Seq(Int \X Int)]
         /\ \A f \in Families : \A x \in Addresses(f) :
              ContainsInterval(Extended(Empty, doc)[f], x) <=> x \in NamedBy(f, doc)
<1>1. WellFormed(doc)
  BY DEF Parses
<1>2. ASSUME NEW f \in Families
      PROVE  /\ Extended(Empty, doc)[f] \in Seq(Pairs)
             /\ \A x \in Addresses(f) :
                  ContainsInterval(Extended(Empty, doc)[f], x) <=> x \in NamedBy(f, doc)
  BY <1>1, ExtendedProperties, EmptyProperties
<1>3. Extended(Empty, doc) = [f \in Families |-> Extended(Empty, doc)[f]]
  BY DEF Extended
<1>4. Extended(Empty, doc) \in [Families -> Seq(Pairs)]
  BY <1>2, <1>3
<1>5. QED
  BY <1>2, <1>4 DEF Pairs

\* A worker starts with empty places, each without a document.
LEMMA StartedWorker ==
  ASSUME FeedsInv, NEW map, IsRegistry(map), StartRefreshers(map),
         map = Parsed(accepted)', configured' = map, instant' = instant
  PROVE  FeedsInv'
<1>1. NoSnapshot \in Snapshots /\ NoDocument \in Fetched
  <2>1. Empty \in [Families -> Seq(Int \X Int)]
    BY EmptyProperties DEF Pairs
  <2>2. QED
    BY <2>1 DEF NoSnapshot, NoDocument, Snapshots, Fetched
<1>2. /\ registry' = map
      /\ published' = [n \in DOMAIN map |-> [i \in 1 .. map[n].urls |-> NoSnapshot]]
      /\ position' = [n \in DOMAIN map |-> 1]
      /\ reader' = Idle
      /\ served' = [n \in DOMAIN map |-> [i \in 1 .. map[n].urls |-> NoDocument]]
  BY DEF StartRefreshers
<1>3. \A n \in DOMAIN map : map[n].urls \in Nat
  BY DEF IsRegistry, Builders
<1> HIDE DEF NoSnapshot, NoDocument, Snapshots, Fetched
<1>4. ASSUME NEW n \in DOMAIN map PROVE Sources(n)'
  <2>1. published'[n] = [i \in 1 .. map[n].urls |-> NoSnapshot] /\ served'[n] = [i \in 1 .. map[n].urls |-> NoDocument]
    BY <1>2
  <2>2. position'[n] = 1
    BY <1>2
  <2>3. \A i \in 1 .. map[n].urls : Backed(published'[n][i], served'[n][i])
    BY <2>1 DEF Backed
  <2>4. map[n].urls \in Nat /\ (map[n].urls > 0 => position'[n] \in 1 .. map[n].urls)
    BY <1>3, <2>2
  <2>5. published'[n] \in [1 .. map[n].urls -> Snapshots] /\ served'[n] \in [1 .. map[n].urls -> Fetched]
    BY <1>1, <2>1
  <2>6. registry'[n].urls = map[n].urls
    BY <1>2
  <2>7. QED
    BY <2>3, <2>4, <2>5, <2>6, Zenon DEF Sources
<1>5. published' \in [DOMAIN map -> Seq(Snapshots)] /\ served' \in [DOMAIN map -> Seq(Fetched)]
  <2>1. \A n \in DOMAIN map : [i \in 1 .. map[n].urls |-> NoSnapshot] \in Seq(Snapshots)
    BY <1>1, <1>3
  <2>2. \A n \in DOMAIN map : [i \in 1 .. map[n].urls |-> NoDocument] \in Seq(Fetched)
    BY <1>1, <1>3
  <2>3. QED
    BY <1>2, <2>1, <2>2
<1>6. position' \in [DOMAIN map -> Nat]
  BY <1>2
<1>7. reader' \in Readers'
  BY <1>2 DEF Readers
<1>8. instant' \in Nat
  BY DEF FeedsInv
<1>9. QED
  BY <1>2, <1>4, <1>5, <1>6, <1>7, <1>8 DEF FeedsInv

\* A worker without a verifier.
LEMMA FeedsInitInv == FeedsInit => FeedsInv
<1> SUFFICES ASSUME FeedsInit PROVE FeedsInv
  OBVIOUS
<1>1. <<>> \in Seq(Blocks) /\ DOMAIN <<>> = {}
  OBVIOUS
<1>2. Parsed(<<>>) = [n \in {} |-> 0]
  BY <1>1, ParsedProperties, Zenon
<1>3. registry = [n \in {} |-> 0] /\ DOMAIN registry = {}
  BY DEF FeedsInit
<1>4. IsRegistry(registry)
  BY <1>3 DEF IsRegistry
<1>5. reader \in Readers
  BY DEF FeedsInit, Readers
<1>6. QED
  BY <1>2, <1>3, <1>4, <1>5 DEF FeedsInit, FeedsInv

\* A reload, refused, failed or accepted.
LEMMA ReloadStep ==
  ASSUME FeedsInv, NEW blocks \in Configs, NEW fails, Reload(blocks, fails)
  PROVE  FeedsInv'
<1>1. CASE fails \/ \E i \in DOMAIN blocks : Refused(blocks[i])
  <2>1. UNCHANGED feedsVars
    BY <1>1 DEF Reload, feedsVars
  <2>2. QED
    BY <2>1, Zenon DEF feedsVars, worker, FeedsInv, Sources, Readers
<1>2. CASE ~(fails \/ \E i \in DOMAIN blocks : Refused(blocks[i]))
  <2>1. /\ configured' = Parsed(blocks) /\ accepted' = blocks
        /\ StartRefreshers(Parsed(blocks)) /\ instant' = instant
    BY <1>2 DEF Reload
  <2>2. IsRegistry(Parsed(blocks))
    BY <1>2, ParsedProperties, FeedsAssumption
  <2>3. QED
    BY <2>1, <2>2, StartedWorker
<1>3. QED
  BY <1>1, <1>2

\* A worker forked after a crash starts from the configuration of the cycle.
LEMMA RespawnStep ==
  ASSUME FeedsInv, Respawn
  PROVE  FeedsInv'
<1>1. /\ StartRefreshers(configured) /\ IsRegistry(configured)
      /\ configured = Parsed(accepted) /\ accepted' = accepted
      /\ configured' = configured /\ instant' = instant
  BY DEF Respawn, FeedsInv
<1>2. QED
  BY <1>1, StartedWorker

\* A function on 1 .. m is a sequence.
LEMMA FunctionsAreSequences ==
  ASSUME NEW m \in Nat, NEW S, NEW s \in [1 .. m -> S]
  PROVE  s \in Seq(S) /\ Len(s) = m
OBVIOUS

\* What a refresher stores in a place of its vectors, from its parts.
LEMMA PlacesAreTyped ==
  ASSUME NEW at \in Int
  PROVE  /\ \A r \in [Families -> Seq(Int \X Int)] : [ranges |-> r, updated |-> at] \in Snapshots
         /\ \A d \in Seq(FeedEntries) : [doc |-> d, at |-> at] \in Fetched
BY DEF Snapshots, Fetched

\* A refresher publishes, keeps or drops the snapshot of one source.
LEMMA RefreshStep ==
  ASSUME FeedsInv, NEW n \in DOMAIN registry, NEW doc \in Documents, Refresh(n, doc)
  PROVE  FeedsInv'
<1> DEFINE i == position[n]
           k == registry[n].urls
<1>1. /\ k \in Nat /\ i \in 1 .. k /\ Sources(n) /\ instant \in Nat
      /\ published \in [DOMAIN registry -> Seq(Snapshots)] /\ served \in [DOMAIN registry -> Seq(Fetched)]
      /\ position \in [DOMAIN registry -> Nat]
  BY RegistryParts, Zenon DEF FeedsInv, Sources, Refresh
<1>2. /\ published' = [published EXCEPT ![n] = Replaced(published[n], i, doc)]
      /\ served' = IF Parses(doc) THEN [served EXCEPT ![n][i] = [doc |-> doc, at |-> instant]]
                   ELSE served
      /\ position' = [position EXCEPT ![n] = IF i = k THEN 1 ELSE position[n] + 1]
      /\ UNCHANGED <<instant, configured, registry, reader, accepted>>
  BY DEF Refresh
<1>3. position'[n] \in 1 .. k /\ position' \in [DOMAIN registry -> Nat]
  <2> DEFINE next == IF i = k THEN 1 ELSE i + 1
  <2>1. position' = [position EXCEPT ![n] = next]
    BY <1>2
  <2> HIDE DEF i, k
  <2>2. next \in 1 .. k
    BY <1>1
  <2> HIDE DEF next
  <2>3. QED
    BY <1>1, <2>1, <2>2
<1>4. \A m \in DOMAIN registry : m # n =>
        published'[m] = published[m] /\ served'[m] = served[m] /\ position'[m] = position[m]
  BY <1>1, <1>2, Zenon
<1>5. /\ published'[n] \in [1 .. k -> Snapshots] /\ served'[n] \in [1 .. k -> Fetched]
      /\ \A j \in 1 .. k : Backed(published'[n][j], served'[n][j])
      /\ published' \in [DOMAIN registry -> Seq(Snapshots)] /\ served' \in [DOMAIN registry -> Seq(Fetched)]
  <2>1. CASE ~Parses(doc)
    <3>1. published' = published /\ served' = served
      BY <1>1, <1>2, <2>1, Zenon DEF Replaced
    <3>2. QED
      BY <1>1, <3>1, Zenon DEF Sources
  <2>2. CASE Parses(doc)
    <3> DEFINE new == Snapshot(doc)
               last == [doc |-> doc, at |-> instant]
    <3>1. doc \in Seq(FeedEntries)
      BY FeedsAssumption
    <3>2. new \in Snapshots /\ last \in Fetched /\ Backed(new, last)
      <4>1. Extended(Empty, doc) \in [Families -> Seq(Int \X Int)]
        BY <2>2, <3>1, SnapshotOfDocument
      <4>2. new = [ranges |-> Extended(Empty, doc), updated |-> instant]
        BY DEF Snapshot
      <4>3. last.doc = doc /\ last.at = instant
        OBVIOUS
      <4>4. instant \in Nat /\ instant \in Int
        BY <1>1
      <4>5. last \in Fetched
        BY <3>1, <4>4, PlacesAreTyped
      <4> HIDE DEF new, last
      <4>6. new \in Snapshots
        BY <4>1, <4>2, <4>4, PlacesAreTyped, Zenon
      <4>7. Backed(new, last)
        BY <2>2, <4>2, <4>3, <4>4 DEF Backed
      <4>8. QED
        BY <4>5, <4>6, <4>7
    <3>3. published'[n] = [published[n] EXCEPT ![i] = new]
      BY <1>1, <1>2, <2>2 DEF Replaced
    <3>4. served'[n] = [served[n] EXCEPT ![i] = last]
      BY <1>1, <1>2, <2>2
    <3>5. published[n] \in [1 .. k -> Snapshots] /\ served[n] \in [1 .. k -> Fetched]
          /\ \A j \in 1 .. k : Backed(published[n][j], served[n][j])
      BY <1>1, Zenon DEF Sources
    <3> HIDE DEF new, last
    <3>6. published'[n] \in [1 .. k -> Snapshots] /\ served'[n] \in [1 .. k -> Fetched]
      BY <3>2, <3>3, <3>4, <3>5, ZenonT(40)
    <3>7. \A j \in 1 .. k : Backed(published'[n][j], served'[n][j])
      <4> TAKE j \in 1 .. k
      <4>1. CASE j = i
        <5>1. published'[n][j] = new /\ served'[n][j] = last
          BY <3>3, <3>4, <3>5, <4>1, Zenon
        <5>2. QED
          BY <3>2, <5>1
      <4>2. CASE j # i
        <5>1. published'[n][j] = published[n][j] /\ served'[n][j] = served[n][j]
          BY <3>3, <3>4, <3>5, <4>2
        <5>2. QED
          BY <3>5, <5>1
      <4>3. QED
        BY <4>1, <4>2
    <3>8. published'[n] \in Seq(Snapshots) /\ served'[n] \in Seq(Fetched)
      <4> HIDE DEF k
      <4>1. QED
        BY <1>1, <3>6, FunctionsAreSequences
    <3>9. published' = [published EXCEPT ![n] = published'[n]] /\ served' = [served EXCEPT ![n] = served'[n]]
      BY <1>1, <1>2, <2>2, Zenon
    <3>10. published' \in [DOMAIN registry -> Seq(Snapshots)] /\ served' \in [DOMAIN registry -> Seq(Fetched)]
      BY <1>1, <3>8, <3>9, Zenon
    <3>11. QED
      BY <3>6, <3>7, <3>10
  <2>3. QED
    BY <2>1, <2>2
<1>6. ASSUME NEW m \in DOMAIN registry PROVE Sources(m)'
  <2>1. CASE m = n
    BY <1>2, <1>3, <1>5, <2>1, Zenon DEF Sources
  <2>2. CASE m # n
    <3>1. Sources(m)
      BY DEF FeedsInv
    <3>2. QED
      BY <1>2, <1>4, <2>2, <3>1 DEF Sources
  <2>3. QED
    BY <2>1, <2>2
<1>7. reader' \in Readers'
  BY <1>2, Zenon DEF FeedsInv, Readers
<1>8. QED
  BY <1>2, <1>3, <1>5, <1>6, <1>7, Zenon DEF FeedsInv

\* What a load of the vector shows agrees with what the sources served.
LEMMA LoadAgrees ==
  ASSUME FeedsInv, NEW n \in DOMAIN registry, NEW time \in Nat
  PROVE  /\ \A client \in Clients :
              (\E s \in Loaded(n) : SnapshotContains(s, client, time, registry[n].max_stale))
                <=> Listed(n, client, time)
         /\ (\E s \in Loaded(n) : ~FreshSnapshot(s, time, registry[n].max_stale)) <=> Stale(n, time)
<1> DEFINE k == registry[n].urls
           stale == registry[n].max_stale
<1>1. k \in Nat /\ stale \in Nat \ {0} /\ Sources(n) /\ Parsed(accepted)[n].max_stale = stale
  BY RegistryParts DEF FeedsInv
<1>2. /\ DOMAIN published[n] = 1 .. k /\ DOMAIN served[n] = 1 .. k
      /\ \A i \in 1 .. k : Backed(published[n][i], served[n][i]) /\ served[n][i] \in Fetched
  BY <1>1 DEF Sources
<1> HIDE DEF k, stale
<1>3. ASSUME NEW i \in 1 .. k
      PROVE  /\ published[n][i] # NoSnapshot <=> served[n][i] # NoDocument
             /\ published[n][i] # NoSnapshot =>
                  /\ FreshSnapshot(published[n][i], time, stale) <=> time < served[n][i].at + stale
                  /\ ~FreshSnapshot(published[n][i], time, stale) <=> time >= served[n][i].at + stale
                  /\ \A client \in Clients :
                       ContainsInterval(published[n][i].ranges[client.family], client.address)
                         <=> client.address \in NamedBy(client.family, served[n][i].doc)
  <2> DEFINE s == published[n][i]
             d == served[n][i]
  <2>1. Backed(s, d) /\ d.doc \in Seq(FeedEntries)
    BY <1>2 DEF Fetched
  <2>2. CASE s = NoSnapshot /\ d = NoDocument
    BY <2>2, Zenon
  <2> HIDE DEF s, d
  <2>3. CASE /\ Parses(d.doc) /\ d.at \in Nat
             /\ s = [ranges |-> Extended(Empty, d.doc), updated |-> d.at]
    <3>1. s.updated = d.at /\ s.ranges = Extended(Empty, d.doc)
      BY <2>3
    <3>2. NoSnapshot.updated = -1 /\ NoDocument.at = -1
      BY DEF NoSnapshot, NoDocument
    <3>3. s # NoSnapshot /\ d # NoDocument
      BY <2>3, <3>1, <3>2
    <3>4. FreshSnapshot(s, time, stale) <=> time < d.at + stale
      BY <1>1, <2>3, <3>1 DEF FreshSnapshot, Age
    <3>5. ~FreshSnapshot(s, time, stale) <=> time >= d.at + stale
      BY <1>1, <2>3, <3>1 DEF FreshSnapshot, Age
    <3>6. ASSUME NEW client \in Clients
          PROVE  ContainsInterval(s.ranges[client.family], client.address)
                   <=> client.address \in NamedBy(client.family, d.doc)
      <4>1. client.family \in Families /\ client.address \in Addresses(client.family)
        BY FeedsAssumption
      <4>2. QED
        BY <2>1, <2>3, <3>1, <4>1, SnapshotOfDocument
    <3>7. QED
      BY <3>3, <3>4, <3>5, <3>6, Zenon DEF s, d
  <2>4. QED
    BY <2>1, <2>2, <2>3, Zenon DEF Backed
<1>4. \A s : s \in Loaded(n) <=> \E i \in 1 .. k : s = published[n][i] /\ published[n][i] # NoSnapshot
  BY <1>2 DEF Loaded
<1>5. ASSUME NEW client \in Clients
      PROVE  (\E s \in Loaded(n) : SnapshotContains(s, client, time, stale)) <=> Listed(n, client, time)
  <2>1. \A i \in 1 .. k : published[n][i] # NoSnapshot =>
          (SnapshotContains(published[n][i], client, time, stale)
             <=> /\ time < served[n][i].at + stale
                 /\ client.address \in NamedBy(client.family, served[n][i].doc))
    BY <1>3, Zenon DEF SnapshotContains
  <2>2. Listed(n, client, time) <=>
          \E i \in 1 .. k : /\ served[n][i] # NoDocument
                            /\ time < served[n][i].at + stale
                            /\ client.address \in NamedBy(client.family, served[n][i].doc)
    BY <1>1, <1>2 DEF Listed
  <2>3. (\E s \in Loaded(n) : SnapshotContains(s, client, time, stale)) <=>
          \E i \in 1 .. k : published[n][i] # NoSnapshot /\ SnapshotContains(published[n][i], client, time, stale)
    BY <1>4, ZenonT(40)
  <2>4. QED
    BY <1>3, <2>1, <2>2, <2>3, Zenon
<1>6. (\E s \in Loaded(n) : ~FreshSnapshot(s, time, stale)) <=> Stale(n, time)
  <2>1. Stale(n, time) <=> \E i \in 1 .. k : served[n][i] # NoDocument /\ time >= served[n][i].at + stale
    BY <1>1, <1>2, Zenon DEF Stale
  <2>2. (\E s \in Loaded(n) : ~FreshSnapshot(s, time, stale)) <=>
          \E i \in 1 .. k : published[n][i] # NoSnapshot /\ ~FreshSnapshot(published[n][i], time, stale)
    BY <1>4, ZenonT(40)
  <2>3. QED
    BY <1>3, <2>1, <2>2, Zenon
<1>7. QED
  BY <1>5, <1>6 DEF stale

\* What verifier_result holds at each step.
LEMMA ReaderParts ==
  ASSUME FeedsInv
  PROVE  /\ reader.step = "asked" =>
              reader.name \in DOMAIN registry /\ reader.client \in Clients /\ reader.now \in Nat
         /\ reader.step = "reload" =>
              reader.name \in DOMAIN registry /\ reader.now \in Nat /\ reader.truth = TRUE
         /\ reader.step = "done" => reader.truth = TRUE
<1> DEFINE asked == [step : {"asked"}, name : DOMAIN registry, client : Clients, now : Nat]
           reload == [step : {"reload"}, name : DOMAIN registry, now : Nat, truth : {TRUE}]
           reasons == {"unknown_verifier", "verified_range", "verified_dns", "feed_stale", "verifier_unconfirmed"}
           done == [step : {"done"}, truth : {TRUE}, reason : reasons]
<1>1. reader = Idle \/ reader \in asked \/ reader \in reload \/ reader \in done
  BY Zenon DEF FeedsInv, Readers
<1>2. CASE reader = Idle
  BY <1>2, Zenon DEF Idle
<1>3. CASE reader \in asked
  BY <1>3
<1>4. CASE reader \in reload
  BY <1>4, Zenon
<1>5. CASE reader \in done
  BY <1>5, Zenon
<1>6. QED
  BY <1>1, <1>2, <1>3, <1>4, <1>5, Zenon

\* A step of verifier_result changes the reader only.
LEMMA ReaderStep ==
  ASSUME FeedsInv, reader' \in Readers,
         UNCHANGED <<instant, configured, registry, published, position, accepted, served>>
  PROVE  FeedsInv'
<1>1. Readers' = Readers
  BY DEF Readers
<1>2. \A n \in DOMAIN registry : Sources(n)'
  BY DEF FeedsInv, Sources
<1>3. QED
  BY <1>1, <1>2 DEF FeedsInv

\* A request reads the clock and names a verifier.
LEMMA AskStep ==
  ASSUME FeedsInv, NEW n \in Names, NEW client \in Clients, Ask(n, client)
  PROVE  FeedsInv'
<1>1. instant \in Nat /\ registry = Parsed(accepted)
  BY DEF FeedsInv
<1>2. reader' \in Readers
  <2>1. CASE n \in DOMAIN registry
    BY <1>1, <2>1, Zenon DEF Ask, Readers
  <2>2. CASE n \notin DOMAIN registry
    BY <1>1, <2>2, Zenon DEF Ask, Readers
  <2>3. QED
    BY <2>1, <2>2
<1>3. QED
  BY <1>2, ReaderStep DEF Ask

\* The first load of the vector: is the client listed?
LEMMA FirstLoadStep ==
  ASSUME FeedsInv, NEW dns \in BOOLEAN, FirstLoad(dns)
  PROVE  FeedsInv'
<1> DEFINE listed == \E s \in Loaded(reader.name) :
                       SnapshotContains(s, reader.client, reader.now, registry[reader.name].max_stale)
           truth == Listed(reader.name, reader.client, reader.now)
<1>1. reader.name \in DOMAIN registry /\ reader.client \in Clients /\ reader.now \in Nat
  BY ReaderParts DEF FirstLoad
<1>2. listed = truth /\ listed \in BOOLEAN /\ truth \in BOOLEAN
  BY <1>1, LoadAgrees, Zenon DEF Listed
<1>3. reader' = CASE listed -> [step |-> "done", reason |-> "verified_range", truth |-> truth]
                  [] ~listed /\ dns -> [step |-> "done", reason |-> "verified_dns", truth |-> ~truth]
                  [] OTHER -> [step |-> "reload", name |-> reader.name, now |-> reader.now, truth |-> ~truth]
  BY DEF FirstLoad
<1> HIDE DEF listed, truth
<1>4. CASE listed
  <2>1. reader' = [step |-> "done", reason |-> "verified_range", truth |-> TRUE]
    BY <1>2, <1>3, <1>4
  <2>2. reader' \in Readers
    BY <2>1 DEF Readers
  <2>3. QED
    BY <2>2, ReaderStep DEF FirstLoad
<1>5. CASE ~listed /\ dns
  <2>1. reader' = [step |-> "done", reason |-> "verified_dns", truth |-> TRUE]
    BY <1>2, <1>3, <1>5, Zenon
  <2>2. reader' \in Readers
    BY <2>1 DEF Readers
  <2>3. QED
    BY <2>2, ReaderStep DEF FirstLoad
<1>6. CASE ~listed /\ ~dns
  <2>1. reader' = [step |-> "reload", name |-> reader.name, now |-> reader.now, truth |-> TRUE]
    BY <1>2, <1>3, <1>6, Zenon
  <2>2. reader' \in Readers
    BY <1>1, <2>1, Zenon DEF Readers
  <2>3. QED
    BY <2>2, ReaderStep DEF FirstLoad
<1>7. QED
  BY <1>4, <1>5, <1>6

\* The second load: is a source stale?
LEMMA SecondLoadStep ==
  ASSUME FeedsInv, SecondLoad
  PROVE  FeedsInv'
<1> DEFINE stale == \E s \in Loaded(reader.name) :
                      ~FreshSnapshot(s, reader.now, registry[reader.name].max_stale)
<1>1. reader.name \in DOMAIN registry /\ reader.now \in Nat /\ reader.truth = TRUE
  BY ReaderParts, Zenon DEF SecondLoad
<1>2. stale = Stale(reader.name, reader.now)
  BY <1>1, LoadAgrees, Zenon DEF Stale
<1>3. reader' = [step |-> "done", reason |-> IF stale THEN "feed_stale" ELSE "verifier_unconfirmed",
                 truth |-> reader.truth /\ stale = Stale(reader.name, reader.now)]
  BY Zenon DEF SecondLoad
<1> HIDE DEF stale
<1>4. reader' = [step |-> "done", reason |-> IF stale THEN "feed_stale" ELSE "verifier_unconfirmed", truth |-> TRUE]
  BY <1>1, <1>2, <1>3, Zenon
<1>5. reader' \in Readers
  BY <1>4 DEF Readers
<1>6. QED
  BY <1>5, ReaderStep DEF SecondLoad

\* Time passes.
LEMMA InstantStep ==
  ASSUME FeedsInv, TickInstant
  PROVE  FeedsInv'
<1>1. instant' \in Nat /\ UNCHANGED <<configured, worker, accepted, served>>
  BY DEF FeedsInv, TickInstant
<1>2. \A n \in DOMAIN registry : Sources(n)'
  BY <1>1, Zenon DEF worker, FeedsInv, Sources
<1>3. QED
  BY <1>1, <1>2, Zenon DEF worker, FeedsInv, Readers

\* Every step of the refreshers and of a reader keeps FeedsInv.
LEMMA FeedsNextInv == FeedsInv /\ [FeedsNext]_feedsVars => FeedsInv'
<1> SUFFICES ASSUME FeedsInv, [FeedsNext]_feedsVars PROVE FeedsInv'
  OBVIOUS
<1>1. CASE \E blocks \in Configs, fails \in BOOLEAN : Reload(blocks, fails)
  BY <1>1, ReloadStep
<1>2. CASE Respawn
  BY <1>2, RespawnStep
<1>3. CASE \E n \in DOMAIN registry, doc \in Documents : Refresh(n, doc)
  BY <1>3, RefreshStep
<1>4. CASE \E n \in Names, client \in Clients : Ask(n, client)
  BY <1>4, AskStep
<1>5. CASE \E dns \in BOOLEAN : FirstLoad(dns)
  BY <1>5, FirstLoadStep
<1>6. CASE SecondLoad
  BY <1>6, SecondLoadStep
<1>7. CASE TickInstant
  BY <1>7, InstantStep
<1>8. CASE UNCHANGED feedsVars
  BY <1>8, Zenon DEF feedsVars, worker, FeedsInv, Sources, Readers
<1>9. QED
  BY <1>1, <1>2, <1>3, <1>4, <1>5, <1>6, <1>7, <1>8 DEF FeedsNext

(***************************************************************************)
(* Every worker, forked after a reload or after a crash, however many      *)
(* reloads failed before, has the registry of the last accepted            *)
(* configuration, with one place for each source.                          *)
(***************************************************************************)
THEOREM RegistryFollowsCycle == FeedsSpec => []RegistryOfCycle
<1>1. FeedsInv => RegistryOfCycle
  <2> SUFFICES ASSUME FeedsInv PROVE RegistryOfCycle
    OBVIOUS
  <2>1. ASSUME NEW n \in DOMAIN registry PROVE Len(published[n]) = registry[n].urls
    <3>1. registry[n].urls \in Nat /\ published[n] \in [1 .. registry[n].urls -> Snapshots]
      BY RegistryParts DEF FeedsInv, Sources
    <3>2. QED
      BY <3>1, FunctionsAreSequences, Zenon
  <2>2. QED
    BY <2>1 DEF FeedsInv, RegistryOfCycle
<1>2. QED
  BY <1>1, FeedsInitInv, FeedsNextInv, PTL DEF FeedsSpec

(***************************************************************************)
(* verifier_result reports what is true of the documents its sources       *)
(* served, whatever the refreshers publish and however the clock moves     *)
(* between its two loads of the vector.                                    *)
(***************************************************************************)
THEOREM ReportsAreTrue == FeedsSpec => []ReportIsTrue
<1>1. FeedsInv => ReportIsTrue
  BY ReaderParts, Zenon DEF ReportIsTrue
<1>2. QED
  BY <1>1, FeedsInitInv, FeedsNextInv, PTL DEF FeedsSpec
==============================================================================
