---------------------------- MODULE ServedProofs ----------------------------
(***************************************************************************)
(* A request is released exactly once and its body is collected byte for   *)
(* byte, for every configuration, body length and limit; a configuration   *)
(* that starts means what it says, for any locations, directives, values   *)
(* and contents of the key files; and a solution is accepted for the work  *)
(* that the configuration demands, for any width and base of the hash.     *)
(*                                                                         *)
(* The argument: where a request stands tells whether the handler is on    *)
(* the stack and whether an answer is owed (Control), which gives the      *)
(* reference count; the bytes nginx holds are the first of the body in     *)
(* order (Numbered), which every arrival, spill and pread keeps.           *)
(* What runs is the merge of what was written, which says for each setting *)
(* what the nearest block says (MergedIsNearest); what a worker resolves   *)
(* is built from that with the key it keeps for the file (ConfigInv).      *)
(* The target of a difficulty is the quotient of a long division, digit by *)
(* digit, and comparing digits from the left compares numbers              *)
(* (TargetAdmits); the request in hand has the difficulty of its location  *)
(* (DemandInv).                                                            *)
(***************************************************************************)
EXTENDS Served, WellFoundedInduction, TLAPS

\* The empty vector is a sequence over any set, and the only one of length 0.
LEMMA EmptyVec ==
  ASSUME NEW S
  PROVE  /\ << >> \in Seq(S)
         /\ Len(<< >>) = 0
         /\ \A v \in Seq(S) : v # << >> => Len(v) \in Nat \ {0}
OBVIOUS

\* Two vectors joined: the elements of the first, then those of the second.
LEMMA JoinVec ==
  ASSUME NEW S, NEW v \in Seq(S), NEW w \in Seq(S)
  PROVE  /\ v \o w \in Seq(S)
         /\ Len(v \o w) = Len(v) + Len(w)
         /\ \A j \in 1 .. Len(v) + Len(w) :
              (v \o w)[j] = IF j <= Len(v) THEN v[j] ELSE w[j - Len(v)]
OBVIOUS

\* A slice of a vector: its length and its elements.
LEMMA SliceVec ==
  ASSUME NEW S, NEW v, NEW a \in Int, NEW b \in Int,
         \A k \in a .. b : v[k] \in S
  PROVE  /\ SubSeq(v, a, b) \in Seq(S)
         /\ Len(SubSeq(v, a, b)) = IF a <= b THEN b - a + 1 ELSE 0
         /\ \A k \in 1 .. b - a + 1 : SubSeq(v, a, b)[k] = v[a + k - 1]
OBVIOUS

-----------------------------------------------------------------------------
(* Induction.  The lemmas take sets and functions where a text book has     *)
(* predicates and operations, of which the provers find no instances.      *)

\* A non-empty set of natural numbers has a least element.
LEMMA LeastNatural ==
  ASSUME NEW S \in SUBSET Nat, S # {}
  PROVE  \E p \in S : \A q \in S : p <= q
<1> DEFINE R == {pair \in Nat \X Nat : pair[1] < pair[2]}
<1>1. IsWellFoundedOn(R, Nat)
  BY NatLessThanWellFounded DEF OpToRel
<1> HIDE DEF R
<1>2. PICK p \in S : \A q \in S : <<q, p>> \notin R
  BY <1>1, WFMin, Zenon
<1>3. ASSUME NEW q \in S
      PROVE  p <= q
  <2>1. <<q, p>> \notin R
    BY <1>2
  <2>2. q \in Nat /\ p \in Nat
    OBVIOUS
  <2>3. ~(q < p)
    <3>1. <<q, p>> \in Nat \X Nat /\ <<q, p>>[1] = q /\ <<q, p>>[2] = p
      BY <2>2
    <3>2. QED
      BY <2>1, <3>1 DEF R
  <2>4. QED
    BY <2>2, <2>3
<1>4. QED
  BY <1>3

\* What holds for 0 and for the successor of each number for which it holds,
\* up to n, holds up to n.
LEMMA UpTo ==
  ASSUME NEW n \in Nat, NEW S, 0 \in S, \A i \in 0 .. n - 1 : i \in S => i + 1 \in S
  PROVE  0 .. n \subseteq S
<1> DEFINE B == {k \in 0 .. n : k \notin S}
<1> SUFFICES ASSUME B # {} PROVE FALSE
  OBVIOUS
<1>1. PICK p \in B : \A q \in B : p <= q
  <2>1. B \in SUBSET Nat
    OBVIOUS
  <2> HIDE DEF B
  <2>2. QED
    BY <2>1, LeastNatural
<1>2. p \in Nat /\ p <= n /\ p # 0 /\ p \notin S
  BY <1>1
<1>3. p - 1 \in 0 .. n - 1 /\ (p - 1) + 1 = p
  BY <1>2
<1>4. p - 1 \in S
  BY <1>1, <1>3
<1>5. QED
  BY <1>2, <1>3, <1>4

\* g starts with c and goes on with D up to n.
Follows(g, n, c, D) == g[0] = c /\ \A i \in 1 .. n : g[i] = D[<<g[i - 1], i>>]

\* A function may be defined by recursion on 0 .. n.
LEMMA Recursion ==
  ASSUME NEW n \in Nat, NEW V, NEW c \in V, NEW D \in [V \X (1 .. n) -> V]
  PROVE  \E g \in [0 .. n -> V] : Follows(g, n, c, D)
<1> DEFINE Good(g, m) == Follows(g, m, c, D)
           S == {m \in 0 .. n : \E g \in [0 .. m -> V] : Good(g, m)}
<1>1. 0 \in S
  <2> DEFINE g == [i \in 0 .. 0 |-> c]
  <2>1. g \in [0 .. 0 -> V] /\ Good(g, 0)
    BY DEF Follows
  <2>2. 0 \in 0 .. n
    OBVIOUS
  <2> HIDE DEF g, Good
  <2>3. QED
    BY <2>1, <2>2
<1>2. ASSUME NEW m \in 0 .. n - 1, m \in S
      PROVE  m + 1 \in S
  <2>1. PICK g \in [0 .. m -> V] : Good(g, m)
    BY <1>2
  <2> DEFINE h == [i \in 0 .. m + 1 |-> IF i = m + 1 THEN D[<<g[m], i>>] ELSE g[i]]
  <2>2. m \in Nat /\ m + 1 \in 1 .. n
    OBVIOUS
  <2>3. D[<<g[m], m + 1>>] \in V
    BY <2>2
  <2>4. h \in [0 .. m + 1 -> V]
    BY <2>2, <2>3
  <2>5. h[0] = c
    BY <2>1, <2>2 DEF Follows
  <2>6. ASSUME NEW i \in 1 .. m + 1
        PROVE  h[i] = D[<<h[i - 1], i>>]
    <3>1. i - 1 \in 0 .. m /\ h[i - 1] = g[i - 1]
      BY <2>2
    <3>2. CASE i = m + 1
      BY <2>2, <3>1, <3>2
    <3>3. CASE i # m + 1
      BY <2>1, <2>2, <3>1, <3>3 DEF Follows
    <3>4. QED
      BY <3>2, <3>3
  <2>7. Good(h, m + 1)
    BY <2>5, <2>6, Zenon DEF Follows
  <2> HIDE DEF Good, h
  <2>8. QED
    BY <2>2, <2>4, <2>7
<1> HIDE DEF S
<1>3. n \in S
  <2>1. 0 .. n \subseteq S
    BY <1>1, <1>2, UpTo
  <2>2. QED
    BY <2>1
<1>4. QED
  BY <1>3 DEF S

-----------------------------------------------------------------------------
(* The target of a difficulty.                                             *)

\* The numbers that the leading digits of a hash stand for.
LEMMA ValueOfPrefixes ==
  ASSUME NEW hash \in Hashes
  PROVE  \E v \in [0 .. Digits -> Nat] :
           /\ v[0] = 0 /\ Value(hash) = v[Digits]
           /\ \A i \in 1 .. Digits : v[i] = v[i - 1] * Base + hash[i]
<1> DEFINE D == [p \in Nat \X (1 .. Digits) |-> p[1] * Base + hash[p[2]]]
           Step(g) == [i \in 0 .. Digits |-> IF i = 0 THEN 0 ELSE g[i - 1] * Base + hash[i]]
           value == CHOOSE value : value = Step(value)
<1>1. Digits \in Nat /\ Base \in Nat /\ \A i \in 1 .. Digits : hash[i] \in Nat
  BY DemandAssumption DEF Hashes
<1>2. D \in [Nat \X (1 .. Digits) -> Nat]
  <2>1. \A p \in Nat \X (1 .. Digits) : p[1] * Base + hash[p[2]] \in Nat
    BY <1>1
  <2>2. QED
    BY <2>1
<1>3. PICK g \in [0 .. Digits -> Nat] : Follows(g, Digits, 0, D)
  <2> HIDE DEF D
  <2>1. QED
    BY <1>1, <1>2, Recursion, Zenon
<1>4. g[0] = 0 /\ \A i \in 1 .. Digits : g[i] = g[i - 1] * Base + hash[i]
  <2>1. g[0] = 0
    BY <1>3 DEF Follows
  <2>2. ASSUME NEW i \in 1 .. Digits PROVE g[i] = g[i - 1] * Base + hash[i]
    <3>1. <<g[i - 1], i>> \in Nat \X (1 .. Digits)
      BY <1>1
    <3>2. D[<<g[i - 1], i>>] = g[i - 1] * Base + hash[i]
      BY <3>1
    <3>3. QED
      BY <1>3, <3>2, Zenon DEF Follows
  <2>3. QED
    BY <2>1, <2>2
<1>5. g = Step(g)
  BY <1>4
<1>6. value = Step(value)
  <2> HIDE DEF Step
  <2>1. QED
    BY <1>5
<1>7. Value(hash) = value[Digits]
  BY DEF Value
<1> HIDE DEF value, D
<1>8. value \in [0 .. Digits -> Nat] /\ value[0] = 0
      /\ \A i \in 1 .. Digits : value[i] = value[i - 1] * Base + hash[i]
  <2>1. value = [i \in 0 .. Digits |-> value[i]]
    BY <1>6
  <2>2. value[0] = 0 /\ \A i \in 1 .. Digits : value[i] = value[i - 1] * Base + hash[i]
    <3>1. \A i \in 0 .. Digits : value[i] = IF i = 0 THEN 0 ELSE value[i - 1] * Base + hash[i]
      BY <1>6, Zenon
    <3>2. 0 \in 0 .. Digits /\ \A i \in 1 .. Digits : i \in 0 .. Digits /\ i # 0
      BY <1>1
    <3>3. QED
      BY <3>1, <3>2, Zenon
  <2> DEFINE S == {i \in 0 .. Digits : value[i] \in Nat}
  <2> HIDE DEF Step
  <2>3. 0 \in S
    BY <1>1, <2>2
  <2>4. ASSUME NEW i \in 0 .. Digits - 1, i \in S PROVE i + 1 \in S
    <3>1. i + 1 \in 1 .. Digits /\ (i + 1) - 1 = i
      BY <1>1
    <3>2. value[i + 1] = value[i] * Base + hash[i + 1]
      BY <2>2, <3>1
    <3>3. value[i] \in Nat /\ hash[i + 1] \in Nat
      BY <1>1, <2>4, <3>1
    <3>4. value[i + 1] \in Nat
      <4>1. \A a, b \in Nat : a * Base + b \in Nat
        BY <1>1
      <4>2. QED
        BY <3>2, <3>3, <4>1, Zenon
    <3>5. QED
      BY <1>1, <3>1, <3>4
  <2>5. 0 .. Digits \subseteq S
    <3> HIDE DEF S
    <3>1. QED
      BY <1>1, <2>3, <2>4, UpTo, Zenon
  <2>6. QED
    BY <2>1, <2>2, <2>5, Zenon
<1>9. QED
  BY <1>7, <1>8, Zenon

\* The powers of the base.
LEMMA Powers ==
  \E p \in [0 .. Digits -> Nat \ {0}] :
    /\ p[0] = 1 /\ HashCount = p[Digits]
    /\ \A i \in 1 .. Digits : p[i] = p[i - 1] * Base
<1> DEFINE V == Nat \ {0}
           D == [p \in V \X (1 .. Digits) |-> p[1] * Base]
           Step(g) == [i \in 0 .. Digits |-> IF i = 0 THEN 1 ELSE g[i - 1] * Base]
           power == CHOOSE power : power = Step(power)
<1>1. Digits \in Nat /\ Base \in V
  BY DemandAssumption
<1>2. \A a \in V : a * Base \in V
  BY <1>1
<1>3. D \in [V \X (1 .. Digits) -> V] /\ 1 \in V
  <2>1. \A p \in V \X (1 .. Digits) : p[1] * Base \in V
    BY <1>2
  <2>2. QED
    BY <2>1
<1>4. PICK g \in [0 .. Digits -> V] : Follows(g, Digits, 1, D)
  <2> HIDE DEF D, V
  <2>1. QED
    BY <1>1, <1>3, Recursion, Zenon
<1>5. g[0] = 1 /\ \A i \in 1 .. Digits : g[i] = g[i - 1] * Base
  <2>1. g[0] = 1
    BY <1>4 DEF Follows
  <2>2. ASSUME NEW i \in 1 .. Digits PROVE g[i] = g[i - 1] * Base
    <3>1. <<g[i - 1], i>> \in V \X (1 .. Digits)
      BY <1>1
    <3>2. D[<<g[i - 1], i>>] = g[i - 1] * Base
      BY <3>1
    <3>3. QED
      BY <1>4, <3>2, Zenon DEF Follows
  <2>3. QED
    BY <2>1, <2>2
<1>6. g = Step(g)
  BY <1>5
<1>7. power = Step(power)
  <2> HIDE DEF Step
  <2>1. QED
    BY <1>6
<1>8. HashCount = power[Digits]
  BY DEF HashCount
<1> HIDE DEF power, D
<1>9. power[0] = 1 /\ \A i \in 1 .. Digits : power[i] = power[i - 1] * Base
  <2>1. \A i \in 0 .. Digits : power[i] = IF i = 0 THEN 1 ELSE power[i - 1] * Base
    BY <1>7, Zenon
  <2>2. 0 \in 0 .. Digits /\ \A i \in 1 .. Digits : i \in 0 .. Digits /\ i # 0
    BY <1>1
  <2>3. QED
    BY <2>1, <2>2, Zenon
<1>10. power = [i \in 0 .. Digits |-> power[i]]
  BY <1>7
<1> HIDE DEF Step
<1> DEFINE S == {i \in 0 .. Digits : power[i] \in V}
<1>11. 0 .. Digits \subseteq S
  <2> HIDE DEF V
  <2>1. 0 \in S
    BY <1>1, <1>3, <1>9
  <2>2. ASSUME NEW i \in 0 .. Digits - 1, i \in S PROVE i + 1 \in S
    <3>1. i + 1 \in 1 .. Digits /\ (i + 1) - 1 = i
      BY <1>1
    <3>2. power[i + 1] = power[i] * Base /\ power[i] \in V
      BY <1>9, <2>2, <3>1
    <3>3. QED
      BY <1>1, <1>2, <3>1, <3>2
  <2>3. QED
    <3> HIDE DEF S
    <3>1. QED
      BY <1>1, <2>1, <2>2, UpTo, SMTT(30)
<1>12. power \in [0 .. Digits -> V]
  BY <1>10, <1>11
<1>13. QED
  BY <1>8, <1>9, <1>12, Zenon

\* Two numbers in different places of the leading digits stay apart.
LEMMA NextDigit ==
  ASSUME NEW a \in Nat, NEW b \in Nat, a < b,
         NEW x \in 0 .. Base - 1, NEW y \in 0 .. Base - 1
  PROVE  a * Base + x < b * Base + y
<1>1. Base \in Nat /\ x \in Nat /\ y \in Nat /\ x < Base
  BY DemandAssumption
<1>2. PICK k \in Nat : b = a + 1 + k
  <2>1. b - a - 1 \in Nat /\ b = a + 1 + (b - a - 1)
    OBVIOUS
  <2>2. QED
    BY <2>1
<1>3. b * Base = a * Base + Base + k * Base
  BY <1>1, <1>2
<1>4. a * Base \in Nat /\ k * Base \in Nat /\ b * Base \in Nat
  BY <1>1
<1>5. QED
  BY <1>1, <1>3, <1>4

\* hash_below compares the numbers.
LEMMA HashBelowIsLess ==
  ASSUME NEW hash \in Hashes, NEW target \in Hashes
  PROVE  HashBelow(hash, target) <=> Value(hash) < Value(target)
<1> DEFINE Below(g, h, n) == \E i \in 1 .. n : g[i] < h[i] /\ \A j \in 1 .. i - 1 : g[j] = h[j]
           Same(n) == \A i \in 1 .. n : hash[i] = target[i]
<1>1. Digits \in Nat /\ Base \in Nat /\ \A i \in 1 .. Digits : hash[i] \in 0 .. Base - 1 /\ target[i] \in 0 .. Base - 1
  BY DemandAssumption DEF Hashes
<1>2. PICK v \in [0 .. Digits -> Nat] :
           /\ v[0] = 0 /\ Value(hash) = v[Digits]
           /\ \A i \in 1 .. Digits : v[i] = v[i - 1] * Base + hash[i]
  BY ValueOfPrefixes
<1>3. PICK w \in [0 .. Digits -> Nat] :
           /\ w[0] = 0 /\ Value(target) = w[Digits]
           /\ \A i \in 1 .. Digits : w[i] = w[i - 1] * Base + target[i]
  BY ValueOfPrefixes
<1> DEFINE Told(n) ==
             \/ Below(hash, target, n) /\ v[n] < w[n]
             \/ Below(target, hash, n) /\ w[n] < v[n]
             \/ Same(n) /\ v[n] = w[n]
           S == {n \in 0 .. Digits : Told(n)}
<1>4. 0 \in S
  BY <1>1, <1>2, <1>3
<1>5. ASSUME NEW n \in 0 .. Digits - 1, n \in S PROVE n + 1 \in S
  <2> DEFINE m == n + 1
  <2>1. m \in 1 .. Digits /\ m - 1 = n /\ n \in 0 .. Digits /\ n \in Nat
    BY <1>1
  <2>2. v[m] = v[n] * Base + hash[m] /\ w[m] = w[n] * Base + target[m]
    BY <1>2, <1>3, <2>1
  <2>3. \A i : i \in 1 .. m <=> i \in 1 .. n \/ i = m
    BY <2>1
  <2>4. v[n] \in Nat /\ w[n] \in Nat /\ hash[m] \in 0 .. Base - 1 /\ target[m] \in 0 .. Base - 1
    BY <1>1, <1>2, <1>3, <2>1, SMTT(30)
  <2> HIDE DEF m
  <2>5. CASE Below(hash, target, n) /\ v[n] < w[n]
    <3>1. v[m] < w[m]
      BY <2>2, <2>4, <2>5, NextDigit
    <3>2. Below(hash, target, m)
      BY <2>3, <2>5
    <3>3. QED
      BY <2>1, <3>1, <3>2 DEF m
  <2>6. CASE Below(target, hash, n) /\ w[n] < v[n]
    <3>1. w[m] < v[m]
      BY <2>2, <2>4, <2>6, NextDigit
    <3>2. Below(target, hash, m)
      BY <2>3, <2>6
    <3>3. QED
      BY <2>1, <3>1, <3>2 DEF m
  <2>7. CASE Same(n) /\ v[n] = w[n]
    <3>1. \A j \in 1 .. m - 1 : hash[j] = target[j]
      BY <2>1, <2>7
    <3>2. m \in 1 .. m
      BY <2>1
    <3>3. v[n] * Base \in Nat /\ w[n] * Base = v[n] * Base
      BY <1>1, <2>4, <2>7, SMTT(30)
    <3>4. CASE hash[m] < target[m]
      <4>1. Below(hash, target, m)
        BY <3>1, <3>2, <3>4
      <4>2. v[m] < w[m]
        BY <2>2, <2>4, <3>3, <3>4, SMTT(30)
      <4>3. QED
        BY <2>1, <4>1, <4>2 DEF m
    <3>5. CASE target[m] < hash[m]
      <4>1. Below(target, hash, m)
        BY <3>1, <3>2, <3>5
      <4>2. w[m] < v[m]
        BY <2>2, <2>4, <3>3, <3>5, SMTT(30)
      <4>3. QED
        BY <2>1, <4>1, <4>2 DEF m
    <3>6. CASE hash[m] = target[m]
      <4>1. Same(m)
        BY <2>3, <2>7, <3>6
      <4>2. v[m] = w[m]
        BY <2>2, <3>3, <3>6
      <4>3. QED
        BY <2>1, <4>1, <4>2 DEF m
    <3>7. QED
      BY <2>4, <3>4, <3>5, <3>6
  <2>8. QED
    BY <1>5, <2>5, <2>6, <2>7
<1>6. Told(Digits)
  <2>1. 0 .. Digits \subseteq S
    <3> HIDE DEF S
    <3>1. QED
      BY <1>1, <1>4, <1>5, UpTo, Zenon
  <2>2. Digits \in S
    BY <1>1, <2>1
  <2>3. QED
    BY <2>2
<1>7. Same(Digits) => ~Below(hash, target, Digits)
  BY <1>1
<1>8. ~(Below(hash, target, Digits) /\ Below(target, hash, Digits))
  <2> SUFFICES ASSUME NEW i \in 1 .. Digits, hash[i] < target[i], \A j \in 1 .. i - 1 : hash[j] = target[j],
                      NEW k \in 1 .. Digits, target[k] < hash[k], \A j \in 1 .. k - 1 : target[j] = hash[j]
               PROVE  FALSE
    OBVIOUS
  <2>1. CASE i < k
    <3>1. i \in 1 .. k - 1
      BY <1>1, <2>1
    <3>2. QED
      BY <1>1, <3>1, SMTT(30)
  <2>2. CASE k < i
    <3>1. k \in 1 .. i - 1
      BY <1>1, <2>2
    <3>2. QED
      BY <1>1, <3>1, SMTT(30)
  <2>3. CASE k = i
    BY <1>1, <2>3, SMTT(30)
  <2>4. QED
    BY <1>1, <2>1, <2>2, <2>3
<1>9. v[Digits] \in Nat /\ w[Digits] \in Nat
  BY <1>1, <1>2, <1>3
<1>10. HashBelow(hash, target) <=> Below(hash, target, Digits)
  BY DEF HashBelow
<1> HIDE DEF Below, Same
<1>11. QED
  BY <1>2, <1>3, <1>6, <1>7, <1>8, <1>9, <1>10

\* Division with remainder.
LEMMA Division ==
  ASSUME NEW a \in Nat, NEW d \in Nat \ {0}
  PROVE  /\ a \div d \in Nat /\ a % d \in 0 .. d - 1
         /\ a = d * (a \div d) + (a % d)
OBVIOUS

\* A quotient is determined by a remainder below the divisor.
LEMMA Quotient ==
  ASSUME NEW a \in Nat, NEW d \in Nat \ {0}, NEW q \in Nat, NEW r \in 0 .. d - 1, a = d * q + r
  PROVE  a \div d = q
<1> DEFINE p == a \div d
           s == a % d
<1>1. p \in Nat /\ s \in 0 .. d - 1 /\ a = d * p + s
  BY Division, Zenon
<1> HIDE DEF p, s
<1>2. \A y, z \in Nat : y < z => d * y + d <= d * z
  <2> TAKE y, z \in Nat
  <2> HAVE y < z
  <2>1. PICK k \in Nat : z = y + 1 + k
    <3>1. z - y - 1 \in Nat /\ z = y + 1 + (z - y - 1)
      OBVIOUS
    <3>2. QED
      BY <3>1
  <2>2. d * z = d * y + d + d * k
    BY <2>1
  <2>3. d * k >= 0 /\ d * y \in Int /\ d * k \in Int
    OBVIOUS
  <2>4. QED
    BY <2>2, <2>3
<1>3. d * q \in Int /\ d * p \in Int
  BY <1>1
<1>4. ~(p < q)
  <2> SUFFICES ASSUME p < q PROVE FALSE
    OBVIOUS
  <2>1. d * p + d <= d * q
    BY <1>1, <1>2
  <2>2. QED
    BY <1>1, <1>3, <2>1
<1>5. ~(q < p)
  <2> SUFFICES ASSUME q < p PROVE FALSE
    OBVIOUS
  <2>1. d * q + d <= d * p
    BY <1>1, <1>2
  <2>2. QED
    BY <1>1, <1>3, <2>1
<1>6. QED
  BY <1>1, <1>4, <1>5 DEF p

\* A digit of a long division is below the base.
LEMMA SmallQuotient ==
  ASSUME NEW a \in Nat, NEW b \in Nat \ {0}, NEW d \in Nat \ {0}, a < d
  PROVE  (a * b) \div d < b
<1> DEFINE q == (a * b) \div d
           u == (a * b) % d
<1>1. a * b \in Nat
  OBVIOUS
<1>2. q \in Nat /\ u \in 0 .. d - 1 /\ a * b = d * q + u
  <2> DEFINE c == a * b
  <2> HIDE DEF c
  <2>1. c \in Nat
    BY <1>1 DEF c
  <2>2. c \div d \in Nat /\ c % d \in 0 .. d - 1 /\ c = d * (c \div d) + (c % d)
    BY <2>1, Division, Zenon
  <2>3. QED
    BY <2>2 DEF c
<1> HIDE DEF q, u
<1>3. SUFFICES ASSUME b <= q PROVE FALSE
  BY <1>2 DEF q
<1>4. PICK k \in Nat : q = b + k
  <2>1. q - b \in Nat /\ q = b + (q - b)
    BY <1>2, <1>3
  <2>2. QED
    BY <2>1
<1>5. PICK m \in Nat : d = a + 1 + m
  <2>1. d - a - 1 \in Nat /\ d = a + 1 + (d - a - 1)
    OBVIOUS
  <2>2. QED
    BY <2>1
<1>6. d * q = d * b + d * k /\ d * k \in Nat /\ d * b \in Nat
  BY <1>4
<1>7. d * b = a * b + b + m * b /\ m * b \in Nat
  BY <1>5
<1>8. u \in Nat
  BY <1>2
<1>9. QED
  BY <1>1, <1>2, <1>6, <1>7, <1>8

\* The long division of difficulty_to_target: the remainders it goes through
\* and the digits it writes, none of which is cut by the byte it is stored in.
LEMMA LongDivision ==
  ASSUME NEW d \in Nat \ {0, 1}
  PROVE  \E r \in [1 .. Digits + 1 -> 0 .. d - 1] :
           /\ r[1] = 1
           /\ \A i \in 1 .. Digits : r[i + 1] = (r[i] * Base) % d
           /\ Target(d) \in Hashes
           /\ \A i \in 1 .. Digits : Target(d)[i] = (r[i] * Base) \div d
<1> DEFINE zeros == [i \in 1 .. Digits |-> 0]
           numerator == <<1>> \o zeros
           V == 0 .. d - 1
           n == Digits + 1
           Rest(a, i) == (a * Base + numerator[i]) % d
           D == [p \in V \X (1 .. n) |-> Rest(p[1], p[2])]
           Step(g) == [i \in 0 .. n |-> IF i = 0 THEN 0 ELSE Rest(g[i - 1], i)]
           rem == CHOOSE rem : rem = Step(rem)
<1>1. Digits \in Nat /\ Base \in Nat \ {0, 1} /\ n \in Nat
  BY DemandAssumption
<1>2. numerator[1] = 1 /\ \A i \in 2 .. n : numerator[i] = 0
  <2>1. zeros \in Seq(Nat) /\ Len(zeros) = Digits /\ \A i \in 1 .. Digits : zeros[i] = 0
    BY <1>1
  <2> HIDE DEF zeros
  <2>2. <<1>> \in Seq(Nat) /\ Len(<<1>>) = 1 /\ <<1>>[1] = 1
    OBVIOUS
  <2>3. \A i \in 1 .. 1 + Digits : numerator[i] = IF i <= 1 THEN <<1>>[i] ELSE zeros[i - 1]
    BY <1>1, <2>1, <2>2
  <2>4. QED
    BY <1>1, <2>1, <2>2, <2>3
<1>3. Target(d) = [i \in 1 .. Digits |-> ((rem[i] * Base + numerator[i + 1]) \div d) % Base]
  <2>1. Target(d) = IF d <= 1 THEN [i \in 1 .. Digits |-> Base - 1]
                    ELSE [i \in 1 .. Digits |-> ((rem[i] * Base + numerator[i + 1]) \div d) % Base]
    BY Zenon DEF Target
  <2>2. ~(d <= 1)
    OBVIOUS
  <2>3. QED
    BY <2>1, <2>2, Zenon
<1>4. \A i \in 1 .. n : numerator[i] \in Nat
  BY <1>1, <1>2
<1> HIDE DEF numerator, zeros
<1>5. ASSUME NEW a \in V, NEW i \in 1 .. n PROVE Rest(a, i) \in V
  <2>1. a \in Nat /\ a * Base \in Nat
    BY <1>1
  <2>2. a * Base + numerator[i] \in Nat
    BY <1>4, <2>1
  <2>3. QED
    BY <2>2, Division, Zenon
<1> HIDE DEF Rest, n
<1>6. 0 \in V /\ D \in [V \X (1 .. n) -> V]
  <2>1. 0 \in V
    OBVIOUS
  <2> HIDE DEF V
  <2>2. QED
    BY <1>5, <2>1
<1>7. PICK g \in [0 .. n -> V] : Follows(g, n, 0, D)
  <2> HIDE DEF D, V
  <2>1. QED
    BY <1>1, <1>6, Recursion, Zenon
<1>8. g = Step(g)
  <2> HIDE DEF V
  <2>1. g[0] = 0
    BY <1>7 DEF Follows
  <2>2. ASSUME NEW i \in 1 .. n PROVE g[i] = Rest(g[i - 1], i)
    <3>1. i - 1 \in 0 .. n
      BY <1>1
    <3>2. <<g[i - 1], i>> \in V \X (1 .. n)
      BY <3>1
    <3>3. D[<<g[i - 1], i>>] = Rest(g[i - 1], i)
      BY <3>2
    <3>4. QED
      BY <1>7, <3>3, Zenon DEF Follows
  <2>3. QED
    BY <2>1, <2>2
<1>9. rem = Step(rem)
  <2> HIDE DEF Step
  <2>1. QED
    BY <1>8
<1> HIDE DEF rem, D
<1>10. rem[0] = 0 /\ \A i \in 1 .. n : rem[i] = Rest(rem[i - 1], i)
  <2>1. \A i \in 0 .. n : rem[i] = IF i = 0 THEN 0 ELSE Rest(rem[i - 1], i)
    BY <1>9, Zenon
  <2>2. 0 \in 0 .. n /\ \A i \in 1 .. n : i \in 0 .. n /\ i # 0
    BY <1>1
  <2>3. QED
    BY <2>1, <2>2, Zenon
<1> HIDE DEF Step
<1> DEFINE S == {i \in 0 .. n : rem[i] \in V}
<1>11. 0 .. n \subseteq S
  <2> HIDE DEF V
  <2>1. 0 \in S
    BY <1>1, <1>6, <1>10
  <2>2. ASSUME NEW i \in 0 .. n - 1, i \in S PROVE i + 1 \in S
    <3>1. i + 1 \in 1 .. n /\ (i + 1) - 1 = i /\ i + 1 \in 0 .. n
      BY <1>1
    <3>2. rem[i + 1] = Rest(rem[i], i + 1) /\ rem[i] \in V
      BY <1>10, <2>2, <3>1
    <3>3. QED
      BY <1>5, <3>1, <3>2
  <2> HIDE DEF S
  <2>3. QED
    BY <1>1, <2>1, <2>2, UpTo, SMTT(30)
<1>12. \A i \in 1 .. n : rem[i] \in V
  BY <1>1, <1>11
<1>13. rem[1] = 1
  <2>1. 1 \in 1 .. n /\ 1 - 1 = 0
    BY <1>1 DEF n
  <2>2. rem[1] = (0 * Base + 1) % d
    BY <1>2, <1>10, <2>1 DEF Rest
  <2>3. 0 * Base + 1 = 1
    BY <1>1
  <2>4. 1 % d = 1
    OBVIOUS
  <2>5. QED
    BY <2>2, <2>3, <2>4
<1>14. ASSUME NEW i \in 1 .. Digits
       PROVE  /\ rem[i] * Base \in Nat
              /\ rem[i + 1] = (rem[i] * Base) % d
              /\ Target(d)[i] = (rem[i] * Base) \div d
              /\ Target(d)[i] \in 0 .. Base - 1
  <2>1. i \in 1 .. n /\ i + 1 \in 2 .. n /\ i + 1 \in 1 .. n /\ (i + 1) - 1 = i
    BY <1>1 DEF n
  <2>2. rem[i] \in Nat /\ rem[i] < d
    BY <1>12, <2>1
  <2>3. rem[i] * Base \in Nat
    BY <1>1, <2>2
  <2>4. rem[i] * Base + numerator[i + 1] = rem[i] * Base
    BY <1>2, <2>1, <2>3
  <2>5. rem[i + 1] = (rem[i] * Base) % d
    BY <1>10, <2>1, <2>4 DEF Rest
  <2> DEFINE q == (rem[i] * Base) \div d
  <2>6. q \in Nat
    BY <2>3, Division
  <2>7. q < Base
    BY <1>1, <2>2, SmallQuotient, Zenon
  <2> HIDE DEF q
  <2>8. q % Base = q
    BY <1>1, <2>6, <2>7
  <2>9. Target(d)[i] = ((rem[i] * Base + numerator[i + 1]) \div d) % Base
    BY <1>3
  <2>10. Target(d)[i] = q
    BY <2>4, <2>8, <2>9 DEF q
  <2>11. QED
    BY <1>1, <2>3, <2>5, <2>6, <2>7, <2>10 DEF q
<1>15. Target(d) \in Hashes
  BY <1>3, <1>14 DEF Hashes
<1> DEFINE r == [i \in 1 .. Digits + 1 |-> rem[i]]
<1>16. r \in [1 .. Digits + 1 -> 0 .. d - 1]
  BY <1>12 DEF n
<1>17. \A i \in 1 .. Digits : i \in 1 .. Digits + 1 /\ i + 1 \in 1 .. Digits + 1 /\ r[i] = rem[i] /\ r[i + 1] = rem[i + 1]
  BY <1>1
<1>18. r[1] = 1
  BY <1>1, <1>13
<1> HIDE DEF r
<1>19. /\ \A i \in 1 .. Digits : r[i + 1] = (r[i] * Base) % d
       /\ \A i \in 1 .. Digits : Target(d)[i] = (r[i] * Base) \div d
  BY <1>14, <1>17, SMTT(30)
<1>20. QED
  BY <1>15, <1>16, <1>18, <1>19, Zenon

\* Above difficulty 1 the target is 2^256 divided by the difficulty.
LEMMA TargetIsQuotient ==
  ASSUME NEW d \in Nat \ {0, 1}
  PROVE  Target(d) \in Hashes /\ Value(Target(d)) = HashCount \div d
<1> DEFINE t == Target(d)
<1>1. Digits \in Nat /\ Base \in Nat
  BY DemandAssumption
<1>0. \A x \in Nat : x * Base \in Nat
  BY <1>1
<1>2. PICK r \in [1 .. Digits + 1 -> 0 .. d - 1] :
        /\ r[1] = 1
        /\ \A i \in 1 .. Digits : r[i + 1] = (r[i] * Base) % d
        /\ t \in Hashes
        /\ \A i \in 1 .. Digits : t[i] = (r[i] * Base) \div d
  BY LongDivision, SMTT(30)
<1> HIDE DEF t
<1>3. PICK v \in [0 .. Digits -> Nat] :
        /\ v[0] = 0 /\ Value(t) = v[Digits]
        /\ \A i \in 1 .. Digits : v[i] = v[i - 1] * Base + t[i]
  BY <1>2, ValueOfPrefixes
<1>4. PICK p \in [0 .. Digits -> Nat \ {0}] :
        /\ p[0] = 1 /\ HashCount = p[Digits]
        /\ \A i \in 1 .. Digits : p[i] = p[i - 1] * Base
  BY Powers, Zenon
<1> DEFINE S == {i \in 0 .. Digits : p[i] = d * v[i] + r[i + 1]}
<1>5. 0 \in S
  <2>1. d * 0 = 0
    OBVIOUS
  <2>2. QED
    BY <1>1, <1>2, <1>3, <1>4, <2>1
<1>6. ASSUME NEW i \in 0 .. Digits - 1, i \in S PROVE i + 1 \in S
  <2> DEFINE j == i + 1
             a == r[j] * Base
             q == a \div d
             u == a % d
  <2>1. j \in 1 .. Digits /\ j - 1 = i /\ i \in 0 .. Digits /\ j \in 0 .. Digits /\ j \in 1 .. Digits + 1 /\ j + 1 \in 1 .. Digits + 1
    BY <1>1
  <2>2. v[i] \in Nat /\ p[i] \in Nat /\ r[j] \in Nat /\ p[i] = d * v[i] + r[j]
    BY <1>2, <1>3, <1>4, <1>6, <2>1, SMTT(30)
  <2>3. v[j] = v[i] * Base + q /\ p[j] = p[i] * Base /\ r[j + 1] = u
    BY <1>2, <1>3, <1>4, <2>1
  <2> HIDE DEF j
  <2>4. a \in Nat
    BY <1>0, <2>2, Zenon
  <2> HIDE DEF a
  <2>5. q \in Nat /\ u \in Nat /\ a = d * q + u
    <3>1. d \in Nat \ {0}
      OBVIOUS
    <3>2. q \in Nat /\ u \in 0 .. d - 1 /\ a = d * q + u
      BY <2>4, <3>1, Division, Zenon
    <3>3. QED
      BY <3>2
  <2> HIDE DEF q, u
  <2>6. p[j] = (d * v[i] + r[j]) * Base
    BY <2>2, <2>3
  <2>7. (d * v[i] + r[j]) * Base = d * (v[i] * Base) + a
    <3>1. \A x, y \in Nat : (d * x + y) * Base = d * (x * Base) + y * Base
      BY <1>1
    <3>2. QED
      BY <2>2, <3>1, Zenon DEF a
  <2>8. d * v[j] = d * (v[i] * Base) + d * q
    <3>1. \A x, y \in Nat : d * (x + y) = d * x + d * y
      OBVIOUS
    <3>2. v[i] * Base \in Nat
      BY <1>0, <2>2, Zenon
    <3>3. QED
      BY <2>3, <2>5, <3>1, <3>2
  <2>9. d * (v[i] * Base) \in Nat /\ d * q \in Nat
    <3>1. v[i] * Base \in Nat
      BY <1>0, <2>2, Zenon
    <3>2. \A x \in Nat : d * x \in Nat
      OBVIOUS
    <3>3. QED
      BY <2>5, <3>1, <3>2
  <2>10. p[j] = d * v[j] + r[j + 1]
    BY <2>3, <2>5, <2>6, <2>7, <2>8, <2>9
  <2>11. QED
    BY <2>1, <2>10 DEF j
<1>7. Digits \in S
  <2>1. 0 .. Digits \subseteq S
    <3> HIDE DEF S
    <3>1. QED
      BY <1>1, <1>5, <1>6, UpTo, Zenon
  <2>2. QED
    BY <1>1, <2>1
<1>8. p[Digits] = d * v[Digits] + r[Digits + 1]
  BY <1>7
<1>9. p[Digits] \in Nat /\ v[Digits] \in Nat /\ r[Digits + 1] \in 0 .. d - 1
  BY <1>1, <1>2, <1>3, <1>4
<1>10. p[Digits] \div d = v[Digits]
  <2>1. d \in Nat \ {0}
    OBVIOUS
  <2>2. QED
    BY <1>8, <1>9, <2>1, Quotient, ZenonT(40)
<1>11. QED
  BY <1>2, <1>3, <1>4, <1>10 DEF t

\* At difficulty 1 the target is the largest hash.
LEMMA LargestTarget ==
  Target(1) \in Hashes /\ Value(Target(1)) = HashCount - 1
<1> DEFINE t == Target(1)
<1>1. Digits \in Nat /\ Base \in Nat \ {0, 1}
  BY DemandAssumption
<1>2. t \in Hashes /\ \A i \in 1 .. Digits : t[i] = Base - 1
  <2>1. t = [i \in 1 .. Digits |-> Base - 1]
    <3>1. 1 <= 1
      OBVIOUS
    <3>2. QED
      BY <3>1, Zenon DEF Target
  <2>2. Base - 1 \in 0 .. Base - 1
    BY <1>1
  <2>3. QED
    BY <2>1, <2>2, Zenon DEF Hashes
<1> HIDE DEF t
<1>3. PICK v \in [0 .. Digits -> Nat] :
        /\ v[0] = 0 /\ Value(t) = v[Digits]
        /\ \A i \in 1 .. Digits : v[i] = v[i - 1] * Base + t[i]
  BY <1>2, ValueOfPrefixes
<1>4. PICK p \in [0 .. Digits -> Nat \ {0}] :
        /\ p[0] = 1 /\ HashCount = p[Digits]
        /\ \A i \in 1 .. Digits : p[i] = p[i - 1] * Base
  BY Powers, Zenon
<1> DEFINE S == {i \in 0 .. Digits : v[i] = p[i] - 1}
<1>5. 0 \in S
  BY <1>1, <1>3, <1>4
<1>6. ASSUME NEW i \in 0 .. Digits - 1, i \in S PROVE i + 1 \in S
  <2>1. i + 1 \in 1 .. Digits /\ (i + 1) - 1 = i /\ i \in 0 .. Digits /\ i + 1 \in 0 .. Digits
    BY <1>1
  <2>2. v[i + 1] = v[i] * Base + (Base - 1) /\ p[i + 1] = p[i] * Base /\ p[i] \in Nat /\ v[i] = p[i] - 1
    BY <1>2, <1>3, <1>4, <1>6, <2>1
  <2>3. \A x \in Nat : (x - 1) * Base + (Base - 1) = x * Base - 1
    BY <1>1
  <2>4. v[i + 1] = p[i + 1] - 1
    BY <2>2, <2>3
  <2>5. QED
    BY <2>1, <2>4
<1>7. Digits \in S
  <2>1. 0 .. Digits \subseteq S
    <3> HIDE DEF S
    <3>1. QED
      BY <1>1, <1>5, <1>6, UpTo, Zenon
  <2>2. QED
    BY <1>1, <2>1
<1>8. QED
  BY <1>2, <1>3, <1>4, <1>7 DEF t

(***************************************************************************)
(* difficulty_to_target and hash_below: a hash is below the target of d    *)
(* only if it is below floor(2^256 / d), and if it is, unless d = 1 and it *)
(* is the largest of all; for every width of the hash and every base of    *)
(* its digits.                                                             *)
(***************************************************************************)
THEOREM TargetAdmits ==
  ASSUME NEW d \in Nat \ {0}, NEW hash \in Hashes
  PROVE  /\ HashBelow(hash, Target(d)) => Value(hash) < Admitted(d)
         /\ Value(hash) < Admitted(d) =>
              HashBelow(hash, Target(d)) \/ (d = 1 /\ Value(hash) = HashCount - 1)
<1>1. CASE d = 1
  <2>1. HashBelow(hash, Target(1)) <=> Value(hash) < HashCount - 1
    BY LargestTarget, HashBelowIsLess
  <2>2. HashCount \in Nat
    <3>1. PICK p \in [0 .. Digits -> Nat \ {0}] : HashCount = p[Digits]
      BY Powers, Zenon
    <3>2. QED
      BY <3>1, DemandAssumption
  <2>3. Value(hash) \in Nat
    <3>1. PICK v \in [0 .. Digits -> Nat] : Value(hash) = v[Digits]
      BY ValueOfPrefixes, Zenon
    <3>2. QED
      BY <3>1, DemandAssumption
  <2>4. Admitted(1) = HashCount
    BY <2>2 DEF Admitted
  <2>5. QED
    BY <1>1, <2>1, <2>2, <2>3, <2>4
<1>2. CASE d # 1
  BY <1>2, TargetIsQuotient, HashBelowIsLess DEF Admitted
<1>3. QED
  BY <1>1, <1>2

-----------------------------------------------------------------------------
(* The request.                                                            *)

USE DEF location, body, outcome, life, requestVars

\* The body and what was collected stay as they are, and the request is not
\* brought back to an earlier stage.
BodyKept ==
  /\ UNCHANGED <<size, left, verify_bytes, verify_enabled, buffered, spool, spooled, out, route>>
  /\ pc' \in {"callback", "valid", "unreadable", "return", "over", "gone"} \/ pc' = pc

LEMMA KeptBody ==
  ASSUME RequestInv, BodyKept
  PROVE  Numbered' /\ Stages' /\ Counted'
BY SMTT(30) DEF RequestInv, BodyKept, Numbered, Stages, Counted

\* The reference count and what is owed, over one step of the request.
LEMMA ControlStep ==
  ASSUME Control, Accounted, RequestNext
  PROVE  Control' /\ Accounted'
<1> USE DEF Control, Accounted, Finalize, Respond, After
<1>1. ASSUME Decline \/ AnswerAtOnce \/ DenyOrNoJs PROVE Control' /\ Accounted'
  BY <1>1 DEF Decline, AnswerAtOnce, DenyOrNoJs, Done
<1>2. ASSUME ChallengePage PROVE Control' /\ Accounted'
  BY <1>2 DEF ChallengePage, Challenged
<1>3. ASSUME NEW n, Capture(n) PROVE Control' /\ Accounted'
  BY <1>3 DEF Capture, Challenged, ReadBody
<1>4. ASSUME NEW n, NEW declared, VerifySolution(n, declared) PROVE Control' /\ Accounted'
  BY <1>4 DEF VerifySolution, ReadBody
<1>5. ASSUME NEW n, ReadFails(n) PROVE Control' /\ Accounted'
  <2>1. pc = "reading" /\ sent = 0 /\ ~cleanup /\ count = 1 + (IF inside THEN 1 ELSE 0)
    BY <1>5 DEF ReadFails
  <2>2. count' = 0
    BY <1>5, <2>1 DEF ReadFails
  <2>3. pc' = "over" /\ sent' = 1 /\ inside' = FALSE /\ cleanup' = FALSE
    BY <1>5, <2>1 DEF ReadFails
  <2>4. ~inside' /\ inside' \in BOOLEAN /\ ~cleanup' /\ cleanup' \in BOOLEAN
    BY <2>3, Zenon
  <2>5. QED
    BY <2>2, <2>3, <2>4
<1>6. ASSUME NEW n, CollectFile(n) PROVE Control' /\ Accounted'
  BY <1>6 DEF CollectFile
<1>7. ASSUME Pass \/ BodyReady \/ CollectMemory PROVE Control' /\ Accounted'
  BY <1>7 DEF Pass, BodyReady, CollectMemory
<1>8. ASSUME Suspend PROVE Control' /\ Accounted'
  <2>1. pc = "reading" /\ sent = 0 /\ ~cleanup /\ count = 2
    BY <1>8 DEF Suspend
  <2>2. pc' = "reading" /\ sent' = 0 /\ inside' = FALSE /\ cleanup' = FALSE /\ count' = 1
    BY <1>8, <2>1 DEF Suspend
  <2>3. ~inside' /\ inside' \in BOOLEAN /\ ~cleanup' /\ cleanup' \in BOOLEAN
    BY <2>2, Zenon
  <2>4. QED
    BY <2>2, <2>3
<1>9. ASSUME Answer PROVE Control' /\ Accounted'
  BY <1>9 DEF Answer
<1>10. ASSUME Redeem PROVE Control' /\ Accounted'
  BY <1>10 DEF Redeem
<1>11. ASSUME Return PROVE Control' /\ Accounted'
  <2>1. /\ inside /\ cleanup \in BOOLEAN /\ sent \in {0, 1} /\ (cleanup <=> sent = 0)
        /\ count = (IF sent = 0 THEN 1 ELSE 0) + 1
    BY <1>11 DEF Return
  <2>2. pc' = "over" /\ inside' = FALSE /\ cleanup' = cleanup /\ sent' = sent
        /\ count' = IF sent = 0 THEN 1 ELSE 0
    BY <1>11, <2>1 DEF Return
  <2>3. Control'
    BY <2>1, <2>2, Zenon
  <2>4. QED
    BY <2>1, <2>2, <2>3
<1>12. ASSUME Complete PROVE Control' /\ Accounted'
  <2>1. ~inside /\ sent = 0 /\ count = 1
    BY <1>12 DEF Complete
  <2>2. pc' = "over" /\ inside' = FALSE /\ cleanup' = FALSE /\ sent' = 1 /\ count' = 0
    BY <1>12, <2>1 DEF Complete
  <2>3. ~inside' /\ inside' \in BOOLEAN /\ ~cleanup' /\ cleanup' \in BOOLEAN
    BY <2>2, Zenon
  <2>4. QED
    BY <2>2, <2>3
<1>13. ASSUME NEW safe, BodyReadyPage(safe) PROVE Control' /\ Accounted'
  BY <1>13 DEF BodyReadyPage
<1>14. ASSUME NEW text, NEW level, NEW hash, VerifyBody(text, level, hash) PROVE Control' /\ Accounted'
  BY <1>14 DEF VerifyBody
<1>15. ASSUME Terminate PROVE Control' /\ Accounted'
  <2>1. ~inside /\ sent = 0
    BY <1>15 DEF Terminate
  <2>2. pc' = "gone" /\ inside' = inside /\ cleanup' = FALSE /\ sent' = 0 /\ count' = 0
    BY <1>15, <2>1 DEF Terminate
  <2>3. Control'
    BY <2>1, <2>2, Zenon
  <2>4. QED
    BY <2>1, <2>2, <2>3
<1>16. ASSUME NEW n, Arrive(n) PROVE Control' /\ Accounted'
  BY <1>16 DEF Arrive
<1>17. ASSUME Spill \/ Quiet PROVE Control' /\ Accounted'
  BY <1>17 DEF Spill, Quiet
<1>18. QED
  BY <1>1, <1>2, <1>3, <1>4, <1>5, <1>6, <1>7, <1>8, <1>9, <1>10, <1>11, <1>12, <1>13, <1>14,
     <1>15, <1>16, <1>17, Zenon DEF RequestNext, Progress

\* A body read starts with nothing held.
LEMMA ReadStep ==
  ASSUME RequestInv, NEW n \in Nat,
         Capture(n) \/ \E declared \in {Unknown, n} : VerifySolution(n, declared)
  PROVE  Numbered' /\ Stages' /\ Counted'
<1>1. /\ pc = "new" /\ pc' = "reading" /\ size' = n /\ left' = n
      /\ UNCHANGED <<route, buffered, spool, spooled, out>>
  BY DEF Capture, Challenged, VerifySolution, ReadBody
<1>2. spool = <<>> /\ buffered = <<>> /\ out = <<>> /\ ~spooled /\ ~verify_enabled
  BY <1>1, EmptyVec DEF RequestInv, Stages, Numbered
<1>3. \/ route = "verify" /\ verify_enabled' = TRUE /\ verify_bytes' = 0
      \/ route # "verify" /\ verify_enabled' = FALSE
  BY <1>2 DEF Capture, Challenged, VerifySolution, RequestInv, Counted
<1>4. Numbered'
  BY <1>1, <1>2 DEF RequestInv, Numbered
<1>5. Stages'
  BY <1>1, <1>2 DEF Stages
<1>6. Counted'
  <2>1. CASE route = "verify" /\ verify_enabled' = TRUE /\ verify_bytes' = 0
    <3>1. Len(spool') + Len(buffered') = 0
      BY <1>1, <1>2, EmptyVec
    <3>2. QED
      BY <1>1, <2>1, <3>1, LifeAssumption DEF Counted
  <2>2. CASE route # "verify" /\ verify_enabled' = FALSE
    BY <1>1, <2>2, Zenon DEF Counted
  <2>3. QED
    BY <1>3, <2>1, <2>2, Zenon
<1>7. QED
  BY <1>4, <1>5, <1>6

\* Numbered sequences one behind the other are numbered.
LEMMA Joined ==
  ASSUME NEW s \in Seq(Nat), NEW t \in Seq(Nat),
         \A i \in DOMAIN s : s[i] = i, \A i \in DOMAIN t : t[i] = Len(s) + i
  PROVE  /\ s \o t \in Seq(Nat) /\ Len(s \o t) = Len(s) + Len(t)
         /\ \A i \in DOMAIN (s \o t) : (s \o t)[i] = i
<1>1. /\ s \o t \in Seq(Nat) /\ Len(s \o t) = Len(s) + Len(t)
      /\ \A i \in 1 .. Len(s) + Len(t) :
           (s \o t)[i] = IF i <= Len(s) THEN s[i] ELSE t[i - Len(s)]
  BY JoinVec
<1>2. DOMAIN s = 1 .. Len(s) /\ DOMAIN t = 1 .. Len(t) /\ DOMAIN (s \o t) = 1 .. Len(s) + Len(t)
      /\ Len(s) \in Nat /\ Len(t) \in Nat
  BY <1>1
<1>3. ASSUME NEW i \in 1 .. Len(s) + Len(t) PROVE (s \o t)[i] = i
  <2>1. CASE i <= Len(s)
    <3>1. i \in DOMAIN s
      BY <1>2, <2>1
    <3>2. QED
      BY <1>1, <2>1, <3>1
  <2>2. CASE ~(i <= Len(s))
    <3>1. i - Len(s) \in DOMAIN t
      BY <1>2, <2>2
    <3>2. t[i - Len(s)] = Len(s) + (i - Len(s))
      BY <3>1
    <3>3. QED
      BY <1>1, <1>2, <2>2, <3>2
  <2>3. QED
    BY <2>1, <2>2
<1>4. QED
  BY <1>1, <1>2, <1>3

\* A buffer of n bytes comes in behind those that are there.
LEMMA ArriveStep ==
  ASSUME RequestInv, NEW n \in Nat, Arrive(n)
  PROVE  Numbered' /\ Stages' /\ Counted'
<1> DEFINE from == size - left + 1
           came == Bytes(from, size - left + n)
<1>1. /\ n \in 1 .. left /\ size \in Nat /\ left \in Nat
      /\ spool \in Seq(Nat) /\ buffered \in Seq(Nat) /\ out \in Seq(Nat)
      /\ Len(spool) \in Nat /\ Len(buffered) \in Nat
      /\ Len(spool) + Len(buffered) + left = size
      /\ \A i \in DOMAIN buffered : buffered[i] = Len(spool) + i
      /\ pc = "reading" /\ pc' = pc /\ left' = left - n /\ ~TooLarge(n)
      /\ buffered' = buffered \o came
      /\ verify_bytes' = IF verify_enabled THEN verify_bytes + n ELSE verify_bytes
      /\ UNCHANGED <<route, size, verify_enabled, spool, spooled, out>>
  BY DEF RequestInv, Numbered, Arrive
<1>2. came = [i \in 1 .. n |-> from + i - 1]
  BY <1>1 DEF Bytes
<1>3. came \in Seq(Nat) /\ Len(came) = n /\ \A i \in 1 .. n : came[i] = Len(spool) + Len(buffered) + i
  <2>1. from = Len(spool) + Len(buffered) + 1
    <3>1. size = Len(spool) + Len(buffered) + left /\ {Len(spool), Len(buffered), left} \subseteq Nat
      BY <1>1
    <3>2. QED
      BY <3>1
  <2> HIDE DEF came, from
  <2>2. \A i \in 1 .. n : came[i] = Len(spool) + Len(buffered) + i
    BY <1>1, <1>2, <2>1
  <2>3. came \in [1 .. n -> Nat]
    BY <1>1, <1>2, <2>1
  <2>4. QED
    BY <2>2, <2>3
<1> HIDE DEF came, from
<1>4. /\ buffered' \in Seq(Nat) /\ Len(buffered') = Len(buffered) + n
      /\ \A i \in 1 .. Len(buffered) + n :
           buffered'[i] = IF i <= Len(buffered) THEN buffered[i] ELSE came[i - Len(buffered)]
  BY <1>1, <1>3, JoinVec, ZenonT(40)
<1>5. DOMAIN buffered = 1 .. Len(buffered) /\ DOMAIN buffered' = 1 .. Len(buffered) + n
  BY <1>1, <1>4
<1>6. ASSUME NEW i \in DOMAIN buffered' PROVE buffered'[i] = Len(spool) + i
  <2>1. CASE i <= Len(buffered)
    BY <1>1, <1>4, <1>5, <2>1
  <2>2. CASE ~(i <= Len(buffered))
    <3>1. i - Len(buffered) \in 1 .. n
      BY <1>1, <1>5, <2>2, SMTT(30)
    <3>2. came[i - Len(buffered)] = Len(spool) + Len(buffered) + (i - Len(buffered))
      BY <1>3, <3>1
    <3>3. QED
      BY <1>1, <1>4, <1>5, <2>2, <3>2, SMTT(30)
  <2>3. QED
    BY <2>1, <2>2
<1>7. Numbered'
  <2>1. left' \in Nat /\ Len(spool) + Len(buffered') + left' = size
    <3>1. /\ Len(buffered') = Len(buffered) + n /\ left' = left - n /\ n \in 1 .. left
          /\ size = Len(spool) + Len(buffered) + left
          /\ Len(spool) \in Nat /\ Len(buffered) \in Nat /\ left \in Nat
      BY <1>1, <1>4
    <3>2. QED
      BY <3>1
  <2>2. (\A i \in DOMAIN spool : spool[i] = i) /\ (\A i \in DOMAIN out : out[i] = i)
    BY DEF RequestInv, Numbered
  <2>3. QED
    BY <1>1, <1>4, <1>6, <2>1, <2>2, Zenon DEF Numbered
<1>8. Stages'
  BY <1>1 DEF RequestInv, Stages
<1>9. Counted'
  <2>1. CASE verify_enabled
    <3>1. verify_bytes = Len(spool) + Len(buffered) /\ n <= Limit - verify_bytes
      BY <1>1, <2>1, LifeAssumption DEF RequestInv, Counted, TooLarge
    <3>2. verify_bytes' = Len(spool') + Len(buffered') /\ verify_bytes' <= Limit
      BY <1>1, <1>4, <2>1, <3>1, LifeAssumption
    <3>3. QED
      BY <1>1, <2>1, <3>2 DEF Counted
  <2>2. CASE ~verify_enabled
    BY <1>1, <2>2 DEF RequestInv, Counted
  <2>3. QED
    BY <2>1, <2>2
<1>10. QED
  BY <1>7, <1>8, <1>9

\* What nginx holds in memory goes behind what is in the file.
LEMMA Spilled ==
  ASSUME RequestInv, spool' = spool \o buffered, buffered' = <<>>,
         UNCHANGED <<route, size, left, verify_bytes, verify_enabled, out>>
  PROVE  /\ Numbered'
         /\ Len(spool') = Len(spool) + Len(buffered)
         /\ verify_enabled => verify_bytes = Len(spool') + Len(buffered')
         /\ route = "verify" /\ ~verify_enabled => spool' = <<>>
<1>1. /\ spool \in Seq(Nat) /\ buffered \in Seq(Nat) /\ out \in Seq(Nat)
      /\ \A i \in DOMAIN spool : spool[i] = i
      /\ \A i \in DOMAIN buffered : buffered[i] = Len(spool) + i
      /\ size \in Nat /\ left \in Nat /\ Len(spool) + Len(buffered) + left = size
  BY DEF RequestInv, Numbered
<1>2. /\ spool' \in Seq(Nat) /\ Len(spool') = Len(spool) + Len(buffered)
      /\ \A i \in DOMAIN spool' : spool'[i] = i
  BY <1>1, Joined, Zenon
<1>3. Len(buffered') = 0 /\ buffered' \in Seq(Nat) /\ DOMAIN buffered' = {}
  BY EmptyVec
<1>4. Numbered'
  BY <1>1, <1>2, <1>3 DEF RequestInv, Numbered
<1>5. verify_enabled => verify_bytes = Len(spool') + Len(buffered')
  BY <1>1, <1>2, <1>3 DEF RequestInv, Counted
<1>6. route = "verify" /\ ~verify_enabled => spool' = <<>>
  BY <1>1 DEF RequestInv, Counted
<1>7. QED
  BY <1>2, <1>4, <1>5, <1>6

LEMMA SpillStep ==
  ASSUME RequestInv, Spill
  PROVE  Numbered' /\ Stages' /\ Counted'
<1>1. /\ spool' = spool \o buffered /\ buffered' = <<>> /\ spooled' = TRUE
      /\ UNCHANGED <<route, pc, size, left, verify_bytes, verify_enabled, out>> /\ pc = "reading"
  BY DEF Spill
<1>2. Stages'
  BY <1>1 DEF RequestInv, Stages
<1>3. Counted'
  BY <1>1, Spilled DEF RequestInv, Counted
<1>4. QED
  BY <1>1, <1>2, <1>3, Spilled

\* The whole body is there.
LEMMA ReadyStep ==
  ASSUME RequestInv, BodyReady
  PROVE  Numbered' /\ Stages' /\ Counted'
<1>1. /\ pc = "reading" /\ left = 0 /\ pc' \in {"callback", "collect"}
      /\ UNCHANGED <<route, size, left, verify_bytes, verify_enabled, spooled, out>>
      /\ out = <<>> /\ Len(out) = 0
  BY EmptyVec DEF BodyReady, RequestInv, Stages
<1>2. CASE spooled
  <2>1. spool' = spool \o buffered /\ buffered' = <<>>
    BY <1>2 DEF BodyReady
  <2>2. /\ Numbered'
        /\ verify_enabled => verify_bytes = Len(spool') + Len(buffered')
        /\ route = "verify" /\ ~verify_enabled => spool' = <<>>
    BY <1>1, <2>1, Spilled
  <2>3. Stages'
    BY <1>1, <1>2, <2>1, <2>2 DEF Stages, Numbered
  <2>4. Counted'
    BY <1>1, <2>1, <2>2 DEF RequestInv, Counted
  <2>5. QED
    BY <2>2, <2>3, <2>4
<1>3. CASE ~spooled
  <2>1. UNCHANGED <<spool, buffered>>
    BY <1>3 DEF BodyReady
  <2>2. Numbered' /\ Counted'
    BY <1>1, <2>1 DEF RequestInv, Numbered, Counted
  <2>3. Stages'
    BY <1>1, <1>3, <2>1, <2>2 DEF RequestInv, Stages, Numbered
  <2>4. QED
    BY <2>2, <2>3
<1>4. QED
  BY <1>2, <1>3

\* request_body_limited over a chain in memory.
LEMMA MemoryStep ==
  ASSUME RequestInv, CollectMemory
  PROVE  Numbered' /\ Stages' /\ Counted'
<1>1. /\ pc = "collect" /\ ~spooled /\ left = 0 /\ spool = <<>> /\ Len(spool) = 0
      /\ UNCHANGED <<route, size, left, verify_bytes, verify_enabled, buffered, spool, spooled>>
  BY EmptyVec DEF CollectMemory, RequestInv, Stages
<1>2. CASE pc' = "unreadable" /\ UNCHANGED out
  <2>1. BodyKept
    BY <1>1, <1>2 DEF BodyKept
  <2>2. QED
    BY <2>1, KeptBody
<1>3. CASE pc' = "collected" /\ out' = buffered
  <2>1. /\ buffered \in Seq(Nat) /\ Len(buffered) = size /\ size \in Nat
        /\ \A i \in DOMAIN buffered : buffered[i] = i
    BY <1>1 DEF RequestInv, Numbered
  <2>2. Numbered'
    BY <1>1, <1>3, <2>1 DEF RequestInv, Numbered
  <2>3. Stages' /\ Counted'
    BY <1>1, <1>3, <2>1 DEF RequestInv, Stages, Counted
  <2>4. QED
    BY <2>2, <2>3
<1>4. QED
  BY <1>2, <1>3 DEF CollectMemory

\* read_file_range: what one pread brings.
LEMMA FileRead ==
  ASSUME RequestInv, NEW n \in Nat, CollectFile(n)
  PROVE  /\ pc = "collect" /\ spooled /\ left = 0 /\ n \in 0 .. Len(spool) - Len(out)
         /\ UNCHANGED <<route, size, left, verify_bytes, verify_enabled, buffered, spool, spooled>>
         /\ Len(spool) \in Nat /\ Len(out) \in Nat
         /\ Len(spool) = size /\ Len(out) <= Len(spool)
         /\ out' \in Seq(Nat) /\ Len(out') = Len(out) + n
         /\ \A i \in DOMAIN out' : out'[i] = i
<1> DEFINE more == ReadAt(Len(out), n)
<1>1. /\ pc = "collect" /\ spooled /\ left = 0 /\ n \in 0 .. Len(spool) - Len(out)
      /\ out' = out \o more
      /\ UNCHANGED <<route, size, left, verify_bytes, verify_enabled, buffered, spool, spooled>>
      /\ buffered = <<>> /\ Len(buffered) = 0
  BY EmptyVec DEF CollectFile, RequestInv, Stages
<1>2. /\ spool \in Seq(Nat) /\ out \in Seq(Nat) /\ Len(spool) \in Nat /\ Len(out) \in Nat
      /\ Len(spool) = size /\ Len(out) <= Len(spool)
      /\ \A i \in DOMAIN spool : spool[i] = i
      /\ \A i \in DOMAIN out : out[i] = i
  BY <1>1 DEF RequestInv, Numbered, Stages
<1>3. /\ more \in Seq(Nat) /\ Len(more) = n
      /\ \A i \in 1 .. n : more[i] = spool[Len(out) + i]
  <2>1. Len(out) + 1 \in 1 .. Len(spool) + 1 /\ Len(out) + n \in Len(out) + 1 - 1 .. Len(spool)
    BY <1>1, <1>2
  <2>2. /\ more \in Seq(Nat)
        /\ Len(more) = (Len(out) + n) - (Len(out) + 1) + 1
        /\ \A i \in 1 .. (Len(out) + n) - (Len(out) + 1) + 1 : more[i] = spool[(Len(out) + 1) + i - 1]
    <3> DEFINE a == Len(out) + 1
               b == Len(out) + n
    <3>1. a \in Int /\ b \in Int /\ \A i \in a .. b : spool[i] \in Nat
      BY <1>1, <1>2, <2>1, SMTT(30)
    <3>2. b - a + 1 \in Nat /\ (a <= b \/ b - a + 1 = 0)
      BY <1>1, <1>2
    <3>3. more = SubSeq(spool, a, b)
      BY DEF ReadAt
    <3> HIDE DEF a, b, more
    <3>4. /\ more \in Seq(Nat) /\ Len(more) = b - a + 1
          /\ \A i \in 1 .. b - a + 1 : more[i] = spool[a + i - 1]
      BY <3>1, <3>2, <3>3, SliceVec
    <3>5. QED
      BY <3>4 DEF a, b
  <2>3. (Len(out) + n) - (Len(out) + 1) + 1 = n /\ \A i \in 1 .. n : (Len(out) + 1) + i - 1 = Len(out) + i
    BY <1>1, <1>2
  <2> HIDE DEF more
  <2>4. QED
    BY <2>2, <2>3
<1> HIDE DEF more
<1>4. ASSUME NEW i \in DOMAIN more PROVE more[i] = Len(out) + i
  <2>1. i \in 1 .. n /\ Len(out) + i \in DOMAIN spool
    BY <1>1, <1>2, <1>3, SMTT(30)
  <2>2. QED
    BY <1>2, <1>3, <2>1
<1>5. /\ out' \in Seq(Nat) /\ Len(out') = Len(out) + n
      /\ \A i \in DOMAIN out' : out'[i] = i
  BY <1>1, <1>2, <1>3, <1>4, Joined, Zenon
<1>6. QED
  BY <1>1, <1>2, <1>5, Zenon

\* So it keeps what is known of the body.
LEMMA FileStep ==
  ASSUME RequestInv, NEW n \in Nat, CollectFile(n)
  PROVE  Numbered' /\ Stages' /\ Counted'
<1>1. /\ pc = "collect" /\ spooled /\ left = 0 /\ n \in 0 .. Len(spool) - Len(out)
      /\ UNCHANGED <<route, size, left, verify_bytes, verify_enabled, buffered, spool, spooled>>
  BY FileRead
<1>2. Len(spool) \in Nat /\ Len(out) \in Nat /\ Len(spool) = size /\ Len(out) <= Len(spool)
  BY FileRead
<1>3. buffered = <<>>
  BY <1>1 DEF RequestInv, Stages
<1>4. /\ out' \in Seq(Nat) /\ Len(out') = Len(out) + n
      /\ \A i \in DOMAIN out' : out'[i] = i
  BY FileRead
<1>5. \/ pc' = "unreadable"
      \/ pc' = "collected" /\ n = Len(spool) - Len(out)
      \/ pc' = "collect"
  BY DEF CollectFile
<1>6. Numbered'
  BY <1>1, <1>4, SMTT(30) DEF RequestInv, Numbered
<1>7. Stages'
  <2>1. Len(out') <= Len(spool') /\ (pc' = "collected" => Len(out') = size)
    BY <1>1, <1>2, <1>4, <1>5, SMTT(30)
  <2>2. QED
    BY <1>1, <1>3, <1>5, <2>1 DEF Stages
<1>8. Counted'
  BY <1>1, <1>5 DEF RequestInv, Counted
<1>9. QED
  BY <1>6, <1>7, <1>8

\* Every step of the request keeps what is known of its body.
LEMMA BodyStep ==
  ASSUME RequestInv, RequestNext
  PROVE  Numbered' /\ Stages' /\ Counted'
<1>1. MaxBody \in Nat
  BY LifeAssumption
<1>2. CASE Decline \/ AnswerAtOnce \/ DenyOrNoJs \/ ChallengePage \/ Pass
  <2>1. BodyKept
    BY <1>2 DEF BodyKept, Decline, AnswerAtOnce, DenyOrNoJs, Done, ChallengePage, Pass
  <2>2. QED
    BY <2>1, KeptBody
<1>3. CASE Suspend \/ Answer \/ Redeem \/ Return \/ Complete \/ Terminate \/ Quiet
  <2>1. BodyKept
    BY <1>3 DEF BodyKept, Suspend, Answer, Redeem, Return, Complete, Terminate, Quiet, After
  <2>2. QED
    BY <2>1, KeptBody
<1>4. ASSUME NEW n, ReadFails(n) PROVE BodyKept
  BY <1>4 DEF BodyKept, ReadFails
<1>5. ASSUME NEW safe, BodyReadyPage(safe) PROVE BodyKept
  BY <1>5 DEF BodyKept, BodyReadyPage, After
<1>6. ASSUME NEW text, NEW level, NEW hash, VerifyBody(text, level, hash) PROVE BodyKept
  BY <1>6 DEF BodyKept, VerifyBody, After
<1>7. ASSUME NEW n \in 0 .. MaxBody,
             Capture(n) \/ \E declared \in {Unknown, n} : VerifySolution(n, declared)
      PROVE  Numbered' /\ Stages' /\ Counted'
  BY <1>1, <1>7, ReadStep
<1>8. ASSUME NEW n \in 0 .. MaxBody, CollectFile(n) PROVE Numbered' /\ Stages' /\ Counted'
  BY <1>1, <1>8, FileStep
<1>9. ASSUME NEW n \in 1 .. MaxBody, Arrive(n) PROVE Numbered' /\ Stages' /\ Counted'
  BY <1>1, <1>9, ArriveStep
<1>10. QED
  BY <1>2, <1>3, <1>4, <1>5, <1>6, <1>7, <1>8, <1>9, KeptBody, SpillStep, ReadyStep, MemoryStep
     DEF RequestNext, Progress

LEMMA InitInv == ServedInit => RequestInv
<1> SUFFICES ASSUME RequestInit PROVE RequestInv
  BY DEF ServedInit
<1> USE DEF RequestInit
<1>1. Control /\ Accounted
  BY Zenon DEF Control, Accounted
<1>2. Numbered
  BY EmptyVec DEF Numbered
<1>3. Stages /\ Counted
  BY EmptyVec, LifeAssumption, Zenon DEF Stages, Counted
<1>4. QED
  BY <1>1, <1>2, <1>3 DEF RequestInv

\* A request is accepted under some configuration, and lives from then on.
LEMMA NextInv == RequestInv /\ [ServedNext]_servedVars => RequestInv'
<1> SUFFICES ASSUME RequestInv, [ServedNext]_servedVars PROVE RequestInv'
  OBVIOUS
<1>1. CASE UNCHANGED requestVars
  <2> USE <1>1
  <2>1. Control' /\ Accounted'
    BY DEF RequestInv, Control, Accounted
  <2>2. Numbered'
    BY DEF RequestInv, Numbered
  <2>3. Stages'
    BY DEF RequestInv, Stages
  <2>4. Counted'
    BY DEF RequestInv, Counted
  <2>5. QED
    BY <2>1, <2>2, <2>3, <2>4 DEF RequestInv
<1>2. ASSUME NEW c, NEW d, Accept(c, d) PROVE RequestInv'
  <2> USE <1>2 DEF Accept
  <2>1. Control' /\ Accounted'
    BY DEF RequestInv, Control, Accounted
  <2>2. Numbered'
    BY DEF RequestInv, Numbered
  <2>3. Stages'
    BY DEF RequestInv, Stages
  <2>4. spool = <<>> /\ buffered = <<>> /\ ~verify_enabled
    BY EmptyVec DEF RequestInv, Stages, Numbered
  <2>5. Counted'
    BY <2>4 DEF RequestInv, Counted
  <2>6. QED
    BY <2>1, <2>2, <2>3, <2>5 DEF RequestInv
<1>3. CASE RequestNext
  BY <1>3, ControlStep, BodyStep DEF RequestInv
<1>4. QED
  BY <1>1, <1>2, <1>3 DEF ServedNext, AcceptIn, NotStarted, servedVars

LEMMA Invariance == ServedSafety => []RequestInv
BY InitInv, NextInv, PTL DEF ServedSafety

(***************************************************************************)
(* engine/pow.rs, replay.rs and cluster.rs: the reference count of a       *)
(* request is one for the answer it is owed and one for the handler inside *)
(* a body read, so that it is released once, after its last use.           *)
(***************************************************************************)
THEOREM RequestsAreReleasedOnce == ServedSafety => []Accounted
<1>1. RequestInv => Accounted
  BY DEF RequestInv
<1>2. QED
  BY <1>1, Invariance, PTL

\* One pread that leaves the collection where it was has brought some bytes.
LEMMA FileAdvance ==
  ASSUME RequestInv, NEW n \in Nat, CollectFile(n)
  PROVE  \/ Distance' < Distance
         \/ /\ Distance' = Distance /\ spool' = spool
            /\ Len(out) < Len(out') /\ Len(out') <= Len(spool)
<1>1. pc = "collect" /\ spool' = spool /\ n \in 0 .. Len(spool) - Len(out)
  BY DEF CollectFile
<1>2. CASE pc' = "collect"
  <2>1. n # 0
    BY <1>2 DEF CollectFile
  <2>2. Len(out) \in Nat /\ Len(spool) \in Nat /\ Len(out') = Len(out) + n
    BY FileRead
  <2>3. Len(out) < Len(out') /\ Len(out') <= Len(spool)
    BY <1>1, <2>1, <2>2
  <2>4. QED
    BY <1>1, <1>2, <2>3 DEF Distance
<1>3. CASE pc' # "collect"
  <2>1. pc' \in {"unreadable", "collected"}
    BY <1>3 DEF CollectFile
  <2>2. QED
    BY <1>1, <2>1 DEF Distance
<1>4. QED
  BY <1>2, <1>3

\* The steps of handlers, callbacks and jobs, one by one.
LEMMA ProgressAdvance ==
  ASSUME RequestInv, Progress
  PROVE  /\ pc' # "none"
         /\ \/ Distance' < Distance
            \/ /\ Distance' = Distance /\ spool' = spool
               /\ Len(out) < Len(out') /\ Len(out') <= Len(spool)
<1>0. Control /\ Control'
  BY ControlStep DEF RequestInv, RequestNext
<1> USE DEF Distance
<1>1. CASE Decline \/ AnswerAtOnce \/ DenyOrNoJs \/ ChallengePage
  <2>1. pc = "new" /\ pc' = "over" /\ cleanup' = cleanup
    BY <1>1 DEF Decline, AnswerAtOnce, DenyOrNoJs, Done, ChallengePage, Challenged
  <2>2. QED
    BY <2>1
<1>2. CASE Pass
  BY <1>2 DEF Pass
<1>3. ASSUME NEW n, Capture(n) \/ \E declared \in {Unknown, n} : VerifySolution(n, declared)
      PROVE  pc' # "none" /\ Distance' < Distance
  <2>1. pc = "new" /\ pc' = "reading"
    BY <1>3 DEF Capture, Challenged, VerifySolution, ReadBody
  <2>2. QED
    BY <2>1
<1>4. ASSUME NEW n, ReadFails(n) PROVE pc' # "none" /\ Distance' < Distance
  BY <1>4 DEF ReadFails
<1>5. ASSUME NEW n \in 0 .. MaxBody, CollectFile(n)
      PROVE  /\ pc' # "none"
             /\ \/ Distance' < Distance
                \/ /\ Distance' = Distance /\ spool' = spool
                   /\ Len(out) < Len(out') /\ Len(out') <= Len(spool)
  <2>1. pc' # "none"
    BY <1>5 DEF CollectFile
  <2>2. n \in Nat
    BY LifeAssumption
  <2>3. QED
    BY <1>5, <2>1, <2>2, FileAdvance, Zenon
<1>6. CASE Suspend
  <2>1. pc = "reading" /\ pc' = "reading" /\ inside /\ ~inside'
    BY <1>6, Zenon DEF Suspend
  <2>2. QED
    BY <2>1
<1>7. CASE BodyReady \/ CollectMemory
  BY <1>7 DEF BodyReady, CollectMemory
<1>8. CASE Answer \/ Redeem
  BY <1>8 DEF Answer, Redeem, After
<1>9. CASE Return
  BY <1>9 DEF Return
<1>10. CASE Complete \/ Terminate
  <2>1. Distance # 0
    BY <1>10 DEF Complete, Terminate
  <2>2. pc' \in {"over", "gone"} /\ ~cleanup'
    BY <1>10, Zenon DEF Complete, Terminate
  <2>3. QED
    BY <2>1, <2>2
<1>11. ASSUME NEW safe, BodyReadyPage(safe) PROVE pc' # "none" /\ Distance' < Distance
  BY <1>11 DEF BodyReadyPage, After
<1>12. ASSUME NEW text, NEW level, NEW hash, VerifyBody(text, level, hash) PROVE pc' # "none" /\ Distance' < Distance
  BY <1>12 DEF VerifyBody, After
<1>13. QED
  BY <1>1, <1>2, <1>3, <1>4, <1>5, <1>6, <1>7, <1>8, <1>9, <1>10, <1>11, <1>12, Zenon DEF Progress

(***************************************************************************)
(* engine/pow.rs, runtime.rs, replay.rs and cluster.rs: every step of a    *)
(* handler, a callback or a job brings the request closer to its end, and  *)
(* nothing the client sends takes it back.  With an nginx that keeps       *)
(* running what is runnable, this is why EveryRequestEnds holds for bodies *)
(* of any length.                                                          *)
(***************************************************************************)
THEOREM RequestsMoveOn == ServedSafety => RequestAdvances
<1> DEFINE Advance ==
             pc # "none" =>
               /\ Distance' <= Distance
               /\ Progress => \/ Distance' < Distance
                              \/ /\ Distance' = Distance /\ spool' = spool
                                 /\ Len(out) < Len(out') /\ Len(out') <= Len(spool)
               /\ Distance' = 0 => count' = 0
<1>1. ASSUME RequestInv, RequestInv', [ServedNext]_servedVars
      PROVE  [Advance]_requestVars
  <2> SUFFICES ASSUME ~ UNCHANGED requestVars, pc # "none" PROVE Advance
    OBVIOUS
  <2>1. RequestNext
    BY <1>1 DEF ServedNext, AcceptIn, Accept, NotStarted, servedVars
  <2>2. Distance \in 0 .. 8 /\ Distance' \in 0 .. 8
    BY DEF Distance
  <2>3. pc' # "none"
    <3>1. CASE Progress
      BY <1>1, <3>1, ProgressAdvance, Zenon
    <3>2. CASE ~Progress
      BY <2>1, <3>2 DEF RequestNext, Arrive, Spill, Quiet, life, requestVars
    <3>3. QED
      BY <3>1, <3>2
  <2>4. Distance' = 0 => count' = 0
    <3>1. SUFFICES ASSUME Distance' = 0 PROVE count' = 0
      OBVIOUS
    <3>2. Control' /\ Accounted'
      BY <1>1 DEF RequestInv
    <3>3. pc' = "gone" \/ (pc' = "over" /\ ~cleanup')
      BY <2>3, <3>1, <3>2 DEF Distance, Control
    <3>4. ~inside' /\ (pc' = "gone" \/ sent' # 0)
      BY <3>2, <3>3 DEF Control
    <3>5. QED
      BY <2>3, <3>2, <3>3, <3>4 DEF Accounted
  <2>5. CASE Progress
    BY <1>1, <2>2, <2>4, <2>5, ProgressAdvance
  <2>6. CASE ~Progress
    <3>1. UNCHANGED <<pc, inside, cleanup>>
      BY <1>1, <2>1, <2>6 DEF RequestNext, Arrive, Spill, Quiet, life, requestVars
    <3>2. Distance' = Distance
      BY <3>1 DEF Distance
    <3>3. QED
      BY <2>2, <2>4, <2>6, <3>2
  <2>7. QED
    BY <2>5, <2>6
<1>2. QED
  BY <1>1, Invariance, PTL DEF ServedSafety, RequestAdvances

\* What is known of the body makes it exact.
LEMMA CollectedBody == RequestInv => BodyExact
<1> SUFFICES ASSUME RequestInv PROVE BodyExact
  OBVIOUS
<1>1. ASSUME pc = "collected" PROVE out = Bytes(1, size)
  <2>1. out \in Seq(Nat) /\ Len(out) = size /\ size \in Nat /\ \A i \in DOMAIN out : out[i] = i
    BY <1>1 DEF RequestInv, Numbered, Stages
  <2>2. out = [i \in 1 .. size |-> out[i]] /\ DOMAIN out = 1 .. size
    BY <2>1
  <2>3. Bytes(1, size) = [i \in 1 .. size |-> i]
    BY <2>1 DEF Bytes
  <2>4. QED
    BY <2>1, <2>2, <2>3
<1>2. ASSUME route = "verify" PROVE Len(buffered) + Len(spool) <= Limit
  <2>1. spool \in Seq(Nat) /\ buffered \in Seq(Nat)
    BY DEF RequestInv, Numbered
  <2>2. CASE verify_enabled
    BY <2>1, <2>2, LifeAssumption DEF RequestInv, Counted
  <2>3. CASE ~verify_enabled
    BY <1>2, <2>3, EmptyVec, LifeAssumption DEF RequestInv, Counted
  <2>4. QED
    BY <2>2, <2>3
<1>3. QED
  BY <1>1, <1>2 DEF BodyExact

(***************************************************************************)
(* runtime.rs and body_limit.rs: a collected body is the one that was      *)
(* sent, however it was cut, spilled and read back, and nginx never holds  *)
(* more than VERIFY_LIMIT bytes of a verify body.                          *)
(***************************************************************************)
THEOREM BodiesAreExact == ServedSafety => []BodyExact
BY CollectedBody, Invariance, PTL

\* The page is the plain one until body_ready renders it.
PageInv ==
  page # Plain => pc \in {"return", "over", "gone"} /\ page \in {<<>>, Bytes(1, size)}

LEMMA PageStep ==
  ASSUME RequestInv, PageInv, RequestNext
  PROVE  PageInv'
<1>1. ASSUME NEW safe, BodyReadyPage(safe) PROVE PageInv'
  <2>1. pc' \in {"return", "over"} /\ size' = size
    BY <1>1 DEF BodyReadyPage, After, body
  <2>2. pc = "collected" => out = Bytes(1, size)
    BY CollectedBody DEF BodyExact
  <2>3. page' \in {Plain, <<>>, Bytes(1, size)}
    BY <1>1, <2>2 DEF BodyReadyPage
  <2>4. Bytes(1, size') = Bytes(1, size)
    BY <2>1
  <2>5. QED
    BY <2>1, <2>3, <2>4, Zenon DEF PageInv
<1>2. ASSUME page' = page, size' = size, pc' \in {"return", "over", "gone"} \/ pc' = pc PROVE PageInv'
  <2>1. Bytes(1, size') = Bytes(1, size)
    BY <1>2
  <2>2. QED
    BY <1>2, <2>1, Zenon DEF PageInv
<1>3. ASSUME page' = page, pc \notin {"return", "over", "gone"} PROVE PageInv'
  BY <1>3, Zenon DEF PageInv
<1>4. ASSUME page' = Plain PROVE PageInv'
  BY <1>4, Zenon DEF PageInv
<1>5. CASE Decline \/ AnswerAtOnce \/ DenyOrNoJs \/ Pass
  BY <1>3, <1>5 DEF Decline, AnswerAtOnce, DenyOrNoJs, Done, Pass, outcome
<1>6. CASE ChallengePage
  BY <1>4, <1>6 DEF ChallengePage
<1>7. ASSUME NEW n, Capture(n) \/ CollectFile(n) \/ Arrive(n)
                      \/ \E declared \in {Unknown, n} : VerifySolution(n, declared)
      PROVE  PageInv'
  <2>1. page' = page /\ pc \in {"new", "collect", "reading"}
    BY <1>7 DEF Capture, Challenged, CollectFile, VerifySolution, Arrive, ReadBody, outcome
  <2>2. QED
    BY <1>3, <2>1
<1>8. ASSUME NEW n, ReadFails(n) PROVE PageInv'
  <2>1. pc = "reading" /\ page' \in {page, Plain}
    BY <1>8 DEF ReadFails
  <2>2. QED
    BY <1>3, <1>4, <2>1
<1>9. CASE Suspend \/ BodyReady \/ CollectMemory \/ Spill
  <2>1. page' = page /\ pc \in {"reading", "collect"}
    BY <1>9 DEF Suspend, BodyReady, CollectMemory, Spill, outcome
  <2>2. QED
    BY <1>3, <2>1
<1>10. CASE Answer \/ Redeem \/ Return \/ Complete \/ Terminate \/ Quiet
  <2>1. page' = page /\ size' = size /\ (pc' \in {"return", "over", "gone"} \/ pc' = pc)
    BY <1>10 DEF Answer, Redeem, Return, Complete, Terminate, Quiet, After, outcome, body,
                requestVars, life
  <2>2. QED
    BY <1>2, <2>1
<1>11. ASSUME NEW text, NEW level, NEW hash, VerifyBody(text, level, hash) PROVE PageInv'
  <2>1. page' = page /\ pc = "collected"
    BY <1>11 DEF VerifyBody
  <2>2. QED
    BY <1>3, <2>1
<1>12. QED
  BY <1>1, <1>5, <1>6, <1>7, <1>8, <1>9, <1>10, <1>11, Zenon DEF RequestNext, Progress

(***************************************************************************)
(* replay.rs, body_ready: a challenge page carries the whole body of the   *)
(* captured request, or none of it where it could not be read; never a     *)
(* part.  (That it may carry none is what ReplayIsWhole is violated by.)   *)
(***************************************************************************)
THEOREM PagesCarryNoPart == ServedSafety => []ReplayIsWholeOrEmpty
<1>1. ServedInit => PageInv
  BY Zenon DEF ServedInit, RequestInit, PageInv
<1>2. RequestInv /\ PageInv /\ [ServedNext]_servedVars => PageInv'
  <2> SUFFICES ASSUME RequestInv, PageInv, [ServedNext]_servedVars PROVE PageInv'
    OBVIOUS
  <2>1. CASE UNCHANGED requestVars
    <3>1. UNCHANGED <<pc, page, size>>
      BY <2>1 DEF requestVars, life, outcome, body
    <3>2. Bytes(1, size') = Bytes(1, size)
      BY <3>1
    <3>3. QED
      BY <3>1, <3>2, Zenon DEF PageInv
  <2>2. ASSUME NEW c, NEW d, Accept(c, d) PROVE PageInv'
    <3>1. pc = "none" /\ page' = page
      BY <2>2 DEF Accept, outcome
    <3>2. QED
      BY <3>1, Zenon DEF PageInv
  <2>3. CASE RequestNext
    BY <2>3, PageStep
  <2>4. QED
    BY <2>1, <2>2, <2>3 DEF ServedNext, AcceptIn, NotStarted, servedVars
<1>3. PageInv => ReplayIsWholeOrEmpty
  BY Zenon DEF PageInv, ReplayIsWholeOrEmpty
<1>4. QED
  BY <1>1, <1>2, <1>3, Invariance, PTL DEF ServedSafety

-----------------------------------------------------------------------------

\* The merge of three levels yields the value of the nearest block that says
\* something, in the words of Nearest.
LEMMA NearestIs ==
  ASSUME NEW l, NEW n
  PROVE  Nearest(l, n) = IF IsSet(written[l][n]) THEN written[l][n]
                         ELSE IF IsSet(written["server"][n]) THEN written["server"][n]
                         ELSE IF IsSet(written["http"][n]) THEN written["http"][n]
                         ELSE Defaults[n]
<1> DEFINE around == <<l, "server", "http">>
           saying == {i \in DOMAIN around : IsSet(written[around[i]][n])}
           first == CHOOSE i \in saying : \A j \in saying : i <= j
<1>1. /\ DOMAIN around = 1 .. 3
      /\ around[1] = l /\ around[2] = "server" /\ around[3] = "http"
  OBVIOUS
<1>2. Nearest(l, n) = IF saying = {} THEN Defaults[n] ELSE written[around[first]][n]
  BY Zenon DEF Nearest
<1>3. /\ \A i \in saying : i = 1 \/ i = 2 \/ i = 3
      /\ 1 \in saying <=> IsSet(written[l][n])
      /\ 2 \in saying <=> IsSet(written["server"][n])
      /\ 3 \in saying <=> IsSet(written["http"][n])
  <2> HIDE DEF around
  <2>1. \A i : i \in saying <=> (i = 1 \/ i = 2 \/ i = 3) /\ IsSet(written[around[i]][n])
    BY <1>1
  <2> HIDE DEF saying
  <2>2. QED
    BY <1>1, <2>1
<1> HIDE DEF around, saying
<1>4. ASSUME NEW m \in saying, \A j \in saying : m <= j
      PROVE  first = m
  <2>1. first \in saying /\ \A j \in saying : first <= j
    <3>1. \E i \in saying : \A j \in saying : i <= j
      BY <1>4
    <3>2. QED
      BY <3>1, Zenon
  <2>2. first <= m /\ m <= first
    BY <1>4, <2>1
  <2>3. first \in Int /\ m \in Int
    BY <1>3, <1>4, <2>1
  <2> HIDE DEF first
  <2>4. QED
    BY <2>2, <2>3
<1> HIDE DEF first
<1>5. CASE 1 \in saying
  <2>1. first = 1
    BY <1>3, <1>4, <1>5
  <2>2. QED
    BY <1>1, <1>2, <1>3, <1>5, <2>1
<1>6. CASE 1 \notin saying /\ 2 \in saying
  <2>1. first = 2
    BY <1>3, <1>4, <1>6
  <2>2. QED
    BY <1>1, <1>2, <1>3, <1>6, <2>1
<1>7. CASE 1 \notin saying /\ 2 \notin saying /\ 3 \in saying
  <2>1. first = 3
    BY <1>3, <1>4, <1>7
  <2>2. QED
    BY <1>1, <1>2, <1>3, <1>7, <2>1
<1>8. CASE saying = {}
  BY <1>2, <1>3, <1>8
<1>9. QED
  BY <1>3, <1>5, <1>6, <1>7, <1>8, Zenon

LEMMA MergedIsNearest ==
  ASSUME NEW l \in Locations, NEW n \in Settings
  PROVE  Merged(written[l], Server)[n] = Nearest(l, n)
<1>1. Server[n] = IF IsSet(written["server"][n]) THEN written["server"][n]
                  ELSE IF IsSet(written["http"][n]) THEN written["http"][n]
                  ELSE Defaults[n]
  BY DEF Server, Merged
<1>2. Merged(written[l], Server)[n] = IF IsSet(written[l][n]) THEN written[l][n]
                                      ELSE IF IsSet(Server[n]) THEN Server[n] ELSE Defaults[n]
  BY DEF Merged
<1>3. QED
  BY <1>1, <1>2, NearestIs, Zenon

\* What a location ends up with is a value of the setting or its default.
LEMMA NearestIsValue ==
  ASSUME Parsed(written), NEW l \in Locations, NEW n \in Settings
  PROVE  Nearest(l, n) \in Values[n] \union {Defaults[n]}
<1>1. \A b \in Blocks : IsSet(written[b][n]) => written[b][n] \in Values[n]
  BY DEF Parsed, IsSet
<1>2. l \in Blocks /\ "server" \in Blocks /\ "http" \in Blocks
  BY DEF Blocks
<1>3. QED
  BY <1>1, <1>2, NearestIs

LEMMA InitConfig == ServedInit => ConfigInv
<1> SUFFICES ASSUME ConfigInit PROVE ConfigInv
  BY DEF ServedInit
<1>1. Parsed(written)
  BY ConfigurationAssumption DEF ConfigInit
<1>2. QED
  BY <1>1, Zenon DEF ConfigInit, ConfigInv, Undecided

LEMMA DirectiveConfig ==
  ASSUME ConfigInv, NEW block \in Blocks, NEW n \in Settings, NEW v \in Values[n], Directive(block, n, v)
  PROVE  ConfigInv'
<1>1. stage = "parsing" /\ stage' # "running" /\ UNCHANGED <<conf, keys, resolved>>
  BY DEF Directive
<1>2. \A l \in Locations : resolved[l] = Unresolved
  BY <1>1 DEF ConfigInv
<1>3. Parsed(written')
  <2>1. CASE UNCHANGED written
    BY <2>1, Zenon DEF ConfigInv
  <2>2. CASE written' = [written EXCEPT ![block][n] = v]
    BY <2>2 DEF ConfigInv, Parsed
  <2>3. QED
    BY <2>1, <2>2 DEF Directive
<1>4. QED
  BY <1>1, <1>2, <1>3, Zenon DEF ConfigInv

LEMMA ConfigureConfig ==
  ASSUME ConfigInv, NEW usable \in SUBSET Values["hmac_key_file"], Configure(usable)
  PROVE  ConfigInv'
<1>1. stage = "parsing" /\ UNCHANGED <<written, directives, keys, resolved>>
  BY Zenon DEF Configure
<1>2. \A l \in Locations : resolved[l] = Unresolved
  BY <1>1, Zenon DEF ConfigInv
<1>3. UNCHANGED Server
  BY <1>1 DEF Server
<1>4. ASSUME stage' = "running", NEW l \in Locations
      PROVE  conf'[l] = Merged(written'[l], Server') /\ ~Refuses(conf'[l], usable)
  BY <1>1, <1>3, <1>4 DEF Configure
<1>5. QED
  BY <1>1, <1>2, <1>4, Zenon DEF ConfigInv

LEMMA ResolveConfig ==
  ASSUME ConfigInv, NEW l \in Locations, NEW found \in Contents, Resolve(l, found)
  PROVE  ConfigInv'
<1> DEFINE path == conf[l]["hmac_key_file"]
           key == LoadKey(path, IF path = Blank THEN Weak ELSE found)
<1>1. /\ stage = "running" /\ UNCHANGED <<stage, written, directives, conf>>
      /\ keys' = [keys EXCEPT ![path] = key]
      /\ resolved' = [resolved EXCEPT ![l] = BuildCfg(conf[l], key)]
  BY Zenon DEF Resolve
<1>2. key # Unresolved /\ (keys[path] # Unresolved => key = keys[path])
  BY ConfigurationAssumption DEF LoadKey
<1>3. path \in Paths
  <2>1. path = Nearest(l, "hmac_key_file")
    BY <1>1, MergedIsNearest, ConfigurationAssumption, Zenon DEF ConfigInv
  <2>2. QED
    BY <2>1, NearestIsValue, ConfigurationAssumption, ZenonT(40) DEF ConfigInv, Paths
<1>4. UNCHANGED Server
  BY <1>1, Zenon DEF Server
<1> HIDE DEF key
<1>5. ASSUME NEW m \in Locations, resolved'[m] # Unresolved
      PROVE  LET k == keys'[conf'[m]["hmac_key_file"]]
             IN stage' = "running" /\ k # Unresolved /\ resolved'[m] = BuildCfg(conf'[m], k)
  <2>1. CASE m = l
    BY <1>1, <1>2, <1>3, <2>1, Zenon DEF ConfigInv
  <2>2. CASE m # l
    <3>1. resolved'[m] = resolved[m]
      BY <1>1, <2>2, Zenon DEF ConfigInv
    <3>2. LET k == keys[conf[m]["hmac_key_file"]]
          IN k # Unresolved /\ resolved[m] = BuildCfg(conf[m], k)
      BY <1>5, <3>1, Zenon DEF ConfigInv
    <3>3. keys'[conf[m]["hmac_key_file"]] = keys[conf[m]["hmac_key_file"]]
      BY <1>1, <1>2, <3>2
    <3>4. QED
      BY <1>1, <3>1, <3>2, <3>3
  <2>3. QED
    BY <2>1, <2>2, Zenon
<1>6. DOMAIN keys' = Paths /\ DOMAIN resolved' = Locations /\ Parsed(written')
  BY <1>1, Zenon DEF ConfigInv
<1>7. ASSUME NEW m \in Locations
      PROVE  /\ conf'[m] = Merged(written'[m], Server')
             /\ \E usable \in SUBSET Values["hmac_key_file"] : ~Refuses(conf'[m], usable)
  BY <1>1, <1>4, Zenon DEF ConfigInv
<1>8. QED
  BY <1>5, <1>6, <1>7, Zenon DEF ConfigInv

\* A request that is accepted puts the configuration aside.
LEMMA ForgottenConfig ==
  ASSUME ConfigInv, Forgotten
  PROVE  ConfigInv'
<1>1. Parsed(written')
  BY DEF Forgotten, Nothing, Parsed
<1>2. QED
  BY <1>1, Zenon DEF Forgotten, ConfigInv, Undecided

LEMMA NextConfig == ConfigInv /\ [ServedNext]_servedVars => ConfigInv'
<1> SUFFICES ASSUME ConfigInv, [ServedNext]_servedVars PROVE ConfigInv'
  OBVIOUS
<1>1. CASE UNCHANGED configVars
  <2>1. UNCHANGED <<stage, written, conf, keys, resolved>>
    BY <1>1 DEF configVars
  <2>2. UNCHANGED Server
    BY <2>1 DEF Server
  <2>3. QED
    BY <2>1, <2>2, Zenon DEF ConfigInv
<1>2. CASE ConfigNext
  BY <1>2, DirectiveConfig, ConfigureConfig, ResolveConfig, Zenon DEF ConfigNext
<1>3. QED
  BY <1>1, <1>2, ForgottenConfig DEF ServedNext, AcceptIn, NotStarted, servedVars

LEMMA ConfigInvariance == ServedSafety => []ConfigInv
BY InitConfig, NextConfig, PTL DEF ServedSafety

\* What a location runs with, in terms of what was written.
LEMMA RunsAsWritten ==
  ASSUME ConfigInv, stage = "running", NEW l \in Locations, NEW n \in Settings
  PROVE  conf[l][n] = Nearest(l, n)
<1>1. conf[l] = Merged(written[l], Server)
  BY Zenon DEF ConfigInv
<1>2. QED
  BY <1>1, MergedIsNearest

\* The fields of a Cfg that the properties speak of.
LEMMA Built ==
  ASSUME NEW c, NEW key
  PROVE  LET b == BuildCfg(c, key)
         IN /\ b.key = key
            /\ b.key_ok = (key # Weak)
            /\ b.name = EffectiveName(c)
            /\ b.domain = c["cookie_domain"] /\ b.path = c["cookie_path"]
            /\ b.http_only = (c["cookie_httponly"] # 0)
            /\ b.samesite = c["cookie_samesite"]
            /\ b.secure = (c["cookie_secure"] # 0)
BY Zenon DEF BuildCfg

\* build_cfg takes the difficulty as it is.
LEMMA BuiltDifficulty ==
  ASSUME NEW c, NEW key
  PROVE  BuildCfg(c, key).difficulty = c["difficulty"]
BY Zenon DEF BuildCfg

(***************************************************************************)
(* config.rs: a configuration that starts gives each location the settings *)
(* of the nearest block around it, and has none that the gate cannot run   *)
(* with, for every configuration.                                          *)
(***************************************************************************)
THEOREM ConfigurationMeansWhatItSays == ServedSafety => []MeansWhatItSays
<1>1. ConfigInv => MeansWhatItSays
  <2> SUFFICES ASSUME ConfigInv, stage = "running", NEW l \in Locations
               PROVE  /\ \A n \in Settings : conf[l][n] = Nearest(l, n)
                      /\ Nearest(l, "ipv4_prefix") \in 1 .. 32 /\ Nearest(l, "ipv6_prefix") \in 1 .. 128
                      /\ Nearest(l, "enabled") # 0
                           => Nearest(l, "difficulty") > 0 /\ Nearest(l, "clearance_ttl") > 0
    BY DEF MeansWhatItSays
  <2>1. \A n \in Settings : conf[l][n] = Nearest(l, n)
    BY RunsAsWritten
  <2>2. Nearest(l, "difficulty") \in Nat /\ Nearest(l, "clearance_ttl") \in Int
    <3>1. Parsed(written)
      BY Zenon DEF ConfigInv
    <3>2. QED
      BY <3>1, NearestIsValue, ConfigurationAssumption
  <2>3. PICK usable : ~Refuses(conf[l], usable)
    BY Zenon DEF ConfigInv
  <2>4. {"enabled", "difficulty", "clearance_ttl", "ipv4_prefix", "ipv6_prefix"} \subseteq Settings
    BY ConfigurationAssumption
  <2>5. /\ conf[l]["enabled"] = Nearest(l, "enabled")
        /\ conf[l]["difficulty"] = Nearest(l, "difficulty")
        /\ conf[l]["clearance_ttl"] = Nearest(l, "clearance_ttl")
        /\ conf[l]["ipv4_prefix"] = Nearest(l, "ipv4_prefix")
        /\ conf[l]["ipv6_prefix"] = Nearest(l, "ipv6_prefix")
    BY <2>1, <2>4
  <2>6. /\ conf[l]["ipv4_prefix"] \in 1 .. 32 /\ conf[l]["ipv6_prefix"] \in 1 .. 128
        /\ conf[l]["enabled"] # 0 => conf[l]["difficulty"] # 0 /\ ~(conf[l]["clearance_ttl"] <= 0)
    BY <2>3, Zenon DEF Refuses
  <2>7. Nearest(l, "ipv4_prefix") \in 1 .. 32 /\ Nearest(l, "ipv6_prefix") \in 1 .. 128
    BY <2>5, <2>6, ZenonT(40)
  <2>8. Nearest(l, "enabled") # 0
          => Nearest(l, "difficulty") # 0 /\ ~(Nearest(l, "clearance_ttl") <= 0)
    BY <2>5, <2>6, Zenon
  <2>9. Nearest(l, "enabled") # 0 => Nearest(l, "difficulty") > 0 /\ Nearest(l, "clearance_ttl") > 0
    BY <2>2, <2>8
  <2>10. QED
    BY <2>1, <2>7, <2>9, Zenon
<1>2. QED
  BY <1>1, ConfigInvariance, PTL

(***************************************************************************)
(* load_key of runtime.rs: locations that name one key file use one key,   *)
(* whatever happens to the file between their first requests.              *)
(***************************************************************************)
THEOREM KeysAreShared == ServedSafety => []OneKeyPerFile
<1>1. ConfigInv => OneKeyPerFile
  <2> SUFFICES ASSUME ConfigInv, NEW l \in Locations, NEW m \in Locations,
                      resolved[l] # Unresolved, resolved[m] # Unresolved,
                      Nearest(l, "hmac_key_file") = Nearest(m, "hmac_key_file")
               PROVE  resolved[l].key = resolved[m].key /\ (resolved[l].key_ok <=> resolved[l].key # Weak)
    BY DEF OneKeyPerFile
  <2>1. conf[l]["hmac_key_file"] = conf[m]["hmac_key_file"]
    BY RunsAsWritten, ConfigurationAssumption, ZenonT(40) DEF ConfigInv
  <2>2. /\ resolved[l] = BuildCfg(conf[l], keys[conf[l]["hmac_key_file"]])
        /\ resolved[m] = BuildCfg(conf[m], keys[conf[l]["hmac_key_file"]])
    BY <2>1, Zenon DEF ConfigInv
  <2> DEFINE k == keys[conf[l]["hmac_key_file"]]
  <2> HIDE DEF k
  <2>3. resolved[l].key = k /\ resolved[l].key_ok = (k # Weak) /\ resolved[m].key = k
    <3>1. resolved[l] = BuildCfg(conf[l], k) /\ resolved[m] = BuildCfg(conf[m], k)
      BY <2>2 DEF k
    <3>2. ASSUME NEW x PROVE BuildCfg(x, k).key = k /\ BuildCfg(x, k).key_ok = (k # Weak)
      BY Zenon DEF BuildCfg
    <3>3. QED
      BY <3>1, <3>2
  <2>4. QED
    BY <2>3, Zenon
<1>2. QED
  BY <1>1, ConfigInvariance, PTL

(***************************************************************************)
(* scoped_name of cookie.rs: locations with scoped names share a cookie    *)
(* name if browsers treat their cookies alike, and only then.              *)
(***************************************************************************)
THEOREM NamesTellCookiesApart == ServedSafety => []SameNameSameCookie
<1>1. ConfigInv => SameNameSameCookie
  <2> DEFINE alike == {"cookie_name", "endpoint", "policy", "ipv4_prefix", "ipv6_prefix"}
  <2> SUFFICES ASSUME ConfigInv, NEW l \in Locations, NEW m \in Locations,
                      resolved[l] # Unresolved, resolved[m] # Unresolved,
                      Nearest(l, "cookie_scope_suffix") # 0, Nearest(m, "cookie_scope_suffix") # 0
               PROVE  /\ resolved[l].name = resolved[m].name => Seen(resolved[l]) = Seen(resolved[m])
                      /\ /\ Seen(resolved[l]) = Seen(resolved[m])
                         /\ \A n \in alike : Nearest(l, n) = Nearest(m, n)
                         => resolved[l].name = resolved[m].name
    BY DEF SameNameSameCookie
  <2> DEFINE c == conf[l]
             d == conf[m]
  <2>1. /\ c["cookie_scope_suffix"] # 0 /\ d["cookie_scope_suffix"] # 0
        /\ \A n \in alike : Nearest(l, n) = c[n] /\ Nearest(m, n) = d[n]
    BY RunsAsWritten, ConfigurationAssumption, Zenon DEF ConfigInv
  <2>2. /\ resolved[l] = BuildCfg(c, keys[c["hmac_key_file"]])
        /\ resolved[m] = BuildCfg(d, keys[d["hmac_key_file"]])
    BY Zenon DEF ConfigInv
  <2> HIDE DEF c, d
  <2> DEFINE LooksLike(r, x) ==
               /\ r.name = EffectiveName(x)
               /\ Seen(r) = <<IF x["cookie_domain"] = Blank THEN Blank ELSE x["cookie_domain"].host,
                             x["cookie_path"], x["cookie_httponly"] # 0, x["cookie_samesite"],
                             x["cookie_secure"] # 0 \/ x["cookie_samesite"] = "None">>
  <2>3. ASSUME NEW x, NEW k PROVE LooksLike(BuildCfg(x, k), x)
    <3> DEFINE r == BuildCfg(x, k)
    <3>1. /\ r.name = EffectiveName(x)
          /\ r.domain = x["cookie_domain"] /\ r.path = x["cookie_path"]
          /\ r.http_only = (x["cookie_httponly"] # 0)
          /\ r.samesite = x["cookie_samesite"]
          /\ r.secure = (x["cookie_secure"] # 0)
      BY Built
    <3> HIDE DEF r
    <3>2. LooksLike(r, x)
      BY <3>1, Zenon DEF Seen
    <3>3. QED
      BY <3>2 DEF r
  <2>4. LooksLike(resolved[l], c) /\ LooksLike(resolved[m], d)
    BY <2>2, <2>3, Zenon
  <2> DEFINE Host(z) == IF z["cookie_domain"] = Blank THEN Blank ELSE z["cookie_domain"].host
             Secure(z) == z["cookie_secure"] # 0 \/ z["cookie_samesite"] = "None"
             HttpOnly(z) == z["cookie_httponly"] # 0
             SameCookie == /\ Host(c) = Host(d) /\ c["cookie_samesite"] = d["cookie_samesite"]
                           /\ Secure(c) = Secure(d) /\ c["cookie_path"] = d["cookie_path"]
                           /\ HttpOnly(c) = HttpOnly(d)
  <2>5. resolved[l].name = resolved[m].name <=> SameCookie /\ \A n \in alike : c[n] = d[n]
    <3>1. \A z : z["cookie_scope_suffix"] # 0 =>
            EffectiveName(z) = <<z["cookie_name"], Host(z), z["cookie_samesite"], Secure(z),
                                 z["cookie_path"], HttpOnly(z), z["endpoint"], z["policy"],
                                 z["ipv4_prefix"], z["ipv6_prefix"]>>
      BY Zenon DEF EffectiveName
    <3> HIDE DEF Host, Secure, HttpOnly
    <3>2. (\A n \in alike : c[n] = d[n]) <=>
            /\ c["cookie_name"] = d["cookie_name"] /\ c["endpoint"] = d["endpoint"]
            /\ c["policy"] = d["policy"] /\ c["ipv4_prefix"] = d["ipv4_prefix"]
            /\ c["ipv6_prefix"] = d["ipv6_prefix"]
      OBVIOUS
    <3> DEFINE t == resolved[l].name
               u == resolved[m].name
    <3>3. /\ t = <<c["cookie_name"], Host(c), c["cookie_samesite"], Secure(c), c["cookie_path"],
                   HttpOnly(c), c["endpoint"], c["policy"], c["ipv4_prefix"], c["ipv6_prefix"]>>
          /\ u = <<d["cookie_name"], Host(d), d["cookie_samesite"], Secure(d), d["cookie_path"],
                   HttpOnly(d), d["endpoint"], d["policy"], d["ipv4_prefix"], d["ipv6_prefix"]>>
      BY <2>1, <2>4, <3>1, Zenon
    <3> HIDE DEF t, u
    <3>4. /\ t[1] = c["cookie_name"] /\ t[2] = Host(c) /\ t[3] = c["cookie_samesite"]
          /\ t[4] = Secure(c) /\ t[5] = c["cookie_path"] /\ t[6] = HttpOnly(c) /\ t[7] = c["endpoint"]
          /\ t[8] = c["policy"] /\ t[9] = c["ipv4_prefix"] /\ t[10] = c["ipv6_prefix"]
      BY <3>3
    <3>5. /\ u[1] = d["cookie_name"] /\ u[2] = Host(d) /\ u[3] = d["cookie_samesite"]
          /\ u[4] = Secure(d) /\ u[5] = d["cookie_path"] /\ u[6] = HttpOnly(d) /\ u[7] = d["endpoint"]
          /\ u[8] = d["policy"] /\ u[9] = d["ipv4_prefix"] /\ u[10] = d["ipv6_prefix"]
      BY <3>3
    <3>6. ASSUME t = u PROVE SameCookie /\ \A n \in alike : c[n] = d[n]
      BY <3>2, <3>4, <3>5, <3>6
    <3>7. ASSUME SameCookie, \A n \in alike : c[n] = d[n] PROVE t = u
      BY <3>2, <3>3, <3>7, Zenon
    <3>8. QED
      BY <3>6, <3>7 DEF t, u
  <2>6. Seen(resolved[l]) = Seen(resolved[m]) <=> SameCookie
    <3>1. /\ Seen(resolved[l]) = <<Host(c), c["cookie_path"], HttpOnly(c), c["cookie_samesite"], Secure(c)>>
          /\ Seen(resolved[m]) = <<Host(d), d["cookie_path"], HttpOnly(d), d["cookie_samesite"], Secure(d)>>
      BY <2>4, Zenon
    <3> HIDE DEF Host, Secure, HttpOnly
    <3>2. QED
      BY <3>1
  <2> HIDE DEF SameCookie
  <2>7. QED
    BY <2>1, <2>5, <2>6
<1>2. QED
  BY <1>1, ConfigInvariance, PTL

-----------------------------------------------------------------------------
(* The work a solution must show.                                          *)

\* What assurance_for makes of a decision is what the text demands: work at a
\* difficulty above 0, or no work.
LEMMA AssuranceIsDemanded ==
  ASSUME NEW text \in Texts, NEW difficulty \in Nat \ {0}
  PROVE  LET required == AssuranceFor(Decision(text), difficulty)
         IN \/ required.kind # "pow" /\ Demanded(text, difficulty) = 0
            \/ required.kind = "pow" /\ required.n = Demanded(text, difficulty) /\ required.n \in Nat \ {0}
<1> DEFINE form == text.form
           n == text.n
           required == AssuranceFor(Decision(text), difficulty)
<1>1. n \in Nat /\ MaxU64 \in Nat
  BY DemandAssumption
<1>2. CASE form \in {"nojs", "nojs_delay"}
  <2>0. n > MaxI64 \/ n <= MaxI64
    BY <1>1 DEF MaxI64
  <2>1. Decision(text).kind = "nojs"
    <3> HIDE DEF n
    <3>1. CASE form = "nojs" \/ (form = "nojs_delay" /\ n > MaxI64)
      BY <3>1 DEF Decision, n
    <3>2. CASE form = "nojs_delay" /\ n <= MaxI64 /\ ~(n > MaxI64)
      BY <3>2 DEF Decision, n
    <3>3. QED
      BY <1>2, <2>0, <3>1, <3>2
  <2>2. required.kind = "nojs"
    BY <2>1 DEF AssuranceFor
  <2>3. Demanded(text, difficulty) = 0
    BY <1>2 DEF Demanded
  <2>4. QED
    BY <2>2, <2>3
<1>3. CASE form = "js"
  <2>1. Decision(text) = [kind |-> "challenge", n |-> 1]
    BY <1>3 DEF Decision
  <2>2. required = [kind |-> "pow", n |-> 1]
    BY <2>1 DEF AssuranceFor, Configured
  <2>3. Demanded(text, difficulty) = 1
    BY <1>3 DEF Demanded
  <2>4. QED
    BY <2>2, <2>3
<1>4. CASE form = "number" /\ n <= MaxU64
  <2>1. n \in 0 .. MaxU64 /\ AtLeast(n, 1) \in Nat \ {0}
    BY <1>1, <1>4 DEF AtLeast
  <2>2. Decision(text) = [kind |-> "challenge", n |-> AtLeast(n, 1)]
    BY <1>4, <2>1 DEF Decision
  <2>3. required = [kind |-> "pow", n |-> AtLeast(n, 1)]
    BY <2>1, <2>2 DEF AssuranceFor, Configured
  <2>4. Demanded(text, difficulty) = AtLeast(n, 1)
    BY <1>4 DEF Demanded
  <2>5. QED
    BY <2>1, <2>3, <2>4
<1>5. CASE form \notin {"nojs", "nojs_delay", "js"} /\ ~(form = "number" /\ n <= MaxU64)
  <2>1. ~(form = "number" /\ n \in 0 .. MaxU64)
    BY <1>1, <1>5
  <2>2. Decision(text).kind # "nojs" /\ Decision(text).n = Configured
    BY <1>5, <2>1 DEF Decision
  <2>3. required = [kind |-> "pow", n |-> difficulty]
    BY <2>2 DEF AssuranceFor
  <2>4. Demanded(text, difficulty) = difficulty
    BY <1>5 DEF Demanded
  <2>5. QED
    BY <2>3, <2>4
<1>6. QED
  BY <1>2, <1>3, <1>4, <1>5

\* verify_body accepts what is demanded.
LEMMA VerifiedWork ==
  ASSUME DemandInv, NEW text \in Texts, NEW level \in Levels, NEW hash \in Hashes,
         VerifyBody(text, level, hash)
  PROVE  WorkIsDemanded'
<1> DEFINE required == AssuranceFor(Decision(text), cfg.difficulty)
           demanded == Demanded(text, demand)
           ok == SolutionValid(level, hash, required)
<1>1. cfg.difficulty = demand /\ demand \in Nat \ {0}
  BY DEF VerifyBody, DemandInv
<1>2. work' = [value |-> Value(hash), level |-> level, demanded |-> demanded, ok |-> ok]
  BY DEF VerifyBody
<1>3. \/ required.kind # "pow" /\ demanded = 0
      \/ required.kind = "pow" /\ required.n = demanded /\ required.n \in Nat \ {0}
  BY <1>1, AssuranceIsDemanded
<1>4. level \in Nat \ {0}
  BY LifeAssumption
<1> DEFINE Largest(d) == d = 1 /\ Value(hash) = HashCount - 1
<1>5. /\ HashBelow(hash, Target(level)) => Value(hash) < Admitted(level)
      /\ Value(hash) < Admitted(level) => HashBelow(hash, Target(level)) \/ Largest(level)
  BY <1>4, TargetAdmits
<1>6. ok <=> required.kind = "pow" /\ level = required.n /\ HashBelow(hash, Target(level))
  BY DEF SolutionValid
<1> HIDE DEF required, demanded, ok, Largest
<1>7. /\ ok => level = demanded /\ Value(hash) < Admitted(demanded)
      /\ level = demanded /\ Value(hash) < Admitted(demanded) => ok \/ Largest(demanded)
  BY <1>3, <1>4, <1>5, <1>6
<1>8. /\ work'.ok = ok /\ work'.level = level /\ work'.demanded = demanded
      /\ work'.value = Value(hash)
  BY <1>2
<1>9. QED
  BY <1>7, <1>8 DEF WorkIsDemanded, Largest

\* The Cfg of a location where the gate is on has its configured difficulty.
LEMMA AcceptedDemand ==
  ASSUME ConfigInv, DemandInv, NEW l \in Locations, AcceptIn(l)
  PROVE  DemandInv'
<1>1. pc' = "new" /\ work' = work
  BY Zenon DEF AcceptIn, Accept
<1>2. WorkIsDemanded'
  BY <1>1 DEF DemandInv, WorkIsDemanded
<1>3. CASE conf[l]["enabled"] = 0
  <2>1. cfg' = NoCfg
    BY <1>3 DEF AcceptIn, Accept
  <2>2. ~cfg'.enabled
    BY <2>1 DEF NoCfg
  <2>3. QED
    BY <1>1, <1>2, <2>2 DEF DemandInv
<1>4. CASE conf[l]["enabled"] # 0
  <2> DEFINE key == keys[conf[l]["hmac_key_file"]]
  <2>1. stage = "running" /\ resolved[l] # Unresolved /\ cfg' = Handled(resolved[l]) /\ demand' = Nearest(l, "difficulty")
    BY <1>4 DEF AcceptIn, Accept
  <2>2. resolved[l] = BuildCfg(conf[l], key)
    BY <2>1, Zenon DEF ConfigInv
  <2> HIDE DEF key
  <2>3. resolved[l].difficulty = conf[l]["difficulty"]
    <3>1. BuildCfg(conf[l], key).difficulty = conf[l]["difficulty"]
      BY BuiltDifficulty, Zenon
    <3>2. QED
      BY <2>2, <3>1, Zenon
  <2>4. "difficulty" \in Settings
    BY ConfigurationAssumption, Zenon
  <2>5. conf[l]["difficulty"] = Nearest(l, "difficulty")
    BY <2>1, <2>4, RunsAsWritten, Zenon
  <2>6. Nearest(l, "difficulty") \in Nat
    BY <2>4, NearestIsValue, ConfigurationAssumption, Zenon DEF ConfigInv
  <2>7. conf[l]["difficulty"] # 0
    BY <1>4, <2>1, Zenon DEF ConfigInv, Refuses
  <2>8. cfg'.difficulty = demand' /\ demand' \in Nat \ {0}
    BY <2>1, <2>3, <2>5, <2>6, <2>7, Zenon DEF Handled
  <2>9. QED
    BY <1>1, <1>2, <2>8 DEF DemandInv
<1>5. QED
  BY <1>3, <1>4

\* A step of the request keeps its difficulty, and what verify_body records
\* is right.
LEMMA DemandStep ==
  ASSUME DemandInv, RequestNext
  PROVE  DemandInv'
<1>1. cfg' = cfg /\ demand' = demand
  BY ZenonT(40) DEF RequestNext, Progress, Decline, AnswerAtOnce, DenyOrNoJs, Done, ChallengePage, Pass, Capture,
         ReadBody, ReadFails, CollectFile, VerifySolution, Suspend, BodyReady, CollectMemory, Answer,
         Redeem, Return, Complete, BodyReadyPage, VerifyBody, Terminate, Arrive, Spill, Quiet
<1>2. pc' \in {"reading", "collect", "collected"} => cfg.enabled
  BY Zenon DEF DemandInv, RequestNext, Progress, Decline, AnswerAtOnce, DenyOrNoJs, Done, ChallengePage, Pass,
         Capture, Challenged, ReadBody, ReadFails, CollectFile, VerifySolution, Suspend, BodyReady,
         CollectMemory, Answer, After, Redeem, Return, Complete, BodyReadyPage, VerifyBody, Terminate,
         Arrive, Spill, Quiet
<1>3. CASE \E text \in Texts, level \in Levels, hash \in Hashes : VerifyBody(text, level, hash)
  <2>1. WorkIsDemanded'
    BY <1>3, VerifiedWork
  <2>2. QED
    BY <1>1, <1>2, <2>1 DEF DemandInv
<1>4. CASE ~\E text \in Texts, level \in Levels, hash \in Hashes : VerifyBody(text, level, hash)
  <2>1. work' = work
    BY <1>4, Zenon DEF RequestNext, Progress, Decline, AnswerAtOnce, DenyOrNoJs, Done, ChallengePage, Pass, Capture,
         ReadBody, ReadFails, CollectFile, VerifySolution, Suspend, BodyReady, CollectMemory, Answer,
         Redeem, Return, Complete, BodyReadyPage, Terminate, Arrive, Spill, Quiet
  <2>2. WorkIsDemanded'
    BY <2>1 DEF DemandInv, WorkIsDemanded
  <2>3. QED
    BY <1>1, <1>2, <2>2 DEF DemandInv
<1>5. QED
  BY <1>3, <1>4

\* At the start nothing has been verified.
LEMMA InitDemand == ServedInit => DemandInv
BY DEF ServedInit, RequestInit, DemandInv, NoCfg, WorkIsDemanded

\* Every step of the composition keeps DemandInv.
LEMMA NextDemand == ConfigInv /\ DemandInv /\ [ServedNext]_servedVars => DemandInv'
<1> SUFFICES ASSUME ConfigInv, DemandInv, [ServedNext]_servedVars PROVE DemandInv'
  OBVIOUS
<1>1. CASE UNCHANGED requestVars
  BY <1>1, Zenon DEF DemandInv, WorkIsDemanded
<1>2. CASE \E l \in Locations : AcceptIn(l)
  BY <1>2, AcceptedDemand
<1>3. CASE RequestNext
  BY <1>3, DemandStep
<1>4. QED
  BY <1>1, <1>2, <1>3 DEF ServedNext, NotStarted, servedVars

(***************************************************************************)
(* pow.rs, decision.rs and verify_body: a solution is redeemed only when   *)
(* its challenge has the difficulty d that the decision demands under the  *)
(* configuration as it is written, and its hash is below floor(2^256 / d); *)
(* and whenever this is so, but for the largest hash at difficulty 1.      *)
(***************************************************************************)
THEOREM SolutionsShowDemandedWork == ServedSafety => []WorkIsDemanded
<1>1. DemandInv => WorkIsDemanded
  BY DEF DemandInv
<1>2. QED
  BY <1>1, ConfigInvariance, InitDemand, NextDemand, PTL DEF ServedSafety
=============================================================================
