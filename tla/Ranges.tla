------------------------------- MODULE Ranges -------------------------------
(***************************************************************************)
(* IpRangeSet: the addresses of the published crawler prefixes, kept per   *)
(* family as sorted inclusive intervals that do not overlap.  An address   *)
(* is Width[f] bits wide.  `covered' is the reference: the set of          *)
(* addresses the accepted prefixes name.                                   *)
(***************************************************************************)
EXTENDS Integers, Sequences, FiniteSets

CONSTANTS
  Families,   \* v4 and v6
  Width,      \* bits of an address of each family
  MaxEntries, \* entries add_feed_json takes, 100 000
  FeedDocs    \* the documents add_feed_json may be given

VARIABLES
  ranges,     \* the vectors v4 and v6
  covered

rangesVars == <<ranges, covered>>

\* 1 << n
Shl(n) ==
  LET power[i \in 0 .. n] == IF i = 0 THEN 1 ELSE 2 * power[i - 1]
  IN power[n]

Addresses(f) == 0 .. Shl(Width[f]) - 1

\* A prefix as written: an address and a number of bits, either of which may
\* be one that push_cidr refuses.  A feed entry has a prefix per family, or
\* NoPrefix; an entry of a feed without any is refused as well.
Cidr(f) == [addr : Addresses(f), bits : 0 .. Width[f] + 1]
NoPrefix == [addr |-> 0, bits |-> -1]
FeedEntries ==
  {e \in [Families -> [addr : Nat, bits : Int]] : \A f \in Families : e[f] \in Cidr(f) \union {NoPrefix}}

ASSUME RangesAssumption ==
  /\ Width \in [Families -> Nat \ {0}] /\ MaxEntries \in Nat
  /\ FeedDocs \subseteq Seq(FeedEntries)

-----------------------------------------------------------------------------

Valid(f, cidr) == cidr.bits <= Width[f]

\* push_cidr: (address & mask, address | !mask)
Interval(f, cidr) ==
  LET size == Shl(Width[f] - cidr.bits)
      start == cidr.addr - (cidr.addr % size)
  IN <<start, start + size - 1>>

\* slice::partition_point on a slice whose elements with P come first
PartitionPoint(s, P(_)) == Cardinality({i \in DOMAIN s : P(s[i])})

\* insert_interval: the run of intervals that meet the new one is replaced by
\* their union with it.
InsertInterval(s, interval) ==
  LET begin == PartitionPoint(s, LAMBDA r : r[2] < interval[1])
      end == PartitionPoint(s, LAMBDA r : r[1] <= interval[2])
      merged == IF begin < end
                THEN <<IF s[begin + 1][1] < interval[1] THEN s[begin + 1][1] ELSE interval[1],
                       IF s[end][2] > interval[2] THEN s[end][2] ELSE interval[2]>>
                ELSE interval
  IN SubSeq(s, 1, begin) \o <<merged>> \o SubSeq(s, end + 1, Len(s))

\* Faulty variant: the end of the run is overwritten, not raised.
MergeOverwrite(used, r) ==
  IF used # <<>> /\ r[1] <= used[Len(used)][2]
  THEN [used EXCEPT ![Len(used)] = <<@[1], r[2]>>]
  ELSE Append(used, r)

\* The body of the loop of normalize, on the part of the vector already done.
Merge(used, r) ==
  IF used # <<>> /\ r[1] <= used[Len(used)][2]
  THEN [used EXCEPT ![Len(used)] = <<@[1], IF r[2] > @[2] THEN r[2] ELSE @[2]>>]
  ELSE Append(used, r)

\* sort_unstable: equal elements stay in some order, here in that of s.
Sorted(s) ==
  LET Before(i, j) ==
        IF s[i] = s[j] THEN i <= j ELSE s[i][1] < s[j][1] \/ (s[i][1] = s[j][1] /\ s[i][2] < s[j][2])
      Place(j) == Cardinality({i \in DOMAIN s : Before(i, j)})
  IN [k \in DOMAIN s |-> s[CHOOSE j \in DOMAIN s : Place(j) = k]]

\* normalize: sort, then one pass.
Normalize(s) ==
  LET done[i \in 0 .. Len(s)] == IF i = 0 THEN <<>> ELSE Merge(done[i - 1], Sorted(s)[i])
  IN done[Len(s)]

\* contains_interval
ContainsInterval(s, address) ==
  LET i == PartitionPoint(s, LAMBDA r : r[1] <= address)
  IN i # 0 /\ address <= s[i][2]

-----------------------------------------------------------------------------

\* Reference: the addresses that share the leading bits of a prefix.
Named(f, cidr) ==
  {x \in Addresses(f) : x \div Shl(Width[f] - cidr.bits) = cidr.addr \div Shl(Width[f] - cidr.bits)}

\* add_cidr
AddCidr(f, cidr) ==
  /\ Valid(f, cidr)
  /\ ranges' = [ranges EXCEPT ![f] = InsertInterval(@, Interval(f, cidr))]
  /\ covered' = [covered EXCEPT ![f] = @ \union Named(f, cidr)]

\* Not too many entries, every entry names a prefix, and every prefix is one
\* push_cidr takes.
WellFormed(feed) ==
  /\ Len(feed) <= MaxEntries
  /\ \A i \in DOMAIN feed :
       /\ \E f \in Families : feed[i][f] # NoPrefix
       /\ \A f \in Families : feed[i][f] # NoPrefix => Valid(f, feed[i][f])

\* The loop of add_feed_json over the entries of a well-formed document.
Pushed(f, vector, feed) ==
  LET after[i \in 0 .. Len(feed)] ==
        IF i = 0 THEN vector
        ELSE IF feed[i][f] = NoPrefix THEN after[i - 1]
        ELSE Append(after[i - 1], Interval(f, feed[i][f]))
  IN after[Len(feed)]

\* The vectors after the prefixes of a well-formed document were added.
Extended(vectors, feed) == [f \in Families |-> Normalize(Pushed(f, vectors[f], feed))]

\* Reference: the addresses of family f a document names.
NamedBy(f, feed) ==
  UNION {Named(f, feed[i][f]) : i \in {j \in DOMAIN feed : feed[j][f] # NoPrefix}}

\* add_feed_json: all of the feed or nothing of it.
AddFeed(feed) ==
  /\ WellFormed(feed)
  /\ ranges' = Extended(ranges, feed)
  /\ covered' = [f \in Families |-> covered[f] \union NamedBy(f, feed)]

Empty == [f \in Families |-> <<>>]

RangesInit == ranges = Empty /\ covered = [f \in Families |-> {}]

RangesNext ==
  \/ \E f \in Families : \E cidr \in Cidr(f) : AddCidr(f, cidr)
  \/ \E feed \in FeedDocs : AddFeed(feed)

RangesSpec == RangesInit /\ [][RangesNext]_rangesVars

-----------------------------------------------------------------------------

\* The intervals of a family are sorted and do not overlap; both binary
\* searches and contains_interval depend on it.
IsNormal(s) ==
  \A i \in DOMAIN s :
    /\ s[i][1] <= s[i][2]
    /\ \A j \in DOMAIN s : i < j => s[i][2] < s[j][1]

\* Whichever mix of insert_interval and normalize built them, the intervals
\* stay normal, and contains answers for exactly the addresses that the
\* prefixes of accepted calls name: a feed with one bad entry adds nothing,
\* and no address is lost or gained when intervals merge.
Exact ==
  \A f \in Families :
    /\ IsNormal(ranges[f])
    /\ {x \in Addresses(f) : ContainsInterval(ranges[f], x)} = covered[f]

\* Exact, with the type of the vectors.
RangesInv ==
  /\ ranges \in [Families -> Seq(Int \X Int)]
  /\ covered \in [Families -> SUBSET Nat]
  /\ Exact

=============================================================================
