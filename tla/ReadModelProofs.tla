--------------------------- MODULE ReadModelProofs ---------------------------
(***************************************************************************)
(* Feeds and reviews, for any users, days, keywords and bounds: a feed is  *)
(* an order of what it shows, a review is a sum over what it lists, and    *)
(* what was read of a review stays below what is read later, since no      *)
(* upload leaves the review of its author.                                 *)
(***************************************************************************)
EXTENDS ReadModel, QueryProofs

-----------------------------------------------------------------------------
(* The uploads there are.                                                  *)

LEMMA SomeUploads ==
  ASSUME BoundAssumption, NEW up \in Seq(Upload), Len(up) <= MaxUploads,
         NEW S \in SUBSET DOMAIN up
  PROVE  /\ S \subseteq Times /\ \A t \in S : up[t] \in Upload
         /\ IsFiniteSet(S) /\ Cardinality(S) \in 0..MaxUploads
  <1>1. Len(up) \in Nat /\ DOMAIN up = 1..Len(up) /\ MaxUploads \in Nat
    BY DEF BoundAssumption
  <1>2. S \subseteq Times /\ \A t \in S : up[t] \in Upload
    BY <1>1 DEF Times
  <1>3. IsFiniteSet(Times) /\ Cardinality(Times) = MaxUploads
    <2>1. 1 \in Int /\ MaxUploads \in Int
      BY <1>1
    <2>2. /\ IsFiniteSet(1..MaxUploads)
          /\ Cardinality(1..MaxUploads) = IF 1 > MaxUploads THEN 0 ELSE MaxUploads - 1 + 1
      BY <2>1, FS_Interval
    <2>3. QED
      BY <1>1, <2>2 DEF Times
  <1>4. S \in SUBSET Times
    BY <1>2
  <1>5. IsFiniteSet(S) /\ Cardinality(S) <= MaxUploads
    BY <1>3, <1>4, FS_Subset
  <1>6. Cardinality(S) \in Nat
    BY <1>5, FS_CardinalityType
  <1>7. QED
    BY <1>1, <1>2, <1>5, <1>6

(* Values of some of them are no more than they.                           *)
LEMMA FewerValues ==
  ASSUME NEW S, IsFiniteSet(S), NEW T, NEW f \in [S -> T]
  PROVE  /\ IsFiniteSet({f[t] : t \in S})
         /\ Cardinality({f[t] : t \in S}) <= Cardinality(S)
  <1> DEFINE V == {f[t] : t \in S}
  <1>1. f \in Surjection(S, V)
    BY DEF Surjection
  <1>2. QED
    BY <1>1, FS_Surjection

(* The least of a set of numbers.                                          *)
LEMMA LeastIsOne ==
  ASSUME NEW S \in SUBSET Nat, S # {}
  PROVE  Min(S) \in S /\ \A x \in S : Min(S) <= x
  <1> DEFINE Less == {p \in Nat \X Nat : p[1] < p[2]}
  <1>1. IsWellFoundedOn(Less, Nat)
    BY Zenon, NatLessThanWellFounded DEF OpToRel
  <1> HIDE DEF Less
  <1>2. PICK n \in S : \A m \in S : <<m, n>> \notin Less
    BY <1>1, WFMin
  <1>3. \A m \in S : n <= m
    <2>1. ASSUME NEW m \in S, ~(n <= m) PROVE FALSE
      <3>1. m < n
        BY <2>1
      <3>2. <<m, n>> \in Less
        BY <3>1 DEF Less
      <3>3. QED
        BY <1>2, <3>2
    <2>2. QED
      BY <2>1
  <1>4. QED
    BY <1>2, <1>3 DEF Min

-----------------------------------------------------------------------------
(* The order of a feed.                                                    *)

LatestPairs(S) == {p \in S \X S : p[1] > p[2]}

Passed(up, seed, t) == IF up[t].rand < seed THEN 1 ELSE 0
ComesFirst(up, seed, s, t) ==
    \/ Passed(up, seed, s) < Passed(up, seed, t)
    \/ /\ Passed(up, seed, s) = Passed(up, seed, t)
       /\ \/ up[s].rand < up[t].rand
          \/ up[s].rand = up[t].rand /\ s < t
SeedPairs(up, S, seed) == {p \in S \X S : ComesFirst(up, seed, p[1], p[2])}
SeedRows(up, S, seed, limit) == FirstOf(OrderBy(S, SeedPairs(up, S, seed)), limit)

LEMMA LatestIsOrder ==
  ASSUME NEW S \in SUBSET Nat
  PROVE  IsOrder(S, LatestPairs(S))
  <1>1. \A s, t \in S : <<s, t>> \in LatestPairs(S) <=> s > t
    BY DEF LatestPairs
  <1>2. QED
    BY <1>1 DEF IsOrder

LEMMA SeedIsOrder ==
  ASSUME BoundAssumption, NEW up \in Seq(Upload), NEW S \in SUBSET DOMAIN up, NEW seed \in Nat
  PROVE  IsOrder(S, SeedPairs(up, S, seed))
  <1>1. \A s, t \in S : <<s, t>> \in SeedPairs(up, S, seed) <=> ComesFirst(up, seed, s, t)
    BY DEF SeedPairs
  <1>2. \A t \in S : t \in Nat /\ up[t].rand \in Int /\ Passed(up, seed, t) \in Int
    <2>1. \A t \in S : up[t] \in Upload /\ t \in Nat
      OBVIOUS
    <2>2. \A t \in S : up[t].rand \in 0..MaxKey
      BY <2>1 DEF Upload
    <2>3. QED
      BY <2>1, <2>2 DEF Passed, BoundAssumption
  <1>3. \A s \in S : ~ComesFirst(up, seed, s, s)
    BY <1>2 DEF ComesFirst
  <1>4. \A s, t, u \in S : (ComesFirst(up, seed, s, t) /\ ComesFirst(up, seed, t, u))
                              => ComesFirst(up, seed, s, u)
    BY <1>2 DEF ComesFirst
  <1>5. \A s, t \in S : s # t => (ComesFirst(up, seed, s, t) \/ ComesFirst(up, seed, t, s))
    BY <1>2 DEF ComesFirst
  <1>6. QED
    BY <1>1, <1>3, <1>4, <1>5 DEF IsOrder

(* What FromSeed orders by.                                                *)
LEMMA EarlierIsFirst ==
  ASSUME NEW p1 \in Int, NEW r1 \in Int, NEW s \in Int,
         NEW p2 \in Int, NEW r2 \in Int, NEW t \in Int
  PROVE  (\E i \in 1..3 : /\ <<p1, r1, s>>[i] < <<p2, r2, t>>[i]
                          /\ \A j \in 1..(i - 1) : <<p1, r1, s>>[j] = <<p2, r2, t>>[j])
           <=> (p1 < p2 \/ (p1 = p2 /\ (r1 < r2 \/ (r1 = r2 /\ s < t))))
  <1> DEFINE A(i) == /\ <<p1, r1, s>>[i] < <<p2, r2, t>>[i]
                     /\ \A j \in 1..(i - 1) : <<p1, r1, s>>[j] = <<p2, r2, t>>[j]
  <1>1. A(1) <=> p1 < p2
    OBVIOUS
  <1>2. A(2) <=> p1 = p2 /\ r1 < r2
    <2>1. \A j \in 1..(2 - 1) : j = 1
      OBVIOUS
    <2>2. 1 \in 1..(2 - 1)
      OBVIOUS
    <2>3. QED
      BY <2>1, <2>2
  <1>3. A(3) <=> p1 = p2 /\ r1 = r2 /\ s < t
    <2>1. \A j \in 1..(3 - 1) : j = 1 \/ j = 2
      OBVIOUS
    <2>2. 1 \in 1..(3 - 1) /\ 2 \in 1..(3 - 1)
      OBVIOUS
    <2>3. QED
      BY <2>1, <2>2
  <1>4. (\E i \in 1..3 : A(i)) <=> A(1) \/ A(2) \/ A(3)
    <2> HIDE DEF A
    <2>1. 1..3 = {1, 2, 3}
      OBVIOUS
    <2>2. QED
      BY <2>1
  <1>5. QED
    BY <1>1, <1>2, <1>3, <1>4

(* A feed of some of the uploads shows all of them, each once, up to the   *)
(* limit; unlimited, what comes first stands first.                        *)
IsFeed(rows, up, S, seed, limit) ==
    /\ rows \in Seq(S) /\ IsInjective(rows)
    /\ Len(rows) = IF limit < Cardinality(S) THEN limit ELSE Cardinality(S)
    /\ MaxUploads <= limit =>
         /\ ToSet(rows) = S
         /\ \A i, j \in DOMAIN rows : i < j <=> ComesFirst(up, seed, rows[i], rows[j])

LEMMA RandomFeed ==
  ASSUME BoundAssumption, NEW up \in Seq(Upload), Len(up) <= MaxUploads,
         NEW S \in SUBSET DOMAIN up, NEW seed \in Nat, NEW limit \in Nat
  PROVE  IsFeed(SeedRows(up, S, seed, limit), up, S, seed, limit)
  <1> DEFINE R == SeedPairs(up, S, seed)
             all == OrderBy(S, R)
             rows == SeedRows(up, S, seed, limit)
  <1>1. IsFiniteSet(S) /\ Cardinality(S) \in 0..MaxUploads
    BY SomeUploads
  <1>2. IsOrder(S, R)
    BY SeedIsOrder
  <1>3. /\ all \in Seq(S) /\ Len(all) = Cardinality(S) /\ IsInjective(all) /\ ToSet(all) = S
        /\ \A i, j \in 1..Cardinality(S) : i < j <=> <<all[i], all[j]>> \in R
    <2> HIDE DEF R
    <2>1. QED
      BY <1>1, <1>2, Ordered
  <1> HIDE DEF all, rows
  <1>4. /\ rows \in Seq(S)
        /\ Len(rows) = IF limit < Len(all) THEN limit ELSE Len(all)
        /\ \A i \in 1..Len(rows) : i \in 1..Len(all) /\ rows[i] = all[i]
        /\ Len(all) <= limit => rows = all
    <2>1. rows = FirstOf(all, limit)
      BY DEF all, rows, SeedRows
    <2>2. QED
      BY <1>3, <2>1, Limited
  <1>5. IsInjective(rows)
    <2>1. DOMAIN rows = 1..Len(rows) /\ DOMAIN all = 1..Len(all)
      BY <1>3, <1>4
    <2>2. QED
      BY <1>3, <1>4, <2>1 DEF IsInjective
  <1>6. ASSUME MaxUploads <= limit
        PROVE  /\ ToSet(rows) = S
               /\ \A i, j \in DOMAIN rows : i < j <=> ComesFirst(up, seed, rows[i], rows[j])
    <2>1. rows = all
      BY <1>1, <1>3, <1>4, <1>6 DEF BoundAssumption
    <2>2. \A i \in DOMAIN rows : i \in 1..Cardinality(S) /\ rows[i] \in S
      BY <1>3, <2>1
    <2>3. \A s, t \in S : <<s, t>> \in R <=> ComesFirst(up, seed, s, t)
      BY DEF SeedPairs
    <2>4. QED
      BY <1>3, <2>1, <2>2, <2>3
  <1>7. QED
    BY <1>3, <1>4, <1>5, <1>6 DEF IsFeed, rows

LEMMA LatestFeed ==
  ASSUME BoundAssumption, NEW up \in Seq(Upload), Len(up) <= MaxUploads,
         NEW S \in SUBSET DOMAIN up, NEW limit \in Nat, NEW rows, rows = Latest(S, limit)
  PROVE  /\ rows \in Seq(S)
         /\ Len(rows) = IF limit < Cardinality(S) THEN limit ELSE Cardinality(S)
         /\ MaxUploads <= limit => ToSet(rows) = S
  <1> DEFINE R == LatestPairs(S)
             all == OrderBy(S, R)
  <1>1. IsFiniteSet(S) /\ Cardinality(S) \in 0..MaxUploads
    BY SomeUploads
  <1>2. IsOrder(S, R)
    BY LatestIsOrder
  <1>3. all \in Seq(S) /\ Len(all) = Cardinality(S) /\ ToSet(all) = S
    <2> HIDE DEF R
    <2>1. QED
      BY <1>1, <1>2, Ordered
  <1>4. rows = FirstOf(all, limit)
    BY DEF Latest, LatestPairs
  <1> HIDE DEF all
  <1>5. /\ rows \in Seq(S)
        /\ Len(rows) = IF limit < Len(all) THEN limit ELSE Len(all)
        /\ Len(all) <= limit => rows = all
    BY <1>3, <1>4, Limited
  <1>6. QED
    BY <1>1, <1>3, <1>5 DEF BoundAssumption

(* The pairs that FromSeed orders by, of any uploads.                      *)
KeyPairs(up, S, seed) ==
    LET Key(t) == <<IF up[t].rand < seed THEN 1 ELSE 0, up[t].rand, t>>
        Earlier(s, t) == \E i \in 1..3 : /\ Key(s)[i] < Key(t)[i]
                                         /\ \A j \in 1..(i - 1) : Key(s)[j] = Key(t)[j]
    IN  {p \in S \X S : Earlier(p[1], p[2])}

LEMMA KeyPairsAre ==
  ASSUME BoundAssumption, NEW up \in Seq(Upload), NEW S \in SUBSET DOMAIN up,
         NEW seed \in Nat
  PROVE  KeyPairs(up, S, seed) = SeedPairs(up, S, seed)
  <1> DEFINE Key(t) == <<Passed(up, seed, t), up[t].rand, t>>
             Earlier(s, t) == \E i \in 1..3 : /\ Key(s)[i] < Key(t)[i]
                                              /\ \A j \in 1..(i - 1) : Key(s)[j] = Key(t)[j]
             pairs == {p \in S \X S : Earlier(p[1], p[2])}
  <1>1. \A t \in S : t \in Int /\ up[t].rand \in Int /\ Passed(up, seed, t) \in Int
    <2>1. \A t \in S : up[t] \in Upload /\ t \in Nat
      OBVIOUS
    <2>2. \A t \in S : up[t].rand \in 0..MaxKey
      BY <2>1 DEF Upload
    <2>3. QED
      BY <2>1, <2>2 DEF Passed, BoundAssumption
  <1>2. ASSUME NEW s \in S, NEW t \in S PROVE Earlier(s, t) <=> ComesFirst(up, seed, s, t)
    BY <1>1, EarlierIsFirst DEF ComesFirst
  <1>3. pairs = SeedPairs(up, S, seed)
    <2> HIDE DEF Earlier
    <2>1. QED
      BY <1>2 DEF SeedPairs
  <1>4. KeyPairs(up, S, seed) = pairs
    BY DEF KeyPairs, Passed
  <1>5. QED
    BY <1>3, <1>4, Zenon

LEMMA FromSeedIs ==
  ASSUME BoundAssumption, upload \in Seq(Upload), NEW S \in SUBSET DOMAIN upload,
         NEW seed \in Nat, NEW limit
  PROVE  FromSeed(S, seed, limit) = SeedRows(upload, S, seed, limit)
  <1>1. FromSeed(S, seed, limit) = FirstOf(OrderBy(S, KeyPairs(upload, S, seed)), limit)
    BY DEF FromSeed, KeyPairs
  <1>2. QED
    BY <1>1, KeyPairsAre DEF SeedRows

LEMMA PublicSets ==
  ASSUME BoundAssumption, TypeOK
  PROVE  /\ upload \in Seq(Upload) /\ Len(upload) <= MaxUploads /\ MaxUploads \in Nat
         /\ \A d \in Days : OnDay(d) \in SUBSET Uploads
         /\ \A k \in Keywords : Under(k) \in SUBSET Uploads
         /\ Seeds \subseteq Nat
         /\ UNION {Under(k) : k \in Keywords} = UNION {OnDay(d) : d \in Days}
  <1>1. \A t \in Uploads : upload[t].day \in Days /\ upload[t].keyword \in Keywords
    <2>1. \A t \in Uploads : upload[t] \in Upload
      BY DEF TypeOK, Uploads
    <2>2. QED
      BY <2>1 DEF Upload
  <1>2. UNION {Under(k) : k \in Keywords} = UNION {OnDay(d) : d \in Days}
    BY <1>1 DEF Under, OnDay
  <1>3. QED
    BY <1>2 DEF TypeOK, BoundAssumption, OnDay, Under, Seeds

LEMMA FeedsComplete ==
  ASSUME BoundAssumption, TypeOK
  PROVE  FeedsAreComplete
  <1>1. ASSUME NEW d \in Days, NEW seed \in Seeds, NEW limit \in 1..MaxUploads
        PROVE  /\ IsInjective(ListPublicUploadsByDateRandom(d, seed, limit))
               /\ Len(ListPublicUploadsByDateRandom(d, seed, limit))
                    = Len(ListPublicUploadsByDateLatest(d, limit))
    <2>1. OnDay(d) \in SUBSET DOMAIN upload /\ seed \in Nat /\ limit \in Nat
      BY PublicSets DEF Uploads
    <2> DEFINE random == ListPublicUploadsByDateRandom(d, seed, limit)
               latest == ListPublicUploadsByDateLatest(d, limit)
    <2>2. random = SeedRows(upload, OnDay(d), seed, limit)
      BY <2>1, PublicSets, FromSeedIs DEF ListPublicUploadsByDateRandom, Uploads
    <2>3. latest = Latest(OnDay(d), limit)
      BY DEF ListPublicUploadsByDateLatest
    <2> HIDE DEF random, latest
    <2>4. IsFeed(random, upload, OnDay(d), seed, limit)
      BY <2>1, <2>2, PublicSets, RandomFeed
    <2>5. Len(latest) = IF limit < Cardinality(OnDay(d)) THEN limit ELSE Cardinality(OnDay(d))
      BY <2>1, <2>3, PublicSets, LatestFeed
    <2>6. QED
      BY <2>4, <2>5 DEF random, latest, IsFeed
  <1>2. ASSUME NEW seed \in Seeds, NEW k \in Keywords
        PROVE  ToSet(ListPublicUploadsByKeywordRandom(k, seed, MaxUploads)) = Under(k)
    <2>1. /\ Under(k) \in SUBSET DOMAIN upload /\ seed \in Nat
          /\ MaxUploads \in Nat /\ MaxUploads <= MaxUploads
      BY PublicSets DEF Uploads
    <2> DEFINE random == ListPublicUploadsByKeywordRandom(k, seed, MaxUploads)
    <2>2. random = SeedRows(upload, Under(k), seed, MaxUploads)
      BY <2>1, PublicSets, FromSeedIs DEF ListPublicUploadsByKeywordRandom, Uploads
    <2> HIDE DEF random
    <2>3. IsFeed(random, upload, Under(k), seed, MaxUploads)
      BY <2>1, <2>2, PublicSets, RandomFeed
    <2>4. QED
      BY <2>1, <2>3 DEF random, IsFeed
  <1>3. ASSUME NEW d \in Days
        PROVE  ToSet(ListPublicUploadsByDateLatest(d, MaxUploads)) = OnDay(d)
    <2>1. /\ OnDay(d) \in SUBSET DOMAIN upload
          /\ MaxUploads \in Nat /\ MaxUploads <= MaxUploads
      BY PublicSets DEF Uploads
    <2>2. QED
      BY <2>1, PublicSets, LatestFeed DEF ListPublicUploadsByDateLatest
  <1>4. ASSUME NEW seed \in Seeds
        PROVE  UNION {ToSet(ListPublicUploadsByKeywordRandom(k, seed, MaxUploads)) : k \in Keywords}
                 = UNION {ToSet(ListPublicUploadsByDateLatest(d, MaxUploads)) : d \in Days}
    <2>1. {ToSet(ListPublicUploadsByKeywordRandom(k, seed, MaxUploads)) : k \in Keywords}
            = {Under(k) : k \in Keywords}
      BY <1>2
    <2>2. {ToSet(ListPublicUploadsByDateLatest(d, MaxUploads)) : d \in Days}
            = {OnDay(d) : d \in Days}
      BY <1>3
    <2>3. QED
      BY <2>1, <2>2, PublicSets
  <1>5. QED
    BY <1>1, <1>4 DEF FeedsAreComplete

(* Two feeds of the same seed, of which the one is read when there are     *)
(* more uploads than for the other, have in one order what they both show. *)
LEMMA SeedKeeps ==
  ASSUME BoundAssumption, NEW seed \in Nat,
         NEW up \in Seq(Upload), Len(up) <= MaxUploads, NEW S \in SUBSET DOMAIN up,
         NEW more \in Seq(Upload), Len(more) <= MaxUploads, NEW T \in SUBSET DOMAIN more,
         \A t \in DOMAIN up : t \in DOMAIN more /\ more[t] = up[t],
         NEW before, before = SeedRows(up, S, seed, MaxUploads),
         NEW after, after = SeedRows(more, T, seed, MaxUploads)
  PROVE  Keeps(before, after)
  <1>1. MaxUploads \in Nat /\ MaxUploads <= MaxUploads
    BY DEF BoundAssumption
  <1>2. IsFeed(before, up, S, seed, MaxUploads)
    BY <1>1, RandomFeed
  <1>3. IsFeed(after, more, T, seed, MaxUploads)
    BY <1>1, RandomFeed
  <1>4. \A s, t \in S : ComesFirst(up, seed, s, t) <=> ComesFirst(more, seed, s, t)
    BY DEF ComesFirst, Passed
  <1>5. /\ \A i \in DOMAIN before : before[i] \in S
        /\ \A i, j \in DOMAIN before : i < j <=> ComesFirst(up, seed, before[i], before[j])
        /\ \A i, j \in DOMAIN after : i < j <=> ComesFirst(more, seed, after[i], after[j])
    BY <1>1, <1>2, <1>3 DEF IsFeed
  <1>6. QED
    BY <1>4, <1>5 DEF Keeps

-----------------------------------------------------------------------------
(* Sums of images.                                                         *)

Weight(up) == [t \in DOMAIN up |-> up[t].images]
ImagesIn(up, S) == SumFunctionOnSet(Weight(up), S)

LEMMA ImagesAre ==
  ASSUME BoundAssumption, NEW up \in Seq(Upload), Len(up) <= MaxUploads,
         NEW S \in SUBSET DOMAIN up
  PROVE  SumFunction([t \in S |-> up[t].images]) = ImagesIn(up, S)
  <1> DEFINE v == [t \in S |-> up[t].images]
  <1>1. IsFiniteSet(S)
    BY SomeUploads
  <1>2. \A t \in S : v[t] = Weight(up)[t]
    BY DEF Weight
  <1>3. DOMAIN v = S
    OBVIOUS
  <1> HIDE DEF v
  <1>4. SumFunctionOnSet(v, S) = SumFunctionOnSet(Weight(up), S)
    BY <1>1, <1>2, SumSame
  <1>5. SumFunction(v) = SumFunctionOnSet(v, S)
    BY <1>3 DEF SumFunction
  <1>6. QED
    BY <1>4, <1>5 DEF v, ImagesIn

LEMMA Products ==
  ASSUME NEW M \in Nat, NEW a \in Nat, NEW b \in Nat, a <= b
  PROVE  a * M <= b * M
  <1> DEFINE c == b - a
  <1>1. c \in Nat /\ b = a + c
    OBVIOUS
  <1> HIDE DEF c
  <1>2. (a + c) * M = a * M + c * M
    BY <1>1
  <1>3. c * M \in Nat /\ a * M \in Nat
    BY <1>1
  <1>4. QED
    BY <1>1, <1>2, <1>3

LEMMA ImagesBounded ==
  ASSUME BoundAssumption, NEW up \in Seq(Upload), Len(up) <= MaxUploads,
         NEW S \in SUBSET DOMAIN up
  PROVE  /\ ImagesIn(up, S) \in 0..(MaxUploads * MaxImages)
         /\ S # {} => ImagesIn(up, S) \in 1..(MaxUploads * MaxImages)
  <1>1. /\ IsFiniteSet(S) /\ Cardinality(S) \in 0..MaxUploads
        /\ \A t \in S : up[t] \in Upload
    BY SomeUploads
  <1>2. MaxImages \in Nat /\ MaxUploads \in Nat
    BY DEF BoundAssumption
  <1>3. \A t \in S : Weight(up)[t] \in 1..MaxImages
    BY <1>1 DEF Weight, Upload
  <1>4. /\ ImagesIn(up, S) \in Nat /\ Cardinality(S) <= ImagesIn(up, S)
        /\ ImagesIn(up, S) <= Cardinality(S) * MaxImages
    BY <1>1, <1>2, <1>3, SumBounded DEF ImagesIn
  <1>5. Cardinality(S) * MaxImages <= MaxUploads * MaxImages
    BY <1>1, <1>2, Products
  <1>6. S # {} => Cardinality(S) # 0
    BY <1>1, FS_EmptySet
  <1>7. Cardinality(S) * MaxImages \in Nat /\ MaxUploads * MaxImages \in Nat
    BY <1>1, <1>2
  <1> DEFINE c == Cardinality(S)
             p == c * MaxImages
             m == MaxUploads * MaxImages
             i == ImagesIn(up, S)
  <1>8. /\ i \in Nat /\ c \in Nat /\ p \in Nat /\ m \in Nat
        /\ c <= i /\ i <= p /\ p <= m /\ (S # {} => c # 0)
    BY <1>1, <1>4, <1>5, <1>6, <1>7
  <1> HIDE DEF c, p, m, i
  <1>9. i \in 0..m /\ (S # {} => i \in 1..m)
    BY <1>8
  <1>10. QED
    BY <1>9 DEF i, m

(* The lines of a list that is cut from some uploads, each into one line,  *)
(* have their images together.                                             *)
LEMMA ListedAre ==
  ASSUME BoundAssumption, NEW up \in Seq(Upload), Len(up) <= MaxUploads,
         NEW items, IsFiniteSet(items), NEW part,
         \A i \in items : /\ part[i] \in SUBSET DOMAIN up
                          /\ i.images = ImagesIn(up, part[i]),
         Apart(items, part)
  PROVE  ImagesListed(items) = ImagesIn(up, UNION {part[i] : i \in items})
  <1> DEFINE v == [i \in items |-> i.images]
             w == Weight(up)
  <1>1. ASSUME NEW i \in items
        PROVE  /\ IsFiniteSet(part[i]) /\ \A t \in part[i] : w[t] \in Nat
               /\ v[i] = SumFunctionOnSet(w, part[i])
    <2>1. part[i] \in SUBSET DOMAIN up
      OBVIOUS
    <2>2. IsFiniteSet(part[i]) /\ \A t \in part[i] : up[t] \in Upload
      BY <2>1, SomeUploads
    <2>3. \A t \in part[i] : w[t] \in Nat
      BY <2>1, <2>2 DEF Weight, Upload, BoundAssumption
    <2>4. v[i] = SumFunctionOnSet(w, part[i])
      BY DEF ImagesIn
    <2>5. QED
      BY <2>2, <2>3, <2>4
  <1>2. DOMAIN v = items
    OBVIOUS
  <1> HIDE DEF v, w
  <1>3. SumFunctionOnSet(v, items) = SumFunctionOnSet(w, UNION {part[i] : i \in items})
    <2>1. SumsOf(v, items, part, w)
      BY <1>1 DEF SumsOf
    <2>2. QED
      BY <2>1, SumOfParts
  <1>4. SumFunction(v) = SumFunctionOnSet(v, items)
    BY <1>2 DEF SumFunction
  <1>5. QED
    BY <1>3, <1>4 DEF v, w, ImagesListed, ImagesIn

-----------------------------------------------------------------------------
(* The lists of a review and its totals, in one state.                     *)

UploadsTyped ==
    upload \in Seq(Upload) /\ Len(upload) <= MaxUploads

OfDay(u, d) == {t \in Mine(u) : upload[t].day = d}
OfKeyword(u, k) == {t \in Mine(u) : upload[t].keyword = k}
DayLine(u, d) ==
    [day |-> d, keyword |-> Min({upload[t].keyword : t \in OfDay(u, d)}),
     uploads |-> Cardinality(OfDay(u, d)), images |-> ImagesIn(upload, OfDay(u, d))]
KeywordLine(u, k) ==
    [keyword |-> k, uploads |-> Cardinality(OfKeyword(u, k)),
     images |-> ImagesIn(upload, OfKeyword(u, k))]

LEMMA MineTyped ==
  ASSUME BoundAssumption, UploadsTyped, NEW u
  PROVE  /\ Mine(u) \in SUBSET DOMAIN upload
         /\ \A t \in Mine(u) : upload[t] \in Upload
         /\ \A t \in Mine(u) : upload[t].day \in Days /\ upload[t].keyword \in Keywords
         /\ IsFiniteSet(Mine(u)) /\ Cardinality(Mine(u)) \in 0..MaxUploads
         /\ IsFiniteSet(DaysOf(Mine(u))) /\ Cardinality(DaysOf(Mine(u))) \in 0..MaxUploads
         /\ \A d : OfDay(u, d) \in SUBSET DOMAIN upload
         /\ \A k : OfKeyword(u, k) \in SUBSET DOMAIN upload
  <1>1. Mine(u) \in SUBSET DOMAIN upload
    BY DEF Mine, Uploads
  <1>2. /\ \A t \in Mine(u) : upload[t] \in Upload
        /\ IsFiniteSet(Mine(u)) /\ Cardinality(Mine(u)) \in 0..MaxUploads
    BY <1>1, SomeUploads DEF UploadsTyped
  <1>3. \A t \in Mine(u) : upload[t].day \in Days /\ upload[t].keyword \in Keywords
    BY <1>2 DEF Upload
  <1>4. IsFiniteSet(DaysOf(Mine(u))) /\ Cardinality(DaysOf(Mine(u))) \in 0..MaxUploads
    <2> DEFINE f == [t \in Mine(u) |-> upload[t].day]
    <2>1. f \in [Mine(u) -> Days]
      BY <1>3
    <2>2. DaysOf(Mine(u)) = {f[t] : t \in Mine(u)}
      BY DEF DaysOf
    <2> HIDE DEF f
    <2>3. /\ IsFiniteSet({f[t] : t \in Mine(u)})
          /\ Cardinality({f[t] : t \in Mine(u)}) <= Cardinality(Mine(u))
      BY <1>2, <2>1, FewerValues
    <2>4. Cardinality(DaysOf(Mine(u))) \in Nat
      BY <2>2, <2>3, FS_CardinalityType
    <2>5. QED
      BY <1>2, <2>2, <2>3, <2>4 DEF BoundAssumption
  <1>5. QED
    BY <1>1, <1>2, <1>3, <1>4 DEF OfDay, OfKeyword

(* No day is cut off: fewer than all are newer than a day.                 *)
LEMMA DatesAreAll ==
  ASSUME DayAssumption, BoundAssumption, UploadsTyped, NEW u
  PROVE  ReviewDateStats(u, MaxUploads) = {DayLine(u, d) : d \in DaysOf(Mine(u))}
  <1> DEFINE D == DaysOf(Mine(u))
             newer(d) == {e \in D : e > d}
  <1>1. ASSUME NEW d \in D PROVE Cardinality(newer(d)) < MaxUploads
    <2>1. IsFiniteSet(D) /\ Cardinality(D) \in 0..MaxUploads
      BY MineTyped
    <2>2. \A e \in D : e \in Int
      <3>1. D \subseteq Days
        BY MineTyped DEF DaysOf
      <3>2. \A e \in Days : e \in Int
        BY DEF DayAssumption
      <3> HIDE DEF D
      <3>3. QED
        BY <3>1, <3>2
    <2> HIDE DEF D
    <2>3. newer(d) \in SUBSET (D \ {d})
      BY <1>1, <2>2
    <2>4. IsFiniteSet(D \ {d}) /\ Cardinality(D \ {d}) = Cardinality(D) - 1
      BY <1>1, <2>1, FS_RemoveElement
    <2>5. IsFiniteSet(newer(d)) /\ Cardinality(newer(d)) <= Cardinality(D) - 1
      <3> HIDE DEF newer
      <3>1. QED
        BY <2>3, <2>4, FS_Subset
    <2>6. Cardinality(newer(d)) \in Nat
      BY <2>5, FS_CardinalityType
    <2>7. QED
      BY <2>1, <2>5, <2>6 DEF BoundAssumption
  <1>2. {d \in D : Cardinality(newer(d)) < MaxUploads} = D
    <2> HIDE DEF newer
    <2>1. QED
      BY <1>1
  <1>3. ASSUME NEW d \in D PROVE ImagesOf(OfDay(u, d)) = ImagesIn(upload, OfDay(u, d))
    BY MineTyped, ImagesAre DEF ImagesOf, UploadsTyped
  <1>4. ReviewDateStats(u, MaxUploads)
          = { [day |-> d, keyword |-> Min({upload[t].keyword : t \in OfDay(u, d)}),
               uploads |-> Cardinality(OfDay(u, d)), images |-> ImagesOf(OfDay(u, d))] :
              d \in {d \in D : Cardinality(newer(d)) < MaxUploads} }
    BY Zenon DEF ReviewDateStats, OfDay
  <1> HIDE DEF D, newer
  <1>5. ReviewDateStats(u, MaxUploads)
          = { [day |-> d, keyword |-> Min({upload[t].keyword : t \in OfDay(u, d)}),
               uploads |-> Cardinality(OfDay(u, d)), images |-> ImagesOf(OfDay(u, d))] : d \in D}
    BY <1>2, <1>4
  <1>6. QED
    BY <1>3, <1>5 DEF DayLine, D

(* A line for each of some values, where none stands for two of them.      *)
LEMMA LineForEach ==
  ASSUME NEW D, IsFiniteSet(D), NEW line, \A d, e \in D : line[d] = line[e] => d = e
  PROVE  /\ IsFiniteSet({line[d] : d \in D})
         /\ Cardinality({line[d] : d \in D}) = Cardinality(D)
  <1> DEFINE L == {line[d] : d \in D}
             f == [d \in D |-> line[d]]
  <1>1. f \in Surjection(D, L)
    BY DEF Surjection
  <1>2. f \in Injection(D, L)
    BY DEF Injection, IsInjective
  <1> HIDE DEF f, L
  <1>3. IsFiniteSet(L) /\ Cardinality(L) = Cardinality(D)
    BY <1>1, <1>2, FS_Surjection
  <1>4. QED
    BY <1>3 DEF L

LEMMA DatesAdd ==
  ASSUME DayAssumption, BoundAssumption, UploadsTyped, NEW u
  PROVE  LET dates == ReviewDateStats(u, MaxUploads) IN
         /\ IsFiniteSet(dates) /\ Cardinality(dates) = CountMyReviewParticipationDays(u)
         /\ ImagesListed(dates) = ImagesIn(upload, Mine(u))
         /\ \A i \in dates : i \in ReviewDay /\ i.uploads = Cardinality(OfDay(u, i.day))
  <1> DEFINE D == DaysOf(Mine(u))
             dates == {DayLine(u, d) : d \in D}
             line == [d \in D |-> DayLine(u, d)]
             part == [i \in dates |-> OfDay(u, i.day)]
  <1>1. ReviewDateStats(u, MaxUploads) = dates
    BY DatesAreAll
  <1>2. IsFiniteSet(dates) /\ Cardinality(dates) = Cardinality(D)
    <2>1. \A d, e \in D : line[d] = line[e] => d = e
      BY DEF DayLine
    <2>2. IsFiniteSet(D)
      BY MineTyped
    <2>3. dates = {line[d] : d \in D}
      OBVIOUS
    <2> HIDE DEF dates, line, D
    <2>4. QED
      BY <2>1, <2>2, <2>3, LineForEach
  <1>3. ImagesListed(dates) = ImagesIn(upload, Mine(u))
    <2>1. ASSUME NEW i \in dates
          PROVE  /\ part[i] \in SUBSET DOMAIN upload
                 /\ i.images = ImagesIn(upload, part[i])
                 /\ i = DayLine(u, i.day)
      <3>1. PICK d \in D : i = DayLine(u, d)
        OBVIOUS
      <3>2. i.day = d /\ i.images = ImagesIn(upload, OfDay(u, d))
        BY <3>1 DEF DayLine
      <3>3. part[i] = OfDay(u, d)
        BY <3>2
      <3>4. QED
        BY <3>1, <3>2, <3>3, MineTyped
    <2>2. Apart(dates, part)
      <3>1. ASSUME NEW i \in dates, NEW j \in dates, NEW t \in part[i], t \in part[j]
            PROVE  i = j
        <4>1. i = DayLine(u, i.day) /\ j = DayLine(u, j.day)
          BY <2>1
        <4>2. upload[t].day = i.day /\ upload[t].day = j.day
          BY <3>1 DEF OfDay
        <4>3. QED
          BY <4>1, <4>2
      <3> HIDE DEF dates, part
      <3>2. QED
        BY <3>1 DEF Apart
    <2>3. UNION {part[i] : i \in dates} = Mine(u)
      <3>1. ASSUME NEW t \in Mine(u) PROVE t \in UNION {part[i] : i \in dates}
        <4> DEFINE i == DayLine(u, upload[t].day)
        <4>1. i \in dates
          BY DEF DaysOf
        <4>2. t \in part[i]
          BY <4>1 DEF OfDay, DayLine
        <4>3. QED
          BY <4>1, <4>2
      <3>2. \A i \in dates : part[i] \subseteq Mine(u)
        BY DEF OfDay
      <3> HIDE DEF dates, part
      <3>3. QED
        BY <3>1, <3>2
    <2> HIDE DEF dates, part
    <2>4. QED
      BY <1>2, <2>1, <2>2, <2>3, ListedAre DEF UploadsTyped
  <1>4. ASSUME NEW d \in D
        PROVE  DayLine(u, d) \in ReviewDay
               /\ DayLine(u, d).uploads = Cardinality(OfDay(u, DayLine(u, d).day))
    <2>1. d \in Days
      BY MineTyped DEF DaysOf
    <2>2. OfDay(u, d) # {} /\ OfDay(u, d) \in SUBSET DOMAIN upload
      BY MineTyped DEF DaysOf, OfDay
    <2>3. IsFiniteSet(OfDay(u, d)) /\ Cardinality(OfDay(u, d)) \in Times
      <3>1. IsFiniteSet(OfDay(u, d)) /\ Cardinality(OfDay(u, d)) \in 0..MaxUploads
        BY <2>2, SomeUploads DEF UploadsTyped
      <3>2. Cardinality(OfDay(u, d)) # 0
        BY <2>2, <3>1, FS_EmptySet
      <3>3. QED
        BY <3>1, <3>2 DEF Times, BoundAssumption
    <2>4. ImagesIn(upload, OfDay(u, d)) \in 1..(MaxUploads * MaxImages)
      BY <2>2, ImagesBounded DEF UploadsTyped
    <2>5. Min({upload[t].keyword : t \in OfDay(u, d)}) \in Keywords
      <3> DEFINE K == {upload[t].keyword : t \in OfDay(u, d)}
      <3>1. K # {} /\ K \subseteq Keywords
        BY <2>2, MineTyped DEF OfDay
      <3>2. K \in SUBSET Nat
        BY <3>1 DEF DayAssumption
      <3> HIDE DEF K
      <3>3. Min(K) \in K
        BY <3>1, <3>2, LeastIsOne
      <3>4. QED
        BY <3>1, <3>3 DEF K
    <2>6. QED
      BY <2>1, <2>3, <2>4, <2>5 DEF DayLine, ReviewDay
  <1>5. QED
    BY <1>1, <1>2, <1>3, <1>4 DEF CountMyReviewParticipationDays

LEMMA KeywordsAdd ==
  ASSUME BoundAssumption, UploadsTyped, NEW u
  PROVE  LET keywords == ReviewKeywordCounts(u) IN
         /\ ImagesListed(keywords) = ImagesIn(upload, Mine(u))
         /\ \A i \in keywords : i.uploads = Cardinality(OfKeyword(u, i.keyword))
  <1> DEFINE K == {upload[t].keyword : t \in Mine(u)}
             lines == {KeywordLine(u, k) : k \in K}
             line == [k \in K |-> KeywordLine(u, k)]
             part == [i \in lines |-> OfKeyword(u, i.keyword)]
             key == [t \in Mine(u) |-> upload[t].keyword]
  <1>1. ReviewKeywordCounts(u) = lines
    <2>1. ASSUME NEW k \in K PROVE ImagesOf(OfKeyword(u, k)) = ImagesIn(upload, OfKeyword(u, k))
      BY MineTyped, ImagesAre DEF ImagesOf, UploadsTyped
    <2>2. ReviewKeywordCounts(u)
            = { [keyword |-> k, uploads |-> Cardinality(OfKeyword(u, k)),
                 images |-> ImagesOf(OfKeyword(u, k))] : k \in K }
      BY Zenon DEF ReviewKeywordCounts, OfKeyword
    <2> HIDE DEF K
    <2>3. QED
      BY <2>1, <2>2 DEF KeywordLine
  <1>2. IsFiniteSet(lines)
    <2>1. \A k, l \in K : line[k] = line[l] => k = l
      BY DEF KeywordLine
    <2>2. IsFiniteSet(K)
      <3>1. key \in [Mine(u) -> Keywords]
        BY MineTyped
      <3>2. K = {key[t] : t \in Mine(u)}
        OBVIOUS
      <3> HIDE DEF key, K
      <3>3. IsFiniteSet({key[t] : t \in Mine(u)})
        BY <3>1, MineTyped, FewerValues
      <3>4. QED
        BY <3>2, <3>3
    <2>3. lines = {line[k] : k \in K}
      OBVIOUS
    <2> HIDE DEF lines, line, K
    <2>4. QED
      BY <2>1, <2>2, <2>3, LineForEach
  <1>3. ASSUME NEW i \in lines
        PROVE  /\ part[i] \in SUBSET DOMAIN upload
               /\ i.images = ImagesIn(upload, part[i])
               /\ i = KeywordLine(u, i.keyword)
               /\ i.uploads = Cardinality(OfKeyword(u, i.keyword))
    <2>1. PICK k \in K : i = KeywordLine(u, k)
      OBVIOUS
    <2>2. /\ i.keyword = k /\ i.images = ImagesIn(upload, OfKeyword(u, k))
          /\ i.uploads = Cardinality(OfKeyword(u, k))
      BY <2>1 DEF KeywordLine
    <2>3. part[i] = OfKeyword(u, k)
      BY <2>2
    <2>4. QED
      BY <2>1, <2>2, <2>3, MineTyped
  <1>4. Apart(lines, part)
    <2>1. ASSUME NEW i \in lines, NEW j \in lines, NEW t \in part[i], t \in part[j]
          PROVE  i = j
      <3>1. i = KeywordLine(u, i.keyword) /\ j = KeywordLine(u, j.keyword)
        BY <1>3
      <3>2. upload[t].keyword = i.keyword /\ upload[t].keyword = j.keyword
        BY <2>1 DEF OfKeyword
      <3>3. QED
        BY <3>1, <3>2
    <2> HIDE DEF lines, part
    <2>2. QED
      BY <2>1 DEF Apart
  <1>5. UNION {part[i] : i \in lines} = Mine(u)
    <2>1. ASSUME NEW t \in Mine(u) PROVE t \in UNION {part[i] : i \in lines}
      <3> DEFINE i == KeywordLine(u, upload[t].keyword)
      <3>1. i \in lines
        OBVIOUS
      <3>2. t \in part[i]
        BY <3>1 DEF OfKeyword, KeywordLine
      <3>3. QED
        BY <3>1, <3>2
    <2>2. \A i \in lines : part[i] \subseteq Mine(u)
      BY DEF OfKeyword
    <2> HIDE DEF lines, part
    <2>3. QED
      BY <2>1, <2>2
  <1> HIDE DEF lines, part
  <1>6. ImagesListed(lines) = ImagesIn(upload, Mine(u))
    BY <1>2, <1>3, <1>4, <1>5, ListedAre DEF UploadsTyped
  <1>7. QED
    BY <1>1, <1>3, <1>6

LEMMA ViewsAgree ==
  ASSUME DayAssumption, BoundAssumption, UploadsTyped
  PROVE  ReviewViewsAgree
  <1> SUFFICES ASSUME NEW u \in Users
               PROVE  LET dates == ReviewDateStats(u, MaxUploads)
                          keywords == ReviewKeywordCounts(u)
                      IN  /\ Cardinality(dates) = CountMyReviewParticipationDays(u)
                          /\ ImagesListed(dates) = CountMyReviewImageTotal(u)
                          /\ ImagesListed(keywords) = CountMyReviewImageTotal(u)
                          /\ \A i \in dates :
                               i.uploads = Len(ReviewUploadsByDate(u, i.day, MaxUploads))
                          /\ \A i \in keywords :
                               i.uploads = Len(ReviewUploadsByKeyword(u, i.keyword, MaxUploads))
    BY Zenon DEF ReviewViewsAgree
  <1>1. CountMyReviewImageTotal(u) = ImagesIn(upload, Mine(u))
    BY MineTyped, ImagesAre DEF CountMyReviewImageTotal, ImagesOf, UploadsTyped
  <1>2. ASSUME NEW S \in SUBSET DOMAIN upload
        PROVE  Len(Latest(S, MaxUploads)) = Cardinality(S)
    <2>1. MaxUploads \in Nat /\ Cardinality(S) \in 0..MaxUploads
      BY SomeUploads DEF BoundAssumption, UploadsTyped
    <2>2. Len(Latest(S, MaxUploads))
            = IF MaxUploads < Cardinality(S) THEN MaxUploads ELSE Cardinality(S)
      BY <2>1, LatestFeed DEF UploadsTyped
    <2>3. QED
      BY <2>1, <2>2
  <1>3. \A d : Len(ReviewUploadsByDate(u, d, MaxUploads)) = Cardinality(OfDay(u, d))
    <2>1. ASSUME NEW d
          PROVE  Len(ReviewUploadsByDate(u, d, MaxUploads)) = Cardinality(OfDay(u, d))
      <3>1. ReviewUploadsByDate(u, d, MaxUploads) = Latest(OfDay(u, d), MaxUploads)
        BY DEF ReviewUploadsByDate, OfDay
      <3>2. OfDay(u, d) \in SUBSET DOMAIN upload
        BY MineTyped
      <3>3. QED
        BY <1>2, <3>1, <3>2
    <2>2. QED
      BY <2>1
  <1>4. \A k : Len(ReviewUploadsByKeyword(u, k, MaxUploads)) = Cardinality(OfKeyword(u, k))
    <2>1. ASSUME NEW k
          PROVE  Len(ReviewUploadsByKeyword(u, k, MaxUploads)) = Cardinality(OfKeyword(u, k))
      <3>1. ReviewUploadsByKeyword(u, k, MaxUploads) = Latest(OfKeyword(u, k), MaxUploads)
        BY DEF ReviewUploadsByKeyword, OfKeyword
      <3>2. OfKeyword(u, k) \in SUBSET DOMAIN upload
        BY MineTyped
      <3>3. QED
        BY <1>2, <3>1, <3>2
    <2>2. QED
      BY <2>1
  <1>5. QED
    BY <1>1, <1>3, <1>4, DatesAdd, KeywordsAdd

(* One more is published: no review has fewer days or images for it.       *)
LEMMA ReviewGrows ==
  ASSUME DayAssumption, BoundAssumption, UploadsTyped, UploadsTyped', NEW u,
         \A t \in DOMAIN upload : t \in DOMAIN upload' /\ upload'[t] = upload[t]
  PROVE  /\ CountMyReviewParticipationDays(u) <= CountMyReviewParticipationDays(u)'
         /\ CountMyReviewImageTotal(u) <= CountMyReviewImageTotal(u)'
  <1>1. /\ Mine(u) \in SUBSET DOMAIN upload /\ Mine(u)' \in SUBSET DOMAIN upload'
        /\ Mine(u) \in SUBSET Mine(u)'
    BY DEF Mine, Uploads, Official
  <1>2. /\ IsFiniteSet(Mine(u)') /\ \A t \in Mine(u)' : upload'[t] \in Upload
        /\ IsFiniteSet(Mine(u)) /\ Cardinality(Mine(u)') \in Nat
    <2>1. IsFiniteSet(Mine(u)') /\ \A t \in Mine(u)' : upload'[t] \in Upload
      BY <1>1, SomeUploads DEF UploadsTyped
    <2>2. QED
      BY <1>1, <2>1, FS_Subset, FS_CardinalityType
  <1>3. CountMyReviewImageTotal(u) = ImagesIn(upload, Mine(u))
    BY <1>1, ImagesAre DEF CountMyReviewImageTotal, ImagesOf, UploadsTyped
  <1>4. CountMyReviewImageTotal(u)' = ImagesIn(upload', Mine(u)')
    BY <1>1, ImagesAre DEF CountMyReviewImageTotal, ImagesOf, UploadsTyped
  <1>5. ImagesIn(upload, Mine(u)) = ImagesIn(upload', Mine(u))
    <2>1. \A t \in Mine(u) : Weight(upload)[t] = Weight(upload')[t]
      BY <1>1 DEF Weight
    <2>2. QED
      BY <1>2, <2>1, SumSame DEF ImagesIn
  <1>6. ImagesIn(upload', Mine(u)) <= ImagesIn(upload', Mine(u)')
    <2> DEFINE M == Mine(u)'
    <2>1. \A t \in M : Weight(upload')[t] \in Nat
      BY <1>1, <1>2 DEF Weight, Upload, BoundAssumption
    <2>2. Mine(u) \in SUBSET M /\ IsFiniteSet(M)
      BY <1>1, <1>2
    <2> HIDE DEF M
    <2>3. ImagesIn(upload', Mine(u)) <= ImagesIn(upload', M)
      BY <2>1, <2>2, SumGrows DEF ImagesIn
    <2>4. QED
      BY <2>3 DEF M
  <1>7. Cardinality(DaysOf(Mine(u))) <= Cardinality(DaysOf(Mine(u))')
    <2>1. DaysOf(Mine(u)) \in SUBSET DaysOf(Mine(u))'
      BY <1>1 DEF DaysOf
    <2>2. IsFiniteSet(DaysOf(Mine(u))')
      <3> DEFINE f == [t \in Mine(u)' |-> upload'[t].day]
      <3>1. f \in [Mine(u)' -> Days]
        BY <1>2 DEF Upload
      <3>2. DaysOf(Mine(u))' = {f[t] : t \in Mine(u)'}
        BY DEF DaysOf
      <3> HIDE DEF f
      <3>3. IsFiniteSet({f[t] : t \in Mine(u)'})
        BY <1>2, <3>1, FewerValues
      <3>4. QED
        BY <3>2, <3>3
    <2>3. QED
      BY <2>1, <2>2, FS_Subset
  <1>8. QED
    BY <1>3, <1>4, <1>5, <1>6, <1>7 DEF CountMyReviewParticipationDays

-----------------------------------------------------------------------------
(* What is known of a request between its statements: what it is about to  *)
(* show may be shown to its user, and what it listed of a review is no     *)
(* more than the total that it read, or is yet to read.                    *)

Request ==
    [pc : {"idle", "own", "images", "days", "total"},
     op : {"none", "public", "review", "dates"}, u : Users, t : 0..MaxUploads,
     shown : 0..MaxUploads, images : 0..MaxImages, items : SUBSET ReviewDay,
     days : 0..MaxUploads, total : 0..(MaxUploads * MaxImages), late : BOOLEAN]

MayBeShown(q, t) ==
    t \in Uploads /\ Official(t) /\ (q.late => upload[t].author = q.u)

Sound(q) ==
    /\ Cardinality(q.items) \in Nat /\ ImagesListed(q.items) \in Nat
    /\ q.pc \in {"own", "images"} => q.op # "dates"
    /\ q.pc = "images" => MayBeShown(q, q.t)
    /\ q.shown # 0 => MayBeShown(q, q.shown)
    /\ q.pc = "days" => Cardinality(q.items) <= CountMyReviewParticipationDays(q.u)
    /\ q.pc = "total" => Cardinality(q.items) <= q.days
    /\ q.pc \in {"days", "total"} => ImagesListed(q.items) <= CountMyReviewImageTotal(q.u)
    /\ (q.pc = "idle" /\ q.op = "dates") =>
          Cardinality(q.items) <= q.days /\ ImagesListed(q.items) <= q.total

ReadInv ==
    /\ UploadsTyped /\ hidden \subseteq Times
    /\ req \in [Requests -> Request]
    /\ \A r \in Requests : Sound(req[r])

LEMMA InvIsTyped ==
  ASSUME ReadInv
  PROVE  TypeOK
  BY DEF ReadInv, UploadsTyped, TypeOK, Request

LEMMA CountsTyped ==
  ASSUME DayAssumption, BoundAssumption, UploadsTyped, NEW u
  PROVE  /\ CountMyReviewParticipationDays(u) \in 0..MaxUploads
         /\ CountMyReviewImageTotal(u) \in 0..(MaxUploads * MaxImages)
  <1>1. CountMyReviewImageTotal(u) = ImagesIn(upload, Mine(u))
    BY MineTyped, ImagesAre DEF CountMyReviewImageTotal, ImagesOf, UploadsTyped
  <1>2. QED
    BY <1>1, MineTyped, ImagesBounded DEF CountMyReviewParticipationDays, UploadsTyped

LEMMA LaterCountsTyped ==
  ASSUME DayAssumption, BoundAssumption, UploadsTyped', NEW u
  PROVE  /\ CountMyReviewParticipationDays(u)' \in Int
         /\ CountMyReviewImageTotal(u)' \in Int
  <1>1. Mine(u)' \in SUBSET DOMAIN upload'
    BY DEF Mine, Uploads
  <1>2. IsFiniteSet(Mine(u)') /\ \A t \in Mine(u)' : upload'[t] \in Upload
    BY <1>1, SomeUploads DEF UploadsTyped
  <1>3. CountMyReviewImageTotal(u)' \in Int
    <2>1. CountMyReviewImageTotal(u)' = ImagesIn(upload', Mine(u)')
      BY <1>1, ImagesAre DEF CountMyReviewImageTotal, ImagesOf, UploadsTyped
    <2>2. ImagesIn(upload', Mine(u)') \in 0..(MaxUploads * MaxImages)
      BY <1>1, ImagesBounded DEF UploadsTyped
    <2>3. QED
      BY <2>1, <2>2
  <1>4. CountMyReviewParticipationDays(u)' \in Int
    <2> DEFINE f == [t \in Mine(u)' |-> upload'[t].day]
    <2>1. f \in [Mine(u)' -> Days]
      BY <1>2 DEF Upload
    <2>2. DaysOf(Mine(u))' = {f[t] : t \in Mine(u)'}
      BY DEF DaysOf
    <2> HIDE DEF f
    <2>3. IsFiniteSet({f[t] : t \in Mine(u)'})
      BY <1>2, <2>1, FewerValues
    <2>4. Cardinality(DaysOf(Mine(u))') \in Nat
      BY <2>2, <2>3, FS_CardinalityType
    <2>5. QED
      BY <2>4 DEF CountMyReviewParticipationDays
  <1>5. QED
    BY <1>3, <1>4

LEMMA NothingListed == Cardinality({}) = 0 /\ ImagesListed({}) = 0
  <1> DEFINE v == [i \in {} |-> i.images]
  <1>1. IsFiniteSet({}) /\ Cardinality({}) = 0
    BY FS_EmptySet
  <1>2. DOMAIN v = {}
    OBVIOUS
  <1> HIDE DEF v
  <1>3. SumFunction(v) = 0
    BY <1>1, <1>2, SumFirst DEF SumFunction
  <1>4. QED
    BY <1>1, <1>3 DEF ImagesListed, v

LEMMA IdleIsSound ==
  ASSUME BoundAssumption, UserAssumption
  PROVE  Idle \in Request /\ Sound(Idle)
  <1>1. (CHOOSE u \in Users : TRUE) \in Users
    BY DEF UserAssumption
  <1>2. 0 \in 0..MaxUploads /\ 0 \in 0..MaxImages /\ 0 \in 0..(MaxUploads * MaxImages)
    <2>1. MaxUploads \in Nat /\ MaxImages \in Nat
      BY DEF BoundAssumption
    <2>2. MaxUploads * MaxImages \in Nat
      BY <2>1
    <2>3. QED
      BY <2>1, <2>2
  <1>3. Idle \in Request
    BY <1>1, <1>2 DEF Idle, Request
  <1>4. Sound(Idle)
    BY NothingListed DEF Idle, Sound
  <1>5. QED
    BY <1>3, <1>4

LEMMA ReadInit ==
  ASSUME DayAssumption, BoundAssumption, UserAssumption, Init
  PROVE  ReadInv
  <1>1. upload \in Seq(Upload) /\ Len(upload) = 0
    BY DEF Init
  <1>2. QED
    BY <1>1, IdleIsSound DEF Init, ReadInv, UploadsTyped, BoundAssumption

LEMMA SoundStays ==
  ASSUME upload' = upload, NEW q, Sound(q)
  PROVE  Sound(q)'
  <1>1. CountMyReviewParticipationDays(q.u)' = CountMyReviewParticipationDays(q.u)
    BY DEF CountMyReviewParticipationDays, DaysOf, Mine, Uploads, Official
  <1>2. CountMyReviewImageTotal(q.u)' = CountMyReviewImageTotal(q.u)
    BY DEF CountMyReviewImageTotal, ImagesOf, Mine, Uploads, Official
  <1>3. \A t : MayBeShown(q, t)' <=> MayBeShown(q, t)
    BY DEF MayBeShown, Uploads, Official
  <1>4. QED
    BY <1>1, <1>2, <1>3 DEF Sound

LEMMA OneMoves ==
  ASSUME ReadInv, NEW r \in Requests, NEW s, Set(r, s), UNCHANGED <<upload, hidden>>,
         s \in Request, Sound(s)
  PROVE  ReadInv'
  <1>1. req' = [req EXCEPT ![r] = s] /\ req' \in [Requests -> Request]
    BY DEF Set, ReadInv
  <1>2. ASSUME NEW q \in Requests PROVE Sound(req[q])'
    <2>1. PICK x : x = req'[q] /\ Sound(x)
      BY <1>1 DEF ReadInv
    <2>2. Sound(x)'
      BY <2>1, SoundStays
    <2>3. QED
      BY <2>1, <2>2 DEF Sound, MayBeShown
  <1>3. QED
    BY <1>1, <1>2 DEF ReadInv, UploadsTyped

LEMMA PublishKept ==
  ASSUME DayAssumption, BoundAssumption, ReadInv, NEW w \in Upload, Publish(w)
  PROVE  ReadInv'
  <1>1. /\ upload' = Append(upload, w) /\ Len(upload) < MaxUploads /\ UNCHANGED <<hidden, req>>
        /\ upload \in Seq(Upload)
    BY DEF Publish, ReadInv, UploadsTyped
  <1>2. /\ upload' \in Seq(Upload) /\ Len(upload') = Len(upload) + 1
        /\ \A t \in DOMAIN upload : t \in DOMAIN upload' /\ upload'[t] = upload[t]
    BY <1>1
  <1>3. UploadsTyped'
    BY <1>1, <1>2 DEF UploadsTyped, BoundAssumption
  <1>4. ASSUME NEW r \in Requests PROVE Sound(req[r])'
    <2> DEFINE q == req[r]
    <2>1. Sound(q) /\ q' = q
      BY <1>1 DEF ReadInv
    <2>2. /\ CountMyReviewParticipationDays(q.u) <= CountMyReviewParticipationDays(q.u)'
          /\ CountMyReviewImageTotal(q.u) <= CountMyReviewImageTotal(q.u)'
      <3>1. PICK u : u = q.u
        OBVIOUS
      <3>2. /\ CountMyReviewParticipationDays(u) <= CountMyReviewParticipationDays(u)'
            /\ CountMyReviewImageTotal(u) <= CountMyReviewImageTotal(u)'
        BY <1>2, <1>3, ReviewGrows DEF ReadInv
      <3>3. QED
        BY <2>1, <3>1, <3>2
    <2>3. /\ CountMyReviewParticipationDays(q.u) \in Int
          /\ CountMyReviewParticipationDays(q.u)' \in Int
          /\ CountMyReviewImageTotal(q.u) \in Int /\ CountMyReviewImageTotal(q.u)' \in Int
      <3>1. UploadsTyped
        BY DEF ReadInv
      <3>2. \A u : /\ CountMyReviewParticipationDays(u) \in 0..MaxUploads
                  /\ CountMyReviewImageTotal(u) \in 0..(MaxUploads * MaxImages)
        BY <3>1, CountsTyped
      <3>3. PICK u : u = q.u
        OBVIOUS
      <3>4. /\ CountMyReviewParticipationDays(u)' \in Int
            /\ CountMyReviewImageTotal(u)' \in Int
        BY <1>3, LaterCountsTyped
      <3>5. QED
        BY <2>1, <3>2, <3>3, <3>4
    <2>4. \A t : MayBeShown(q, t) => MayBeShown(q, t)'
      BY <1>2, <2>1 DEF MayBeShown, Uploads, Official
    <2> HIDE DEF q
    <2>5. Sound(q)'
      BY <2>1, <2>2, <2>3, <2>4 DEF Sound
    <2>6. QED
      BY <2>5 DEF q
  <1>5. QED
    BY <1>1, <1>3, <1>4 DEF ReadInv

LEMMA HideKept ==
  ASSUME ReadInv, NEW t \in Times, Hide(t)
  PROVE  ReadInv'
  <1>1. upload' = upload /\ req' = req /\ hidden' \subseteq Times
    BY DEF Hide, ReadInv
  <1>2. ASSUME NEW r \in Requests PROVE Sound(req[r])'
    <2>1. PICK x : x = req[r] /\ Sound(x)
      BY DEF ReadInv
    <2>2. Sound(x)'
      BY <1>1, <2>1, SoundStays
    <2>3. QED
      BY <1>1, <2>1, <2>2 DEF Sound, MayBeShown
  <1>3. QED
    BY <1>1, <1>2 DEF ReadInv, UploadsTyped

LEMMA DetailKept ==
  ASSUME BoundAssumption, UserAssumption, ReadInv,
         NEW r \in Requests, NEW u \in Users, NEW t \in Times,
         GetOfficialUpload(r, u, t) \/ GetReviewUpload(r, u, t)
  PROVE  ReadInv'
  <1> DEFINE pcs == {"images", "own"}
  <1>1. t \in 0..MaxUploads
    BY DEF Times, BoundAssumption
  <1>2. ASSUME NEW op \in {"public", "review"}, NEW pc \in pcs,
               pc = "images" => GetPublicUploadCard(t),
               Set(r, [Idle EXCEPT !.op = op, !.u = u, !.t = t, !.late = t \in hidden, !.pc = pc]),
               UNCHANGED <<upload, hidden>>
        PROVE  ReadInv'
    <2> DEFINE late == t \in hidden
               s == [Idle EXCEPT !.op = op, !.u = u, !.t = t, !.late = late, !.pc = pc]
    <2>1. s \in Request
      <3>1. late \in BOOLEAN
        OBVIOUS
      <3> HIDE DEF late
      <3>2. QED
        BY <1>1, <3>1, IdleIsSound DEF Request
    <2>2. Sound(s)
      <3>1. pc = "images" => MayBeShown(s, t)
        <4>1. s.late = (t \in hidden)
          BY DEF Idle
        <4>2. QED
          BY <1>2, <4>1 DEF MayBeShown, GetPublicUploadCard, Public
      <3>2. /\ s.pc = pc /\ s.op = op /\ s.t = t /\ s.items = {} /\ s.shown = 0
        BY DEF Idle
      <3> HIDE DEF s
      <3>3. QED
        BY <3>1, <3>2, NothingListed DEF Sound
    <2> HIDE DEF s
    <2>3. QED
      BY <1>2, <2>1, <2>2, OneMoves DEF s
  <1>3. CASE GetOfficialUpload(r, u, t) /\ GetPublicUploadCard(t)
    BY <1>2, <1>3 DEF GetOfficialUpload
  <1>4. CASE GetOfficialUpload(r, u, t) /\ ~GetPublicUploadCard(t)
    <2>1. Set(r, Idle) /\ UNCHANGED <<upload, hidden>>
      BY <1>4 DEF GetOfficialUpload, NotFound
    <2>2. QED
      BY <2>1, IdleIsSound, OneMoves
  <1>5. CASE GetReviewUpload(r, u, t)
    <2> DEFINE pc == IF GetPublicUploadCard(t) THEN "images" ELSE "own"
    <2>1. pc \in pcs /\ (pc = "images" => GetPublicUploadCard(t))
      OBVIOUS
    <2>2. Set(r, [Idle EXCEPT !.op = "review", !.u = u, !.t = t, !.late = t \in hidden, !.pc = pc])
      BY <1>5 DEF GetReviewUpload
    <2>3. UNCHANGED <<upload, hidden>>
      BY <1>5 DEF GetReviewUpload
    <2> HIDE DEF pc, pcs
    <2>4. QED
      BY <1>2, <2>1, <2>2, <2>3
  <1>6. QED
    BY <1>3, <1>4, <1>5

LEMMA OwnCardKept ==
  ASSUME BoundAssumption, UserAssumption, ReadInv, NEW r \in Requests, GetOwnCard(r)
  PROVE  ReadInv'
  <1>1. req[r] \in Request /\ Sound(req[r])
    BY DEF ReadInv
  <1>2. CASE GetMyReviewUploadCard(req[r].t, req[r].u)
    <2> DEFINE s == [req[r] EXCEPT !.pc = "images"]
    <2>1. Set(r, s) /\ UNCHANGED <<upload, hidden>> /\ req[r].pc = "own"
      BY <1>2 DEF GetOwnCard
    <2>2. s \in Request
      BY <1>1 DEF Request
    <2>3. /\ s.pc = "images" /\ s.op = req[r].op /\ s.t = req[r].t /\ s.shown = req[r].shown
          /\ s.items = req[r].items /\ s.u = req[r].u /\ s.late = req[r].late
      BY <1>1 DEF Request
    <2> HIDE DEF s
    <2>4. MayBeShown(s, s.t)
      BY <1>2, <2>3 DEF MayBeShown, GetMyReviewUploadCard
    <2>5. Sound(s)
      BY <1>1, <2>1, <2>3, <2>4 DEF Sound, MayBeShown
    <2>6. QED
      BY <2>1, <2>2, <2>5, OneMoves
  <1>3. CASE ~GetMyReviewUploadCard(req[r].t, req[r].u)
    <2>1. Set(r, Idle) /\ UNCHANGED <<upload, hidden>>
      BY <1>3 DEF GetOwnCard, NotFound
    <2>2. QED
      BY <2>1, IdleIsSound, OneMoves
  <1>4. QED
    BY <1>2, <1>3

LEMMA ImagesKept ==
  ASSUME BoundAssumption, ReadInv, NEW r \in Requests, ListUploadImages(r)
  PROVE  ReadInv'
  <1>1. req[r] \in Request /\ Sound(req[r]) /\ req[r].pc = "images"
    BY DEF ReadInv, ListUploadImages
  <1> DEFINE s == [req[r] EXCEPT !.pc = "idle", !.shown = req[r].t,
                                 !.images = upload[req[r].t].images]
  <1>2. Set(r, s) /\ UNCHANGED <<upload, hidden>>
    BY DEF ListUploadImages
  <1>3. MayBeShown(req[r], req[r].t) /\ req[r].op # "dates"
    BY <1>1 DEF Sound
  <1>4. upload[req[r].t].images \in 0..MaxImages
    <2>1. upload[req[r].t] \in Upload
      BY <1>3 DEF MayBeShown, Uploads, ReadInv, UploadsTyped
    <2>2. QED
      BY <2>1 DEF Upload, BoundAssumption
  <1>5. s \in Request
    BY <1>1, <1>4 DEF Request
  <1>6. /\ s.pc = "idle" /\ s.op = req[r].op /\ s.shown = req[r].t /\ s.items = req[r].items
        /\ s.u = req[r].u /\ s.late = req[r].late
    BY <1>1 DEF Request
  <1> HIDE DEF s
  <1>7. Sound(s)
    BY <1>1, <1>3, <1>6 DEF Sound, MayBeShown
  <1>8. QED
    BY <1>2, <1>5, <1>7, OneMoves

LEMMA DatesKept ==
  ASSUME DayAssumption, BoundAssumption, UserAssumption, ReadInv,
         NEW r \in Requests, NEW u \in Users, ListReviewDates(r, u)
  PROVE  ReadInv'
  <1> DEFINE dates == ReviewDateStats(u, MaxUploads)
             s == [Idle EXCEPT !.op = "dates", !.u = u, !.pc = "days", !.items = dates]
  <1>1. Set(r, s) /\ UNCHANGED <<upload, hidden>>
    BY DEF ListReviewDates
  <1>2. /\ IsFiniteSet(dates) /\ Cardinality(dates) = CountMyReviewParticipationDays(u)
        /\ ImagesListed(dates) = CountMyReviewImageTotal(u)
        /\ dates \in SUBSET ReviewDay
    <2>1. CountMyReviewImageTotal(u) = ImagesIn(upload, Mine(u))
      BY MineTyped, ImagesAre DEF CountMyReviewImageTotal, ImagesOf, UploadsTyped, ReadInv
    <2>2. QED
      BY <2>1, DatesAdd DEF ReadInv
  <1>3. /\ CountMyReviewParticipationDays(u) \in Nat /\ CountMyReviewImageTotal(u) \in Nat
    <2>1. UploadsTyped
      BY DEF ReadInv
    <2>2. QED
      BY <2>1, CountsTyped
  <1> HIDE DEF dates
  <1>4. s \in Request
    BY <1>2, IdleIsSound DEF Request
  <1>5. /\ s.pc = "days" /\ s.op = "dates" /\ s.shown = 0 /\ s.items = dates /\ s.u = u
    BY DEF Idle
  <1> HIDE DEF s
  <1>6. Sound(s)
    BY <1>2, <1>3, <1>5 DEF Sound
  <1>7. QED
    BY <1>1, <1>4, <1>6, OneMoves

LEMMA DaysKept ==
  ASSUME DayAssumption, BoundAssumption, ReadInv, NEW r \in Requests, CountDays(r)
  PROVE  ReadInv'
  <1>1. req[r] \in Request /\ Sound(req[r]) /\ req[r].pc = "days"
    BY DEF ReadInv, CountDays
  <1> DEFINE days == CountMyReviewParticipationDays(req[r].u)
             s == [req[r] EXCEPT !.pc = "total", !.days = days]
  <1>2. Set(r, s) /\ UNCHANGED <<upload, hidden>>
    BY DEF CountDays
  <1>3. days \in 0..MaxUploads
    BY CountsTyped DEF ReadInv
  <1>4. s \in Request
    BY <1>1, <1>3 DEF Request
  <1>5. /\ s.pc = "total" /\ s.op = req[r].op /\ s.shown = req[r].shown
        /\ s.items = req[r].items /\ s.u = req[r].u /\ s.late = req[r].late /\ s.days = days
    BY <1>1 DEF Request
  <1> HIDE DEF s
  <1>6. Sound(s)
    BY <1>1, <1>5 DEF Sound, MayBeShown
  <1>7. QED
    BY <1>2, <1>4, <1>6, OneMoves

LEMMA TotalKept ==
  ASSUME DayAssumption, BoundAssumption, ReadInv, NEW r \in Requests, CountImages(r)
  PROVE  ReadInv'
  <1>1. req[r] \in Request /\ Sound(req[r]) /\ req[r].pc = "total"
    BY DEF ReadInv, CountImages
  <1> DEFINE total == CountMyReviewImageTotal(req[r].u)
             s == [req[r] EXCEPT !.pc = "idle", !.total = total]
  <1>2. Set(r, s) /\ UNCHANGED <<upload, hidden>>
    BY DEF CountImages
  <1>3. total \in 0..(MaxUploads * MaxImages)
    BY CountsTyped DEF ReadInv
  <1> HIDE DEF total
  <1>4. s \in Request
    BY <1>1, <1>3 DEF Request
  <1>5. /\ s.pc = "idle" /\ s.op = req[r].op /\ s.shown = req[r].shown
        /\ s.items = req[r].items /\ s.u = req[r].u /\ s.late = req[r].late
        /\ s.days = req[r].days /\ s.total = total
    BY <1>1 DEF Request
  <1> HIDE DEF s
  <1>6. Sound(s)
    BY <1>1, <1>5 DEF Sound, MayBeShown, total
  <1>7. QED
    BY <1>2, <1>4, <1>6, OneMoves

(* Every step keeps it.                                                    *)
LEMMA ReadStep ==
  ASSUME DayAssumption, BoundAssumption, UserAssumption, ReadInv, [Next]_vars
  PROVE  ReadInv'
  <1>1. ASSUME NEW w \in Upload, Publish(w) PROVE ReadInv'
    BY <1>1, PublishKept
  <1>2. ASSUME NEW t \in Times, Hide(t) PROVE ReadInv'
    BY <1>2, HideKept
  <1>3. ASSUME NEW r \in Requests, NEW u \in Users, NEW t \in Times,
               GetOfficialUpload(r, u, t) \/ GetReviewUpload(r, u, t)
        PROVE  ReadInv'
    BY <1>3, DetailKept
  <1>4. ASSUME NEW r \in Requests, NEW u \in Users, ListReviewDates(r, u) PROVE ReadInv'
    BY <1>4, DatesKept
  <1>5. ASSUME NEW r \in Requests,
               GetOwnCard(r) \/ ListUploadImages(r) \/ CountDays(r) \/ CountImages(r)
        PROVE  ReadInv'
    BY <1>5, OwnCardKept, ImagesKept, DaysKept, TotalKept
  <1>6. CASE UNCHANGED vars
    <2>1. upload' = upload /\ hidden' = hidden /\ req' = req
      BY <1>6 DEF vars
    <2>2. ASSUME NEW r \in Requests PROVE Sound(req[r])'
      <3>1. PICK x : x = req[r] /\ Sound(x)
        BY DEF ReadInv
      <3>2. Sound(x)'
        BY <2>1, <3>1, SoundStays
      <3>3. QED
        BY <2>1, <3>1, <3>2 DEF Sound, MayBeShown
    <2>3. QED
      BY <2>1, <2>2 DEF ReadInv, UploadsTyped
  <1>7. QED
    BY <1>1, <1>2, <1>3, <1>4, <1>5, <1>6 DEF Next

(* Over a step the uploads there are stay what they are.                   *)
LEMMA UploadsStay ==
  ASSUME ReadInv, [Next]_vars
  PROVE  \A t \in DOMAIN upload : t \in DOMAIN upload' /\ upload'[t] = upload[t]
  <1>1. CASE upload' = upload
    BY <1>1
  <1>2. CASE \E w \in Upload : Publish(w)
    <2>1. PICK w \in Upload : upload' = Append(upload, w)
      BY <1>2 DEF Publish
    <2>2. upload \in Seq(Upload)
      BY DEF ReadInv, UploadsTyped
    <2>3. QED
      BY <2>1, <2>2
  <1>3. QED
    BY <1>1, <1>2 DEF Next, vars, Hide, GetOfficialUpload, GetReviewUpload, ListReviewDates,
                      GetOwnCard, ListUploadImages, CountDays, CountImages

LEMMA SeedStep ==
  ASSUME DayAssumption, BoundAssumption, UserAssumption, ReadInv, [Next]_vars
  PROVE  SameSeedSameOrder
  <1>1. ReadInv'
    BY ReadStep
  <1>2. /\ upload \in Seq(Upload) /\ Len(upload) <= MaxUploads
        /\ upload' \in Seq(Upload) /\ Len(upload') <= MaxUploads /\ Seeds \subseteq Nat
        /\ \A t \in DOMAIN upload : t \in DOMAIN upload' /\ upload'[t] = upload[t]
    BY <1>1, UploadsStay DEF ReadInv, UploadsTyped, Seeds, BoundAssumption
  <1>3. ASSUME NEW seed \in Seeds, NEW S \in SUBSET DOMAIN upload, NEW T \in SUBSET DOMAIN upload'
        PROVE  Keeps(SeedRows(upload, S, seed, MaxUploads), SeedRows(upload', T, seed, MaxUploads))
    BY <1>2, SeedKeeps
  <1>4. ASSUME NEW S \in SUBSET DOMAIN upload, NEW seed \in Seeds
        PROVE  FromSeed(S, seed, MaxUploads) = SeedRows(upload, S, seed, MaxUploads)
    BY <1>2, FromSeedIs DEF Uploads
  <1>5. ASSUME NEW seed \in Seeds, NEW d \in Days
        PROVE  Keeps(ListPublicUploadsByDateRandom(d, seed, MaxUploads),
                     ListPublicUploadsByDateRandom(d, seed, MaxUploads)')
    <2>1. OnDay(d) \in SUBSET DOMAIN upload /\ OnDay(d)' \in SUBSET DOMAIN upload'
      BY DEF OnDay, Uploads
    <2>2. ListPublicUploadsByDateRandom(d, seed, MaxUploads)
            = SeedRows(upload, OnDay(d), seed, MaxUploads)
      BY <1>4, <2>1 DEF ListPublicUploadsByDateRandom
    <2>3. ListPublicUploadsByDateRandom(d, seed, MaxUploads)'
            = SeedRows(upload', OnDay(d)', seed, MaxUploads)
      <3>1. ListPublicUploadsByDateRandom(d, seed, MaxUploads)'
              = FirstOf(OrderBy(OnDay(d)', KeyPairs(upload', OnDay(d)', seed)), MaxUploads)
        BY DEF ListPublicUploadsByDateRandom, FromSeed, KeyPairs
      <3>2. KeyPairs(upload', OnDay(d)', seed) = SeedPairs(upload', OnDay(d)', seed)
        BY <1>2, <2>1, KeyPairsAre
      <3>3. QED
        BY <3>1, <3>2 DEF SeedRows
    <2>4. QED
      BY <1>3, <2>1, <2>2, <2>3
  <1>6. ASSUME NEW seed \in Seeds, NEW k \in Keywords
        PROVE  Keeps(ListPublicUploadsByKeywordRandom(k, seed, MaxUploads),
                     ListPublicUploadsByKeywordRandom(k, seed, MaxUploads)')
    <2>1. Under(k) \in SUBSET DOMAIN upload /\ Under(k)' \in SUBSET DOMAIN upload'
      BY DEF Under, Uploads
    <2>2. ListPublicUploadsByKeywordRandom(k, seed, MaxUploads)
            = SeedRows(upload, Under(k), seed, MaxUploads)
      BY <1>4, <2>1 DEF ListPublicUploadsByKeywordRandom
    <2>3. ListPublicUploadsByKeywordRandom(k, seed, MaxUploads)'
            = SeedRows(upload', Under(k)', seed, MaxUploads)
      <3>1. ListPublicUploadsByKeywordRandom(k, seed, MaxUploads)'
              = FirstOf(OrderBy(Under(k)', KeyPairs(upload', Under(k)', seed)), MaxUploads)
        BY DEF ListPublicUploadsByKeywordRandom, FromSeed, KeyPairs
      <3>2. KeyPairs(upload', Under(k)', seed) = SeedPairs(upload', Under(k)', seed)
        BY <1>2, <2>1, KeyPairsAre
      <3>3. QED
        BY <3>1, <3>2 DEF SeedRows
    <2>4. QED
      BY <1>3, <2>1, <2>2, <2>3
  <1>7. QED
    BY <1>5, <1>6 DEF SameSeedSameOrder

-----------------------------------------------------------------------------
(* What the invariant gives, and what holds of the read model by itself.   *)

LEMMA ReviewHolds ==
  ASSUME DayAssumption, BoundAssumption, ReadInv
  PROVE  ReviewAddsUp /\ ReviewViewsAgree /\ CustomStaysPrivate
  <1>1. UploadsTyped /\ TypeOK /\ \A r \in Requests : Sound(req[r])
    BY InvIsTyped DEF ReadInv
  <1>2. ReviewAddsUp
    BY <1>1 DEF ReviewAddsUp, Sound
  <1>3. ReviewViewsAgree
    BY <1>1, ViewsAgree
  <1>4. \A k \in Keywords : \A t \in ToSet(ListPublicUploadsByKeywordLatest(k, MaxUploads)) :
           upload[t].official
    <2>1. ASSUME NEW k \in Keywords
          PROVE  ToSet(ListPublicUploadsByKeywordLatest(k, MaxUploads)) = Under(k)
      <3>1. /\ Under(k) \in SUBSET DOMAIN upload
            /\ MaxUploads \in Nat /\ MaxUploads <= MaxUploads
        BY <1>1, PublicSets DEF Uploads
      <3>2. QED
        BY <1>1, <3>1, LatestFeed DEF ListPublicUploadsByKeywordLatest, UploadsTyped
    <2>2. QED
      BY <2>1 DEF Under, Public, Official
  <1>5. CustomStaysPrivate
    BY <1>1, <1>4 DEF CustomStaysPrivate, Sound, MayBeShown, Official
  <1>6. QED
    BY <1>2, <1>3, <1>5

(* Whoever reads feeds and reviews, for any users, days, keywords and      *)
(* bounds: a feed is complete and shows nothing twice, the parts of a      *)
(* review agree, and what is private is shown to nobody else.              *)
THEOREM ReadingHolds ==
  ASSUME DayAssumption, BoundAssumption, UserAssumption
  PROVE  Spec => [](TypeOK /\ FeedsAreComplete /\ ReviewAddsUp /\ ReviewViewsAgree
                      /\ CustomStaysPrivate)
  <1>1. Init => ReadInv
    BY ReadInit
  <1>2. ReadInv /\ [Next]_vars => ReadInv'
    BY ReadStep
  <1>3. ReadInv => TypeOK /\ FeedsAreComplete /\ ReviewAddsUp /\ ReviewViewsAgree
                     /\ CustomStaysPrivate
    BY InvIsTyped, FeedsComplete, ReviewHolds
  <1>4. QED
    BY <1>1, <1>2, <1>3, PTL DEF Spec

(* A seed that comes back gives what it gave before in the same order,     *)
(* whatever is published or hidden in between.                             *)
THEOREM SeedsStay ==
  ASSUME DayAssumption, BoundAssumption, UserAssumption
  PROVE  Spec => [][SameSeedSameOrder]_vars
  <1>1. Init => ReadInv
    BY ReadInit
  <1>2. ReadInv /\ [Next]_vars => ReadInv'
    BY ReadStep
  <1>3. ReadInv /\ [Next]_vars => SameSeedSameOrder
    BY SeedStep
  <1>4. QED
    BY <1>1, <1>2, <1>3, PTL DEF Spec

=============================================================================
