---------------------------- MODULE Markets_proofs ----------------------------
(***************************************************************************)
(* The market catalogue, scoring, market signals and the soccer refresh,   *)
(* proved for every value of their constants.                              *)
(***************************************************************************)
EXTENDS MarketCatalog, MarketScores, MarketSignals, SoccerRefresh,
        FiniteSetTheorems, WellFoundedInduction, TLAPS

-------------------------------------------------------------------------------
(* The market catalogue: no row takes over another market.                 *)

LEMMA NatMin ==
  ASSUME NEW T \in SUBSET Nat, T # {}
  PROVE  /\ Min(T) \in T /\ \A k \in T : Min(T) <= k
<1>1. PICK x \in T : \A y \in T : ~(<<y, x>> \in OpToRel(<, Nat))
  BY NatLessThanWellFounded, WFMin
<1>2. \A y \in T : ~(y < x)
  BY <1>1 DEF OpToRel
<1>3. \E m \in T : \A k \in T : m <= k
  BY <1>2
<1>4. QED BY <1>3 DEF Min

\* What holds of 0 and of the successor of each it holds of holds of every number.
LEMMA Numbers ==
  ASSUME NEW P \in SUBSET Nat, 0 \in P, \A n \in P : n + 1 \in P
  PROVE  P = Nat
<1> SUFFICES ASSUME Nat \ P # {} PROVE FALSE
  OBVIOUS
<1> DEFINE m == Min(Nat \ P)
<1>1. m \in Nat /\ m \notin P /\ \A k \in Nat \ P : m <= k
  BY NatMin
<1> HIDE DEF m
<1>2. m - 1 \in Nat
  BY <1>1
<1>3. m - 1 \in P
  BY <1>1, <1>2
<1>4. QED BY <1>1, <1>2, <1>3

RowOf(q) == [condition : {None, q}, tokens : {None, q}, token : {None, q}, sport : BOOLEAN]
Tables == {t \in [Remote -> (UNION {RowOf(q) : q \in Remote}) \cup {None}] :
             \A q \in Remote : t[q] \in RowOf(q) \cup {None}}

CatalogInv ==
  /\ rows \in Tables
  /\ DOMAIN price = Remote /\ \A q \in Remote : price[q] # None => price[q].of = q

LEMMA TableIs ==
  ASSUME NEW t, t = [q \in Remote |-> t[q]], \A q \in Remote : t[q] \in RowOf(q) \cup {None}
  PROVE  t \in Tables
<1> DEFINE X == (UNION {RowOf(q) : q \in Remote}) \cup {None}
<1>1. \A q \in Remote : t[q] \in X
  OBVIOUS
<1> HIDE DEF X
<1>2. [q \in Remote |-> t[q]] \in [Remote -> X]
  BY <1>1
<1>3. QED BY <1>2 DEF Tables, X

LEMMA TableWith ==
  ASSUME NEW t \in Tables, NEW q \in Remote, NEW row \in RowOf(q)
  PROVE  [t EXCEPT ![q] = row] \in Tables
BY DEF Tables

LEMMA SaysIs == \A r, i : Says(r, i) \in {None, r}
BY DEF Says

LEMMA FoundIs ==
  ASSUME NEW t \in Tables, NEW r \in Remote
  PROVE  Found(t, r) \in {None, r}
<1>1. \A q \in Remote : t[q] # None /\ t[q].condition = r => q = r
  BY CatalogConstantsOK DEF Tables, RowOf
<1>2. QED BY <1>1 DEF Found

LEMMA MatchIs ==
  ASSUME UniqueTitles, NEW t \in Tables, NEW r \in Remote, NEW candidates \in SUBSET Remote,
         \A q \in candidates : t[q] \in RowOf(q)
  PROVE  \/ BackfillMatch(t, r, candidates) = None
         \/ BackfillMatch(t, r, candidates) = r /\ r \in candidates
<1> DEFINE Points(q) == Confidence(t, r, q)
           best == Max({Points(q) : q \in candidates} \cup {0})
           top == {q \in candidates : Points(q) = best}
           match == BackfillMatch(t, r, candidates)
<1>1. ASSUME NEW q \in candidates, Sure(Points(q))
      PROVE  q = r
  <2>1. \/ Found(t, r) = q \/ q = r \/ t[q].condition = r \/ <<q, r>> \in SameTitle
    BY <1>1 DEF Confidence, Sure
  <2>2. q \in Remote /\ t[q] \in RowOf(q) /\ q # None
    BY CatalogConstantsOK
  <2>3. t[q].condition \in {None, q} /\ r # None
    BY <2>2, CatalogConstantsOK DEF RowOf
  <2>4. Found(t, r) = q => q = r
    BY <2>2, FoundIs
  <2>5. QED BY <2>1, <2>2, <2>3, <2>4 DEF UniqueTitles
<1>2. match = None \/ (match \in top /\ Sure(best))
  <2>1. CASE best > 0 /\ Cardinality(top) = 1 /\ Sure(best)
    <3>1. top # {}
      BY <2>1, FS_EmptySet
    <3>2. match = CHOOSE q \in top : TRUE
      BY <2>1 DEF BackfillMatch
    <3>3. QED BY <2>1, <3>1, <3>2
  <2>2. CASE ~(best > 0 /\ Cardinality(top) = 1 /\ Sure(best))
    BY <2>2 DEF BackfillMatch
  <2>3. QED BY <2>1, <2>2
<1>3. CASE match # None
  <2>1. match \in candidates /\ Points(match) = best /\ Sure(best)
    BY <1>2, <1>3
  <2> HIDE DEF match, best, Points
  <2>2. Sure(Points(match))
    BY <2>1
  <2>3. match = r
    <3>1. \A q \in candidates : Sure(Points(q)) => q = r
      BY <1>1
    <3>2. QED BY <2>1, <2>2, <3>1
  <2>4. QED BY <2>1, <2>3 DEF match
<1>4. QED BY <1>3

LEMMA FilledInIs ==
  ASSUME UniqueTitles, NEW t \in Tables, NEW r \in Remote, NEW candidates \in SUBSET Remote,
         \A q \in candidates : t[q] \in RowOf(q)
  PROVE  /\ FilledIn(t, r, candidates) \in Tables
         /\ \A q \in candidates : FilledIn(t, r, candidates)[q] \in RowOf(q)
<1>1. CASE BackfillMatch(t, r, candidates) = None
  BY <1>1 DEF FilledIn, Tables
<1>2. CASE BackfillMatch(t, r, candidates) # None
  <2>1. BackfillMatch(t, r, candidates) = r /\ r \in candidates /\ t[r] \in RowOf(r)
    BY <1>2, MatchIs
  <2>2. Filled(t[r], r) \in RowOf(r)
    <3>1. \A i : Says(r, i) \in {None, r}
      BY SaysIs
    <3>2. QED BY <2>1, <3>1 DEF Filled, RowOf, OrElse
  <2> DEFINE row == Filled(t[r], r)
  <2>3. FilledIn(t, r, candidates) = [t EXCEPT ![r] = row]
    BY <1>2, <2>1 DEF FilledIn
  <2> HIDE DEF row
  <2>4. QED BY <2>1, <2>2, <2>3, TableWith DEF Tables, row
<1>3. QED BY <1>1, <1>2

\* The rows after each of the items, one after another.
Steps(f, n, entries, candidates) ==
  /\ f = [i \in 0 .. n |-> IF i = 0 THEN rows ELSE FilledIn(f[i - 1], entries[i], candidates)]

LEMMA StepsExist ==
  ASSUME NEW entries, NEW candidates, NEW n \in Nat
  PROVE  \E f : Steps(f, n, entries, candidates)
<1> DEFINE P == {k \in Nat : \E f : Steps(f, k, entries, candidates)}
<1>1. 0 \in P
  <2> DEFINE f == [i \in 0 .. 0 |-> rows]
  <2>1. Steps(f, 0, entries, candidates)
    BY DEF Steps
  <2>2. QED BY <2>1
<1>2. ASSUME NEW k \in P PROVE k + 1 \in P
  <2>1. PICK f : Steps(f, k, entries, candidates)
    OBVIOUS
  <2> DEFINE e == FilledIn(f[k], entries[k + 1], candidates)
             g == [i \in 0 .. k + 1 |-> IF i = k + 1 THEN e ELSE f[i]]
  <2>2. \A i \in 0 .. k + 1 :
          g[i] = IF i = 0 THEN rows ELSE FilledIn(g[i - 1], entries[i], candidates)
    <3>1. k \in Nat /\ \A i \in 0 .. k :
            f[i] = IF i = 0 THEN rows ELSE FilledIn(f[i - 1], entries[i], candidates)
      BY <2>1 DEF Steps
    <3>2. \A i \in 0 .. k : g[i] = f[i] /\ (i > 0 => g[i - 1] = f[i - 1])
      BY <3>1
    <3>3. g[k + 1] = e /\ g[k] = f[k]
      BY <3>1
    <3>4. QED BY <3>1, <3>2, <3>3
  <2>3. Steps(g, k + 1, entries, candidates)
    BY <2>2 DEF Steps
  <2>4. QED BY <2>3
<1>3. P = Nat
  <2> HIDE DEF P
  <2>1. P \in SUBSET Nat
    BY DEF P
  <2>2. QED BY <1>1, <1>2, <2>1, Numbers
<1>4. QED BY <1>3

LEMMA BackfilledIs ==
  ASSUME UniqueTitles, rows \in Tables, NEW entries, Len(entries) \in Nat,
         \A i \in 1 .. Len(entries) : entries[i] \in Remote,
         NEW candidates \in SUBSET Remote, \A q \in candidates : rows[q] \in RowOf(q)
  PROVE  Backfilled(entries, candidates) \in Tables
<1> DEFINE n == Len(entries)
           f == CHOOSE f : Steps(f, n, entries, candidates)
<1>1. Backfilled(entries, candidates) = f[n]
  BY DEF Backfilled, Steps
<1>2. Steps(f, n, entries, candidates)
  BY StepsExist
<1> HIDE DEF f
<1> DEFINE Good(t) == t \in Tables /\ \A q \in candidates : t[q] \in RowOf(q)
           P == {k \in Nat : k <= n => Good(f[k])}
<1>3. f[0] = rows /\ \A i \in 1 .. n : f[i] = FilledIn(f[i - 1], entries[i], candidates)
  <2>1. n \in Nat
    OBVIOUS
  <2> HIDE DEF n
  <2>2. \A i \in 0 .. n : f[i] = IF i = 0 THEN rows ELSE FilledIn(f[i - 1], entries[i], candidates)
    BY <1>2 DEF Steps
  <2>3. 0 \in 0 .. n /\ 1 .. n \subseteq 0 .. n /\ \A i \in 1 .. n : i # 0
    BY <2>1
  <2>4. QED BY <2>2, <2>3
<1>4. 0 \in P
  <2>1. Good(rows)
    OBVIOUS
  <2> HIDE DEF Good
  <2>2. QED BY <1>3, <2>1
<1>5. ASSUME NEW k \in P PROVE k + 1 \in P
  <2>0. k \in Nat /\ (k <= n => Good(f[k]))
    OBVIOUS
  <2> SUFFICES ASSUME k + 1 <= n PROVE Good(f[k + 1])
    <3> HIDE DEF Good
    <3>1. QED BY <2>0
  <2>1. k + 1 \in 1 .. n /\ (k + 1) - 1 = k /\ k <= n
    BY <2>0
  <2>2. f[k + 1] = FilledIn(f[k], entries[k + 1], candidates)
    BY <1>3, <2>1
  <2>3. Good(f[k])
    BY <2>0, <2>1
  <2>4. QED BY <2>1, <2>2, <2>3, FilledInIs
<1>6. P = Nat
  <2> HIDE DEF P
  <2>1. P \in SUBSET Nat
    BY DEF P
  <2>2. QED BY <1>4, <1>5, <2>1, Numbers
<1>7. Good(f[n])
  BY <1>6
<1>8. QED BY <1>1, <1>7

LEMMA RowsStay ==
  ASSUME CatalogInv, rows' \in Tables, UNCHANGED price
  PROVE  CatalogInv'
BY DEF CatalogInv

LEMMA CatalogStep ==
  ASSUME UniqueTitles, CatalogInv, [CatalogNext]_catalogVars
  PROVE  CatalogInv'
<1>1. CASE UNCHANGED <<rows, price>>
  BY <1>1 DEF CatalogInv
<1>2. ASSUME NEW done, SyncActiveMarkets(done)
      PROVE  CatalogInv'
  <2> DEFINE seen == {r \in Remote : shown[r] # None /\ GameOf[r] \in done}
  <2>1. rows' = [q \in Remote |-> IF q \in seen THEN SyncRow(q) ELSE rows[q]]
    BY <1>2 DEF SyncActiveMarkets
  <2>2. \A q \in Remote : rows[q] \in RowOf(q) \cup {None}
    BY DEF CatalogInv, Tables
  <2>3. \A q \in Remote : SyncRow(q) \in RowOf(q)
    BY <2>2, SaysIs DEF SyncRow, RowOf, OrElse
  <2> HIDE DEF seen
  <2>4. \A q \in Remote : rows'[q] \in RowOf(q) \cup {None}
    BY <2>1, <2>2, <2>3
  <2>5. rows' \in Tables
    BY <2>1, <2>4, TableIs
  <2>6. QED BY <1>2, <2>5, RowsStay DEF SyncActiveMarkets
<1>3. ASSUME NEW seen, NEW events, NEW picks, ImportDiscovered(seen, events, picks)
      PROVE  CatalogInv'
  <2>1. rows' = [q \in Remote |-> IF q \in picks THEN ImportRow(q) ELSE rows[q]]
    BY <1>3 DEF ImportDiscovered
  <2>2. \A q \in Remote : rows[q] \in RowOf(q) \cup {None}
    BY DEF CatalogInv, Tables
  <2>3. \A q \in Remote : ImportRow(q) \in RowOf(q)
    BY SaysIs DEF ImportRow, RowOf
  <2>4. \A q \in Remote : rows'[q] \in RowOf(q) \cup {None}
    BY <2>1, <2>2, <2>3
  <2>5. rows' \in Tables
    BY <2>1, <2>4, TableIs
  <2>6. QED BY <1>3, <2>5, RowsStay DEF ImportDiscovered
<1>4. ASSUME NEW seen \in SUBSET Listed, NEW candidates \in SUBSET Local,
             NEW entries \in SetToSeqs(seen), BackfillIdentifiers(entries, candidates)
      PROVE  CatalogInv'
  <2> DEFINE all == candidates \cup ({Found(rows, r) : r \in ToSet(entries)} \cap Remote)
  <2>1. IsFiniteSet(seen) /\ seen \subseteq Remote /\ Cardinality(seen) \in Nat
    BY CatalogConstantsOK, FS_Subset, FS_CardinalityType DEF Listed
  <2>2. entries \in [1 .. Cardinality(seen) -> seen]
    BY DEF SetToSeqs
  <2>3. Len(entries) = Cardinality(seen) /\ \A i \in 1 .. Len(entries) : entries[i] \in Remote
    BY <2>1, <2>2
  <2>4. rows \in Tables
    BY DEF CatalogInv
  <2>5. ASSUME NEW q \in all PROVE q \in Remote /\ rows[q] \in RowOf(q)
    <3>1. CASE q \in candidates
      BY <2>4, <3>1 DEF Local, Tables
    <3>2. CASE q \notin candidates
      <4>1. PICK r \in ToSet(entries) : q = Found(rows, r) /\ q \in Remote
        BY <3>2
      <4>2. r \in Remote
        BY <2>2, <2>3 DEF ToSet
      <4>3. q = r /\ rows[r] # None
        <5>1. q = r
          BY <2>4, <4>1, <4>2, FoundIs, CatalogConstantsOK
        <5>2. \A p \in Remote : rows[p] # None /\ rows[p].condition = r => p = r
          BY <2>4, <4>2, CatalogConstantsOK DEF Tables, RowOf
        <5>3. QED BY <4>1, <4>2, <5>1, <5>2, CatalogConstantsOK DEF Found
      <4>4. QED BY <2>4, <4>2, <4>3 DEF Tables
    <3>3. QED BY <3>1, <3>2
  <2>6. rows' = Backfilled(entries, all)
    BY <1>4 DEF BackfillIdentifiers
  <2> HIDE DEF all
  <2>7. rows' \in Tables
    BY <2>1, <2>3, <2>4, <2>5, <2>6, BackfilledIs
  <2>8. QED BY <1>4, <2>7, RowsStay DEF BackfillIdentifiers
<1>5. ASSUME NEW q \in Remote, RefreshMetadata(q)
      PROVE  CatalogInv'
  <2> DEFINE row == Refetched(rows[q], q)
  <2>1. rows' = [rows EXCEPT ![q] = row] /\ rows \in Tables /\ rows[q] \in RowOf(q)
    BY <1>5 DEF RefreshMetadata, CatalogInv, Tables, Local
  <2>2. row \in RowOf(q)
    <3>1. \A i : Says(q, i) \in {None, q}
      BY SaysIs
    <3>2. QED BY <2>1, <3>1 DEF Refetched, RowOf, OrElse
  <2> HIDE DEF row
  <2>3. rows' \in Tables
    BY <2>1, <2>2, TableWith
  <2>4. QED BY <1>5, <2>3, RowsStay DEF RefreshMetadata
<1>6. ASSUME NEW quoted \in SUBSET Local, CaptureSnapshots(quoted) \/ RefreshSnapshots(quoted)
      PROVE  CatalogInv'
  <2>1. /\ price' = [q \in Remote |-> IF q \in quoted THEN [of |-> rows[q].token, day |-> today]
                                      ELSE price[q]]
        /\ rows' = rows
    BY <1>6 DEF CaptureSnapshots, RefreshSnapshots, Priced
  <2>2. \A q \in quoted : rows[q].token # None
    BY <1>6 DEF CaptureSnapshots, RefreshSnapshots
  <2>3. \A q \in quoted : q \in Remote /\ rows[q] # None
    BY DEF Local
  <2>4. \A q \in quoted : rows[q].token = q
    BY <2>2, <2>3 DEF CatalogInv, Tables, RowOf
  <2>5. QED BY <2>1, <2>4 DEF CatalogInv
<1>7. ASSUME NEW seen \in SUBSET Listed, DiscoverySnapshots(seen)
      PROVE  CatalogInv'
  <2> DEFINE chosen == {r \in seen : FiledUnder(r) # None /\ price[FiledUnder(r)] = None}
             Of(q) == CHOOSE r \in chosen : FiledUnder(r) = q
             filed == {FiledUnder(r) : r \in chosen}
  <2>1. /\ price' = [q \in Remote |-> IF q \in filed THEN [of |-> Of(q), day |-> today] ELSE price[q]]
        /\ rows' = rows
    BY <1>7 DEF DiscoverySnapshots
  <2>2. \A r \in chosen : FiledUnder(r) = r
    BY FoundIs DEF FiledUnder, Listed, CatalogInv
  <2>3. \A q \in filed : Of(q) = q
    BY <2>2
  <2> HIDE DEF filed, Of
  <2>4. QED BY <2>1, <2>3 DEF CatalogInv
<1>8. QED BY <1>1, <1>2, <1>3, <1>4, <1>5, <1>6, <1>7
          DEF CatalogNext, catalogVars, AnotherDay, FeedShows

\* For any markets, feeds and orders of the operations: the condition, the tokens and the
\* price of a row are those of the market it was created for.
THEOREM RowsStayApart == CatalogSpec => []OneMarketBehindARow
<1>1. CatalogInit => CatalogInv
  <2> SUFFICES ASSUME CatalogInit PROVE CatalogInv
    OBVIOUS
  <2>1. rows = [q \in Remote |-> rows[q]] /\ \A q \in Remote : rows[q] \in RowOf(q) \cup {None}
    BY DEF CatalogInit
  <2>2. QED BY <2>1, TableIs DEF CatalogInit, CatalogInv
<1>2. UniqueTitles /\ CatalogInv /\ [CatalogNext]_catalogVars => CatalogInv'
  BY CatalogStep
<1>3. CatalogInv => OneMarketBehindARow
  BY DEF CatalogInv, OneMarketBehindARow, Tables, RowOf, Local
<1>4. ~UniqueTitles => OneMarketBehindARow
  BY DEF OneMarketBehindARow
<1>5. CASE UniqueTitles
  BY <1>1, <1>2, <1>3, <1>5, PTL DEF CatalogSpec
<1>6. CASE ~UniqueTitles
  <2>1. OneMarketBehindARow
    BY <1>6 DEF OneMarketBehindARow
  <2>2. QED BY <2>1, PTL
<1>7. QED BY <1>5, <1>6

-------------------------------------------------------------------------------
(* Scoring and the two evaluation pages.                                   *)

\* A finite set some of whose members have an integer key has a member with the largest key.
LEMMA Largest ==
  ASSUME NEW S, IsFiniteSet(S), S # {}, NEW k, \A i \in S : k[i] \in Int
  PROVE  \E i \in S : \A j \in S : k[j] <= k[i]
<1> DEFINE Good(T) == \E i \in T : \A j \in T : k[j] <= k[i]
           P == {n \in Nat : \A T \in SUBSET S : Cardinality(T) = n + 1 => Good(T)}
<1>1. \A T \in SUBSET S : IsFiniteSet(T) /\ Cardinality(T) \in Nat
  BY FS_Subset, FS_CardinalityType
<1>2. 0 \in P
  <2> SUFFICES ASSUME NEW T \in SUBSET S, Cardinality(T) = 1 PROVE Good(T)
    OBVIOUS
  <2>1. PICK x : T = {x}
    BY <1>1, FS_Singleton
  <2>2. QED BY <2>1
<1>3. ASSUME NEW n \in P PROVE n + 1 \in P
  <2> SUFFICES ASSUME NEW T \in SUBSET S, Cardinality(T) = n + 2 PROVE Good(T)
    OBVIOUS
  <2>0. n \in Nat
    OBVIOUS
  <2>1. T # {}
    BY <2>0, FS_EmptySet
  <2>2. PICK x \in T : TRUE
    BY <2>1
  <2>3. Cardinality(T \ {x}) = n + 1 /\ T \ {x} \in SUBSET S
    BY <1>1, <2>0, <2>2, FS_RemoveElement
  <2>4. Good(T \ {x})
    BY <2>3
  <2>5. PICK y \in T \ {x} : \A j \in T \ {x} : k[j] <= k[y]
    BY <2>4
  <2>6. k[x] \in Int /\ k[y] \in Int
    BY <2>2
  <2>7. CASE k[x] <= k[y]
    <3>1. \A j \in T : k[j] <= k[y]
      BY <2>5, <2>7
    <3>2. QED BY <3>1
  <2>8. CASE ~(k[x] <= k[y])
    <3>1. \A j \in T : k[j] <= k[x]
      <4> SUFFICES ASSUME NEW j \in T PROVE k[j] <= k[x]
        OBVIOUS
      <4>1. k[j] \in Int
        OBVIOUS
      <4>2. CASE j = x
        BY <2>6, <4>2
      <4>3. CASE j # x
        BY <2>5, <2>6, <2>8, <4>1, <4>3
      <4>4. QED BY <4>2, <4>3
    <3>2. QED BY <2>2, <3>1
  <2>9. QED BY <2>7, <2>8
<1> HIDE DEF P
<1>4. P = Nat
  <2>1. P \in SUBSET Nat
    BY DEF P
  <2>2. QED BY <1>2, <1>3, <2>1, Numbers
<1>5. Cardinality(S) - 1 \in Nat
  BY <1>1, FS_EmptySet
<1>6. Cardinality(S) = (Cardinality(S) - 1) + 1
  BY FS_CardinalityType
<1>7. Good(S)
  <2> HIDE DEF Good
  <2>1. QED BY <1>4, <1>5, <1>6 DEF P
<1>8. QED BY <1>7

LEMMA FiniteImage ==
  ASSUME NEW k, NEW S, IsFiniteSet(S)
  PROVE  IsFiniteSet({k[x] : x \in S})
<1> DEFINE T == {k[x] : x \in S}
           f == [x \in S |-> k[x]]
<1>1. f \in [S -> T] /\ \A t \in T : \E x \in S : f[x] = t
  OBVIOUS
<1> HIDE DEF f, T
<1>2. f \in Surjection(S, T)
  BY <1>1 DEF Surjection
<1>3. IsFiniteSet(T)
  BY <1>2, FS_Surjection
<1>4. QED BY <1>3 DEF T

\* Two parts of a finite set count as many as the whole.
LEMMA Parts ==
  ASSUME NEW T, NEW U, IsFiniteSet(T \cup U), T \cap U = {}
  PROVE  /\ IsFiniteSet(T) /\ IsFiniteSet(U)
         /\ Cardinality(T) \in Nat /\ Cardinality(U) \in Nat
         /\ Cardinality(T \cup U) = Cardinality(T) + Cardinality(U)
<1>1. IsFiniteSet(T) /\ IsFiniteSet(U)
  BY FS_Subset
<1>2. Cardinality(T \cap U) = 0
  BY FS_EmptySet
<1>3. Cardinality(T) \in Nat /\ Cardinality(U) \in Nat
  BY <1>1, FS_CardinalityType
<1>4. Cardinality(T \cup U) = Cardinality(T) + Cardinality(U) - Cardinality(T \cap U)
  BY <1>1, FS_Union
<1> DEFINE c == Cardinality(T \cup U)
           i == Cardinality(T \cap U)
           t == Cardinality(T)
           u == Cardinality(U)
<1>5. c = t + u - i /\ i = 0 /\ t \in Nat /\ u \in Nat
  BY <1>2, <1>3, <1>4
<1> HIDE DEF c, i, t, u
<1>6. c = t + u
  BY <1>5
<1>7. QED BY <1>1, <1>3, <1>6 DEF c, t, u

LEMMA FiveParts ==
  ASSUME NEW T1, NEW T2, NEW T3, NEW T4, NEW T5, IsFiniteSet(T1 \cup T2 \cup T3 \cup T4 \cup T5),
         T1 \cap T2 = {}, T1 \cap T3 = {}, T1 \cap T4 = {}, T1 \cap T5 = {},
         T2 \cap T3 = {}, T2 \cap T4 = {}, T2 \cap T5 = {},
         T3 \cap T4 = {}, T3 \cap T5 = {}, T4 \cap T5 = {}
  PROVE  Cardinality(T1 \cup T2 \cup T3 \cup T4 \cup T5)
           = Cardinality(T1) + Cardinality(T2) + Cardinality(T3) + Cardinality(T4) + Cardinality(T5)
<1> DEFINE T == T1 \cup T2 \cup T3 \cup T4 \cup T5
           U4 == T4 \cup T5
           U3 == T3 \cup U4
           U2 == T2 \cup U3
<1>1. T = T1 \cup U2
  OBVIOUS
<1>2. T1 \cap U2 = {} /\ T2 \cap U3 = {} /\ T3 \cap U4 = {}
  OBVIOUS
<1>3. /\ Cardinality(T) = Cardinality(T1) + Cardinality(U2) /\ IsFiniteSet(U2)
      /\ Cardinality(T1) \in Nat /\ Cardinality(U2) \in Nat
  <2>1. IsFiniteSet(T1 \cup U2)
    BY <1>1
  <2> HIDE DEF U2
  <2>2. Cardinality(T1 \cup U2) = Cardinality(T1) + Cardinality(U2)
    BY <1>2, <2>1, Parts
  <2>3. IsFiniteSet(U2) /\ Cardinality(T1) \in Nat /\ Cardinality(U2) \in Nat
    BY <1>2, <2>1, Parts
  <2>4. QED BY <1>1, <2>2, <2>3
<1>4. /\ Cardinality(U2) = Cardinality(T2) + Cardinality(U3) /\ IsFiniteSet(U3)
      /\ Cardinality(T2) \in Nat /\ Cardinality(U3) \in Nat
  <2> HIDE DEF U3
  <2>1. QED BY <1>3, <1>2, Parts
<1>5. /\ Cardinality(U3) = Cardinality(T3) + Cardinality(U4) /\ IsFiniteSet(U4)
      /\ Cardinality(T3) \in Nat /\ Cardinality(U4) \in Nat
  <2> HIDE DEF U4
  <2>1. QED BY <1>4, <1>2, Parts
<1>6. Cardinality(U4) = Cardinality(T4) + Cardinality(T5) /\ Cardinality(T4) \in Nat /\ Cardinality(T5) \in Nat
  BY <1>5, Parts
<1> HIDE DEF U2, U3, U4, T
<1>7. Cardinality(T) = Cardinality(T1) + Cardinality(T2) + Cardinality(T3) + Cardinality(T4) + Cardinality(T5)
  BY <1>3, <1>4, <1>5, <1>6
<1>8. QED BY <1>7 DEF T

LEMMA AppendIs ==
  ASSUME NEW X, NEW q \in Seq(X), NEW e
  PROVE  /\ Append(q, e) \in Seq(X \cup {e})
         /\ \A i \in DOMAIN Append(q, e) : (i \in DOMAIN q /\ Append(q, e)[i] = q[i]) \/ Append(q, e)[i] = e
OBVIOUS

LEMMA ConcatIs ==
  ASSUME NEW X, NEW q \in Seq(X), NEW e \in Seq(X)
  PROVE  /\ q \o e \in Seq(X)
         /\ \A i \in DOMAIN (q \o e) : \/ i \in DOMAIN q /\ (q \o e)[i] = q[i]
                                       \/ i - Len(q) \in DOMAIN e /\ (q \o e)[i] = e[i - Len(q)]
OBVIOUS

LEMMA Ranged == ASSUME NEW X, NEW q \in Seq(X) PROVE q \in Seq(Range(q))
<1>1. Len(q) \in Nat /\ q \in [1 .. Len(q) -> Range(q)]
  BY DEF Range
<1>2. QED BY <1>1

LEMMA ClampIs ==
  ASSUME NEW x \in Int, NEW low \in Int, NEW high \in Int, low <= high
  PROVE  Clamp(x, low, high) = IF x < low THEN low ELSE IF x > high THEN high ELSE x
<1> DEFINE m == Min({x, high})
<1>1. \E l \in {x, high} : \A k \in {x, high} : l <= k
  OBVIOUS
<1>2. m \in {x, high} /\ m <= x /\ m <= high
  BY <1>1 DEF Min
<1> HIDE DEF m
<1>3. m \in Int /\ m = IF x > high THEN high ELSE x
  BY <1>2
<1>4. \E l \in {low, m} : \A k \in {low, m} : l >= k
  BY <1>3
<1>5. Max({low, m}) \in {low, m} /\ Max({low, m}) >= low /\ Max({low, m}) >= m
  BY <1>3, <1>4 DEF Max
<1>6. Max({low, m}) = IF m < low THEN low ELSE m
  BY <1>3, <1>5
<1>7. QED BY <1>3, <1>6 DEF Clamp, m

Ids == {e.id : e \in OddsEvents} \cup {n.id : n \in NewsItems}

\* What the properties need to know of an item.
IsItem(i) ==
  /\ i.fetched \in Int /\ i.published \in Int
  /\ \A c \in DOMAIN i.signals : i.signals[c] \in Int

Sound(p) ==
  /\ p.family \in {"scoring", "research"}
  /\ p.family = "scoring" /\ p.opportunity => p.oddsAge # None /\ p.oddsAge <= 1

ScoreInv ==
  /\ day \in Nat
  /\ snapshot = [m \in ScoredMarket |-> snapshot[m]]
  /\ \A m \in ScoredMarket : snapshot[m] # None => snapshot[m] \in SnapshotValues
  /\ evidence = [m \in ScoredMarket |-> evidence[m]]
  /\ \A m \in ScoredMarket : /\ DOMAIN evidence[m] \subseteq Ids
                             /\ \A i \in DOMAIN evidence[m] : IsItem(evidence[m][i])
  /\ scores \in Seq(Range(scores))
  /\ \A i \in DOMAIN scores : Sound(scores[i])

LEMMA FiniteIds == IsFiniteSet(Ids)
<1> DEFINE k == [e \in OddsEvents |-> e.id]
           l == [n \in NewsItems |-> n.id]
<1>1. IsFiniteSet({k[e] : e \in OddsEvents}) /\ IsFiniteSet({l[n] : n \in NewsItems})
  <2> HIDE DEF k, l
  <2>1. QED BY ScoreConstantsOK, FiniteImage
<1>2. {k[e] : e \in OddsEvents} = {e.id : e \in OddsEvents} /\ {l[n] : n \in NewsItems} = {n.id : n \in NewsItems}
  OBVIOUS
<1>3. QED BY <1>1, <1>2, FS_Union DEF Ids

LEMMA UsableAre ==
  ASSUME ScoreInv, NEW m \in ScoredMarket
  PROVE  IsFiniteSet(Usable(m)) /\ \A i \in Usable(m) : IsItem(i)
<1>1. IsFiniteSet(DOMAIN evidence[m])
  BY FiniteIds, FS_Subset DEF ScoreInv
<1>2. IsFiniteSet({evidence[m][i] : i \in DOMAIN evidence[m]})
  BY <1>1, FiniteImage
<1>3. Usable(m) \subseteq {evidence[m][i] : i \in DOMAIN evidence[m]}
  BY DEF Usable, Range
<1>4. IsFiniteSet(Usable(m))
  BY <1>2, <1>3, FS_Subset
<1>5. \A i \in Usable(m) : IsItem(i)
  BY <1>3 DEF ScoreInv
<1>6. QED BY <1>4, <1>5

\* A component of the context is a number.
LEMMA ComponentIs ==
  ASSUME ScoreInv, NEW m \in ScoredMarket, NEW c
  PROVE  Component(m, c) \in Int
<1> DEFINE with == {i \in Usable(m) : c \in DOMAIN i.signals}
           k == [i \in with |-> i.published]
<1>1. IsFiniteSet(with) /\ \A i \in with : IsItem(i)
  BY UsableAre, FS_Subset
<1>2. CASE with = {}
  BY <1>2 DEF Component
<1>3. CASE with # {}
  <2> DEFINE last == CHOOSE i \in with : \A j \in with : j.published <= i.published
  <2>1. \A i \in with : k[i] \in Int /\ k[i] = i.published
    BY <1>1 DEF IsItem
  <2>2. \E i \in with : \A j \in with : k[j] <= k[i]
    <3> HIDE DEF k, with
    <3>1. QED BY <1>1, <1>3, <2>1, Largest
  <2>3. \E i \in with : \A j \in with : j.published <= i.published
    BY <2>1, <2>2
  <2>4. last \in with
    <3> HIDE DEF with
    <3>1. QED BY <2>3
  <2>5. last.signals[c] \in Int
    BY <1>1, <2>4 DEF IsItem
  <2>6. Component(m, c) = last.signals[c]
    BY <1>3 DEF Component, Latest, Published
  <2>7. QED BY <2>5, <2>6
<1>4. QED BY <1>2, <1>3

\* The odds a forecast rests on are of the last day.
LEMMA OddsAre ==
  ASSUME ScoreInv, NEW m \in ScoredMarket, OddsOf(m) # {}
  PROVE  Odds(m) \in OddsOf(m) /\ day - Odds(m).fetched \in Int /\ day - Odds(m).fetched <= 1
<1> DEFINE k == [i \in OddsOf(m) |-> Dated(i)]
<1>1. IsFiniteSet(OddsOf(m)) /\ \A i \in OddsOf(m) : IsItem(i)
  BY UsableAre, FS_Subset DEF OddsOf
<1>2. \A i \in OddsOf(m) : k[i] \in Int /\ k[i] = i.fetched /\ Dated(i) = i.fetched
  BY <1>1 DEF IsItem, Dated, OddsOf
<1>3. \E i \in OddsOf(m) : \A j \in OddsOf(m) : k[j] <= k[i]
  <2> HIDE DEF k
  <2>1. QED BY <1>1, <1>2, Largest
<1>4. \E i \in OddsOf(m) : \A j \in OddsOf(m) : Dated(j) <= Dated(i)
  BY <1>2, <1>3
<1>5. Odds(m) \in OddsOf(m)
  BY <1>4 DEF Odds, Latest
<1>6. Odds(m).fetched >= day - 1 /\ Odds(m).fetched \in Int
  <2>1. \A i \in OddsOf(m) : i.kind = "odds" /\ Dated(i) >= day - MaxAge(i)
    BY DEF OddsOf, Usable
  <2>2. QED BY <1>2, <1>1, <1>5, <2>1 DEF MaxAge, IsItem
<1>7. day \in Int
  BY DEF ScoreInv
<1>8. QED BY <1>5, <1>6, <1>7

LEMMA UnitIs ==
  ASSUME NEW x \in Int
  PROVE  Unit(x) \in 0 .. 10000 /\ Unit(x) = IF x < 0 THEN 0 ELSE IF x > 10000 THEN 10000 ELSE x
<1>1. Unit(x) = Clamp(x, 0, One)
  BY DEF Unit
<1>2. One \in Int /\ 0 <= One
  BY DEF One
<1>3. Clamp(x, 0, One) = IF x < 0 THEN 0 ELSE IF x > One THEN One ELSE x
  BY <1>2, ClampIs
<1>4. Unit(x) = IF x < 0 THEN 0 ELSE IF x > One THEN One ELSE x
  BY <1>1, <1>3
<1>5. QED BY <1>4 DEF One

LEMMA ContextIs == ASSUME NEW x \in Int PROVE Clamp(x, -TotalCap, TotalCap) \in -300 .. 300
<1>1. Clamp(x, -300, 300) = IF x < -300 THEN -300 ELSE IF x > 300 THEN 300 ELSE x
  <2> DEFINE l == -300
  <2>1. l \in Int /\ l <= 300
    OBVIOUS
  <2> HIDE DEF l
  <2>2. Clamp(x, l, 300) = IF x < l THEN l ELSE IF x > 300 THEN 300 ELSE x
    BY <2>1, ClampIs
  <2>3. QED BY <2>2 DEF l
<1>2. QED BY <1>1 DEF TotalCap

\* Without odds the forecast stays within the cap of the context.
LEMMA NoOddsNoEdge ==
  ASSUME ScoreInv, NEW m \in ScoredMarket, Scorable(m), OddsOf(m) = {}
  PROVE  ~(Magnitude(YesProbability(m) - Unit(snapshot[m].price)) >= 500)
<1> DEFINE quote == Unit(snapshot[m].price)
           sum == Component(m, "injury") + Component(m, "form") + Component(m, "rest") + Component(m, "home")
           context == Clamp(sum, -TotalCap, TotalCap)
<1>1. snapshot[m].price \in Int
  BY ScoreConstantsOK DEF ScoreInv, Scorable
<1>2. quote \in 0 .. 10000
  <2> DEFINE q == snapshot[m].price
  <2>1. q \in Int
    BY <1>1
  <2> HIDE DEF q
  <2>2. Unit(q) = IF q < 0 THEN 0 ELSE IF q > 10000 THEN 10000 ELSE q
    BY <2>1, UnitIs
  <2>3. quote = Unit(q)
    BY DEF q
  <2> HIDE DEF quote
  <2>4. QED BY <2>1, <2>2, <2>3
<1>3. sum \in Int
  BY ComponentIs
<1>4. context \in -300 .. 300
  <2> HIDE DEF sum
  <2>1. QED BY <1>3, ContextIs
<1>5. YesProbability(m) = Unit(Unit(quote + context) + 0)
  BY DEF YesProbability
<1> HIDE DEF quote, context
<1>6. Unit(quote + context) \in 0 .. 10000 /\ Unit(quote + context) - quote \in -300 .. 300
  <2> DEFINE x == quote + context
  <2>1. x \in Int
    BY <1>2, <1>4
  <2>2. Unit(x) = IF x < 0 THEN 0 ELSE IF x > 10000 THEN 10000 ELSE x
    BY <2>1, UnitIs
  <2> DEFINE v == Unit(x)
  <2> HIDE DEF v
  <2>3. v = IF x < 0 THEN 0 ELSE IF x > 10000 THEN 10000 ELSE x
    BY <2>2 DEF v
  <2>4. v \in 0 .. 10000 /\ v - quote \in -300 .. 300
    <3>1. quote \in 0 .. 10000 /\ context \in -300 .. 300 /\ x = quote + context
      BY <1>2, <1>4
    <3> HIDE DEF x
    <3>2. QED BY <2>3, <3>1
  <2>5. QED BY <2>4 DEF v
<1> DEFINE u == Unit(quote + context)
<1> HIDE DEF u
<1>7. u \in 0 .. 10000 /\ u - quote \in -300 .. 300
  BY <1>6 DEF u
<1>8. Unit(u + 0) = u
  <2>1. u + 0 = u /\ u \in Int
    BY <1>7
  <2>2. Unit(u) = IF u < 0 THEN 0 ELSE IF u > 10000 THEN 10000 ELSE u
    BY <2>1, UnitIs
  <2>3. Unit(u) = u
    BY <1>7, <2>2
  <2>4. QED BY <2>1, <2>3
<1>9. YesProbability(m) - quote \in -300 .. 300
  BY <1>5, <1>7, <1>8 DEF u
<1>10. QED BY <1>9 DEF Magnitude, quote

LEMMA PredictionIsSound ==
  ASSUME ScoreInv, NEW m \in ScoredMarket, Scorable(m)
  PROVE  Sound(Prediction(m))
<1> DEFINE p == Prediction(m)
           beside == \E i \in Usable(m) : i.kind = "odds"
<1>1. p.family = "scoring" /\ p.oddsAge = IF beside THEN day - Odds(m).fetched ELSE None
  BY DEF Prediction
<1>2. p.opportunity => Magnitude(YesProbability(m) - Unit(snapshot[m].price)) >= 500
  <2> DEFINE wide == Magnitude(YesProbability(m) - Unit(snapshot[m].price)) >= 500
             sure == ForecastConfidence(m) >= 4000
  <2> HIDE DEF wide, sure
  <2>1. p.opportunity = (wide /\ sure)
    BY DEF Prediction, wide, sure
  <2> HIDE DEF p
  <2>2. p.opportunity => wide
    BY <2>1
  <2>3. QED BY <2>2 DEF wide
<1>3. OddsOf(m) # {} => beside
  BY DEF OddsOf
<1>4. None \notin Int
  BY ScoreConstantsOK
<1>5. CASE OddsOf(m) = {}
  <2>1. ~p.opportunity
    BY <1>2, <1>5, NoOddsNoEdge
  <2> HIDE DEF p
  <2>2. Sound(p)
    BY <1>1, <2>1 DEF Sound
  <2>3. QED BY <2>2 DEF p
<1>6. CASE OddsOf(m) # {}
  <2>1. p.oddsAge \in Int /\ p.oddsAge <= 1
    <3> HIDE DEF p
    <3>1. QED BY <1>1, <1>3, <1>6, OddsAre
  <2> HIDE DEF p
  <2>2. Sound(p)
    BY <1>1, <1>4, <2>1 DEF Sound
  <2>3. QED BY <2>2 DEF p
<1>7. QED BY <1>5, <1>6

\* Forecasts that are sound may be added in any number.
LEMMA Added ==
  ASSUME ScoreInv, NEW X, NEW new \in Seq(X), scores' = scores \o new, \A i \in DOMAIN new : Sound(new[i]),
         UNCHANGED <<day, snapshot, evidence>>
  PROVE  ScoreInv'
<1> DEFINE Y == Range(scores) \cup X
<1>1. scores \in Seq(Y) /\ new \in Seq(Y)
  BY DEF ScoreInv
<1> HIDE DEF Y
<1>2. scores' \in Seq(Y)
  BY <1>1, ConcatIs
<1>3. scores' \in Seq(Range(scores'))
  BY <1>2, Ranged
<1>4. \A i \in DOMAIN scores' : Sound(scores'[i])
  BY <1>1, ConcatIs DEF ScoreInv
<1>5. QED BY <1>3, <1>4 DEF ScoreInv, IsItem, Sound

LEMMA OneAdded ==
  ASSUME ScoreInv, NEW p, scores' = Append(scores, p), Sound(p), UNCHANGED <<day, snapshot, evidence>>
  PROVE  ScoreInv'
<1>1. <<p>> \in Seq({p}) /\ \A i \in DOMAIN <<p>> : Sound(<<p>>[i])
  OBVIOUS
<1>2. scores' = scores \o <<p>>
  BY DEF ScoreInv
<1>3. QED BY <1>1, <1>2, Added

LEMMA CapturedIs ==
  ASSUME day \in Nat
  PROVE  /\ \A e \in OddsEvents : IsItem(OddsItem(e))
         /\ \A n \in NewsItems : IsItem(NewsItem(n))
<1>1. ASSUME NEW e \in OddsEvents PROVE IsItem(OddsItem(e))
  <2>1. e.lag \in Nat /\ e.home \in Int
    BY ScoreConstantsOK
  <2>2. \A c \in DOMAIN HomeSignal(e) : HomeSignal(e)[c] \in Int
    BY <2>1 DEF HomeSignal
  <2> HIDE DEF HomeSignal
  <2>3. QED BY <2>1, <2>2 DEF OddsItem, IsItem
<1>2. ASSUME NEW n \in NewsItems PROVE IsItem(NewsItem(n))
  BY ScoreConstantsOK DEF NewsItem, IsItem
<1>3. QED BY <1>1, <1>2

LEMMA ScoreStep == ScoreInv /\ [ScoreNext]_scoreVars => ScoreInv'
<1> SUFFICES ASSUME ScoreInv, [ScoreNext]_scoreVars PROVE ScoreInv'
  OBVIOUS
<1>1. CASE NextDay
  BY <1>1 DEF NextDay, ScoreInv, IsItem, Sound
<1>2. CASE ScoreMissing
  <2> DEFINE ready == {m \in Missing : Scorable(m)}
             n == Cardinality(ready)
  <2>1. PICK order \in [1 .. n -> ready] : scores' = scores \o [i \in 1 .. n |-> Prediction(order[i])]
    BY <1>2 DEF ScoreMissing
  <2>2. UNCHANGED <<day, snapshot, evidence>>
    BY <1>2 DEF ScoreMissing
  <2>3. ready \subseteq ScoredMarket /\ \A m \in ready : Scorable(m)
    BY DEF Missing
  <2>4. n \in Nat
    BY <2>3, ScoreConstantsOK, FS_Subset, FS_CardinalityType
  <2> DEFINE new == [i \in 1 .. n |-> Prediction(order[i])]
             X == {Prediction(m) : m \in ready}
  <2> HIDE DEF n, ready
  <2>5. \A i \in 1 .. n : Sound(Prediction(order[i]))
    BY <2>3, PredictionIsSound
  <2>6. new \in [1 .. n -> X]
    OBVIOUS
  <2>7. \A i \in DOMAIN new : Sound(new[i])
    BY <2>5
  <2>8. new \in Seq(X)
    BY <2>4, <2>6
  <2>9. scores' = scores \o new
    BY <2>1
  <2> HIDE DEF new, X
  <2>10. QED BY <2>2, <2>7, <2>8, <2>9, Added
<1>3. ASSUME NEW m \in ScoredMarket, ScoreMarket(m) PROVE ScoreInv'
  <2>1. scores' = Append(scores, Prediction(m)) /\ UNCHANGED <<day, snapshot, evidence>> /\ Scorable(m)
    BY <1>3 DEF ScoreMarket
  <2>2. Sound(Prediction(m))
    BY <2>1, PredictionIsSound
  <2>3. QED BY <2>1, <2>2, OneAdded
<1>4. ASSUME NEW m \in ScoredMarket, NEW r \in FoundByResearch, ResearchForecast(m, r) PROVE ScoreInv'
  <2> DEFINE p == [market |-> m, family |-> "research", yes |-> r.yes,
                   confidence |-> r.confidence, opportunity |-> r.opportunity, oddsAge |-> None]
  <2>1. Sound(p)
    BY DEF Sound
  <2>2. scores' = Append(scores, p) /\ UNCHANGED <<day, snapshot, evidence>>
    BY <1>4 DEF ResearchForecast
  <2> HIDE DEF p
  <2>3. QED BY <2>1, <2>2, OneAdded
<1>5. ASSUME NEW m \in ScoredMarket, NEW s \in SnapshotValues, TakeSnapshot(m, s) PROVE ScoreInv'
  <2>1. snapshot' = [snapshot EXCEPT ![m] = s] /\ UNCHANGED <<day, evidence, scores>>
    BY <1>5 DEF TakeSnapshot
  <2>2. snapshot' = [k \in ScoredMarket |-> snapshot'[k]]
    BY <2>1 DEF ScoreInv
  <2>3. \A k \in ScoredMarket : snapshot'[k] # None => snapshot'[k] \in SnapshotValues
    BY <2>1 DEF ScoreInv
  <2>4. QED BY <2>1, <2>2, <2>3 DEF ScoreInv, IsItem, Sound
<1>6. ASSUME NEW m \in ScoredMarket, NEW result, RecordResult(m, result) PROVE ScoreInv'
  BY <1>6 DEF RecordResult, ScoreInv, IsItem, Sound
<1>7. ASSUME NEW m \in ScoredMarket, NEW events \in {{}} \cup {{e} : e \in OddsEvents}, NEW news \in SUBSET NewsItems,
             CaptureEvidence(m, events, news)
      PROVE  ScoreInv'
  <2> DEFINE caught == [i \in {e.id : e \in events} \cup {n.id : n \in news} |->
                         IF \E e \in events : e.id = i THEN OddsItem(CHOOSE e \in events : e.id = i)
                         ELSE NewsItem(CHOOSE n \in news : n.id = i)]
             items == [i \in DOMAIN evidence[m] \cup DOMAIN caught |->
                         IF i \in DOMAIN caught THEN caught[i] ELSE evidence[m][i]]
  <2>1. evidence' = [evidence EXCEPT ![m] = items] /\ UNCHANGED <<day, snapshot, scores>>
    BY <1>7 DEF CaptureEvidence
  <2>2. events \subseteq OddsEvents
    OBVIOUS
  <2>3. DOMAIN caught \subseteq Ids
    BY <2>2 DEF Ids
  <2>4. day \in Nat
    BY DEF ScoreInv
  <2>5. \A i \in DOMAIN caught : IsItem(caught[i])
    <3> SUFFICES ASSUME NEW i \in {e.id : e \in events} \cup {n.id : n \in news}
                 PROVE  IsItem(IF \E e \in events : e.id = i THEN OddsItem(CHOOSE e \in events : e.id = i)
                               ELSE NewsItem(CHOOSE n \in news : n.id = i))
      OBVIOUS
    <3>1. CASE \E e \in events : e.id = i
      <4>1. (CHOOSE e \in events : e.id = i) \in OddsEvents
        BY <2>2, <3>1
      <4>2. QED BY <2>4, <3>1, <4>1, CapturedIs
    <3>2. CASE ~(\E e \in events : e.id = i)
      <4>1. (CHOOSE n \in news : n.id = i) \in NewsItems
        BY <3>2
      <4>2. QED BY <2>4, <3>2, <4>1, CapturedIs
    <3>3. QED BY <3>1, <3>2
  <2> HIDE DEF caught
  <2>6. DOMAIN items \subseteq Ids /\ \A i \in DOMAIN items : IsItem(items[i])
    BY <2>3, <2>5 DEF ScoreInv
  <2> HIDE DEF items
  <2>7. evidence' = [k \in ScoredMarket |-> evidence'[k]]
    BY <2>1 DEF ScoreInv
  <2>8. \A k \in ScoredMarket : evidence'[k] = IF k = m THEN items ELSE evidence[k]
    BY <2>1 DEF ScoreInv
  <2>9. \A k \in ScoredMarket : /\ DOMAIN evidence'[k] \subseteq Ids
                                /\ \A i \in DOMAIN evidence'[k] : IsItem(evidence'[k][i])
    BY <2>6, <2>8 DEF ScoreInv
  <2>10. \A i \in DOMAIN scores' : Sound(scores'[i])
    BY <2>1 DEF ScoreInv
  <2>11. day' \in Nat /\ snapshot' = snapshot /\ scores' \in Seq(Range(scores'))
    BY <2>1 DEF ScoreInv
  <2>12. QED BY <2>7, <2>9, <2>10, <2>11 DEF ScoreInv, IsItem, Sound
<1>8. CASE UNCHANGED scoreVars
  BY <1>8 DEF scoreVars, ScoreInv, IsItem, Sound
<1>9. QED BY <1>1, <1>2, <1>3, <1>4, <1>5, <1>6, <1>7, <1>8 DEF ScoreNext

LEMMA ScoreHolds == ScoreSpec => []ScoreInv
<1>1. ScoreInit => ScoreInv
  BY DEF ScoreInit, ScoreInv
<1>2. QED BY <1>1, ScoreStep, PTL DEF ScoreSpec

\* For any feeds, snapshots and days: a forecast of the scoring family is an opportunity
\* only beside odds of the last day, for the caps of the context and of the line movement
\* are narrower than the edge it needs (_compute_scoring_values).
THEOREM NoBlindOpportunity == ScoreSpec => []OpportunitiesNeedOdds
<1>1. ScoreInv => OpportunitiesNeedOdds
  BY DEF ScoreInv, Sound, OpportunitiesNeedOdds, OfFamily
<1>2. QED BY <1>1, ScoreHolds, PTL

\* For any predictions and outcomes: the evaluation page and the backtesting page agree on
\* the scoring family, and the families and the buckets of the second add up to its
\* totals (build_evaluation_summary, build_backtesting_summary).
THEOREM PagesAgree == ScoreSpec => []EvaluationsAgree
<1>1. ASSUME ScoreInv PROVE EvaluationsAgree
  <2> DEFINE right(S) == {i \in S : \/ scores[i].yes >= 5000 /\ outcome[scores[i].market] = "yes"
                                    \/ ~(scores[i].yes >= 5000) /\ ~(outcome[scores[i].market] = "yes")}
  <2>1. IsFiniteSet(DOMAIN scores)
    <3>1. DOMAIN scores = 1 .. Len(scores) /\ Len(scores) \in Nat
      BY <1>1 DEF ScoreInv
    <3>2. QED BY <3>1, FS_Interval
  <2>2. \A S : Summary(S) = [of |-> Cardinality(S), right |-> Cardinality(right(S))]
    BY DEF Summary
  <2> DEFINE S == BacktestRows
             F(f) == FamilyRows(f)
             B(b) == BucketRows(b)
  <2>3. IsFiniteSet(S) /\ IsFiniteSet(right(S))
    BY <2>1, FS_Subset DEF BacktestRows
  <2>4. S = F("scoring") \cup F("research") /\ F("scoring") \cap F("research") = {}
    BY <1>1 DEF ScoreInv, Sound, BacktestRows, FamilyRows, OfFamily
  <2>5. right(S) = right(F("scoring")) \cup right(F("research")) /\ right(F("scoring")) \cap right(F("research")) = {}
    BY <2>4
  <2>6. /\ Cardinality(S) = Cardinality(F("scoring")) + Cardinality(F("research"))
        /\ Cardinality(right(S)) = Cardinality(right(F("scoring"))) + Cardinality(right(F("research")))
    <3> DEFINE R == right(S)  r1 == right(F("scoring"))  r2 == right(F("research"))
    <3> HIDE DEF S, F, right
    <3>1. Cardinality(S) = Cardinality(F("scoring")) + Cardinality(F("research"))
      BY <2>3, <2>4, Parts
    <3>2. R = r1 \cup r2 /\ r1 \cap r2 = {} /\ IsFiniteSet(R)
      BY <2>3, <2>5
    <3> HIDE DEF R, r1, r2
    <3>3. Cardinality(R) = Cardinality(r1) + Cardinality(r2)
      BY <3>2, Parts
    <3>4. QED BY <3>1, <3>3 DEF R, r1, r2
  <2>8. /\ S = B(1) \cup B(2) \cup B(3) \cup B(4) \cup B(5)
        /\ \A b, c \in 1 .. 5 : b # c => B(b) \cap B(c) = {}
    <3>1. \A p : Bucket(p) \in {1, 2, 3, 4, 5}
      BY DEF Bucket
    <3>2. QED BY <3>1 DEF BucketRows
  <2>9. /\ right(S) = right(B(1)) \cup right(B(2)) \cup right(B(3)) \cup right(B(4)) \cup right(B(5))
        /\ \A b, c \in 1 .. 5 : b # c => right(B(b)) \cap right(B(c)) = {}
    <3>1. \A T : right(T) \subseteq T
      OBVIOUS
    <3>2. \A T, U : right(T \cup U) = right(T) \cup right(U)
      OBVIOUS
    <3>3. \A T, U : T \cap U = {} => right(T) \cap right(U) = {}
      OBVIOUS
    <3>4. right(S) = right(B(1) \cup B(2) \cup B(3) \cup B(4) \cup B(5))
      <4> HIDE DEF right, S, B
      <4>1. QED BY <2>8
    <3>5. right(B(1) \cup B(2) \cup B(3) \cup B(4) \cup B(5))
            = right(B(1)) \cup right(B(2)) \cup right(B(3)) \cup right(B(4)) \cup right(B(5))
      <4> HIDE DEF S, B
      <4>1. QED OBVIOUS
    <3> HIDE DEF right, S, B
    <3>6. QED BY <2>8, <3>3, <3>4, <3>5
  <2>10. Cardinality(S) = Cardinality(B(1)) + Cardinality(B(2)) + Cardinality(B(3)) + Cardinality(B(4)) + Cardinality(B(5))
    <3> DEFINE b1 == B(1)  b2 == B(2)  b3 == B(3)  b4 == B(4)  b5 == B(5)
    <3> HIDE DEF S, B
    <3>1. /\ S = b1 \cup b2 \cup b3 \cup b4 \cup b5 /\ IsFiniteSet(S)
          /\ b1 \cap b2 = {} /\ b1 \cap b3 = {} /\ b1 \cap b4 = {} /\ b1 \cap b5 = {}
          /\ b2 \cap b3 = {} /\ b2 \cap b4 = {} /\ b2 \cap b5 = {}
          /\ b3 \cap b4 = {} /\ b3 \cap b5 = {} /\ b4 \cap b5 = {}
      BY <2>3, <2>8
    <3> HIDE DEF b1, b2, b3, b4, b5
    <3>2. IsFiniteSet(b1 \cup b2 \cup b3 \cup b4 \cup b5)
      BY <3>1
    <3>3. Cardinality(b1 \cup b2 \cup b3 \cup b4 \cup b5)
            = Cardinality(b1) + Cardinality(b2) + Cardinality(b3) + Cardinality(b4) + Cardinality(b5)
      BY ONLY <3>1, <3>2, FiveParts
    <3>4. QED BY <3>1, <3>3 DEF b1, b2, b3, b4, b5
  <2>11. Cardinality(right(S)) = Cardinality(right(B(1))) + Cardinality(right(B(2))) + Cardinality(right(B(3)))
                                  + Cardinality(right(B(4))) + Cardinality(right(B(5)))
    <3> DEFINE R == right(S)  b1 == right(B(1))  b2 == right(B(2))  b3 == right(B(3))  b4 == right(B(4))  b5 == right(B(5))
    <3>1. /\ R = b1 \cup b2 \cup b3 \cup b4 \cup b5 /\ IsFiniteSet(R)
          /\ b1 \cap b2 = {} /\ b1 \cap b3 = {} /\ b1 \cap b4 = {} /\ b1 \cap b5 = {}
          /\ b2 \cap b3 = {} /\ b2 \cap b4 = {} /\ b2 \cap b5 = {}
          /\ b3 \cap b4 = {} /\ b3 \cap b5 = {} /\ b4 \cap b5 = {}
      <4> HIDE DEF right, S, B
      <4>1. QED BY <2>3, <2>9
    <3> HIDE DEF R, b1, b2, b3, b4, b5
    <3>2. IsFiniteSet(b1 \cup b2 \cup b3 \cup b4 \cup b5)
      BY <3>1
    <3>3. Cardinality(b1 \cup b2 \cup b3 \cup b4 \cup b5)
            = Cardinality(b1) + Cardinality(b2) + Cardinality(b3) + Cardinality(b4) + Cardinality(b5)
      BY ONLY <3>1, <3>2, FiveParts
    <3>4. Cardinality(R) = Cardinality(b1) + Cardinality(b2) + Cardinality(b3) + Cardinality(b4) + Cardinality(b5)
      BY <3>1, <3>3
    <3> HIDE DEF right
    <3>5. QED BY <3>4 DEF R, b1, b2, b3, b4, b5
  <2>12. Accuracy = Summary(F("scoring"))
    <3>1. {i \in OfFamily("scoring") : Decided(scores[i])} = F("scoring")
      BY DEF Decided, FamilyRows, BacktestRows, OfFamily
    <3>2. {i \in OfFamily("scoring") : WasCorrect(scores[i])} = right(F("scoring"))
      BY <3>1 DEF WasCorrect, PredictsYes, Decided
    <3>3. QED BY <2>2, <3>1, <3>2 DEF Accuracy
  <2>13. Summary(S).of = Cardinality(S) /\ Summary(S).right = Cardinality(right(S))
    BY <2>2
  <2>14. \A f : Summary(F(f)).of = Cardinality(F(f)) /\ Summary(F(f)).right = Cardinality(right(F(f)))
    BY <2>2
  <2>15. \A b : Summary(B(b)).of = Cardinality(B(b)) /\ Summary(B(b)).right = Cardinality(right(B(b)))
    BY <2>2
  <2>16. QED BY ONLY <2>6, <2>10, <2>11, <2>12, <2>13, <2>14, <2>15 DEF EvaluationsAgree
<1>2. QED BY <1>1, ScoreHolds, PTL

-------------------------------------------------------------------------------
(* Market signals of analyses: what the win rate counts.                   *)

Outcomes == {None, "YES", "NO", "cancelled"} \cup UNION {DOMAIN q : q \in Quotes}

\* A row whose status goes with its balance, and with its outcome once it counts.
Fair(row) ==
  /\ row.status = "no_clear_signal" <=> ~Clear(row.book)
  /\ row.status = "pending_resolution" => row.outcome = None
  /\ row.status \in Counted =>
       /\ row.outcome # None
       /\ row.status = "resolved_hit" <=> SameOutcome(row.side, row.outcome)

SameSignal(a, b) == a.book = b.book /\ a.side = b.side

\* What a session has changed of a row it loaded is a verdict on a pending one or
\* the outcome of an unclear one.
SettledFrom(old, new) ==
  /\ SameSignal(old, new)
  /\ \/ old.status = "no_clear_signal" /\ new.status = "no_clear_signal"
     \/ old.status = "pending_resolution" /\ new.status \in Settled

Resolution(r) ==
  /\ r.status \in {"resolved", "cancelled", "unknown", "open"} /\ r.outcome \in Outcomes
  /\ r.status = "resolved" => r.outcome # None

SettlerSound(s) ==
  /\ batch[s] \subseteq DOMAIN loaded[s] /\ DOMAIN mine[s] \subseteq DOMAIN loaded[s]
  /\ DOMAIN loaded[s] \subseteq Signal
  /\ found[s] # None => batch[s] # {} /\ Resolution(found[s])
  /\ \A g \in DOMAIN loaded[s] :
       /\ signals[g] \in SignalRow /\ loaded[s][g] \in SignalRow
       /\ Fair(loaded[s][g]) /\ SameSignal(loaded[s][g], signals[g])
  /\ \A g \in DOMAIN mine[s] :
       mine[s][g] \in SignalRow /\ Fair(mine[s][g]) /\ SettledFrom(loaded[s][g], mine[s][g])

SignalInv ==
  /\ signals \in [Signal -> SignalRow \cup {None}]
  /\ \A g \in Signal : Here(g) => Fair(signals[g])
  /\ DOMAIN gamma = SignalMarket
  /\ \A m \in SignalMarket : gamma[m].state \in {"open", "void", "absent"} \/ gamma[m].quote \in Quotes
  /\ DOMAIN batch = Settler /\ DOMAIN loaded = Settler /\ DOMAIN found = Settler
  /\ DOMAIN mine = Settler
  /\ \A s \in Settler : SettlerSound(s)

LEMMA FoldedIs ==
  ASSUME NEW a, NEW b
  PROVE  Folded(a) = Folded(b) <=> SameOutcome(a, b)
BY DEF Folded, SameOutcome

LEMMA ResolutionsAre ==
  ASSUME SignalInv, NEW m \in SignalMarket, NEW r \in Resolutions(m)
  PROVE  Resolution(r)
<1>1. Resolution(Resolves("unknown", None))
  BY DEF Resolution, Resolves, Outcomes
<1>2. Resolution(LocalResolution(m))
  BY SignalConstantsOK DEF LocalResolution, Resolution, Resolves, Outcomes
<1>3. Resolution(RemoteResolution(m))
  <2>1. CASE gamma[m].state \in {"open", "void", "absent"}
    BY <2>1, SignalConstantsOK DEF RemoteResolution, Resolution, Resolves, Outcomes
  <2>2. CASE gamma[m].state \notin {"open", "void", "absent"}
    <3> DEFINE q == gamma[m].quote
    <3>1. q \in Quotes
      BY <2>2 DEF SignalInv
    <3>2. Winner(q) = None \/ Winner(q) \in DOMAIN q
      BY DEF Winner
    <3>3. CASE Winner(q) = None
      BY <2>2, <3>3, <1>1 DEF RemoteResolution
    <3>4. CASE Winner(q) # None
      <4>1. Winner(q) \in Outcomes
        BY <3>1, <3>2, <3>4 DEF Outcomes
      <4>2. RemoteResolution(m) = Resolves("resolved", Winner(q))
        BY <2>2, <3>4 DEF RemoteResolution
      <4>3. QED BY <3>4, <4>1, <4>2 DEF Resolution, Resolves
    <3>5. QED BY <3>3, <3>4
  <2>3. QED BY <2>1, <2>2
<1>4. QED BY <1>1, <1>2, <1>3 DEF Resolutions

\* A settlement changes nothing, or settles a pending row or names the outcome of an
\* unclear one.
LEMMA SettledRowIs ==
  ASSUME NEW row \in SignalRow, Fair(row), NEW r, Resolution(r)
  PROVE  /\ SettledRow(row, r) \in SignalRow /\ Fair(SettledRow(row, r))
         /\ SettledRow(row, r) = row \/ SettledFrom(row, SettledRow(row, r))
<1> DEFINE new == SettledRow(row, r)
<1>1. CASE r.status = "open" \/ row.status \in Settled
  BY <1>1 DEF SettledRow
<1>2. CASE r.status # "open" /\ row.status \notin Settled
  <2> DEFINE status == IF row.status = "no_clear_signal" THEN row.status
                       ELSE IF r.status = "resolved" THEN Judged(row, r.outcome) ELSE r.status
  <2>1. new = [row EXCEPT !.outcome = r.outcome, !.status = status]
    BY <1>2 DEF SettledRow
  <2>2. status \in Settled \cup {"no_clear_signal"} /\ r.outcome \in Outcomes
    BY <1>2 DEF Resolution, Judged, Settled, Counted
  <2>3. /\ new \in SignalRow /\ new.status = status /\ new.outcome = r.outcome
        /\ new.book = row.book /\ new.side = row.side
    <3> HIDE DEF status
    <3>1. QED BY <2>1, <2>2 DEF SignalRow, Outcomes
  <2>4. row.status \in {"pending_resolution", "no_clear_signal"}
    BY <1>2 DEF SignalRow
  <2>5. SettledFrom(row, new)
    <3>1. row.status = "pending_resolution" => status \in Settled
      BY <1>2 DEF Resolution, Judged, Settled, Counted
    <3>2. row.status = "no_clear_signal" => status = "no_clear_signal"
      OBVIOUS
    <3> HIDE DEF status, new
    <3>3. QED BY <2>3, <2>4, <3>1, <3>2 DEF SettledFrom, SameSignal
  <2>6. Fair(new)
    <3>1. status \in Counted => /\ row.status = "pending_resolution" /\ r.status = "resolved"
                                /\ row.side # None /\ status = Judged(row, r.outcome)
      BY <1>2, <2>4 DEF Resolution, Judged, Settled, Counted
    <3>2. status \in Counted => /\ r.outcome # None
                                /\ status = "resolved_hit" <=> SameOutcome(row.side, r.outcome)
      BY <3>1, FoldedIs DEF Judged, Resolution
    <3>3. status # "pending_resolution" /\ (status = "no_clear_signal" <=> row.status = "no_clear_signal")
      BY <1>2, <2>4 DEF Resolution, Judged, Settled, Counted
    <3> HIDE DEF status, new
    <3>4. QED BY <2>3, <3>2, <3>3 DEF Fair
  <2>7. QED BY <2>3, <2>5, <2>6
<1>3. QED BY <1>1, <1>2

\* A changed row written over what another session committed meanwhile.
LEMMA MergedIs ==
  ASSUME SignalInv, NEW s \in Settler, NEW g \in DOMAIN mine[s]
  PROVE  /\ Merged(s, g) \in SignalRow /\ Fair(Merged(s, g))
         /\ SameSignal(signals[g], Merged(s, g))
<1> DEFINE old == loaded[s][g]
           new == mine[s][g]
           row == signals[g]
           merged == Merged(s, g)
<1>1. /\ g \in Signal /\ row \in SignalRow /\ old \in SignalRow /\ new \in SignalRow
      /\ Fair(old) /\ Fair(new) /\ SameSignal(old, row) /\ SettledFrom(old, new)
  BY DEF SignalInv, SettlerSound
<1>2. Fair(row)
  BY <1>1, SignalConstantsOK DEF SignalInv, Here
<1>3. merged = [row EXCEPT !.status = Column(old.status, new.status, row.status),
                           !.outcome = Column(old.outcome, new.outcome, row.outcome)]
  BY <1>1 DEF Merged, SignalRow
<1> HIDE DEF old, new, row, merged
<1>4. /\ merged \in SignalRow /\ merged.book = row.book /\ merged.side = row.side
      /\ merged.status = Column(old.status, new.status, row.status)
      /\ merged.outcome = Column(old.outcome, new.outcome, row.outcome)
  BY <1>1, <1>3 DEF SignalRow, Column
<1>5. CASE old.status = "no_clear_signal" /\ new.status = "no_clear_signal"
  <2>1. merged.status = row.status /\ ~Clear(row.book)
    BY <1>1, <1>4, <1>5 DEF Column, Fair, SameSignal
  <2>2. row.status = "no_clear_signal"
    BY <1>2, <2>1 DEF Fair
  <2>3. QED BY <1>4, <2>1, <2>2 DEF Fair, SameSignal, merged, row, Counted
<1>6. CASE old.status = "pending_resolution" /\ new.status \in Settled
  <2>1. merged.status = new.status /\ Clear(row.book)
    BY <1>1, <1>4, <1>6 DEF Column, Fair, SameSignal, Settled, Counted
  <2>2. new.status \in Counted => merged.outcome = new.outcome /\ new.outcome # None
    BY <1>1, <1>4, <1>6 DEF Column, Fair
  <2>3. new.side = row.side /\ new.status # "pending_resolution" /\ new.status # "no_clear_signal"
    BY <1>1, <1>6 DEF SettledFrom, SameSignal, Settled, Counted
  <2>4. Fair(merged)
    BY <1>1, <1>4, <2>1, <2>2, <2>3 DEF Fair
  <2>5. QED BY <1>4, <2>4 DEF SameSignal, merged, row
<1>7. QED BY <1>1, <1>5, <1>6 DEF SettledFrom

\* A signal settled by a session is still here and still the same signal.
LEMMA TableMoves ==
  ASSUME SignalInv, signals' \in [Signal -> SignalRow \cup {None}],
         \A g \in Signal : Here(g) => SameSignal(signals[g], signals'[g]) /\ signals'[g] \in SignalRow,
         NEW t \in Settler,
         UNCHANGED <<batch[t], loaded[t], found[t], mine[t]>>
  PROVE  SettlerSound(t)'
<1>1. \A g \in DOMAIN loaded[t] : Here(g)
  BY SignalConstantsOK DEF SignalInv, SettlerSound, Here
<1>2. QED BY <1>1 DEF SignalInv, SettlerSound, SameSignal, Fair, SettledFrom, Resolution

\* A step of one session that leaves the table alone.
LEMMA OneSettler ==
  ASSUME SignalInv, NEW s \in Settler, UNCHANGED <<signals, known, gamma>>, SettlerSound(s)',
         DOMAIN batch' = Settler, DOMAIN loaded' = Settler, DOMAIN found' = Settler,
         DOMAIN mine' = Settler,
         \A t \in Settler \ {s} : UNCHANGED <<batch[t], loaded[t], found[t], mine[t]>>
  PROVE  SignalInv'
<1>1. \A t \in Settler \ {s} : SettlerSound(t)'
  BY DEF SignalInv, SettlerSound, SameSignal, Fair, SettledFrom, Resolution
<1>2. \A g \in Signal : Here(g)' => Fair(signals[g])'
  BY DEF SignalInv, Here, Fair
<1>3. QED BY <1>1, <1>2 DEF SignalInv

LEMMA LoadsKeeps ==
  ASSUME SignalInv, NEW s \in Settler, Unoccupied(s), NEW due \in SUBSET Signal,
         \A g \in due : Here(g), Loads(s, due)
  PROVE  SignalInv'
<1>1. /\ batch'[s] = due /\ loaded'[s] = [g \in due |-> signals[g]]
      /\ found' = found /\ mine' = mine /\ signals' = signals
  BY DEF Loads, SignalInv
<1>2. DOMAIN mine[s] = {}
  BY DEF Unoccupied, SignalInv, SettlerSound
<1>3. \A g \in due : signals[g] \in SignalRow /\ Fair(signals[g])
  BY DEF SignalInv, Here
<1>4. found[s] = None
  BY DEF Unoccupied, SignalInv, SettlerSound
<1>5. /\ loaded'[s] = [g \in due |-> signals[g]] /\ DOMAIN loaded'[s] = due
      /\ \A g \in due : loaded'[s][g] = signals[g]
  BY <1>1
<1>6. SettlerSound(s)'
  BY <1>1, <1>2, <1>3, <1>4, <1>5 DEF SettlerSound, SameSignal, Fair
<1>7. QED BY <1>6, OneSettler DEF Loads, SignalInv

LEMMA WriteKeeps ==
  ASSUME SignalInv, NEW s \in Settler, WriteSettled(s)
  PROVE  SignalInv'
<1> DEFINE g == Min(batch[s])
           row == SettledRow(loaded[s][g], found[s])
<1>1. g \in batch[s] /\ g \in DOMAIN loaded[s]
  <2>1. batch[s] \subseteq Nat /\ batch[s] # {}
    BY SignalConstantsOK DEF SignalInv, SettlerSound, WriteSettled
  <2>2. QED BY <2>1, NatMin DEF SignalInv, SettlerSound
<1>2. /\ row \in SignalRow /\ Fair(row)
      /\ row = loaded[s][g] \/ SettledFrom(loaded[s][g], row)
  BY <1>1, SettledRowIs DEF SignalInv, SettlerSound, WriteSettled
<1>3. /\ batch'[s] \subseteq batch[s] /\ loaded' = loaded /\ found'[s] = None /\ signals' = signals
  BY DEF WriteSettled, SignalInv
<1> HIDE DEF row
<1>4. \/ mine' = mine
      \/ /\ row # loaded[s][g]
         /\ mine' = [mine EXCEPT ![s] = [h \in DOMAIN mine[s] \cup {g} |-> IF h = g THEN row ELSE mine[s][h]]]
  BY DEF WriteSettled, row
<1> HIDE DEF g
<1>5. /\ DOMAIN mine' = Settler /\ DOMAIN mine'[s] \subseteq DOMAIN mine[s] \cup {g}
      /\ \A h \in DOMAIN mine'[s] : \/ h \in DOMAIN mine[s] /\ mine'[s][h] = mine[s][h]
                                    \/ h = g /\ row # loaded[s][g] /\ mine'[s][h] = row
      /\ \A t \in Settler \ {s} : mine'[t] = mine[t]
  BY <1>4 DEF SignalInv
<1>6. SettlerSound(s)'
  <2>1. /\ batch'[s] \subseteq DOMAIN loaded'[s] /\ DOMAIN mine'[s] \subseteq DOMAIN loaded'[s]
        /\ DOMAIN loaded'[s] \subseteq Signal
    BY <1>1, <1>3, <1>5 DEF SignalInv, SettlerSound
  <2>2. \A h \in DOMAIN loaded'[s] :
          /\ signals'[h] \in SignalRow /\ loaded'[s][h] \in SignalRow
          /\ Fair(loaded'[s][h]) /\ SameSignal(loaded'[s][h], signals'[h])
    BY <1>3 DEF SignalInv, SettlerSound
  <2>3. \A h \in DOMAIN mine'[s] :
          mine'[s][h] \in SignalRow /\ Fair(mine'[s][h]) /\ SettledFrom(loaded'[s][h], mine'[s][h])
    BY <1>2, <1>3, <1>5 DEF SignalInv, SettlerSound
  <2>4. QED BY <1>3, <2>1, <2>2, <2>3 DEF SettlerSound, Fair, SettledFrom, SameSignal, Resolution
<1>7. QED BY <1>5, <1>6, OneSettler DEF WriteSettled, SignalInv

LEMMA CommitKeeps ==
  ASSUME SignalInv, NEW s \in Settler, CommitSettled(s)
  PROVE  SignalInv'
<1>1. \A g \in Signal :
        signals'[g] = IF g \in DOMAIN mine[s] THEN Merged(s, g) ELSE signals[g]
  BY DEF CommitSettled
<1>2. \A g \in DOMAIN mine[s] : /\ Merged(s, g) \in SignalRow /\ Fair(Merged(s, g))
                                /\ SameSignal(signals[g], Merged(s, g))
  BY MergedIs
<1>3. signals' \in [Signal -> SignalRow \cup {None}]
  BY <1>2 DEF CommitSettled, SignalInv
<1>4. \A g \in Signal : Here(g) => SameSignal(signals[g], signals'[g]) /\ signals'[g] \in SignalRow
  BY <1>1, <1>2 DEF SignalInv, Here, SameSignal
<1>5. \A g \in Signal : Here(g)' => Fair(signals[g])'
  BY <1>1, <1>2 DEF SignalInv, Here, Fair
<1>6. /\ loaded' = [loaded EXCEPT ![s] = Empty] /\ mine' = [mine EXCEPT ![s] = Empty]
      /\ UNCHANGED <<known, gamma, batch, found>> /\ batch[s] = {}
  BY DEF CommitSettled, EndsSettling
<1>7. \A t \in Settler \ {s} : SettlerSound(t)'
  <2>1. TAKE t \in Settler \ {s}
  <2>2. UNCHANGED <<batch[t], loaded[t], found[t], mine[t]>>
    BY <1>6 DEF SignalInv
  <2>3. QED BY <1>3, <1>4, <2>2, TableMoves
<1>8. SettlerSound(s)'
  <2>1. DOMAIN loaded'[s] = {} /\ DOMAIN mine'[s] = {} /\ batch'[s] = {} /\ found'[s] = found[s]
    BY <1>6 DEF SignalInv, Empty
  <2>2. found'[s] = None
    BY <1>6, <2>1 DEF SignalInv, SettlerSound
  <2>3. QED BY <2>1, <2>2 DEF SettlerSound
<1>9. QED BY <1>3, <1>5, <1>6, <1>7, <1>8 DEF SignalInv

LEMMA FailKeeps ==
  ASSUME SignalInv, NEW s \in Settler, SettlingFails(s)
  PROVE  SignalInv'
<1>1. /\ DOMAIN loaded'[s] = {} /\ DOMAIN mine'[s] = {} /\ batch'[s] = {} /\ found'[s] = None
  BY DEF SettlingFails, EndsSettling, SignalInv, Empty
<1>2. SettlerSound(s)'
  BY <1>1 DEF SettlerSound
<1>3. QED BY <1>2, OneSettler DEF SettlingFails, EndsSettling, SignalInv

LEMMA ResolveKeeps ==
  ASSUME SignalInv, NEW s \in Settler, Resolve(s)
  PROVE  SignalInv'
<1> DEFINE g == Min(batch[s])
           m == loaded[s][g].market
<1>1. g \in DOMAIN loaded[s]
  <2>1. batch[s] \subseteq Nat /\ batch[s] # {}
    BY SignalConstantsOK DEF SignalInv, SettlerSound, Resolve
  <2>2. QED BY <2>1, NatMin DEF SignalInv, SettlerSound
<1>2. m \in SignalMarket
  BY <1>1 DEF SignalInv, SettlerSound, SignalRow
<1>3. PICK r \in Resolutions(m) : found' = [found EXCEPT ![s] = r]
  BY DEF Resolve
<1> HIDE DEF m
<1>4. Resolution(r)
  BY <1>2, <1>3, ResolutionsAre
<1>5. SettlerSound(s)'
  BY <1>3, <1>4 DEF Resolve, SignalInv, SettlerSound, Fair, SettledFrom, SameSignal, Resolution
<1>6. QED BY <1>3, <1>5, OneSettler DEF Resolve, SignalInv

LEMMA CreateKeeps ==
  ASSUME SignalInv, NEW g \in Signal, NEW m \in SignalMarket, NEW book \in Books,
         CreateSignal(g, m, book)
  PROVE  SignalInv'
<1>1. NewSignal(m, book) \in SignalRow /\ Fair(NewSignal(m, book))
  BY DEF NewSignal, SignalRow, Fair, Counted
<1>2. /\ signals' \in [Signal -> SignalRow \cup {None}]
      /\ \A h \in Signal : IF h = g THEN signals'[h] = NewSignal(m, book) ELSE signals'[h] = signals[h]
  BY <1>1 DEF CreateSignal, SignalInv
<1>3. \A h \in Signal : Here(h) => SameSignal(signals[h], signals'[h]) /\ signals'[h] \in SignalRow
  BY <1>2 DEF CreateSignal, SignalInv, Here, SameSignal
<1>4. \A t \in Settler : SettlerSound(t)'
  BY <1>2, <1>3, TableMoves DEF CreateSignal
<1>5. \A h \in Signal : Here(h)' => Fair(signals[h])'
  BY <1>1, <1>2 DEF SignalInv, Here, Fair
<1>6. QED BY <1>2, <1>4, <1>5 DEF CreateSignal, SignalInv

LEMMA SignalStep ==
  ASSUME SignalInv, [SignalNext]_signalVars
  PROVE  SignalInv'
<1>1. CASE UNCHANGED signalVars
  BY <1>1 DEF signalVars, SignalInv, Here, Fair, SettlerSound, SettledFrom, SameSignal, Resolution
<1>2. ASSUME NEW g \in Signal, NEW m \in SignalMarket, NEW book \in Books, CreateSignal(g, m, book)
      PROVE  SignalInv'
  BY <1>2, CreateKeeps
<1>3. ASSUME NEW m \in SignalMarket, NEW o, RecordOutcome(m, o)
      PROVE  SignalInv'
  BY <1>3 DEF RecordOutcome, SignalInv, Here, Fair, SettlerSound, SettledFrom, SameSignal, Resolution
<1>4. ASSUME NEW m \in SignalMarket, NEW state, NEW q, GammaCloses(m, state, q),
             state \in {"void", "absent"} \/ q \in Quotes
      PROVE  SignalInv'
  <2>1. /\ DOMAIN gamma' = SignalMarket
        /\ \A n \in SignalMarket :
             gamma'[n].state \in {"open", "void", "absent"} \/ gamma'[n].quote \in Quotes
    BY <1>4 DEF GammaCloses, SignalInv
  <2>2. QED BY <1>4, <2>1 DEF GammaCloses, SignalInv, Here, Fair, SettlerSound, SettledFrom,
                               SameSignal, Resolution
<1>5. ASSUME NEW s \in Settler, SettlerStep(s)
      PROVE  SignalInv'
  <2>1. ASSUME NEW g \in Signal, BeginSettle(s, g) PROVE SignalInv'
    <3>1. {g} \in SUBSET Signal /\ \A h \in {g} : Here(h)
      BY <2>1 DEF BeginSettle
    <3>2. QED BY <2>1, <3>1, LoadsKeeps DEF BeginSettle
  <2>2. CASE BeginSettlePending(s)
    <3>1. Oldest \in SUBSET Signal /\ \A h \in Oldest : Here(h)
      BY DEF Oldest
    <3>2. QED BY <2>2, <3>1, LoadsKeeps DEF BeginSettlePending
  <2>3. CASE Resolve(s)
    BY <2>3, ResolveKeeps
  <2>4. CASE WriteSettled(s)
    BY <2>4, WriteKeeps
  <2>5. CASE CommitSettled(s)
    BY <2>5, CommitKeeps
  <2>6. CASE SettlingFails(s)
    BY <2>6, FailKeeps
  <2>7. QED BY <1>5, <2>1, <2>2, <2>3, <2>4, <2>5, <2>6 DEF SettlerStep
<1>6. QED BY <1>1, <1>2, <1>3, <1>4, <1>5 DEF SignalNext

\* For any candidates, outcomes, quotes and overlapping sessions: what the win rate
\* counts is a clear signal judged by the outcome it carries (settle_market_signal).
THEOREM WinRateIsHonest == SignalSpec => []CountedHonestly
<1>1. SignalInit => SignalInv
  BY DEF SignalInit, SignalInv, SettlerSound, Here, Empty, OpenMarket
<1>2. SignalInv /\ [SignalNext]_signalVars => SignalInv'
  BY SignalStep
<1>3. SignalInv => CountedHonestly
  BY DEF SignalInv, CountedHonestly, Fair, Here, Counted
<1>4. QED BY <1>1, <1>2, <1>3, PTL DEF SignalSpec

-------------------------------------------------------------------------------
(* The soccer refresh: the dry run and the reports.                        *)

HeldRow == [open : BOOLEAN, snap : SnapshotRow \cup {None}, judged : Nat \cup {None}, scored : BOOLEAN]

RunRow ==
  [stage : {"import", "snapshots", "scoring", "done"}, apply : BOOLEAN, now : Nat, steady : BOOLEAN,
   expects : Report \cup {None}, imports : Nat, snapshots : Nat, scorable : Nat]

RefreshTypes ==
  /\ clock \in Nat
  /\ ids \in [Slate -> Nat] /\ \A r \in Slate : ids[r] <= Cardinality(Held)
  /\ held \in [Slate -> HeldRow]
  /\ run \in RunRow
  /\ forecast \in Report \cup {None}

\* A forecast of the scoring family is a forecast.
ScoredAreJudged == \A r \in Slate : held[r].scored => held[r].judged # None

LEMMA Finite ==
  ASSUME NEW S \in SUBSET Slate
  PROVE  IsFiniteSet(S) /\ Cardinality(S) \in Nat
BY RefreshConstantsOK, FS_Subset, FS_CardinalityType

LEMMA NotItself == \A m, r : r \in Slate => ~ImportedBefore(m, r, r)
<1> SUFFICES ASSUME NEW m, NEW r \in Slate PROVE ~ImportedBefore(m, r, r)
  OBVIOUS
<1>1. MatchOf[r] \in Nat /\ r \in Nat
  BY RefreshConstantsOK
<1> DEFINE g == MatchOf[r]
           k == GameRank(m, g)
<1>2. k[1] \in Nat /\ k[2] \in Nat /\ k[3] \in Nat /\ k[4] \in Nat
  BY <1>1 DEF GameRank
<1> HIDE DEF k
<1>3. ~RankedBefore(k, k)
  BY <1>2 DEF RankedBefore
<1>4. ~(r < r)
  BY <1>1
<1>5. QED BY <1>3, <1>4 DEF ImportedBefore, k

LEMMA ImportIs ==
  ASSUME NEW now, NEW apply
  PROVE  /\ ToImport(now, apply) = ToImport(now, TRUE)
         /\ ToImport(now, apply) \subseteq Slate \ Held
BY DEF ToImport, Limited, OfGamesTaken, ImportDue

LEMMA SnapshotIs ==
  ASSUME NEW now
  PROVE  ToSnapshot(now) \subseteq Held
BY DEF ToSnapshot, Limited

LEMMA ScoreIs == ToScore \subseteq Unscored /\ Unscored \subseteq Held /\ Held \subseteq Slate
BY DEF ToScore, UnscoredLimited, Unscored, Limited, Held

\* The rows an import adds come after all that are there.
LEMMA Imported ==
  ASSUME RefreshTypes, Import
  PROVE  /\ ids' \in [Slate -> Nat]
         /\ \A r \in Slate : ids'[r] <= Cardinality(Held')
         /\ ~run.apply => ids' = ids
         /\ \A r \in Held : ids'[r] = ids[r]
         /\ \A r \in Held' \ Held : ids'[r] > Cardinality(Held)
         /\ Held \subseteq Held'
<1> DEFINE new == ToImport(run.now, run.apply)
           earlier(r) == {x \in new : ImportedBefore(ImportDue(run.now), x, r)}
           c == Cardinality(Held)
<1>1. ids' = [r \in Slate |-> IF run.apply /\ r \in new THEN c + 1 + Cardinality(earlier(r)) ELSE ids[r]]
  BY DEF Import
<1>2. new \subseteq Slate \ Held /\ Held \subseteq Slate
  BY ImportIs DEF Held
<1>3. c \in Nat /\ Cardinality(new) \in Nat /\ IsFiniteSet(new) /\ IsFiniteSet(Held)
  BY <1>2, Finite
<1>4. ASSUME NEW r \in new
      PROVE  Cardinality(earlier(r)) \in Nat /\ Cardinality(earlier(r)) + 1 <= Cardinality(new)
  <2>1. r \notin earlier(r) /\ earlier(r) \subseteq new
    BY <1>2, NotItself
  <2> HIDE DEF earlier, new
  <2>2. IsFiniteSet(earlier(r)) /\ Cardinality(earlier(r)) \in Nat
    BY <1>3, <2>1, FS_Subset, FS_CardinalityType
  <2>3. Cardinality(earlier(r)) <= Cardinality(new) /\ Cardinality(earlier(r)) # Cardinality(new)
    BY <1>3, <1>4, <2>1, FS_Subset
  <2>4. QED BY <1>3, <2>2, <2>3
<1> HIDE DEF earlier, new, c
<1>5. ids \in [Slate -> Nat] /\ run.apply \in BOOLEAN
  BY DEF RefreshTypes, RunRow
<1>6. \A r \in Slate : ids'[r] \in Nat
  BY <1>1, <1>3, <1>4, <1>5
<1>7. Held' = IF run.apply THEN Held \cup new ELSE Held
  <2>1. ASSUME NEW r \in Slate, run.apply, r \in new
        PROVE  ids'[r] > 0
    <3>1. ids'[r] = c + 1 + Cardinality(earlier(r)) /\ Cardinality(earlier(r)) \in Nat
      BY <1>1, <1>4, <2>1
    <3>2. QED BY <1>3, <3>1
  <2>2. ASSUME NEW r \in Slate, ~run.apply \/ r \notin new
        PROVE  ids'[r] = ids[r]
    BY <1>1, <2>2
  <2>3. CASE run.apply
    BY <1>2, <2>1, <2>2, <2>3 DEF Held
  <2>4. CASE ~run.apply
    BY <2>2, <2>4 DEF Held
  <2>5. QED BY <2>3, <2>4
<1>8. Held \cap new = {}
  BY <1>2
<1>9. Cardinality(Held') = IF run.apply THEN c + Cardinality(new) ELSE c
  <2>1. Cardinality(Held \cup new) = c + Cardinality(new)
    <3>1. Cardinality(Held \cup new) = c + Cardinality(new) - Cardinality(Held \cap new)
      BY <1>3, FS_Union DEF c
    <3>2. Cardinality(Held \cap new) = 0
      BY <1>8, FS_EmptySet
    <3>3. QED BY <1>3, <3>1, <3>2
  <2>2. QED BY <1>7, <2>1 DEF c
<1>10. \A r \in Slate : ids'[r] <= Cardinality(Held')
  <2>1. \A r \in Slate : ids[r] <= c
    BY DEF RefreshTypes, c
  <2>2. QED BY <1>1, <1>3, <1>4, <1>5, <1>9, <2>1
<1>11. ~run.apply => ids' = ids
  BY <1>1, <1>5
<1>12. \A r \in Held : ids'[r] = ids[r]
  BY <1>1, <1>8, <1>2
<1>13. \A r \in Held' \ Held : ids'[r] > c
  BY <1>1, <1>3, <1>4, <1>7, <1>2
<1>14. ids' \in [Slate -> Nat]
  BY <1>1, <1>6
<1>15. QED BY <1>7, <1>10, <1>11, <1>12, <1>13, <1>14 DEF c

LEMMA RowStays ==
  ASSUME held \in [Slate -> HeldRow], ScoredAreJudged, NEW r \in Slate, NEW row \in HeldRow,
         row.scored => row.judged # None
  PROVE  LET now == [held EXCEPT ![r] = row]
         IN  now \in [Slate -> HeldRow] /\ \A q \in Slate : now[q].scored => now[q].judged # None
BY DEF ScoredAreJudged

LEMMA Typed == RefreshSpec => [](RefreshTypes /\ ScoredAreJudged)
<1> USE RefreshConstantsOK DEF RefreshTypes, ScoredAreJudged
<1>1. RefreshInit => RefreshTypes /\ ScoredAreJudged
  <2> SUFFICES ASSUME RefreshInit PROVE RefreshTypes /\ ScoredAreJudged
    OBVIOUS
  <2>1. Held = {}
    BY DEF RefreshInit, Held
  <2>2. Cardinality(Held) = 0
    BY <2>1, FS_EmptySet
  <2>3. QED BY <2>2 DEF RefreshInit, NewRow, HeldRow, NoCommand, RunRow
<1>2. RefreshTypes /\ ScoredAreJudged /\ [RefreshNext]_refreshVars => (RefreshTypes /\ ScoredAreJudged)'
  <2> SUFFICES ASSUME RefreshTypes, ScoredAreJudged, [RefreshNext]_refreshVars
               PROVE (RefreshTypes /\ ScoredAreJudged)'
    OBVIOUS
  <2>0. ids' = ids => Held' = Held
    BY DEF Held
  <2>1. ASSUME NEW apply \in BOOLEAN, StartRefresh(apply) PROVE (RefreshTypes /\ ScoredAreJudged)'
    <3>1. run' \in RunRow
      BY <2>1 DEF StartRefresh, NoCommand, RunRow
    <3>2. QED BY <2>0, <2>1, <3>1 DEF StartRefresh
  <2>2. CASE Import
    <3>1. Cardinality(ToImport(run.now, run.apply)) \in Nat
      BY ImportIs, Finite
    <3>2. run' \in RunRow
      BY <2>2, <3>1 DEF Import, RunRow
    <3>3. ids' \in [Slate -> Nat] /\ \A r \in Slate : ids'[r] <= Cardinality(Held')
      BY <2>2, Imported
    <3>4. QED BY <2>2, <3>2, <3>3 DEF Import
  <2>3. CASE Snapshots
    <3>1. Cardinality(ToSnapshot(run.now)) \in Nat
      BY SnapshotIs, ScoreIs, Finite
    <3>2. run' \in RunRow
      BY <2>3, <3>1 DEF Snapshots, RunRow
    <3>3. [at |-> run.now, priced |-> TRUE] \in SnapshotRow
      BY DEF SnapshotRow, RunRow
    <3>4. ASSUME NEW r \in Slate
          PROVE  held'[r] \in HeldRow /\ held'[r].scored = held[r].scored /\ held'[r].judged = held[r].judged
      <4>1. Newest(held[r].snap, [at |-> run.now, priced |-> TRUE]) \in SnapshotRow \cup {None}
        BY <3>3 DEF Newest, HeldRow
      <4>2. held'[r] \in {held[r], [held[r] EXCEPT !.snap = Newest(@, [at |-> run.now, priced |-> TRUE])]}
        BY <2>3 DEF Snapshots
      <4>3. QED BY <4>1, <4>2 DEF HeldRow
    <3>5. held' \in [Slate -> HeldRow]
      <4>1. held' = [r \in Slate |-> held'[r]]
        BY <2>3 DEF Snapshots
      <4>2. QED BY <3>4, <4>1
    <3>6. QED BY <2>0, <2>3, <3>2, <3>4, <3>5 DEF Snapshots
  <2>4. CASE Score
    <3>1. Cardinality(ToScore) \in Nat
      BY ScoreIs, Finite
    <3>2. run' \in RunRow /\ forecast' \in Report \cup {None}
      BY <2>4, <3>1 DEF Score, RunRow, Report
    <3>3. ASSUME NEW r \in Slate
          PROVE  held'[r] \in HeldRow /\ (held'[r].scored => held'[r].judged # None)
      <4>1. Later(held[r].judged, run.now) \in Nat
        BY DEF Later, HeldRow, RunRow
      <4>2. held'[r] \in {held[r], [held[r] EXCEPT !.scored = TRUE, !.judged = Later(@, run.now)]}
        BY <2>4 DEF Score
      <4>3. QED BY <4>1, <4>2 DEF HeldRow
    <3>4. held' \in [Slate -> HeldRow]
      <4>1. held' = [r \in Slate |-> held'[r]]
        BY <2>4 DEF Score
      <4>2. QED BY <3>3, <4>1
    <3>5. QED BY <2>0, <2>4, <3>2, <3>3, <3>4 DEF Score
  <2>5. CASE BreaksOff
    BY <2>0, <2>5 DEF BreaksOff, NoCommand, RunRow
  <2>6. ASSUME Interfered PROVE run' \in RunRow /\ forecast' = None
    BY <2>6 DEF Interfered, NoCommand, RunRow
  <2>7. CASE ClockAdvances
    BY <2>0, <2>6, <2>7 DEF ClockAdvances
  <2>8. ASSUME NEW r \in Slate, NEW what \in {None, "bare", "priced"}, SlateShows(r, what)
        PROVE  (RefreshTypes /\ ScoredAreJudged)'
    BY <2>0, <2>6, <2>8 DEF SlateShows
  <2>9. ASSUME NEW r \in Slate, NEW row \in HeldRow, row.scored => row.judged # None, Changes(r, row)
        PROVE  (RefreshTypes /\ ScoredAreJudged)'
    <3>1. held' = [held EXCEPT ![r] = row]
      BY <2>9 DEF Changes
    <3>2. held' \in [Slate -> HeldRow] /\ \A q \in Slate : held'[q].scored => held'[q].judged # None
      BY <2>9, <3>1, RowStays
    <3>3. QED BY <2>0, <2>6, <2>9, <3>2 DEF Changes
  <2>10. ASSUME NEW r \in Slate, NEW priced \in BOOLEAN, Capture(r, priced)
         PROVE  (RefreshTypes /\ ScoredAreJudged)'
    <3> DEFINE row == [held[r] EXCEPT !.snap = [at |-> clock, priced |-> priced]]
    <3>1. row \in HeldRow /\ row.scored = held[r].scored /\ row.judged = held[r].judged
      BY DEF HeldRow, SnapshotRow
    <3>2. Changes(r, row)
      BY <2>10 DEF Capture
    <3> HIDE DEF row
    <3>3. QED BY <2>9, <3>1, <3>2
  <2>11. ASSUME NEW r \in Slate, Closes(r) PROVE (RefreshTypes /\ ScoredAreJudged)'
    <3> DEFINE row == [held[r] EXCEPT !.open = FALSE]
    <3>1. row \in HeldRow /\ row.scored = held[r].scored /\ row.judged = held[r].judged
      BY DEF HeldRow
    <3>2. Changes(r, row)
      BY <2>11 DEF Closes
    <3> HIDE DEF row
    <3>3. QED BY <2>9, <3>1, <3>2
  <2>12. ASSUME NEW r \in Slate, Judge(r) PROVE (RefreshTypes /\ ScoredAreJudged)'
    <3> DEFINE row == [held[r] EXCEPT !.judged = clock]
    <3>1. row \in HeldRow /\ row.judged # None
      BY DEF HeldRow
    <3>2. Changes(r, row)
      BY <2>12 DEF Judge
    <3> HIDE DEF row
    <3>3. QED BY <2>9, <3>1, <3>2
  <2>13. CASE UNCHANGED refreshVars
    BY <2>0, <2>13 DEF refreshVars
  <2>14. QED BY <2>1, <2>2, <2>3, <2>4, <2>5, <2>7, <2>8, <2>10, <2>11, <2>12, <2>13 DEF RefreshNext
<1>3. QED BY <1>1, <1>2, PTL DEF RefreshSpec

\* For any slate, limits and order of refreshes: an active row that the health inspection finds
\* wanting is in the refresh plan, and what the plan calls ready to score is in the list the
\* scoring works through (inspect_soccer_market_health).
THEOREM PlanAndHealthAgree == RefreshSpec => []ReportsAgree
<1>1. RefreshTypes /\ ScoredAreJudged => ReportsAgree
  <2> SUFFICES ASSUME RefreshTypes, ScoredAreJudged PROVE ReportsAgree
    OBVIOUS
  <2>1. ASSUME NEW r \in Unwell, held[r].open, ~OldSnapshot(r), held[r].judged # None
        PROVE  FALSE
    <3>1. r \in Held /\ held[r] \in HeldRow /\ clock \in Nat
      BY ScoreIs DEF Unwell, RefreshTypes
    <3> DEFINE a == held[r].snap.at
               j == held[r].judged
    <3>2. held[r].snap # None /\ a \in Nat /\ a >= clock - OldAfter /\ j \in Nat /\ OldAfter \in Nat
      BY <2>1, <3>1, RefreshConstantsOK DEF OldSnapshot, HeldRow, SnapshotRow
    <3>3. Updated(r) = Max({j, a})
      <4>1. ({j} \cup {a}) \ {None} = {j, a}
        BY <3>2, RefreshConstantsOK
      <4>2. QED BY <3>2, <4>1 DEF Updated
    <3> HIDE DEF a, j
    <3>4. \E x \in {j, a} : \A y \in {j, a} : x >= y
      BY <3>2
    <3>5. Max({j, a}) \in {j, a} /\ Max({j, a}) >= a
      BY <3>2, <3>4 DEF Max
    <3>6. Updated(r) \in Nat /\ Updated(r) >= clock - OldAfter
      BY <3>1, <3>2, <3>3, <3>5
    <3>7. Updated(r) # None
      BY <3>6, RefreshConstantsOK
    <3>8. QED BY <2>1, <3>1, <3>2, <3>6, <3>7 DEF Unwell
  <2>2. {r \in Unwell : held[r].open} \subseteq Planned
    BY <2>1 DEF Planned, Unwell, OldSnapshot
  <2>3. PlannedToScore \subseteq Unscored
    BY ScoreIs DEF PlannedToScore, Planned, Unscored, ScoredAreJudged, RefreshTypes, HeldRow
  <2>4. QED BY <2>2, <2>3 DEF ReportsAgree
<1>2. QED BY <1>1, Typed, PTL

-------------------------------------------------------------------------------
Imports == Cardinality(ToImport(clock, TRUE))
Prices == Cardinality(ToSnapshot(clock))
Scorables == Cardinality(ToScore)
Preview == [imports |-> Imports, snapshots |-> Prices, scorable |-> Scorables]

\* A dry run, undisturbed so far, has counted what the present state offers.
DryRunCounts ==
  run.stage # "done" /\ ~run.apply /\ run.steady =>
    /\ run.now = clock
    /\ run.stage # "import" => run.imports = Imports
    /\ run.stage = "scoring" => run.snapshots = Prices

\* An apply run that nothing has disturbed since the dry run before it has done as
\* much as that said, and still has as much to do.
AsForeseen(run_, imports, prices, scorable) ==
  LET e == run_.expects
  IN  /\ run_.stage = "import" =>
           e.imports = imports /\ e.snapshots = prices /\ e.scorable = scorable
      /\ run_.stage = "snapshots" =>
           run_.imports = e.imports /\ e.snapshots <= prices /\ e.scorable <= scorable
      /\ run_.stage = "scoring" =>
           run_.imports = e.imports /\ e.snapshots <= run_.snapshots /\ e.scorable <= scorable
      /\ run_.stage = "done" =>
           run_.imports = e.imports /\ e.snapshots <= run_.snapshots /\ e.scorable <= run_.scorable

ForecastInv ==
  /\ forecast # None => run.stage = "done" /\ forecast = Preview
  /\ DryRunCounts
  /\ run.expects # None =>
       /\ run.apply /\ (run.stage # "done" => run.now = clock)
       /\ AsForeseen(run, Imports, Prices, Scorables)

Lowest(S, n) == {x \in S : Cardinality({y \in S : y < x}) < n}

\* Of a larger set one finds at least as many within the limit.
LEMMA MoreWithinLimit ==
  ASSUME NEW T \in SUBSET Nat, IsFiniteSet(T), NEW S \in SUBSET T, NEW n \in Nat
  PROVE  Cardinality(Lowest(S, n)) <= Cardinality(Lowest(T, n))
<1> DEFINE before(U, x) == {y \in U : y < x}
           F(U) == {x \in U : Cardinality(before(U, x)) < n}
<1>1. Lowest(S, n) = F(S) /\ Lowest(T, n) = F(T)
  BY DEF Lowest
<1>2. \A U \in SUBSET T : IsFiniteSet(U) /\ Cardinality(U) \in Nat
  BY FS_Subset, FS_CardinalityType
<1>3. CASE F(T) = T
  <2>1. F(S) \subseteq T
    OBVIOUS
  <2>2. QED BY <1>1, <1>3, <2>1, FS_Subset
<1>4. CASE F(T) # T
  <2> DEFINE out == T \ F(T)
             m == Min(out)
  <2>1. m \in out /\ \A k \in out : m <= k
    <3>1. out # {} /\ out \in SUBSET Nat
      BY <1>4
    <3> HIDE DEF out, F
    <3>2. QED BY <3>1, NatMin
  <2>2. before(T, m) \subseteq F(T)
    <3> SUFFICES ASSUME NEW y \in before(T, m) PROVE y \in F(T)
      OBVIOUS
    <3>1. y \in T /\ y < m /\ m \in T /\ y \in Nat /\ m \in Nat
      <4> HIDE DEF m
      <4>1. QED BY <2>1
    <3> HIDE DEF F, m, before
    <3>2. QED BY <2>1, <3>1
  <2>3. Cardinality(before(T, m)) >= n
    <3>1. before(T, m) \in SUBSET T
      OBVIOUS
    <3>2. Cardinality(before(T, m)) \in Nat
      BY <1>2, <3>1
    <3> HIDE DEF m, before
    <3>3. QED BY <2>1, <3>2
  <2>4. F(T) \in SUBSET T /\ F(S) \in SUBSET S /\ F(S) \in SUBSET T
    OBVIOUS
  <2>5. Cardinality(F(T)) >= n
    <3> HIDE DEF before, F, m
    <3>1. Cardinality(before(T, m)) <= Cardinality(F(T))
      BY <1>2, <2>2, <2>4, FS_Subset
    <3>2. before(T, m) \in SUBSET T
      BY <2>2, <2>4
    <3>3. QED BY <1>2, <2>3, <2>4, <3>1, <3>2
  <2>6. Cardinality(F(S)) <= n
    <3> DEFINE rank == [x \in F(S) |-> Cardinality(before(S, x))]
    <3>1. ASSUME NEW x \in S
          PROVE  before(S, x) \in SUBSET T /\ Cardinality(before(S, x)) \in Nat
      <4>1. before(S, x) \in SUBSET T
        OBVIOUS
      <4> HIDE DEF before
      <4>2. QED BY <1>2, <4>1
    <3>2. \A x \in F(S) : Cardinality(before(S, x)) \in 0 .. n - 1
      <4> SUFFICES ASSUME NEW x \in F(S) PROVE Cardinality(before(S, x)) \in 0 .. n - 1
        OBVIOUS
      <4>1. x \in S /\ Cardinality(before(S, x)) < n
        OBVIOUS
      <4>2. Cardinality(before(S, x)) \in Nat
        BY <3>1, <4>1
      <4> HIDE DEF before, F
      <4>3. QED BY <4>1, <4>2
    <3>3. ASSUME NEW x \in S, NEW y \in S, x < y
          PROVE  Cardinality(before(S, x)) < Cardinality(before(S, y))
      <4>1. before(S, x) \in SUBSET before(S, y) /\ before(S, x) # before(S, y)
        <5>1. x \in before(S, y) /\ x \notin before(S, x)
          BY <3>3
        <5>2. \A z \in before(S, x) : z \in before(S, y)
          BY <3>3
        <5>3. QED BY <5>1, <5>2
      <4>2. IsFiniteSet(before(S, y)) /\ Cardinality(before(S, x)) \in Nat /\ Cardinality(before(S, y)) \in Nat
        BY <1>2, <3>1
      <4> HIDE DEF before
      <4>3. QED BY <4>1, <4>2, FS_Subset
    <3>4. \A x, y \in F(S) : rank[x] = rank[y] => x = y
      <4> SUFFICES ASSUME NEW x \in F(S), NEW y \in F(S), rank[x] = rank[y] PROVE x = y
        OBVIOUS
      <4>1. x \in S /\ y \in S /\ x \in Nat /\ y \in Nat
        OBVIOUS
      <4>2. Cardinality(before(S, x)) = Cardinality(before(S, y))
        OBVIOUS
      <4> HIDE DEF F, before, rank
      <4>3. QED BY <3>1, <3>3, <4>1, <4>2
    <3>5. rank \in [F(S) -> 0 .. n - 1]
      BY <3>2
    <3>6. rank \in Injection(F(S), 0 .. n - 1)
      <4> HIDE DEF rank, F
      <4>1. QED BY <3>4, <3>5 DEF Injection, IsInjective
    <3> HIDE DEF rank, F
    <3>7. IsFiniteSet(0 .. n - 1) /\ Cardinality(0 .. n - 1) = n
      BY FS_Interval
    <3>8. QED BY <3>6, <3>7, FS_Injection
  <2>7. QED
    <3>1. Cardinality(F(S)) \in Nat /\ Cardinality(F(T)) \in Nat
      <4> HIDE DEF F
      <4>1. QED BY <1>2, <2>4
    <3> HIDE DEF F
    <3>2. QED BY <1>1, <2>5, <2>6, <3>1
<1>5. QED BY <1>3, <1>4

\* What an import adds takes nothing away from the stages after it.
LEMMA AfterImport ==
  ASSUME RefreshTypes, Import, run.now = clock
  PROVE  Prices <= Prices' /\ Scorables <= Scorables'
<1> USE RefreshConstantsOK
<1>1. Held \subseteq Held' /\ held' = held /\ offered' = offered /\ clock' = clock /\ run.now \in Nat
  BY Imported DEF Import, RefreshTypes
<1>2. Prices <= Prices'
  <2> DEFINE Due(H) == {r \in H : /\ offered[r] = "priced" /\ ClosesAt[r] \in clock .. clock + DaysAhead
                                  /\ held[r].snap # None => ~held[r].snap.priced}
  <2>1. ToSnapshot(clock) = Lowest(Due(Held), SnapshotCap)
    BY DEF ToSnapshot, Limited, Lowest
  <2>2. ToSnapshot(clock)' = Lowest(Due(Held'), SnapshotCap)
    BY <1>1 DEF ToSnapshot, Limited, Lowest
  <2>3. Due(Held) \subseteq Due(Held') /\ Due(Held') \subseteq Slate /\ Due(Held') \subseteq Nat
    BY <1>1 DEF Held
  <2>4. IsFiniteSet(Due(Held'))
    BY <2>3, Finite
  <2>5. SnapshotCap \in Nat
    OBVIOUS
  <2> HIDE DEF Due
  <2>6. Cardinality(Lowest(Due(Held), SnapshotCap)) <= Cardinality(Lowest(Due(Held'), SnapshotCap))
    BY <2>3, <2>4, <2>5, MoreWithinLimit
  <2>7. QED BY <2>1, <2>2, <2>6 DEF Prices
<1>3. Scorables <= Scorables'
  <2>1. Unscored \subseteq Unscored'
    BY <1>1 DEF Unscored
  <2>2. ASSUME NEW r \in Unscored
        PROVE  {y \in Unscored' : ids'[y] < ids'[r]} = {y \in Unscored : ids[y] < ids[r]}
    <3>1. r \in Held /\ ids'[r] = ids[r] /\ ids[r] \in Nat /\ ids[r] <= Cardinality(Held)
      BY Imported, ScoreIs DEF RefreshTypes
    <3>2. ASSUME NEW y \in Unscored', y \notin Held
          PROVE  ~(ids'[y] < ids'[r])
      <4>1. y \in Held' /\ y \in Slate
        BY <3>2 DEF Unscored, Held
      <4>2. ids'[y] > Cardinality(Held) /\ ids'[y] \in Nat /\ Cardinality(Held) \in Nat
        BY <3>2, <4>1, Imported, ScoreIs, Finite
      <4>3. QED BY <3>1, <4>2
    <3>3. \A y \in Held : ids'[y] = ids[y]
      BY Imported
    <3>4. \A y \in Unscored' : y \in Held => y \in Unscored
      BY <1>1 DEF Unscored
    <3>5. QED BY <2>1, <3>1, <3>2, <3>3, <3>4, ScoreIs
  <2>3. UnscoredLimited = {x \in Unscored : Cardinality({y \in Unscored : ids[y] < ids[x]}) < ScoringLimit}
    BY DEF UnscoredLimited, Limited
  <2>4. UnscoredLimited' = {x \in Unscored' : Cardinality({y \in Unscored' : ids'[y] < ids'[x]}) < ScoringLimit}
    BY DEF UnscoredLimited, Limited
  <2>5. UnscoredLimited \subseteq UnscoredLimited'
    <3> SUFFICES ASSUME NEW x \in UnscoredLimited PROVE x \in UnscoredLimited'
      OBVIOUS
    <3>1. x \in Unscored /\ x \in Unscored' /\ Cardinality({y \in Unscored : ids[y] < ids[x]}) < ScoringLimit
      BY <2>1, <2>3
    <3>2. {y \in Unscored' : ids'[y] < ids'[x]} = {y \in Unscored : ids[y] < ids[x]}
      BY <2>2, <3>1
    <3>3. QED BY <2>4, <3>1, <3>2
  <2>6. ToScore \subseteq ToScore'
    BY <1>1, <2>5 DEF ToScore
  <2>7. ToScore' \subseteq Slate
    BY DEF ToScore, UnscoredLimited, Limited, Unscored, Held
  <2>8. QED BY <2>6, <2>7, Finite, FS_Subset DEF Scorables
<1>4. QED BY <1>2, <1>3

\* Snapshots leave the list of what to score as it is, and more of it has one.
LEMMA AfterSnapshots ==
  ASSUME RefreshTypes, Snapshots
  PROVE  Scorables <= Scorables'
<1> USE RefreshConstantsOK
<1>1. ids' = ids
  BY DEF Snapshots
<1>2. \A r \in Slate : /\ held'[r].open = held[r].open /\ held'[r].scored = held[r].scored
                       /\ held[r].snap # None => held'[r].snap # None
  <2> SUFFICES ASSUME NEW r \in Slate
               PROVE  /\ held'[r].open = held[r].open /\ held'[r].scored = held[r].scored
                      /\ held[r].snap # None => held'[r].snap # None
    OBVIOUS
  <2> DEFINE new == [at |-> run.now, priced |-> TRUE]
  <2>1. held'[r] \in {held[r], [held[r] EXCEPT !.snap = Newest(@, new)]} /\ held[r] \in HeldRow
    BY DEF Snapshots, RefreshTypes
  <2>2. new \in SnapshotRow
    BY DEF SnapshotRow, RefreshTypes, RunRow
  <2>3. Newest(held[r].snap, new) # None
    BY <2>2 DEF Newest
  <2> HIDE DEF new
  <2>4. QED BY <2>1, <2>3 DEF HeldRow
<1>3. Unscored' = Unscored
  BY <1>1, <1>2 DEF Unscored, Held
<1>4. UnscoredLimited' = UnscoredLimited
  BY <1>1, <1>3 DEF UnscoredLimited, Limited
<1>5. ToScore \subseteq ToScore'
  BY <1>2, <1>4, ScoreIs DEF ToScore, UnscoredLimited, Limited
<1>6. ToScore' \subseteq Slate
  BY DEF ToScore, UnscoredLimited, Limited, Unscored, Held
<1>7. QED BY <1>5, <1>6, Finite, FS_Subset DEF Scorables

LEMMA SameCounts ==
  ASSUME UNCHANGED <<clock, offered, ids, held>>
  PROVE  Imports' = Imports /\ Prices' = Prices /\ Scorables' = Scorables
BY DEF Imports, Prices, Scorables, ToImport, ToSnapshot, ToScore, UnscoredLimited, Unscored, Limited,
       OfGamesTaken, GamesTaken, ImportDue, Held, ImportedBefore, GameRank, RankedBefore

\* For any slate, limits and days: an apply run that nothing preceded imports what the dry run
\* said, and makes no fewer snapshots and scorable rows than it said.
THEOREM DryRunsForetell == RefreshSpec => []ForecastsAreMet
<1> USE RefreshConstantsOK
<1>1. RefreshInit => ForecastInv
  BY DEF RefreshInit, ForecastInv, DryRunCounts, NoCommand
<1>2. RefreshTypes /\ ForecastInv /\ [RefreshNext]_refreshVars => ForecastInv'
  <2> SUFFICES ASSUME RefreshTypes, ForecastInv, [RefreshNext]_refreshVars PROVE ForecastInv'
    OBVIOUS
  <2>0. Imports \in Nat /\ Prices \in Nat /\ Scorables \in Nat
    BY ImportIs, SnapshotIs, ScoreIs, Finite DEF Imports, Prices, Scorables
  <2>1. ASSUME NEW apply \in BOOLEAN, StartRefresh(apply) PROVE ForecastInv'
    <3>1. Imports' = Imports /\ Prices' = Prices /\ Scorables' = Scorables
      BY <2>1, SameCounts DEF StartRefresh
    <3>2. /\ run'.stage = "import" /\ run'.apply = apply /\ run'.now = clock /\ clock' = clock
          /\ run'.expects = (IF apply THEN forecast ELSE None) /\ forecast' = None
      BY <2>1 DEF StartRefresh, NoCommand
    <3>3. DryRunCounts'
      BY <3>2 DEF DryRunCounts
    <3>4. run'.expects # None =>
            run'.expects.imports = Imports /\ run'.expects.snapshots = Prices /\ run'.expects.scorable = Scorables
      BY <3>2 DEF ForecastInv, Preview
    <3>5. QED BY <3>1, <3>2, <3>3, <3>4 DEF ForecastInv, AsForeseen
  <2>2. CASE Import
    <3>1. forecast = None /\ forecast' = None
      BY <2>2 DEF Import, ForecastInv
    <3>2. /\ run.stage = "import" /\ run'.stage = "snapshots" /\ run'.apply = run.apply /\ run'.steady = run.steady
          /\ run'.now = run.now /\ run'.expects = run.expects
          /\ run'.imports = Cardinality(ToImport(run.now, TRUE))
          /\ UNCHANGED <<clock, offered, held>>
      BY <2>2, ImportIs DEF Import, RefreshTypes, RunRow
    <3>3. CASE ~run.apply
      <4>1. ids' = ids
        BY <2>2, <3>3, Imported
      <4>2. Imports' = Imports /\ Prices' = Prices /\ Scorables' = Scorables
        BY <3>2, <4>1, SameCounts
      <4>3. DryRunCounts'
        BY <3>2, <4>2 DEF DryRunCounts, ForecastInv, Imports
      <4>4. QED BY <3>1, <3>2, <3>3, <4>3 DEF ForecastInv
    <3>4. CASE run.apply
      <4>1. DryRunCounts'
        BY <3>2, <3>4 DEF DryRunCounts
      <4>2. ASSUME run.expects # None PROVE AsForeseen(run', Imports', Prices', Scorables')
        <5>1. run.now = clock
          BY <3>2, <4>2 DEF ForecastInv
        <5>2. run'.imports = Imports
          BY <3>2, <5>1 DEF Imports
        <5>3. Prices <= Prices' /\ Scorables <= Scorables'
          BY <2>2, <5>1, AfterImport
        <5>4. run.expects.imports = Imports /\ run.expects.snapshots = Prices /\ run.expects.scorable = Scorables
          BY <3>2, <4>2 DEF ForecastInv, AsForeseen
        <5>5. QED BY <3>2, <5>2, <5>3, <5>4 DEF AsForeseen
      <4>3. QED BY <3>1, <3>2, <3>4, <4>1, <4>2 DEF ForecastInv
    <3>5. QED BY <3>3, <3>4
  <2>3. CASE Snapshots
    <3>1. forecast = None /\ forecast' = None
      BY <2>3 DEF Snapshots, ForecastInv
    <3>2. /\ run.stage = "snapshots" /\ run'.stage = "scoring" /\ run'.apply = run.apply /\ run'.steady = run.steady
          /\ run'.now = run.now /\ run'.expects = run.expects /\ run'.imports = run.imports
          /\ run'.snapshots = Cardinality(ToSnapshot(run.now))
          /\ UNCHANGED <<clock, offered, ids>>
      BY <2>3 DEF Snapshots, RefreshTypes, RunRow
    <3>3. CASE ~run.apply
      <4>1. held' = held
        BY <2>3, <3>3 DEF Snapshots
      <4>2. Imports' = Imports /\ Prices' = Prices /\ Scorables' = Scorables
        BY <3>2, <4>1, SameCounts
      <4>3. DryRunCounts'
        BY <3>2, <4>2 DEF DryRunCounts, ForecastInv, Prices
      <4>4. QED BY <3>1, <3>2, <3>3, <4>3 DEF ForecastInv
    <3>4. CASE run.apply
      <4>1. DryRunCounts'
        BY <3>2, <3>4 DEF DryRunCounts
      <4>2. ASSUME run.expects # None PROVE AsForeseen(run', Imports', Prices', Scorables')
        <5>1. run.now = clock
          BY <3>2, <4>2 DEF ForecastInv
        <5>2. run'.snapshots = Prices
          BY <3>2, <5>1 DEF Prices
        <5>3. Scorables <= Scorables'
          BY <2>3, AfterSnapshots
        <5>4. /\ run.imports = run.expects.imports /\ run.expects.snapshots <= Prices /\ run.expects.scorable <= Scorables
              /\ run.expects.snapshots \in Nat /\ run.expects.scorable \in Nat
          BY <3>2, <4>2 DEF ForecastInv, AsForeseen, RefreshTypes, RunRow, Report
        <5>5. Scorables' \in Nat
          <6>1. ToScore' \subseteq Slate
            BY DEF ToScore, UnscoredLimited, Limited, Unscored, Held
          <6>2. QED BY <6>1, Finite DEF Scorables
        <5>6. run'.expects.scorable <= Scorables'
          BY <2>0, <3>2, <5>3, <5>4, <5>5
        <5>7. QED BY <3>2, <5>2, <5>4, <5>6 DEF AsForeseen
      <4>3. QED BY <3>1, <3>2, <3>4, <4>1, <4>2 DEF ForecastInv
    <3>5. QED BY <3>3, <3>4
  <2>4. CASE Score
    <3>1. /\ run.stage = "scoring" /\ run'.stage = "done" /\ run'.apply = run.apply /\ run'.expects = run.expects
          /\ run'.imports = run.imports /\ run'.snapshots = run.snapshots /\ run'.scorable = Scorables
          /\ UNCHANGED <<clock, offered, ids>>
      BY <2>4 DEF Score, RefreshTypes, RunRow, Scorables
    <3>2. DryRunCounts'
      BY <3>1 DEF DryRunCounts
    <3>3. ASSUME run.expects # None PROVE AsForeseen(run', Imports', Prices', Scorables')
      BY <3>1, <3>3 DEF ForecastInv, AsForeseen
    <3>4. ASSUME forecast' # None PROVE forecast' = Preview'
      <4>1. ~run.apply /\ run.steady
        BY <2>4, <3>4 DEF Score
      <4>2. forecast' = [imports |-> run.imports, snapshots |-> run.snapshots, scorable |-> Scorables]
        BY <2>4, <4>1 DEF Score, Scorables
      <4>3. held' = held
        BY <2>4, <4>1 DEF Score
      <4>4. Imports' = Imports /\ Prices' = Prices /\ Scorables' = Scorables
        BY <3>1, <4>3, SameCounts
      <4>5. run.imports = Imports /\ run.snapshots = Prices
        BY <3>1, <4>1 DEF ForecastInv, DryRunCounts
      <4>6. QED BY <4>2, <4>4, <4>5 DEF Preview
    <3>5. QED BY <3>1, <3>2, <3>3, <3>4 DEF ForecastInv
  <2>5. CASE BreaksOff
    BY <2>5 DEF BreaksOff, NoCommand, ForecastInv, DryRunCounts
  <2>6. ASSUME Interfered PROVE ForecastInv'
    <3>1. forecast' = None /\ run'.expects = None /\ (run'.steady = FALSE \/ run'.stage = "done")
      BY <2>6 DEF Interfered, NoCommand, RefreshTypes, RunRow
    <3>2. QED BY <3>1 DEF ForecastInv, DryRunCounts
  <2>7. CASE UNCHANGED refreshVars
    <3>1. Imports' = Imports /\ Prices' = Prices /\ Scorables' = Scorables
      BY <2>7, SameCounts DEF refreshVars
    <3>2. QED BY <2>7, <3>1 DEF refreshVars, ForecastInv, DryRunCounts, AsForeseen, Preview
  <2>8. QED BY <2>1, <2>2, <2>3, <2>4, <2>5, <2>6, <2>7
            DEF RefreshNext, ClockAdvances, SlateShows, Closes, Capture, Judge, Changes
<1>3. RefreshTypes /\ ForecastInv => ForecastsAreMet
  <2> SUFFICES ASSUME RefreshTypes, ForecastInv, run.stage = "done", run.expects # None
               PROVE  /\ run.imports = run.expects.imports
                      /\ run.snapshots >= run.expects.snapshots
                      /\ run.scorable >= run.expects.scorable
                      /\ Ready(run.expects) => run.imports > 0
    BY DEF ForecastsAreMet
  <2>1. run.expects \in Report /\ run \in RunRow
    BY DEF RefreshTypes, RunRow
  <2>2. /\ run.imports = run.expects.imports /\ run.expects.snapshots <= run.snapshots
        /\ run.expects.scorable <= run.scorable
    BY DEF ForecastInv, AsForeseen
  <2>3. QED BY <2>1, <2>2 DEF Report, RunRow, Ready
<1>4. QED BY <1>1, <1>2, <1>3, Typed, PTL DEF RefreshSpec
===============================================================================
