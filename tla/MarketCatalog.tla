----------------------------- MODULE MarketCatalog -----------------------------
(***************************************************************************)
(* The local catalogue of markets and the operations that fill it from the *)
(* remote one: synchronisation, import of discovered markets, backfill of  *)
(* identifiers, refresh of metadata, and the three ways to take a price.   *)
(* A local row is named by the remote id it was created with (unique); its *)
(* other identifiers are written apart, and each is here the remote market *)
(* that it belongs to.  Slugs are unique and never given to another market.*)
(***************************************************************************)
EXTENDS NoValue, Integers, Sequences, SequencesExt, FiniteSets, FiniteSetsExt

CONSTANTS
  Remote,        \* remote markets: numbers, in the order of their ids
  GameOf,        \* the event of each
  ShapeOf,       \* "winner", "draw" or "other"
  ClosesOn,      \* day of its close
  SameTitle, PartOfTitle,  \* pairs of markets of one sport, shape and hour whose titles match
  MaxImport,     \* --max-import
  MaxEvents,     \* --max-events, or None
  SnapshotLimit, \* --limit of refresh_market_snapshots
  Horizon,       \* the window in days
  LastDay

ASSUME CatalogConstantsOK ==
  /\ Remote \subseteq Nat /\ IsFiniteSet(Remote)
  /\ MaxImport \in Nat \ {0} /\ SnapshotLimit \in Nat \ {0} /\ Horizon \in Nat
  /\ None \notin Remote

VARIABLES
  today,
  shown,  \* what the feed shows of each market: identifiers, or None when it is not listed
  rows,   \* the local markets
  price   \* latest snapshot of each: [of, day], of the market it prices

catalogVars == <<today, shown, rows, price>>

Identifiers == {"condition", "tokens"}
Local == {q \in Remote : rows[q] # None}
Listed == {r \in Remote : shown[r] # None /\ ClosesOn[r] \in today .. today + Horizon}

\* What a payload says of an identifier.
Says(r, i) == IF i \in shown[r] THEN r ELSE None
OrElse(new, old) == IF new = None THEN old ELSE new

-------------------------------------------------------------------------------
(* Finding the local market of a remote one.                               *)

\* By id, then condition, then slug (which here is the id again).
Found(table, r) ==
  IF table[r] # None THEN r
  ELSE LET by == {q \in Remote : table[q] # None /\ table[q].condition = r}
       IN  IF by = {} THEN None ELSE CHOOSE q \in by : TRUE

Confidence(table, r, q) ==
  CASE Found(table, r) = q \/ q = r \/ table[q].condition = r -> 100
    [] <<q, r>> \in SameTitle -> 93
    [] <<q, r>> \in PartOfTitle -> 82
    [] OTHER -> 0

\* Mutant: a match that asks for review counts as one.
SureOfAll(confidence) == confidence >= 70
Sure(confidence) == confidence >= 90

\* The best match, unless two candidates share it.
BackfillMatch(table, r, candidates) ==
  LET Score(q) == Confidence(table, r, q)
      best == Max({Score(q) : q \in candidates} \cup {0})
      top == {q \in candidates : Score(q) = best}
  IN  IF best > 0 /\ Cardinality(top) = 1 /\ Sure(best) THEN CHOOSE q \in top : TRUE ELSE None

-------------------------------------------------------------------------------
(* What the feed does.                                                     *)

CatalogInit ==
  /\ today = 0
  /\ shown = [r \in Remote |-> None]
  /\ rows = [q \in Remote |-> None]
  /\ price = [q \in Remote |-> None]

AnotherDay ==
  /\ today < LastDay
  /\ today' = today + 1
  /\ UNCHANGED <<shown, rows, price>>

FeedShows(r, parts) ==
  /\ shown[r] # parts
  /\ shown' = [shown EXCEPT ![r] = parts]
  /\ UNCHANGED <<today, rows, price>>

-------------------------------------------------------------------------------
(* Rows.                                                                   *)

\* An event is synchronised in a savepoint of its own: those of done were.  The
\* single token columns follow the payload even when it has none; the sport is
\* kept only for basketball.
SyncRow(r) ==
  LET old == rows[r]
      Kept(i) == OrElse(Says(r, i), IF old = None THEN None ELSE old[i])
  IN  [condition |-> Kept("condition"), tokens |-> Kept("tokens"), token |-> Says(r, "tokens"),
       sport |-> FALSE]

SyncActiveMarkets(done) ==
  LET seen == {r \in Remote : shown[r] # None /\ GameOf[r] \in done}
  IN  /\ seen # {}
      /\ rows' = [q \in Remote |-> IF q \in seen THEN SyncRow(q) ELSE rows[q]]
      /\ UNCHANGED <<today, shown, price>>

\* _build_import_item: why an entry is passed over.
Importable(r) ==
  /\ Found(rows, r) = None
  /\ ClosesOn[r] > today
  /\ ShapeOf[r] = "winner" \/ (ShapeOf[r] = "draw" /\ MaxEvents # None)
  /\ shown[r] # {}

ImportRow(r) ==
  [condition |-> Says(r, "condition"), tokens |-> Says(r, "tokens"),
   token |-> Says(r, "tokens"), sport |-> TRUE]

\* Events are ranked by teams, volume and time (a choice here) and cut.
EventsTaken(eligible, events) ==
  LET games == {GameOf[r] : r \in eligible}
  IN  /\ events \subseteq games
      /\ IF MaxEvents = None THEN events = games
         ELSE Cardinality(events) = Min({MaxEvents, Cardinality(games)})

\* Pages are read one after another while the feed moves: seen is what they
\* showed.  A market that two pages show is taken twice and breaks the unique
\* id: the command then imports nothing.
ImportDiscovered(seen, events, picks) ==
  LET eligible == {r \in seen : Importable(r)}
      selected == {r \in eligible : GameOf[r] \in events}
  IN  /\ EventsTaken(eligible, events)
      /\ picks \subseteq selected /\ picks # {}
      /\ Cardinality(picks) = Min({MaxImport, Cardinality(selected)})
      /\ rows' = [q \in Remote |-> IF q \in picks THEN ImportRow(q) ELSE rows[q]]
      /\ UNCHANGED <<today, shown, price>>

\* _build_changes: only what is missing is filled in.
Filled(row, r) ==
  [row EXCEPT !.condition = OrElse(@, Says(r, "condition")),
              !.tokens = OrElse(@, Says(r, "tokens")),
              !.token = OrElse(@, Says(r, "tokens"))]

\* Items are matched and applied one by one, each on the rows as they are by then.
FilledIn(table, r, candidates) ==
  LET q == BackfillMatch(table, r, candidates)
  IN  IF q = None THEN table ELSE [table EXCEPT ![q] = Filled(@, r)]

Backfilled(entries, candidates) ==
  LET after[i \in 0 .. Len(entries)] ==
        IF i = 0 THEN rows ELSE FilledIn(after[i - 1], entries[i], candidates)
  IN  after[Len(entries)]

BackfillIdentifiers(entries, candidates) ==
  /\ candidates \subseteq {q \in Local : ClosesOn[q] \in today .. today + Horizon}
  /\ rows' = Backfilled(entries, candidates \cup ({Found(rows, r) : r \in ToSet(entries)} \cap Remote))
  /\ rows' # rows
  /\ UNCHANGED <<today, shown, price>>

\* refresh_market_metadata: fetched by id, whatever is present replaces.
Refetched(row, q) ==
  [row EXCEPT !.condition = OrElse(Says(q, "condition"), @),
              !.tokens = OrElse(Says(q, "tokens"), @), !.token = OrElse(Says(q, "tokens"), @)]

RefreshMetadata(q) ==
  /\ q \in Local /\ shown[q] # None
  /\ rows' = [rows EXCEPT ![q] = Refetched(@, q)]
  /\ UNCHANGED <<today, shown, price>>

-------------------------------------------------------------------------------
(* Prices.                                                                 *)

Priced(quoted) ==
  /\ quoted # {}
  /\ price' = [q \in Remote |-> IF q \in quoted THEN [of |-> rows[q].token, day |-> today] ELSE price[q]]
  /\ UNCHANGED <<today, shown, rows>>

\* Every open market with a token; whatever the order book answers for.
CaptureSnapshots(quoted) == quoted \subseteq {q \in Local : rows[q].token # None} /\ Priced(quoted)

NeedsSnapshot(q) == price[q] = None \/ price[q].day < today

\* The markets that close first are looked at, three times the limit of them:
\* what closes later waits.
Nearest ==
  LET Sooner(p, q) == ClosesOn[p] < ClosesOn[q] \/ (ClosesOn[p] = ClosesOn[q] /\ p < q)
      due == SetToSortSeq({q \in Local : ClosesOn[q] \in today .. today + Horizon}, Sooner)
  IN  SubSeq(due, 1, Min({3 * SnapshotLimit, Len(due)}))

SnapshotGaps ==
  LET gaps == SelectSeq(Nearest, NeedsSnapshot)
  IN  SubSeq(gaps, 1, Min({SnapshotLimit, Len(gaps)}))

RefreshSnapshots(quoted) ==
  quoted \subseteq {q \in ToSet(SnapshotGaps) : rows[q].token # None} /\ Priced(quoted)

\* Mutant: the feed's price is filed under the first market of the game.
FiledUnderGame(r) == CHOOSE q \in Local \cup {r} : GameOf[q] = GameOf[r]
FiledUnder(r) == Found(rows, r)

\* The feed's own prices, for markets that have none yet.
DiscoverySnapshots(seen) ==
  LET chosen == {r \in seen : FiledUnder(r) # None /\ price[FiledUnder(r)] = None}
      Of(q) == CHOOSE r \in chosen : FiledUnder(r) = q
      filed == {FiledUnder(r) : r \in chosen}
  IN  /\ chosen # {}
      /\ price' = [q \in Remote |-> IF q \in filed THEN [of |-> Of(q), day |-> today] ELSE price[q]]
      /\ UNCHANGED <<today, shown, rows>>

CatalogNext ==
  \/ AnotherDay
  \/ \E r \in Remote, parts \in {None} \cup SUBSET Identifiers : FeedShows(r, parts)
  \/ \E done \in SUBSET {GameOf[r] : r \in Remote} : SyncActiveMarkets(done)
  \/ \E seen \in SUBSET Listed, events \in SUBSET {GameOf[r] : r \in Remote} :
       \E picks \in SUBSET seen : ImportDiscovered(seen, events, picks)
  \/ \E seen \in SUBSET Listed, candidates \in SUBSET Local :
       \E entries \in SetToSeqs(seen) : BackfillIdentifiers(entries, candidates)
  \/ \E q \in Remote : RefreshMetadata(q)
  \/ \E quoted \in SUBSET Local : CaptureSnapshots(quoted) \/ RefreshSnapshots(quoted)
  \/ \E seen \in SUBSET Listed : DiscoverySnapshots(seen)

CatalogSpec == CatalogInit /\ [][CatalogNext]_catalogVars
-------------------------------------------------------------------------------
CatalogTypeOK ==
  /\ today \in 0 .. LastDay
  /\ \A r \in Remote : shown[r] = None \/ shown[r] \subseteq Identifiers
  /\ \A q \in Remote : rows[q] # None => rows[q].token \in {None, rows[q].tokens}
  /\ \A q \in Remote : price[q] # None => rows[q] # None

\* No two markets of one sport, shape and hour share their whole title.
UniqueTitles == \A q, r \in Remote : <<q, r>> \in SameTitle => q = r

\* However the operations follow each other, behind a row is one remote market: its
\* condition, its tokens and its price are those of the id it was created with, as
\* long as titles are unique.
OneMarketBehindARow ==
  UniqueTitles =>
    \A q \in Local :
      /\ rows[q].condition \in {None, q} /\ rows[q].tokens \in {None, q}
      /\ price[q] # None => price[q].of = q
===============================================================================
