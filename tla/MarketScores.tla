----------------------------- MODULE MarketScores -----------------------------
(***************************************************************************)
(* Evidence, scoring and evaluation: captures store what the odds and news *)
(* feeds say of a market, scoring turns the latest snapshot and the        *)
(* evidence of its windows into a prediction, recorded outcomes decide     *)
(* which predictions were right.  Probabilities are in ten-thousandths,    *)
(* time in days.                                                           *)
(***************************************************************************)
EXTENDS NoValue, Integers, Sequences, SequencesExt, FiniteSets, FiniteSetsExt, Functions

CONSTANTS
  ScoredMarket,    \* ids of active markets: numbers, scored in their order
  Matchup,         \* those whose question names two teams
  OddsEvents,      \* what the odds feed may say: [id, probs, opening, home, lag]
  NewsItems,       \* what the news feed may say: [id, signals]
  SnapshotValues,  \* [price, wide, liquidity]
  FoundByResearch, \* what a research run may forecast: [yes, confidence, opportunity]
  ScoreLimit,      \* --limit of score_missing_markets
  MaxDay, MaxScores

ASSUME ScoreConstantsOK ==
  /\ ScoredMarket \subseteq Nat /\ IsFiniteSet(ScoredMarket) /\ Matchup \subseteq ScoredMarket /\ ScoreLimit \in Nat \ {0}
  /\ None \notin Int /\ MaxDay \in Nat
  /\ IsFiniteSet(OddsEvents) /\ \A e \in OddsEvents : e.lag \in Nat /\ e.home \in -1 .. 1
  /\ IsFiniteSet(NewsItems)
  /\ \A n \in NewsItems : n.date \in Int /\ \A c \in DOMAIN n.signals : n.signals[c] \in Int
  /\ \A s \in SnapshotValues : s.price \in Int \cup {None}

VARIABLES
  day,
  snapshot,   \* latest snapshot of each market, or None
  evidence,   \* evidence items of each market, by source
  scores,     \* the predictions of both families, in the order they were made
  outcome     \* recorded outcome of each market, or None

scoreVars == <<day, snapshot, evidence, scores, outcome>>

One == 10000
Clamp(x, low, high) == Max({low, Min({x, high})})
Unit(x) == Clamp(x, 0, One)
\* ROUND_HALF_UP of a non-negative quotient.
Rounded(n, d) == (2 * n + d) \div (2 * d)
Magnitude(x) == IF x < 0 THEN -x ELSE x

Cap == 150
TotalCap == 300

-------------------------------------------------------------------------------
(* Evidence.                                                               *)

Spread(probs) == Max(Range(probs)) - Min(Range(probs))
Mean(probs) == Rounded(FoldLeft(+, 0, probs), Len(probs))

\* _derive_consensus_strength; with one bookmaker there is none.
Consensus(probs) ==
  LET penalty == IF Spread(probs) >= 1000 THEN 2500 ELSE IF Spread(probs) >= 500 THEN 1000 ELSE 0
  IN  IF Len(probs) < 2 THEN 0 ELSE Unit(Rounded(Min({Len(probs), 4}) * One, 4) - penalty)

\* Both within their caps; a home favourite counts for the home team.
Movement(e) == IF e.opening = None THEN 0 ELSE Clamp(Mean(e.probs) - e.opening, -Cap, Cap)
HomeSignal(e) == IF e.home = 0 THEN [c \in {} |-> 0] ELSE [c \in {"home"} |-> e.home * 100]

OddsItem(e) ==
  [kind |-> "odds", provider |-> "the_odds_api", fetched |-> day, published |-> day - e.lag,
   strength |-> Mean(e.probs), books |-> Len(e.probs),
   disputed |-> Len(e.probs) >= 2 /\ Spread(e.probs) >= 1000,
   movement |-> Movement(e), consensus |-> Consensus(e.probs), signals |-> HomeSignal(e)]

NewsItem(n) ==
  [kind |-> "news", provider |-> "espn_rss", fetched |-> day, published |-> n.date,
   strength |-> 0, books |-> 0, disputed |-> FALSE, movement |-> 0, consensus |-> 0,
   signals |-> n.signals]

\* _resolve_evidence_timestamp.
Dated(item) == IF item.kind = "odds" THEN item.fetched ELSE item.published
MaxAge(item) == IF item.kind = "odds" THEN 1 ELSE 2

\* Mutant: what was fetched once is used for ever.
UsableAlways(m) == Range(evidence[m])
Usable(m) == {i \in Range(evidence[m]) : Dated(i) >= day - MaxAge(i)}

OddsOf(m) == {i \in Usable(m) : i.kind = "odds"}
Latest(items, Key(_)) == CHOOSE i \in items : \A j \in items : Key(j) <= Key(i)
Published(item) == item.published

\* The probability of the latest odds, the line movement and the consensus of
\* those published last: the two need not be the same item.
Odds(m) == Latest(OddsOf(m), Dated)
External(m) == Latest(OddsOf(m), Published)

\* The first item by publication that has the component decides.
Component(m, c) ==
  LET with == {i \in Usable(m) : c \in DOMAIN i.signals}
  IN  IF with = {} THEN 0 ELSE Latest(with, Published).signals[c]

HasContext(m) == \E i \in Usable(m) : DOMAIN i.signals # {}
Disputed(m) == \E i \in Usable(m) : i.disputed
Providers(m) == {i.provider : i \in Usable(m)}
Deep(s) == s.liquidity = "high"

-------------------------------------------------------------------------------
(* Scoring.                                                                *)

\* _compute_scoring_values: a base, then two clamped adjustments.
YesProbability(m) ==
  LET price == Unit(snapshot[m].price)
      base == IF OddsOf(m) = {} THEN price ELSE Rounded(4 * price + 6 * Odds(m).strength, 10)
      context == Clamp(Component(m, "injury") + Component(m, "form") + Component(m, "rest")
                         + Component(m, "home"), -TotalCap, TotalCap)
      movement == IF OddsOf(m) = {} THEN 0 ELSE External(m).movement
  IN  Unit(Unit(base + context) + movement)

DataQuality(m) ==
  LET n == Cardinality(Usable(m))
      Worth(condition, weight) == IF condition THEN weight ELSE 0
  IN  Unit(Worth(OddsOf(m) # {}, 4000) + 750 * Min({n, 2}) + Worth(HasContext(m), 1500)
           + Worth(snapshot[m].liquidity # None, 1000) + Worth(Deep(snapshot[m]), 1000)
           + Worth(n > 0 /\ ~Disputed(m), 1000) - Worth(Disputed(m), 1500))

\* _compute_confidence; the penalties multiply and are rounded once.
ForecastConfidence(m) ==
  LET quality == DataQuality(m)
      When(condition, bonus) == IF condition THEN bonus ELSE 0
      plus == 2000
        + When(OddsOf(m) # {} /\ Odds(m).books >= 2, 2500)
        + When(OddsOf(m) # {}, Rounded(500 * External(m).consensus, One))
        + When(quality >= 5000, Rounded(300 * quality, One))
        + When(Cardinality(Providers(m)) >= 2, 2500)
        + When(\E i \in Usable(m) : Dated(i) >= day - 1, 1500)
        + When(~Disputed(m), 1500)
      times == (IF snapshot[m].wide THEN 17 ELSE 20) * (IF Deep(snapshot[m]) THEN 5 ELSE 4)
               * (IF Disputed(m) THEN 3 ELSE 4)
               * (IF Cardinality(Providers(m)) < 2 THEN 7 ELSE 10)
  IN  Rounded(Min({plus, One}) * times, 4000)

\* What score_market stores; the age of the odds is kept for the properties.
Prediction(m) ==
  LET yes == YesProbability(m)
      edge == Magnitude(yes - Unit(snapshot[m].price))
  IN  [market |-> m, family |-> "scoring", yes |-> yes, confidence |-> ForecastConfidence(m),
       opportunity |-> edge >= 500 /\ ForecastConfidence(m) >= 4000,
       oddsAge |-> IF \E i \in Usable(m) : i.kind = "odds" THEN day - Odds(m).fetched ELSE None]

Scorable(m) == snapshot[m] # None /\ snapshot[m].price # None
OfFamily(family) == {i \in DOMAIN scores : scores[i].family = family}
ScoredMarkets == {scores[i].market : i \in OfFamily("scoring")}

-------------------------------------------------------------------------------
(* Evaluation.                                                             *)

Decided(p) == outcome[p.market] \in {"yes", "no"}
\* Mutant: even odds count as a prediction of no.
PredictsYesStrictly(p) == p.yes > 5000
PredictsYes(p) == p.yes >= 5000
WasCorrect(p) == Decided(p) /\ PredictsYes(p) = (outcome[p.market] = "yes")

\* build_evaluation_summary looks at the scoring family only.
Accuracy ==
  [of |-> Cardinality({i \in OfFamily("scoring") : Decided(scores[i])}),
   right |-> Cardinality({i \in OfFamily("scoring") : WasCorrect(scores[i])})]

\* build_backtesting_summary takes every family, and decides on its own who was right.
BacktestRows == {i \in DOMAIN scores : outcome[scores[i].market] \in {"yes", "no"}}

Summary(rows) ==
  LET yes(i) == scores[i].yes >= 5000
      happened(i) == outcome[scores[i].market] = "yes"
  IN  [of |-> Cardinality(rows),
       right |-> Cardinality({i \in rows : (yes(i) /\ happened(i)) \/ (~yes(i) /\ ~happened(i))})]

FamilyRows(family) == BacktestRows \cap OfFamily(family)

Bucket(p) ==
  IF p.confidence < 5000 THEN 1 ELSE IF p.confidence < 6000 THEN 2
  ELSE IF p.confidence < 7000 THEN 3 ELSE IF p.confidence < 8000 THEN 4 ELSE 5
BucketRows(b) == {i \in BacktestRows : Bucket(scores[i]) = b}

-------------------------------------------------------------------------------
ScoreInit ==
  /\ day = 0
  /\ snapshot = [m \in ScoredMarket |-> None]
  /\ evidence = [m \in ScoredMarket |-> [i \in {} |-> None]]
  /\ scores = <<>>
  /\ outcome = [m \in ScoredMarket |-> None]

NextDay ==
  /\ day < MaxDay
  /\ day' = day + 1
  /\ UNCHANGED <<snapshot, evidence, scores, outcome>>

TakeSnapshot(m, s) ==
  /\ snapshot' = [snapshot EXCEPT ![m] = s]
  /\ UNCHANGED <<day, evidence, scores, outcome>>

\* capture_market_evidence: the event of the feed, if there is one, and every
\* relevant item are stored under their identities; a market that is not a
\* match of two teams is skipped.
CaptureEvidence(m, events, news) ==
  LET found == [i \in {e.id : e \in events} \cup {n.id : n \in news} |->
                  IF \E e \in events : e.id = i THEN OddsItem(CHOOSE e \in events : e.id = i)
                  ELSE NewsItem(CHOOSE n \in news : n.id = i)]
  IN  /\ m \in Matchup
      /\ evidence' = [evidence EXCEPT ![m] =
                        [i \in DOMAIN @ \cup DOMAIN found |-> IF i \in DOMAIN found THEN found[i] ELSE @[i]]]
      /\ UNCHANGED <<day, snapshot, scores, outcome>>

ScoreMarket(m) ==
  /\ Scorable(m) /\ Len(scores) < MaxScores
  /\ scores' = Append(scores, Prediction(m))
  /\ UNCHANGED <<day, snapshot, evidence, outcome>>

\* score_missing_markets --apply: the limit cuts the list of markets without a
\* prediction before those without a snapshot are passed over.
Missing ==
  LET without == ScoredMarket \ ScoredMarkets
  IN  {m \in without : Cardinality({k \in without : k < m}) < ScoreLimit}

ScoreMissing ==
  LET ready == {m \in Missing : Scorable(m)}
      n == Cardinality(ready)
  IN  /\ ready # {} /\ Len(scores) + n <= MaxScores
      /\ \E order \in [1 .. n -> ready] :
           /\ \A i, j \in 1 .. n : i < j => order[i] < order[j]
           /\ scores' = scores \o [i \in 1 .. n |-> Prediction(order[i])]
      /\ UNCHANGED <<day, snapshot, evidence, outcome>>

\* A research run stores a prediction of its own families in the same table.
ResearchForecast(m, r) ==
  /\ Len(scores) < MaxScores
  /\ scores' = Append(scores, [market |-> m, family |-> "research", yes |-> r.yes,
                              confidence |-> r.confidence, opportunity |-> r.opportunity, oddsAge |-> None])
  /\ UNCHANGED <<day, snapshot, evidence, outcome>>

\* Recording, correcting and deleting an outcome.
RecordResult(m, result) ==
  /\ outcome[m] # result
  /\ outcome' = [outcome EXCEPT ![m] = result]
  /\ UNCHANGED <<day, snapshot, evidence, scores>>

ScoreNext ==
  \/ NextDay \/ ScoreMissing
  \/ \E m \in ScoredMarket :
       \/ ScoreMarket(m)
       \/ \E r \in FoundByResearch : ResearchForecast(m, r)
       \/ \E s \in SnapshotValues : TakeSnapshot(m, s)
       \/ \E result \in {None, "yes", "no", "invalid"} : RecordResult(m, result)
       \/ \E events \in {{}} \cup {{e} : e \in OddsEvents}, news \in SUBSET NewsItems :
            CaptureEvidence(m, events, news)

ScoreSpec == ScoreInit /\ [][ScoreNext]_scoreVars
-------------------------------------------------------------------------------
ScoreTypeOK ==
  /\ day \in 0 .. MaxDay
  /\ \A i \in DOMAIN scores : scores[i].market \in ScoredMarket /\ scores[i].yes \in 0 .. One
  /\ \A m \in ScoredMarket \ Matchup : DOMAIN evidence[m] = {}

\* The caps of the context and of the line movement are narrower than the edge
\* an opportunity needs: whatever else is known of a market, it is one only
\* beside odds of the last day.
OpportunitiesNeedOdds ==
  \A i \in OfFamily("scoring") : scores[i].opportunity => scores[i].oddsAge # None /\ scores[i].oddsAge <= 1

\* The evaluation page and the backtesting page, computed apart, agree on how many
\* predictions of the scoring family were decided and how many were right; and the
\* second page's families, and its buckets of confidence, add up to its totals.
EvaluationsAgree ==
  LET all == Summary(BacktestRows)
      family(f) == Summary(FamilyRows(f))
      bucket(b) == Summary(BucketRows(b))
  IN  /\ Accuracy = family("scoring")
      /\ all.of = family("scoring").of + family("research").of
      /\ all.right = family("scoring").right + family("research").right
      /\ all.of = bucket(1).of + bucket(2).of + bucket(3).of + bucket(4).of + bucket(5).of
      /\ all.right = bucket(1).right + bucket(2).right + bucket(3).right + bucket(4).right + bucket(5).right
===============================================================================
