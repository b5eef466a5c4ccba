---------------------------- MODULE AnalysisQueue ----------------------------
(***************************************************************************)
(* Which of the stored markets are put forward for analysis.  Six services *)
(* read the same rows and each draws its own conclusion: the upcoming      *)
(* list, data quality, freshness, readiness, the refresh queue and the     *)
(* controlled snapshot refresh.  Nothing is stored between them, so they   *)
(* agree only if their rules do.  Times are hours, prices are percents.    *)
(***************************************************************************)
EXTENDS NoValue, Integers, Sequences, SequencesExt, FiniteSets, FiniteSetsExt

CONSTANTS
  Market,        \* ids
  Wording,       \* [Market -> what the texts say: [hints, sports, teams, named,
                 \*   type, category, starts]]
  Listings,      \* what a sync may store: [open, closes, tag, token]
  PriceAnswers,  \* what the price services may answer: [yes, no, liquidity, volume]
  Inquiries, Decisions,
  MaxMarks,      \* bound: marks the user has set at a time
  Hours,         \* the hours looked at
  QueueWindow,   \* 168 hours in the code
  QueueSize,     \* 25 to 200 in the code: upcoming markets the queue looks at
  RefreshLimit   \* 25 in the code

ASSUME QueueConstantsOK ==
  /\ Market \subseteq Nat /\ IsFiniteSet(Market)
  /\ Hours \subseteq Nat /\ 0 \in Hours /\ QueueWindow \in Nat
  /\ \A l \in Listings : l.closes \in Int \cup {None}

VARIABLES
  hour,
  listing,    \* the synced fields of each market
  shot,       \* latest snapshot of each market, or None
  rated,      \* markets with a prediction or a usable external signal
  marks       \* the user's marks: [watched, inquiry, decisions]

queueVars == <<hour, listing, shot, rated, marks>>

-------------------------------------------------------------------------------
(* Classification: the first rule that applies.                            *)

SportOrder == <<"cricket", "mma", "mlb", "nhl", "nfl", "basketball", "soccer", "tennis",
                "horse_racing">>

\* normalize_sport.
SportOf(tag) ==
  CASE tag = "football" -> "soccer" [] tag = "ufc" -> "mma" [] tag = "hockey" -> "nhl"
    [] tag = "nba" -> "basketball" [] tag = "baseball" -> "mlb"
    [] tag \in ToSet(SportOrder) -> tag [] OTHER -> "other"

TextSport(m) ==
  LET said == SelectSeq(SportOrder, LAMBDA s : s \in Wording[m].sports)
  IN  IF said # <<>> THEN Head(said) ELSE IF Wording[m].teams > 0 THEN "basketball" ELSE "other"

SportNamed(m) ==
  IF TextSport(m) # "other" \/ listing[m].tag = None THEN TextSport(m) ELSE SportOf(listing[m].tag)

Tagged(m) == listing[m].tag # None \/ Wording[m].category = "sports"
IsSport(m) == Tagged(m) \/ SportNamed(m) # "other"

\* A hint family and the shape it stands for, in the order they are tried.
ShapeOrder ==
  << <<"race", "race_winner">>, <<"exact", "exact_score">>, <<"half", "halftime_leader">>,
     <<"spread", "spread">>, <<"totals", "total_points">>, <<"player", "player_prop">>,
     <<"team", "team_prop">>, <<"prop", "team_prop">>, <<"yes_no", "yes_no_generic">>,
     <<"versus", "match_winner">>, <<"dated", "match_winner">>, <<"title", "championship">>,
     <<"future", "futures">> >>

WordedAs(m, hint) ==
  CASE hint = "race"   -> hint \in Wording[m].hints \/ SportNamed(m) = "horse_racing"
    [] hint = "versus" -> hint \in Wording[m].hints \/ Wording[m].teams >= 2
    [] hint = "dated"  -> hint \in Wording[m].hints /\ SportNamed(m) # "other"
    [] OTHER           -> hint \in Wording[m].hints

WordedShape(m) ==
  LET said == SelectSeq(ShapeOrder, LAMBDA s : WordedAs(m, s[1]))
  IN  IF said # <<>> THEN Head(said)[2]
      ELSE IF Wording[m].type # "other" THEN Wording[m].type
      ELSE IF "will" \in Wording[m].hints THEN "yes_no_generic" ELSE "other"

FutureShapes == {"championship", "futures"}
VagueShapes == {"other", "yes_no_generic"}

\* select_research_template.
OwnTemplate(m) ==
  IsSport(m) /\ SportNamed(m) = "basketball" /\ WordedShape(m) \in FutureShapes \cup {"match_winner"}

-------------------------------------------------------------------------------
(* Candidates and the upcoming list.                                       *)

Has(m, field) == shot[m] # None /\ shot[m][field] # None
Amount(m, field) == IF Has(m, field) THEN shot[m][field] ELSE 0
BothPrices(m) == Has(m, "yes") /\ Has(m, "no")

Depth(m, field) ==
  LET a == Amount(m, field)
  IN  IF a >= 100000 THEN 10 ELSE IF a >= 10000 THEN 8 ELSE IF a >= 1000 THEN 5
      ELSE IF a > 0 THEN 2 ELSE 0

Bounded(n, top) == Max({0, Min({n, top})})
Points(holds, yes, no) == IF holds THEN yes ELSE no

\* build_research_candidate; the list it is built for counts no duplicates.
CandidateScore(m) ==
  Bounded(
    Points(listing[m].open, 25, 0) + Points(BothPrices(m), 20, 0)
      + Points(Has(m, "yes") /\ shot[m].yes \in 5..95, 10, 0)
      + Depth(m, "liquidity") + Depth(m, "volume")
      + Points(IsSport(m), Points(Tagged(m), 8, -20), 0)
      + Points(SportNamed(m) # "other", 5, -5)
      + Points(WordedShape(m) \notin VagueShapes, 5, -5)
      + Points(OwnTemplate(m), 5, 0) + Points(Wording[m].type # "other", 4, 0)
      + Points(~Tagged(m) /\ "political" \in Wording[m].hints, -15, 0)
      + (IF listing[m].closes = None THEN 2 ELSE Points(listing[m].closes > hour, 5, -10)),
    100)

\* _effective_time: the close, or the start of the event.
Effective(m) == IF listing[m].closes # None THEN listing[m].closes ELSE Wording[m].starts

Loaded(m) ==
  /\ listing[m].open /\ Tagged(m)
  /\ Effective(m) # None /\ Effective(m) \in hour..(hour + QueueWindow)

Eligible(m, focus) ==
  /\ Loaded(m) /\ IsSport(m)
  /\ WordedShape(m) \notin FutureShapes
  /\ focus = "match_winner" => WordedShape(m) = "match_winner" /\ "paused" \notin Wording[m].hints

Stake(m, field) ==
  LET a == Amount(m, field)
  IN  IF a >= 100000 THEN 8 ELSE IF a >= 10000 THEN 6 ELSE IF a > 0 THEN 3 ELSE 0

Urgency(m) ==
  LET left == Effective(m) - hour
  IN  Bounded(
        (IF left <= 24 THEN 30 ELSE IF left <= 72 THEN 22 ELSE IF left <= 168 THEN 14 ELSE 0)
          + (CASE WordedShape(m) = "match_winner" -> 25
               [] WordedShape(m) \in {"team_prop", "player_prop"} -> 8
               [] WordedShape(m) \in VagueShapes -> -8
               [] OTHER -> 0)
          + Points(BothPrices(m), 10, -5) + Stake(m, "liquidity") + Stake(m, "volume")
          + Points(SportNamed(m) # "other", 5, 0)
          + (IF Wording[m].named >= 2 THEN 8 ELSE 3 * Wording[m].named),
        100)

\* The larger tuple comes first; the id breaks what ties are left.
Above(a, b) == \E i \in DOMAIN a : a[i] > b[i] /\ \A j \in 1..(i - 1) : a[j] = b[j]
First(n, S, Key(_)) == {m \in S : Cardinality({o \in S : Above(Key(o), Key(m))}) < n}

UpcomingKey(m) ==
  <<Urgency(m), CandidateScore(m), Amount(m, "volume"), Amount(m, "liquidity"),
    -Effective(m), -m>>

Upcoming(focus, n) == First(n, {m \in Market : Eligible(m, focus)}, UpcomingKey)

-------------------------------------------------------------------------------
(* Freshness and quality.                                                  *)

\* build_market_freshness: why a market is not fresh.
Reasons(m, closes, snapshot, poor) ==
  LET facts == [market_closed |-> ~listing[m].open,
                close_time_missing |-> closes = None,
                close_time_past |-> closes # None /\ closes < hour,
                missing_snapshot |-> snapshot = None,
                snapshot_too_old |-> snapshot # None /\ hour - snapshot.at > 24,
                missing_prices |-> ~BothPrices(m),
                data_quality_insufficient |-> poor]
  IN  {r \in DOMAIN facts : facts[r]}

StatusOf(reasons) ==
  IF reasons = {} THEN "fresh"
  ELSE IF reasons \cap {"market_closed", "close_time_past", "snapshot_too_old"} # {} THEN "stale"
  ELSE "incomplete"

ActionOn(reasons) ==
  CASE reasons \cap {"market_closed", "close_time_past"} # {} -> "review_market"
    [] "close_time_missing" \in reasons -> "exclude_from_scoring"
    [] reasons \cap {"missing_snapshot", "missing_prices", "snapshot_too_old"} # {} -> "needs_snapshot"
    [] reasons = {} -> "ok"
    [] OTHER -> "review_market"

\* build_polysignal_score yields a probability.  Momentum needs a latest price
\* too, so it never decides.
Calculated(m) == m \in rated \/ Has(m, "yes")

Quality(m) ==
  LET key == /\ shot[m] # None /\ BothPrices(m) /\ listing[m].closes # None
             /\ SportNamed(m) # "other" /\ WordedShape(m) \notin VagueShapes /\ Calculated(m)
      points == 100 - Points(shot[m] = None, 25, 0)
                - Points(Has(m, "yes"), 0, 15) - Points(Has(m, "no"), 0, 15)
                - Points(listing[m].closes = None, 10, 0)
                - Points(SportNamed(m) = "other", 10, 0)
                - Points(WordedShape(m) \in VagueShapes, 10, 0)
                - Points(Calculated(m), 0, 10)
                - Points(Has(m, "liquidity"), 0, 5) - Points(Has(m, "volume"), 0, 5)
  IN  IF points >= 80 /\ key THEN "Completo" ELSE IF points >= 45 THEN "Parcial" ELSE "Insuficiente"

-------------------------------------------------------------------------------
(* Readiness.                                                              *)

\* A primary match title of a known sport.
Primary(m) == WordedShape(m) = "match_winner" /\ "secondary" \notin Wording[m].hints

QualityReasons(m) == Reasons(m, listing[m].closes, shot[m], Quality(m) = "Insuficiente")

Blocked(m) ==
  \/ listing[m].closes = None \/ SportNamed(m) = "other" \/ ~Primary(m)
  \/ ActionOn(QualityReasons(m)) \in {"review_market", "exclude_from_scoring"}
  \/ StatusOf(QualityReasons(m)) = "stale"

\* readiness_status of one item.
Readiness(m) ==
  CASE ~Blocked(m) /\ BothPrices(m) /\ Calculated(m) /\ Quality(m) # "Insuficiente" -> "ready"
    [] ~Blocked(m) /\ ~BothPrices(m) -> "needs_refresh"
    [] OTHER -> "blocked"

-------------------------------------------------------------------------------
(* The refresh queue.                                                      *)

\* Mutant: a market that closes within a day is as late as one that closes
\* within six hours.
ClosePointsEarly(left) ==
  IF left = None THEN -35 ELSE IF left < 0 THEN -80 ELSE IF left < 1 THEN -60
  ELSE IF left < 24 THEN -20 ELSE IF left <= 72 THEN 35 ELSE IF left <= 168 THEN 30 ELSE 0

ClosePoints(left) ==
  IF left = None THEN -35 ELSE IF left < 0 THEN -80 ELSE IF left < 1 THEN -60
  ELSE IF left < 6 THEN -20 ELSE IF left < 24 THEN 18
  ELSE IF left <= 72 THEN 35 ELSE IF left <= 168 THEN 30 ELSE 0

Left(m) == IF listing[m].closes = None THEN None ELSE listing[m].closes - hour

LastDecision(m) == IF marks[m].decisions = <<>> THEN None ELSE Last(marks[m].decisions)

\* What the user's marks are worth.
Favour(m) ==
  Points(marks[m].watched, 15, 0)
    + (CASE marks[m].inquiry \in {"pending_review", "investigating", "has_evidence",
                                  "review_required"} -> 12
         [] marks[m].inquiry \in {"dismissed", "paused"} -> -20
         [] OTHER -> 0)
    + (CASE LastDecision(m) \in {"waiting_for_data", "investigate_more"} -> 12
         [] LastDecision(m) = "monitor" -> 6
         [] LastDecision(m) \in {"ignore", "dismissed"} -> -25
         [] OTHER -> 0)

\* The upcoming list's freshness, which falls back on the start of the event
\* and does not know the quality.
UpcomingReasons(m) == Reasons(m, Effective(m), shot[m], FALSE)

Priority(m) ==
  Bounded(
    ClosePoints(Left(m))
      + (CASE WordedShape(m) = "match_winner" -> 20 [] WordedShape(m) \in FutureShapes -> -30
           [] OTHER -> -15)
      + Points(SportNamed(m) # "other", 10, -6)
      + Points(shot[m] = None, 25, 0) + Points(BothPrices(m), 0, 20) + Points(Calculated(m), 0, 10)
      + (CASE Quality(m) = "Insuficiente" -> 12 [] Quality(m) = "Parcial" -> 5 [] OTHER -> -10)
      + Points(Has(m, "liquidity") \/ Has(m, "volume"), 5, 0) + Favour(m)
      + (CASE StatusOf(UpcomingReasons(m)) = "stale" -> -30
           [] StatusOf(UpcomingReasons(m)) = "fresh" -> -8
           [] OTHER -> 0),
    200)

\* build_refresh_priorities with its default of six hours to the close.
Queue == {m \in Upcoming("match_winner", QueueSize) : Left(m) # None /\ Left(m) >= 6}
QueueKey(m) == <<Priority(m), -listing[m].closes>>

-------------------------------------------------------------------------------
(* Snapshot gaps and the controlled refresh.                               *)

GapKey(m) == <<-listing[m].closes, -m>>

\* build_snapshot_gaps: the n soonest markets of the window.
Gaps(n) ==
  First(n, {m \in Market : /\ listing[m].open /\ listing[m].closes # None
                           /\ listing[m].closes \in hour..(hour + QueueWindow)}, GapKey)

\* Mutant: only a missing price is a gap.
NeedsPrice(m) == ~BothPrices(m)

WantsSnapshot(m) ==
  ActionOn(Reasons(m, listing[m].closes, shot[m], FALSE)) = "needs_snapshot" \/ ~BothPrices(m)

\* _select_refresh_markets.
Picked(limit) == First(limit, {m \in Gaps(3 * limit) : WantsSnapshot(m)}, GapKey)

-------------------------------------------------------------------------------
(* Actions.                                                                *)

NoMarks == [watched |-> FALSE, inquiry |-> None, decisions |-> <<>>]

QueueInit ==
  /\ hour = 0
  /\ listing \in [Market -> Listings]
  /\ shot = [m \in Market |-> None]
  /\ rated = {}
  /\ marks = [m \in Market |-> NoMarks]

TimePasses ==
  /\ \E h \in Hours : h > hour /\ hour' = h
  /\ UNCHANGED <<listing, shot, rated, marks>>

\* A catalogue sync or a metadata refresh.
Relisted(m, row) ==
  /\ row # listing[m]
  /\ listing' = [listing EXCEPT ![m] = row]
  /\ UNCHANGED <<hour, shot, rated, marks>>

Snapshot(q) == [at |-> hour, yes |-> q.yes, no |-> q.no, liquidity |-> q.liquidity, volume |-> q.volume]

\* refresh_market_snapshots_controlled of the given markets: one without a
\* token, or for which no service answers, is skipped; the others get a
\* snapshot, even one without prices.
Refreshed(S) ==
  /\ \E answer \in [{m \in S : listing[m].token} -> PriceAnswers \cup {None}] :
       /\ \E m \in DOMAIN answer : answer[m] # None
       /\ shot' = [m \in Market |-> IF m \in DOMAIN answer /\ answer[m] # None
                                    THEN Snapshot(answer[m]) ELSE shot[m]]
  /\ UNCHANGED <<hour, listing, rated, marks>>

RefreshGaps == Refreshed(Picked(RefreshLimit))
RefreshOne(m) == Refreshed({m})

\* A prediction is stored, or an external signal is linked.
Rate(m) ==
  /\ m \notin rated
  /\ rated' = rated \cup {m}
  /\ UNCHANGED <<hour, listing, shot, marks>>

\* Marks set over all the markets.
MarksSet ==
  LET Count(k) == Points(k.watched, 1, 0) + Points(k.inquiry # None, 1, 0) + Len(k.decisions)
  IN  MapThenSumSet(LAMBDA m : Count(marks[m]), Market)

MarkedAs(m, new) ==
  /\ marks' = [marks EXCEPT ![m] = new]
  /\ UNCHANGED <<hour, listing, shot, rated>>

ToggleWatch(m) ==
  /\ marks[m].watched \/ MarksSet < MaxMarks
  /\ MarkedAs(m, [marks[m] EXCEPT !.watched = ~@])
Investigate(m, s) ==
  /\ marks[m].inquiry # s
  /\ marks[m].inquiry # None \/ MarksSet < MaxMarks
  /\ MarkedAs(m, [marks[m] EXCEPT !.inquiry = s])
Decide(m, d) ==
  /\ MarksSet < MaxMarks
  /\ MarkedAs(m, [marks[m] EXCEPT !.decisions = Append(@, d)])
Redecide(m, i, d) ==
  marks[m].decisions[i] # d /\ MarkedAs(m, [marks[m] EXCEPT !.decisions[i] = d])
Undecide(m, i) == MarkedAs(m, [marks[m] EXCEPT !.decisions = RemoveAt(@, i)])

QueueNext ==
  \/ TimePasses
  \/ RefreshGaps
  \/ \E m \in Market :
       \/ \E row \in Listings : Relisted(m, row)
       \/ RefreshOne(m)
       \/ Rate(m)
       \/ ToggleWatch(m)
       \/ \E s \in Inquiries \cup {None} : Investigate(m, s)
       \/ \E d \in Decisions : Decide(m, d)
       \/ \E i \in DOMAIN marks[m].decisions :
            Undecide(m, i) \/ \E d \in Decisions : Redecide(m, i, d)

QueueSpec == QueueInit /\ [][QueueNext]_queueVars

-------------------------------------------------------------------------------
(* Properties.                                                             *)

\* Clock, rows and snapshots are of the expected kind.
QueueTypeOK ==
  /\ hour \in Hours
  /\ listing \in [Market -> Listings]
  /\ \A m \in Market :
       /\ shot[m] # None => shot[m].at \in Hours /\ shot[m].at <= hour
       /\ marks[m].watched \in BOOLEAN /\ marks[m].inquiry \in Inquiries \cup {None}
       /\ marks[m].decisions \in Seq(Decisions)
  /\ rated \subseteq Market
  /\ MarksSet <= MaxMarks

\* An upcoming match of a known sport that has a close is never a dead end:
\* readiness calls it ready, or the controlled refresh, when its limit leaves
\* room, picks it up.  Readiness, quality and the gaps judge freshness apart,
\* each from its own query.
NoDeadEnds ==
  \A m \in Upcoming("all", Cardinality(Market)) :
    SportNamed(m) # "other" /\ Primary(m) /\ listing[m].closes # None
      => Readiness(m) = "ready" \/ m \in Picked(Cardinality(Market))

\* In the refresh queue a market that is ready for research never stands before
\* one that needs a refresh, unless the user's marks favour it: thirteen sums of
\* points decide, and prices take some away and add others.
MissingDataFirst ==
  \A ready, needy \in Queue :
    /\ Readiness(ready) = "ready" /\ Readiness(needy) = "needs_refresh"
    /\ Favour(needy) >= Favour(ready)
    => Above(QueueKey(needy), QueueKey(ready))
=============================================================================
