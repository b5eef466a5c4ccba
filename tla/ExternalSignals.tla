---------------------------- MODULE ExternalSignals ----------------------------
(***************************************************************************)
(* Kalshi's markets beside ours: the fetch that stores what Kalshi quotes  *)
(* (app/commands/fetch_kalshi_signals.py, app/clients/kalshi.py,           *)
(* app/services/kalshi_market_signals.py, external_market_signals.py), and *)
(* the matcher that says which of our markets a stored signal is about     *)
(* (app/services/external_market_matching.py,                              *)
(* external_market_signal_matching.py, app/commands/                       *)
(* match_external_signals.py).                                             *)
(*                                                                         *)
(* A fetch stores the whole page it read or, when Kalshi fails, nothing.   *)
(* The matcher reads the newest unlinked signals and the first markets,    *)
(* and links each signal to its best market when the confidence reaches    *)
(* the least one it was asked for.  Markets are imported, and other        *)
(* fetches and matchers commit, between a matcher's reads and its commit.  *)
(*                                                                         *)
(* A title is what the extractors make of it: words, teams, years, sport,  *)
(* shape, terms of a competition, and whether it lists several outcomes.   *)
(* Confidences are in fiftieths of a thousandth, 0.8 being 40000, so that  *)
(* every weight is exact; prices are in percent.                           *)
(***************************************************************************)
EXTENDS NoValue, Integers, Sequences, SequencesExt, FiniteSets, FiniteSetsExt

CONSTANTS Titles,                 \* of each title: words, teams, years, sport, shape, terms, several
          MarketTitles,           \* the titles markets may have
          SignalTitles,           \* the titles Kalshi's markets may have
          BookQuotes,             \* bid and ask, last price (None without), open, traded
          Thresholds,             \* what --min-confidence may be
          Matcher,                \* the matching commands that may be under way at once
          PageLimit,              \* signals a matcher considers
          MaxMarkets, MaxSignals  \* bounds: markets imported, signals stored

ASSUME ExternalConstantsOK ==
  /\ Thresholds \subseteq Nat /\ MarketTitles \cup SignalTitles \subseteq DOMAIN Titles
  /\ \A t \in DOMAIN Titles : IsFiniteSet(Titles[t].words)
  /\ PageLimit \in Nat /\ MaxMarkets \in Nat /\ MaxSignals \in Nat

VARIABLES
  listed,   \* titles of our markets, in the order of their ids
  received,  \* rows of external_market_signals: title, yes, sure, market, confidence
  matchers  \* of each matcher: None, or what it read

externalVars == <<listed, received, matchers>>

MATCH_LINK_THRESHOLD == 40000

-----------------------------------------------------------------------------
(* What a quote is worth.                                                  *)

\* The probability of yes, in half percents.
Implied(q) ==
  IF q.bid # None /\ q.ask # None THEN (IF q.ask < q.bid THEN None ELSE q.bid + q.ask)
  ELSE IF q.last # None THEN 2 * q.last ELSE None

SpreadPenalty(q) ==
  IF q.bid = None \/ q.ask = None THEN 15
  ELSE LET spread == q.ask - q.bid
       IN IF spread > 20 THEN 30 ELSE IF spread > 10 THEN 15 ELSE IF spread > 5 THEN 5 ELSE 0

\* source_confidence, in percent.
SourceConfidence(q) ==
  IF Implied(q) = None THEN 0
  ELSE Max({0, 100 - (IF q.open THEN 0 ELSE 25)
                   - (IF q.bid # None /\ q.ask # None THEN 0 ELSE 35)
                   - SpreadPenalty(q)
                   - (IF q.traded THEN 0 ELSE 30)})

-----------------------------------------------------------------------------
(* estimate_match_confidence.                                              *)

\* The share of the words two titles have in common, in ten thousandths.
Similarity(a, b) ==
  LET shared == Cardinality(Titles[a].words \cap Titles[b].words)
      all == Cardinality(Titles[a].words \cup Titles[b].words)
  IN IF Titles[a].words = {} \/ Titles[b].words = {} THEN 0
     ELSE (20000 * shared + all) \div (2 * all)

Known(a, b, field) == Titles[a][field] # None /\ Titles[b][field] # None

Meet(a, b, field) == Titles[a][field] \cap Titles[b][field] # {}

BothHave(a, b, field) == Titles[a][field] # {} /\ Titles[b][field] # {}

Compatible(s, t) == s = t \/ {s, t} \subseteq {"championship", "futures", "yes_no_generic"}

YearWeight(a, b) ==
  IF ~BothHave(a, b, "years") THEN 0 ELSE IF Meet(a, b, "years") THEN 7500 ELSE -17500

SportWeight(a, b) ==
  IF ~Known(a, b, "sport") THEN 0
  ELSE IF Titles[a].sport = Titles[b].sport THEN 7500 ELSE -15000

TeamWeight(a, b) ==
  IF ~BothHave(a, b, "teams") THEN 0
  ELSE IF Titles[a].teams = Titles[b].teams THEN 17500
  ELSE IF Meet(a, b, "teams") THEN 11500 ELSE -20000

ShapeWeight(a, b) ==
  IF ~Known(a, b, "shape") THEN 0
  ELSE IF Compatible(Titles[a].shape, Titles[b].shape) THEN 7500 ELSE -12500

TermWeight(a, b) == IF Meet(a, b, "terms") THEN 2500 ELSE 0

\* Mutant: a title that lists several outcomes is a title like any other.
CapsOfSingles(a, b) ==
  {50000}
  \cup (IF BothHave(a, b, "years") /\ ~Meet(a, b, "years") THEN {27500} ELSE {})
  \cup (IF Known(a, b, "sport") /\ Titles[a].sport # Titles[b].sport THEN {22500} ELSE {})
  \cup (IF BothHave(a, b, "teams") /\ ~Meet(a, b, "teams") THEN {22500} ELSE {})
  \cup (IF BothHave(a, b, "teams") THEN {}
        ELSE IF Titles[a].teams = Titles[b].teams THEN {25000} ELSE {32500})
  \cup (IF Known(a, b, "shape") /\ ~Compatible(Titles[a].shape, Titles[b].shape)
        THEN {27500} ELSE {})
  \cup (IF Similarity(a, b) < 2000 /\ ~Meet(a, b, "teams") THEN {25000} ELSE {})

\* The caps that hold a doubtful match down.
Caps(a, b) ==
  {50000}
  \cup (IF BothHave(a, b, "years") /\ ~Meet(a, b, "years") THEN {27500} ELSE {})
  \cup (IF Known(a, b, "sport") /\ Titles[a].sport # Titles[b].sport THEN {22500} ELSE {})
  \cup (IF BothHave(a, b, "teams") /\ ~Meet(a, b, "teams") THEN {22500} ELSE {})
  \cup (IF BothHave(a, b, "teams") THEN {}
        ELSE IF Titles[a].teams = Titles[b].teams THEN {25000} ELSE {32500})
  \cup (IF Known(a, b, "shape") /\ ~Compatible(Titles[a].shape, Titles[b].shape)
        THEN {27500} ELSE {})
  \cup (IF Titles[b].several THEN {29500} ELSE {})
  \cup (IF Similarity(a, b) < 2000 /\ ~Meet(a, b, "teams") THEN {25000} ELSE {})

\* Rounded to four decimals, a half up.
FourDecimals(x) == 5 * ((2 * x + 5) \div 10)

MatchConfidence ==
  [a \in MarketTitles |-> [b \in SignalTitles |->
   FourDecimals(Max({0, Min({Similarity(a, b) + YearWeight(a, b) + SportWeight(a, b)
                           + TeamWeight(a, b) + ShapeWeight(a, b) + TermWeight(a, b)}
                          \cup Caps(a, b))}))]]

\* The best markets of a signal; the number of warnings, which decides between
\* equally certain ones, is left to chance.
BestMarkets(titles, s) ==
  {m \in DOMAIN titles : \A n \in DOMAIN titles :
     MatchConfidence[titles[n]][s] <= MatchConfidence[titles[m]][s]}

ActionFor(confidence, least) ==
  IF confidence >= least THEN "would_link"
  ELSE IF confidence >= 30000 THEN "review_required" ELSE "no_match"

-----------------------------------------------------------------------------
ExternalInit ==
  /\ listed = <<>> /\ received = <<>>
  /\ matchers = [x \in Matcher |-> None]

\* Our own import stores a market.
MarketImported ==
  /\ Len(listed) < MaxMarkets
  /\ \E t \in MarketTitles : listed' = Append(listed, t)
  /\ UNCHANGED <<received, matchers>>

Row(t, q) ==
  [title |-> t, yes |-> Implied(q), sure |-> SourceConfidence(q), market |-> 0, confidence |-> 0]

\* A fetch commits the page it read: one row of each market on it, also for one
\* it stored before (each fetch is a moment of its own).  A fetch that fails, or
\* a dry one, stores nothing.
Fetched ==
  \E size \in 1 .. 2 :
    /\ Len(received) + size <= MaxSignals
    /\ \E page \in [1 .. size -> SignalTitles \X BookQuotes] :
         received' = received \o [k \in 1 .. size |-> Row(page[k][1], page[k][2])]
    /\ UNCHANGED <<listed, matchers>>

\* list_unlinked_external_signals: the newest.
Unlinked ==
  LET free == {i \in DOMAIN received : received[i].market = 0}
  IN {i \in free : Cardinality({j \in free : j > i}) < PageLimit}

BeginMatching(x) ==
  /\ matchers[x] = None
  /\ \E least \in Thresholds :
       matchers' = [matchers EXCEPT ![x] =
                      [rows |-> Unlinked, titles |-> listed, least |-> least]]
  /\ UNCHANGED <<listed, received>>

\* The rows as a matcher leaves them, when it takes market best[i] for row i.
Matched(x, best) ==
  [i \in DOMAIN received |->
     IF i \notin matchers[x].rows THEN received[i]
     ELSE LET c == MatchConfidence[matchers[x].titles[best[i]]][received[i].title]
          IN IF ActionFor(c, matchers[x].least) # "would_link" THEN received[i]
             ELSE [received[i] EXCEPT !.market = best[i], !.confidence = c]]

\* An applying matcher commits its links; with no market there is no candidate.
CommitMatching(x) ==
  /\ matchers[x] # None
  /\ IF matchers[x].titles = <<>> THEN UNCHANGED received
     ELSE \E best \in [matchers[x].rows -> DOMAIN matchers[x].titles] :
            /\ \A i \in matchers[x].rows :
                 best[i] \in BestMarkets(matchers[x].titles, received[i].title)
            /\ received' = Matched(x, best)
  /\ matchers' = [matchers EXCEPT ![x] = None]
  /\ UNCHANGED listed

\* A dry run rolls back; so does one that dies.
EndMatching(x) ==
  /\ matchers[x] # None
  /\ matchers' = [matchers EXCEPT ![x] = None]
  /\ UNCHANGED <<listed, received>>

ExternalNext ==
  \/ MarketImported \/ Fetched
  \/ \E x \in Matcher : BeginMatching(x) \/ CommitMatching(x) \/ EndMatching(x)

ExternalSpec == ExternalInit /\ [][ExternalNext]_externalVars

-----------------------------------------------------------------------------
\* Types of the markets, the rows and the matchers.
ExternalTypeOK ==
  /\ listed \in Seq(MarketTitles) /\ Len(listed) <= MaxMarkets
  /\ Len(received) <= MaxSignals
  /\ \A i \in DOMAIN received :
       /\ received[i].title \in SignalTitles /\ received[i].market \in 0 .. Len(listed)
       /\ received[i].sure \in 0 .. 100 /\ received[i].confidence \in 0 .. 50000
  /\ \A x \in Matcher : matchers[x] # None => matchers[x].rows \subseteq DOMAIN received

SureLinks == {i \in DOMAIN received : received[i].confidence >= MATCH_LINK_THRESHOLD}

\* A link at or above the threshold is never between markets of another year,
\* sport or shape, with no team in common, or with several outcomes on one side,
\* however alike the words and whatever else agrees (docs/
\* kalshi-market-signals-adapter.md 18.2; estimate_match_confidence).
SureLinksDoNotContradict ==
  \A i \in SureLinks :
    LET a == Titles[listed[received[i].market]]
        b == Titles[received[i].title]
    IN /\ a.teams \cap b.teams # {} /\ ~b.several
       /\ a.years # {} /\ b.years # {} => a.years \cap b.years # {}
       /\ a.sport # None /\ b.sport # None => a.sport = b.sport
       /\ a.shape # None /\ b.shape # None => Compatible(a.shape, b.shape)
=============================================================================
