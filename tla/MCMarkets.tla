------------------------------- MODULE MCMarkets --------------------------------
(***************************************************************************)
(* Small instances of what prepares and settles the analysis of markets    *)
(* and of their wallets.                                                   *)
(* The parts share no state, so one run checks them side by side: part     *)
(* names the one that moves, the others keep their initial state.          *)
(***************************************************************************)
EXTENDS MarketSignals, MarketScores, MarketCatalog, ResearchRuns, AnalysisQueue,
        SoccerRefresh, ExternalSignals, AnalysisRunner

CONSTANTS j1, j2

VARIABLE part

-------------------------------------------------------------------------------
(* Markets, prices and texts.                                              *)

Candidate(side, score, confidence) == [side |-> side, score |-> score, confidence |-> confidence]
MCBooks == {<<Candidate("YES", 10, "high"), Candidate("NO", 3, "low")>>,
            <<Candidate("NO", 100, "low"), Candidate("YES", 95, "low")>>}
MCFinalPrices == {[Yes |-> 97, No |-> 3]}

MCSnapshotValues == {[price |-> 4000, wide |-> FALSE, liquidity |-> "high"],
                     [price |-> 5000, wide |-> TRUE, liquidity |-> "low"]}
MCOddsEvents ==
  {[id |-> 11, probs |-> <<6000, 5600>>, opening |-> 5500, home |-> 1, lag |-> 1]}
MCFoundByResearch == {[yes |-> 5000, confidence |-> 7000, opportunity |-> TRUE]}
MCNewsItems == {[id |-> 21, date |-> 0, signals |-> ("injury" :> -80 @@ "form" :> 50)]}

\* Two markets of one game: their titles share their beginning.
MCGameOf == [r \in Remote |-> "game"]
MCShapeOf == [r \in Remote |-> "winner"]
MCClosesOn == [r \in Remote |-> r]
MCSameTitle == {<<r, r>> : r \in Remote}
MCPartOfTitle == {<<1, 2>>, <<2, 1>>}

Body(mode, pros, cons, cited, confidence) ==
  [mode |-> mode, pros |-> pros, cons |-> cons, cited |-> cited, valid |-> cited,
   distinct |-> cited, repeated |-> 0, unnamed |-> 0, review |-> FALSE,
   confidence |-> confidence, shift |-> 600]
MCEvidence ==
  {[kind |-> "odds", provider |-> "the_odds_api", stance |-> "favor", strength |-> 9000,
    consensus |-> 10000, context |-> None, confidence |-> 10000, disputed |-> FALSE, age |-> 2]}
MCAnswers == {[ok |-> TRUE, pros |-> 1, cons |-> 0, confidence |-> 12000, shift |-> 1500],
              [ok |-> FALSE, pros |-> 0, cons |-> 0, confidence |-> 0, shift |-> 0]}
MCResponses == {Body("real_web", 2, 1, 3, 7000), Body("real_web", 1, 0, 1, 7000),
                Body("mock_structural", 1, 1, 2, 9000)}

\* "Soccer: A versus B" and "Will C win on ...?".
MCWording ==
  <<[hints |-> {"versus"}, sports |-> {"soccer"}, teams |-> 0, named |-> 2,
     type |-> "other", category |-> "sports", starts |-> 60],
    [hints |-> {"dated", "will"}, sports |-> {}, teams |-> 0, named |-> 2,
     type |-> "other", category |-> None, starts |-> 60]>>
MCListings == {[open |-> TRUE, closes |-> 60, tag |-> "nba", token |-> TRUE],
               [open |-> TRUE, closes |-> 180, tag |-> None, token |-> TRUE],
               [open |-> TRUE, closes |-> None, tag |-> "football", token |-> TRUE],
               [open |-> FALSE, closes |-> 60, tag |-> None, token |-> FALSE]}
MCPriceAnswers == {[yes |-> 50, no |-> 50, liquidity |-> 100000, volume |-> None],
                   [yes |-> None, no |-> None, liquidity |-> None, volume |-> 10]}

\* A winner and a draw of one match.
MCMatchOf == <<1, 1>>
MCClosesAt == <<1, 1>>

Shared == {"2026", "nba", "finals", "boston", "celtics"}
Title(words, teams, years, several) ==
  [words |-> words, teams |-> teams, years |-> years, sport |-> "nba",
   shape |-> "match_winner", terms |-> {"finals"}, several |-> several]
Lakers == Shared \cup {"los", "angeles", "lakers"}
MCTitles ==
  [lakers |-> Title(Lakers, {"celtics", "lakers"}, {"2026"}, FALSE),
   knicks |-> Title(Shared \cup {"new", "york", "knicks"}, {"celtics", "knicks"}, {"2026"}, FALSE),
   parlay |-> Title(Lakers, {"celtics", "lakers"}, {"2026"}, TRUE),
   season |-> [Title({"nba", "title"}, {"celtics"}, {}, FALSE) EXCEPT !.shape = "futures"],
   older  |-> Title(Lakers, {"celtics", "lakers"}, {"2025"}, FALSE)]
MCBookQuotes ==
  {[bid |-> 40, ask |-> 44, last |-> 42, open |-> TRUE, traded |-> TRUE],
   [bid |-> None, ask |-> 44, last |-> None, open |-> FALSE, traded |-> FALSE]}

\* The market's wallets keep their order from one discovery to the next.
SteadyPair == {<<j1, j2>>}

\* Bound: a request asks for both wallets, the command for the first.
RequestsAskForMore ==
  \A r \in Runner : session'[r].at = "acquire" => session'[r].limit = IF r \in Loop THEN 1 ELSE 2

-------------------------------------------------------------------------------
(* Side by side.                                                           *)

allVars ==
  <<part, signalVars, scoreVars, catalogVars, researchVars, queueVars, refreshVars, externalVars,
    vars>>

MarketsInit ==
  /\ part \in {"signals", "scores", "catalog", "research", "queue", "refresh", "external", "job"}
  /\ SignalInit /\ ScoreInit /\ CatalogInit /\ ResearchInit /\ QueueInit /\ RefreshInit /\ ExternalInit
  /\ Init
  \* A part that rests needs one initial state only.
  /\ part = "queue" \/ \E l \in Listings : ~l.open /\ listing = [m \in Market |-> l]
  /\ part = "refresh" \/ offered = [r \in Slate |-> None]
  /\ part = "job" \/ ~row.resolved

MarketsNext ==
  /\ UNCHANGED part
  /\ IF part = "signals" THEN SignalNext ELSE UNCHANGED signalVars
  /\ IF part = "scores" THEN ScoreNext ELSE UNCHANGED scoreVars
  /\ IF part = "catalog" THEN CatalogNext ELSE UNCHANGED catalogVars
  /\ IF part = "research" THEN ResearchNext ELSE UNCHANGED researchVars
  /\ IF part = "queue" THEN QueueNext ELSE UNCHANGED queueVars
  /\ IF part = "refresh" THEN RefreshNext ELSE UNCHANGED refreshVars
  /\ IF part = "external" THEN ExternalNext ELSE UNCHANGED externalVars
  /\ IF part = "job" THEN Next /\ RequestsAskForMore ELSE UNCHANGED vars

MarketsSpec == MarketsInit /\ [][MarketsNext]_allVars
=================================================================================
