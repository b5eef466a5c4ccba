SPECIFICATION MarketsSpec
CONSTANTS
  None = None
  \* MarketSignals
  Signal = {1, 2}
  SignalMarket = {m1}
  Settler = {s1, s2}
  Books <- MCBooks
  RecordedOutcomes = {"yes"}
  Quotes <- MCFinalPrices
  PendingLimit = 1
  \* MarketScores
  ScoredMarket = {1, 2}
  Matchup = {1}
  OddsEvents <- MCOddsEvents
  NewsItems <- MCNewsItems
  SnapshotValues <- MCSnapshotValues
  FoundByResearch <- MCFoundByResearch
  ScoreLimit = 1
  MaxDay = 2
  MaxScores = 1
  \* MarketCatalog
  Remote = {1, 2}
  GameOf <- MCGameOf
  ShapeOf <- MCShapeOf
  ClosesOn <- MCClosesOn
  SameTitle <- MCSameTitle
  PartOfTitle <- MCPartOfTitle
  MaxImport = 1
  MaxEvents = 1
  SnapshotLimit = 1
  Horizon = 1
  LastDay = 2
  \* ResearchRuns
  Subject = {1}
  Duel = {1}
  Prices = {5000}
  Evidence <- MCEvidence
  Answers <- MCAnswers
  Responses <- MCResponses
  MaxRuns = 2
  MaxForecasts = 1
  \* AnalysisQueue
  Market = {1, 2}
  Wording <- MCWording
  Listings <- MCListings
  PriceAnswers <- MCPriceAnswers
  Inquiries = {"dismissed"}
  Decisions = {"monitor", "ignore"}
  MaxMarks = 1
  Hours = {0, 45}
  QueueWindow = 168
  QueueSize = 2
  RefreshLimit = 1
  \* SoccerRefresh
  Slate = {1, 2}
  MatchOf <- MCMatchOf
  Draws = {2}
  ClosesAt <- MCClosesAt
  EventCap = 1
  ImportCap = 1
  SnapshotCap = 1
  ScoringLimit = 2
  DaysAhead = 2
  OldAfter = 0
  LastHour = 1
  MaxChanges = 2
  \* ExternalSignals
  Titles <- MCTitles
  MarketTitles = {"lakers", "season", "older"}
  SignalTitles = {"lakers", "parlay"}
  BookQuotes <- MCBookQuotes
  Thresholds = {25000, 40000}
  Matcher = {x1, x2}
  PageLimit = 2
  MaxMarkets = 2
  MaxSignals = 2
  \* AnalysisRunner
  j1 = j1
  j2 = j2
  Runner = {r1, r2}
  Loop = {r2}
  Wallet = {j1, j2}
  Rankings <- SteadyPair
  Seasoned = {}
  BatchSize = 1
  Maxima = {2}
  Limits = {1, 2}
INVARIANTS
  CursorBehindCandidates
  AnalyzedBacked
  CountedHonestly
  OpportunitiesNeedOdds
  EvaluationsAgree
  OneMarketBehindARow
  UnreviewedAreSound
  NoDeadEnds
  MissingDataFirst
  ForecastsAreMet
  ReportsAgree
  SureLinksDoNotContradict
CHECK_DEADLOCK FALSE
