SPECIFICATION Spec
CONSTANTS
  None = None
  Parts = {"daily", "briefs", "linear", "registry", "profiles"}
  \* DailyRun
  Results <- MCResults
  MaxDailyRuns = 3
  Windows = {1, 2}
  \* MarketBriefs
  Brief = {1, 2}
  Sound = {1}
  Ratings <- MCRatings
  TopLimit = 1
  WatchLimit = 1
  Threshold = 5
  Differ = {d1, d2}
  MaxDiffs = 2
  \* LinearSync
  Issues <- MCIssues
  Texts = {"a"}
  Kinds <- MCKinds
  Allowed = {"unstarted", "completed"}
  Project = p
  Syncer = {y1}
  PageSize = 2
  MaxRemote = 2
  MaxTokens = 2
  \* HighlightedRegistry
  Address = {a1}
  Poster = {h1, h2}
  Payloads <- MCPayloads
  \* WalletProfiles
  ProfileAddress = {w1}
  Client = {c1, c2}
  Links <- MCLinks
  Edits = {n1}
  ChosenStatuses = {"watching"}
  MaxJobs = 1
  MaxCandidates = 1
INVARIANTS
  FailedRunPublishesNothing
  TrendsAreEarned
  TroubleHasAName
  StatusAgreesWithHistory
  DiffsCompose
  ViewsAgree
  NeverTwice
  ReportedMeansInSync
PROPERTIES
  UndisturbedPostsMark
  NotesSurvive
CHECK_DEADLOCK FALSE
