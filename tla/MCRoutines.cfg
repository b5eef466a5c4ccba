SPECIFICATION RoutinesSpec
CONSTANTS
  None = None
  Followed = {f1, f2, f3}
  FocusFloor = 1
  FocusCap = 2
  MaxStreak = 3
  Worker = {p1, p2}
  OneShot = {p2}
  StaleAfter = 2
  Sleep = 1
  BaseBackoff = 1
  MaxBackoff = 4
  MaxErrors = 3
  Runner = {r1}
  Loop = {r1}
  j1 = j1
  j2 = j2
  j3 = j3
  Wallet = {j1, j2, j3}
  Rankings <- ChangingRankings
  Seasoned = {j1, j2}
  BatchSize = 1
  Maxima = {2, 3}
  Limits = {2, 3}
INVARIANTS
  OneWorker
  ReportIsOfTheLoop
  SleepersLookAlive
  EnoughWithinAnalyzed
PROPERTIES
  CyclesRotate
  RunsEnd
CHECK_DEADLOCK FALSE
