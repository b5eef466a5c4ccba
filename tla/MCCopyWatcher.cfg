SPECIFICATION FairSpec
CONSTANTS
  Loop = {l1, l2, l3}
  Caller = {c1, c2}
  None = None
INVARIANTS
  RunningMeansWork
PROPERTIES
  RunsGoOn
  PauseStopsLoops
CHECK_DEADLOCK FALSE
