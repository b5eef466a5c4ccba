SPECIFICATION FairSpec
CONSTANTS
  Session = {s1, s2}
  Buy = {b1}
  Sell = {x1}
  Position = {1, 2}
  None = None
INVARIANTS
  OnePositionPerTrade
PROPERTIES
  SessionsEnd
CHECK_DEADLOCK FALSE
