SPECIFICATION Spec
CONSTANTS
  Runner = {r1}
  Loop = {}
  w1 = w1
  w2 = w2
  w3 = w3
  Wallet = {w1, w2, w3}
  Rankings <- ChangingRankings
  Seasoned = {}
  BatchSize = 1
  Maxima = {2, 3}
  Limits = {2, 3}
INVARIANTS
  CompletedCoversAll
CHECK_DEADLOCK FALSE
