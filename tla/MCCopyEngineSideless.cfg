SPECIFICATION Spec
CONSTANTS
  m1 = m1
  yesToken = yesToken
  noToken = noToken
  w1 = w1
  h1 = h1
  None = None
  Wallet = {w1}
  Market = {m1}
  Asset = {yesToken, noToken}
  Outcome = {"yes", "no"}
  FullPrice = 9
  TokenSide <- MCTokenSide
  Tx = {}
  Reports = {"cancelled", "unknown"}
  FetchLimit = 2
  BatchLimit = 2
  SettleEvery = 1
  OrderId = {1, 2, 3}
  MaxTime = 0
  MaxTrades = 2
  Settings <- CoreSettings
  Content <- SidelessContent
INVARIANTS
  OrdersNotRepeated
CHECK_DEADLOCK FALSE
