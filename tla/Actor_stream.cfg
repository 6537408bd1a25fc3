CONSTANTS
  btc = btc
  eth = eth
  buy = buy
  Symbol <- MCTwoSymbols
  Order <- MCOneOrder
  SymbolOf <- MCSymbolOf
  Buys <- MCBuys
  Qty <- MCQty
  Tolerance = 50
  RiskLevel <- MCRiskLevel
  RiskLimit = 2
  MaxCancels = 1
  MaxFetches = 1
SPECIFICATION FairSpec
INVARIANTS PositionFollowsMessages NoActiveInGlobalHalt
CHECK_DEADLOCK FALSE
PROPERTIES CatchesUp
