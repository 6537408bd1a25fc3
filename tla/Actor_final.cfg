CONSTANTS
  btc = btc
  eth = eth
  buy = buy
  Symbol <- MCTwoSymbols
  Order <- MCOneOrder
  SymbolOf <- MCSymbolOf
  Buys <- MCBuys
  Qty <- MCQty
  Tolerance = 50
  RiskLevel <- MCRiskLevel
  RiskLimit = 2
  MaxCancels = 1
  MaxFetches = 1
SPECIFICATION FairSpec
INVARIANTS TypeOK FinalMeansClosing BreachHalts
CHECK_DEADLOCK FALSE
