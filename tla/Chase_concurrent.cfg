SPECIFICATION CSpec
CONSTANTS
  buy = buy
  sell = sell
  Orders <- MCOrders
  SideOf <- MCSideOf
  Qty <- MCQty
  BelowGrid = {}
  HasOutbox = TRUE
  Shadow = {}
  CallsMayFail = TRUE
  MaxSubmits = 1
  MinQty = 2
INVARIANTS ResolvedMeansNotLive
PROPERTIES ImplementsOMS
CHECK_DEADLOCK FALSE
