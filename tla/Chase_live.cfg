SPECIFICATION CFairSpec
CONSTANTS
  buy = buy
  sell = sell
  Orders <- MCOrders
  SideOf <- MCSideOf
  Qty <- MCQty
  BelowGrid = {}
  HasOutbox = FALSE
  Shadow = {}
  CallsMayFail = TRUE
  MaxSubmits = 1
  MinQty = 2
INVARIANTS NoWashedOpposite
PROPERTIES WorkingOrdersResolveUnlessMissed
CHECK_DEADLOCK FALSE
