SPECIFICATION Spec
CONSTANTS
  big = big
  tiny = tiny
  paper = paper
  Orders <- MCOrders
  BelowGrid <- MCBelowGrid
  Qty <- MCQtyTwo
  HasOutbox = FALSE
  Shadow = {}
  CallsMayFail = TRUE
  MaxSubmits = 1
INVARIANTS NoUntrackedVenueOrder
CHECK_DEADLOCK FALSE
