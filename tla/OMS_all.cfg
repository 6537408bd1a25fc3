SPECIFICATION Spec
CONSTANTS
  big = big
  tiny = tiny
  paper = paper
  Orders <- MCOrders
  BelowGrid <- MCBelowGrid
  Qty <- MCQtyThree
  HasOutbox = TRUE
  Shadow = {}
  CallsMayFail = TRUE
  MaxSubmits = 2
INVARIANTS NoPhantomPosition UntrackedOnlyAfterRaise
PROPERTIES FillsNeverShrink
CHECK_DEADLOCK FALSE
