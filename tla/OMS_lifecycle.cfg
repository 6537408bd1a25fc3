SPECIFICATION Spec
CONSTANTS
  big = big
  tiny = tiny
  paper = paper
  Orders <- MCThree
  BelowGrid <- MCBelowGrid
  Shadow <- MCShadow
  Qty <- MCQtyShadow
  HasOutbox = FALSE
  CallsMayFail = FALSE
  MaxSubmits = 2
INVARIANTS FillsWithinExecuted
PROPERTIES ImplementsLifecycle
CHECK_DEADLOCK FALSE
