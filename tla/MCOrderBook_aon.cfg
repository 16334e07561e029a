SPECIFICATION Spec
CONSTANTS
  MaxOrders = 5
  Menu <- AonMenu
  Deltas = {}
  NewPrices = {}
  MarketPrices = {}
  MaxCalls = 0
  PassConditions = TRUE
  Reentrant = FALSE
  Throwing = FALSE
INVARIANTS AllOrNothing NoDanglingIterator
PROPERTIES PriceTimePriority
CHECK_DEADLOCK FALSE
