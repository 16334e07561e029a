SPECIFICATION Spec
CONSTANTS
  MaxOrders = 5
  Menu <- MatchingMenu
  Deltas = {0}
  NewPrices = {}
  MarketPrices = {0, 2}
  MaxCalls = 0
  PassConditions = TRUE
  Reentrant = FALSE
  Throwing = FALSE
INVARIANTS TypeOK RestingOrdersAreOpen BookIsNotCrossed NoOrderIsLost OnePlace
PROPERTIES TradesWithinLimits PriceTimePriority
CHECK_DEADLOCK FALSE
