SPECIFICATION Spec
CONSTANTS
  MaxOrders = 3
  Menu <- AonReplaceMenu
  Deltas = {0}
  NewPrices = {2}
  MarketPrices = {}
  MaxCalls = 1
  PassConditions = TRUE
  Reentrant = FALSE
  Throwing = FALSE
PROPERTIES TradesWithinLimits
CHECK_DEADLOCK FALSE
