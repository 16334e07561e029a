SPECIFICATION DepthSpec
CONSTANTS
  MaxOrders = 2
  Menu <- MovedMenu
  Deltas = {0}
  NewPrices = {2}
  MarketPrices = {}
  MaxCalls = 1
  PassConditions = TRUE
  Reentrant = FALSE
  Throwing = FALSE
  SIZE = 2
  Word = 16
INVARIANTS DepthRecordsOpenQuantity
CHECK_DEADLOCK FALSE
