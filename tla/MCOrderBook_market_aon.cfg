SPECIFICATION Spec
CONSTANTS
  MaxOrders = 4
  Menu <- MarketAonMenu
  Deltas = {}
  NewPrices = {}
  MarketPrices = {}
  MaxCalls = 0
  PassConditions = TRUE
  Reentrant = FALSE
  Throwing = FALSE
INVARIANTS AllOrNothing
CHECK_DEADLOCK FALSE
