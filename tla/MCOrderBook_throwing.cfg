SPECIFICATION Spec
CONSTANTS
  MaxOrders = 3
  Menu <- ThrowMenu
  Deltas <- SmallDeltas
  NewPrices = {0, 2}
  MarketPrices = {2}
  MaxCalls = 1
  PassConditions = TRUE
  Reentrant = TRUE
  Throwing = TRUE
INVARIANTS OnePlace
PROPERTIES CallsReturn
CHECK_DEADLOCK FALSE
