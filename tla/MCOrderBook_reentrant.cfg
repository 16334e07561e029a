SPECIFICATION Spec
CONSTANTS
  MaxOrders = 3
  Menu <- SmallMenu
  Deltas <- SmallDeltas
  NewPrices = {0}
  MarketPrices = {2}
  MaxCalls = 2
  PassConditions = TRUE
  Reentrant = TRUE
  Throwing = FALSE
INVARIANTS ApplicationAgrees
PROPERTIES FillsOnlyLiveOrders OrdersAreAnswered
CHECK_DEADLOCK FALSE
