SPECIFICATION DepthSpec
CONSTANTS
  MaxOrders = 3
  Menu <- DepthMenu
  Deltas <- DepthDeltas
  NewPrices = {0, 1, 3}
  MarketPrices = {2}
  MaxCalls = 2
  PassConditions = TRUE
  Reentrant = TRUE
  Throwing = FALSE
  SIZE = 1
  Word = 16
INVARIANTS DepthTypeOK DepthFollowsBook NoDepthCallFails ListenersAreCurrent ObjectsAreTold
CHECK_DEADLOCK FALSE
