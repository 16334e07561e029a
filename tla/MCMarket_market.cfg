SPECIFICATION MarketSpec
CONSTANTS
  MaxOrders = 4
  Menu <- EntryMenu
  Deltas <- EntryDeltas
  NewPrices = {0, 2}
  MarketPrices = {}
  MaxCalls = 2
  PassConditions = TRUE
  Reentrant = FALSE
  Throwing = FALSE
  MaxQuantity = 3
  MaxPrice = 2
INVARIANTS MarketTypeOK ShowsOpenQuantity OrdersAreFound
PROPERTIES TradesWithinLimits CancelledOrdersAreOver
CHECK_DEADLOCK FALSE
