SPECIFICATION Spec
CONSTANTS
  b = b
  s = s
  t = t
  u = u
  Ids <- IdsInMC
  NoId = NoId
  Buys = {b}
  Price <- PriceInMC
  Cent = 2
  Amount <- AmountInMC
  Unit = 2
  MaxRequests = 4
  MaxCrashes = 2
  MaxFailures = 1
INVARIANTS ExchangeTypeOK BookIsWhatRowsSay SidesBalance NoOrderTradesTwice
CHECK_DEADLOCK FALSE
