SPECIFICATION Spec
CONSTANTS
  c1 = c1
  c2 = c2
  s1 = s1
  s2 = s2
  Clients = {c1}
  Symbols = {s1}
  Levels = {1, 2}
  Values = {0, 1}
  Blank = 0
  MaxSessions = 2
  MaxEvents = 3
  MaxRead = 2
INVARIANTS FeedTypeOK  CaughtUp
PROPERTIES RefusesOnlyLoss  NoClientIsOrphaned
CHECK_DEADLOCK FALSE
