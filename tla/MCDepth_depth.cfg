SPECIFICATION Spec
CONSTANTS
  SIZE = 2
  o1 = o1
  o2 = o2
  o3 = o3
  o4 = o4
  Orders <- FourOrders
  Prices = {1, 2, 3, 4}
  Quantities = {2}
  Word = 9
  MaxChanges = 4
SYMMETRY AnyOrder
INVARIANTS WellFormed NoCallFails LevelsAddUp ChangesAreStamped
PROPERTIES ImplementsLevels
CHECK_DEADLOCK FALSE
