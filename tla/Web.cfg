SPECIFICATION FairSpec
CONSTANTS
  c1 = c1
  c2 = c2
  c3 = c3
  NumSlots = 2
  Conns = {c1, c2, c3}
  Plans <- MCPlans
  Nil = Nil
  LoginTime = 1
  Wrap = 2
  MaxAge = 2
  MaxFaults = 1
INVARIANTS TypeOK SlotsMatch OwnUnits SavedUnlessTorn
PROPERTIES SaveNeedsLogin Served
CHECK_DEADLOCK FALSE
