SPECIFICATION CookerFairSpec
CONSTANTS
  u1 = u1
  u2 = u2
  u3 = u3
  u4 = u4
  Users = {u1, u2, u3, u4}
  Burners = 2
INVARIANTS
  AssertsHold
  NobodyWaitsForFreeBurner
  DestructorAssert
PROPERTIES
  ImplementsPool
  EverybodyCooks
CHECK_DEADLOCK FALSE
