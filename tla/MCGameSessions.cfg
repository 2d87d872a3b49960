SPECIFICATION Spec
CONSTANTS
  t1 = t1
  t2 = t2
  t3 = t3
  Tokens = {t1, t2, t3}
  NoToken = NoToken
  NoMap = "nowhere"
  MapIds = {"town", "village", "void"}
  RoadsOf <- MCRoadsOf
  CoordMax = 1
  MapSpeed <- MCMapSpeed
  DefaultSpeed = 1
  RandomSpawn = FALSE
  Spots = {}
  AutoTicker = FALSE
  Deltas = {5}
  MaxJoins = 4
SYMMETRY Symmetry
INVARIANTS
  TypeOK
  OneSessionPerMap
  RosterAgreesWithPlayers
  HalfJoinedOnlyWithoutRoads
  UniqueIds
  StateShowsTheSession
