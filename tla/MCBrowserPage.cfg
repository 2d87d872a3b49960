SPECIFICATION PageSpec
CONSTANTS
  MapIds = {"map1", "map2"}
  NoMap = "nomap"
  RoadsOf <- MCRoadsOf
  CoordMax = 1
  Tokens = {t1, t2}
  NoToken = NoToken
  MapSpeed <- MCMapSpeed
  DefaultSpeed = 1
  RandomSpawn = FALSE
  Spots = {}
  AutoTicker = TRUE
  Deltas = {}
  MaxJoins = 2
  Bounds <- MCBounds
  ThisTab = "this"
  OtherTabs = {"other"}
INVARIANTS
  PageTypeOK
  PageIsOfOnePlayer
  KeysReachDog
PROPERTIES
  ActorsDropOnlyWhenStale
  PageCatchesUp
CHECK_DEADLOCK FALSE
