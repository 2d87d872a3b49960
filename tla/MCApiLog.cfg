SPECIFICATION ApiFairSpec
CONSTANTS
  Conns = {c1, c2}
  Ops = {"join", "state", "local"}
  Threads = 2
  Timer = Timer
  Tokens = {t1}
  NoToken = NoToken
  NoMap = "nowhere"
  MapIds = {"town"}
  RoadsOf <- MCRoadsOf
  CoordMax = 1
  MapSpeed <- MCMapSpeed
  DefaultSpeed = 1
  RandomSpawn = FALSE
  Spots = {}
  AutoTicker = TRUE
  Deltas = {5}
  MaxJoins = 1
INVARIANTS
  LogTellsTheCode
