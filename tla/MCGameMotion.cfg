SPECIFICATION FairSpec
CONSTANTS
  t1 = t1
  Tokens = {t1}
  NoToken = NoToken
  NoMap = "nowhere"
  MapIds = {"town"}
  RoadsOf <- MCRoadsOf
  CoordMax = 2
  MapSpeed <- MCMapSpeed
  DefaultSpeed = 20
  RandomSpawn = TRUE
  Spots <- MCSpots
  AutoTicker = TRUE
  Deltas = {11, 33}
  MaxJoins = 1
INVARIANTS
  RoadUnderDog
  DogsAreSeenOnRoads
  SpeedFollowsDirection
PROPERTIES
  OffRoadOnlyFromCrossing
  DogEventuallyStops
