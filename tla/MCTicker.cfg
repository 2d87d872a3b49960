SPECIFICATION TickerSpec
CONSTANTS
  PerMs = 3
  Period = 2
  MaxTime = 34
INVARIANTS
  GameNotAhead
  LosesLessThanOneMsPerTick
PROPERTIES
  NoShortTick
CHECK_DEADLOCK FALSE
