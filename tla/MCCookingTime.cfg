SPECIFICATION TimeSpec
CONSTANTS
  NumOrders = 20
  Threads = 4
  Burners = 8
INVARIANTS
  CookDurationAsAsserted
CHECK_DEADLOCK FALSE
