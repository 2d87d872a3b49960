SPECIFICATION Spec
CONSTANTS
  NumOrders = 3
  NumWorkers = 2
  Failing = TRUE
INVARIANTS
  AssertsHold
  DeliveredOnce
PROPERTY
  EveryOrderIsDelivered
CHECK_DEADLOCK FALSE
