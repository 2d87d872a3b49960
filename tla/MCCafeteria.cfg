SPECIFICATION FairSpec
CONSTANTS
  NumOrders = 3
  Threads = 2
  Burners = 2
  Users <- MCUsers
INVARIANTS
  NoHotDogTwice
  AllOrdersFulfilled
  OwnBurnersGivenBack
PROPERTIES
  EverybodyEats
CHECK_DEADLOCK FALSE
