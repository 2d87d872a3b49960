SPECIFICATION Spec
CONSTANTS
  Size = 3
  Weight = 3
  ShipSizes <- MCShipSizes
  FieldsOf <- MCFieldsOf
  MovesOf <- MCMovesOf
INVARIANTS
  PictureIsTrue
  StuckOnlyByLoss
PROPERTY
  EndsForBoth
CHECK_DEADLOCK FALSE
