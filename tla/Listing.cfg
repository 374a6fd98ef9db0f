SPECIFICATION Spec
CONSTANTS
  Sizes <- MCSizes
  MostDevices = 5
  ResponseSize = 8
  DevNames = 3
  MaxDevices = 3
INVARIANTS DoneAtEnd
PROPERTY ListingEnds
CHECK_DEADLOCK FALSE
