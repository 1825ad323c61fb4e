SPECIFICATION FairSpec
CONSTANTS
  MaxConnects = 2
  MaxDisconnects = 1
  MaxFaults = 1
  MaxTries = 1
  MaxUpdates = 1
  MaxRegions = 1
  Web = FALSE
  HasEarlyTransport = FALSE
  Leave = Leave
INVARIANTS SessionIsHeld
PROPERTIES EveryWaitEnds ConnectedIsServed
CHECK_DEADLOCK FALSE
