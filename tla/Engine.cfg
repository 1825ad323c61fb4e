SPECIFICATION EngineFairSpec
CONSTANTS
  MaxTimers = 3
  MaxRetries = 2
  MaxJoins = 2
  MaxRegions = 1
  MaxFaults = 3
  OfferWithJoin = TRUE
  ResumeDisabled = FALSE
  Browser = Browser
  Owner = Owner
  Server = Server
  Policy = Policy
  Nothing = Nothing
INVARIANTS RecoveryIsSound ReconnectingIsAWait
PROPERTIES EveryLossEnds ImplementsEngineSession
CHECK_DEADLOCK FALSE
