SPECIFICATION FairSpec
CONSTANTS
  MaxCalls = 3
  MaxReconnects = 1
  MaxTracks = 2
  Kinds = {"publish", "unpublish", "enable", "enableBoth", "disable", "mute", "encrypt"}
  Repeated = {"publish", "unpublish", "encrypt"}
  Parallel = TRUE
INVARIANTS PublishingIsSound QuietIsPublished
PROPERTIES FailedStaysFailed EveryChangeSettles
CHECK_DEADLOCK FALSE
