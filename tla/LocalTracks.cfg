SPECIFICATION BothSpec
CONSTANTS
  Devices = {"default", "other"}
  Fallback = "default"
  MaxMedia = 5
  MaxTasks = 3
  Sessions <- MCSessions
  Outputs = {"default", "x", "y"}
  People = {"a", "b"}
  Speakers = {"e1", "e2"}
  Lists <- MCLists
  MaxSwitches = 3
  AudioSessions <- MCAudioSessions
INVARIANTS TracksAreAsAsked HeardAsAsked
PROPERTIES DevicesSettle
CHECK_DEADLOCK FALSE
