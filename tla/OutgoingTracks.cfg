SPECIFICATION TrackSpec
CONSTANTS
  Pubs = {"a","b"}
  MaxHandle = 3
  Modulus = 8
  MaxPartials = 1
  MaxBuffered = 2
  HighWater = 1
  Workloads <- MCW
  Frames <- MCFrames
  Mtu = 44
INVARIANTS FramesArriveWhole PublicationsAgree
PROPERTIES OutgoingSettles
CHECK_DEADLOCK FALSE
