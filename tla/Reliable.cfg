SPECIFICATION FairSpec
CONSTANTS
  s1 = s1
  s2 = s2
  r1 = r1
  r2 = r2
  None = None
  Senders <- MCSenders
  Replays <- MCOneReplay
  PacketSize <- MCPacketSize
  MaxClaims = 3
  MaxChannels = 2
  MaxResumes = 2
  MaxRestarts = 1
  MaxAborts = 1
  HighWaterMark = 1
  LowWaterMark = 0
INVARIANTS BufferIsSound GateExclusive
PROPERTIES DirectWritesInOrder SendSettles
CHECK_DEADLOCK FALSE
