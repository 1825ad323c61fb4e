SPECIFICATION BothSpec
CONSTANTS
  Local = "me"
  Remotes = {"a", "b"}
  Tracks = {"a1", "a2", "b1"}
  Owner <- MCOwner
  Receivers = {"r1", "r2"}
  RingSize = 2
  Window = 2
  Tolerance = 1
  Sessions <- MCSessions
  Frames <- MCFrames
  Texts <- MCTexts
  Infos <- MCInfos
  SifPayloads <- MCPayloads
  SifTrailer <- MCTrailer
  Strange <- MCStrange
INVARIANTS KeysAreFollowed FramesAreServedAndRead
PROPERTIES NothingFailsSilently
CHECK_DEADLOCK FALSE
