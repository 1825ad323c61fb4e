SPECIFICATION RoomSpec
CONSTANTS
  Participants = {"p"}
  Tracks = {"t1", "t2"}
  Owner <- MCOwner
  Elements = {"e1", "e2"}
  MaxTries = 2
  MaxMedia = 3
  Agents = {"p"}
  Names = {"first", "second"}
  Extras <- MCExtras
  Sessions <- MCSessions
INVARIANTS OthersAreServed PeopleAreCurrent
PROPERTIES AllSettles
CHECK_DEADLOCK FALSE
