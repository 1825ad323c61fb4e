SPECIFICATION StreamsFairSpec
CONSTANTS
  Pages = {"a", "b"}
  Streams = {"s1", "s2", "q1", "q2", "r1", "r2"}
  Calls = {"c1", "c2"}
  Request <- MCRequest
  Response <- MCResponse
  Sessions <- MCSessions
INVARIANTS ReadsAndRunsAreWhole SettledLeavesNothing
PROPERTIES StreamsAndCallsEnd
CHECK_DEADLOCK FALSE
