SPECIFICATION FairSpec
CONSTANTS
  k1 = k1
  k2 = k2
  None = None
  Awaited <- MCAwaited
  Final <- MCFinal
  MaxCalls = 3
INVARIANTS LifecycleIsOwned ConnectionIsServed
PROPERTIES OnlyOwnLossDrops AttemptSettles
CHECK_DEADLOCK FALSE
