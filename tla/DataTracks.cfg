CONSTANTS
  p1 = p1
  MaxTracks = 2
  Publishers = {p1}
  PublisherOf <- MCPublisherOf
  MaxStreams = 2
  MaxSids = 3
  Handles = {h1, h2}
  NoHandle = NoHandle
SPECIFICATION FairSpec
INVARIANTS
  SubscriptionsAreSound
  ActiveIsWanted
PROPERTIES
  SubscribeSettles
CHECK_DEADLOCK FALSE
