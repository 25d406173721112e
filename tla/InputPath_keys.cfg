SPECIFICATION FairSpec
CONSTANTS
  Keys = {k1}
  IncomingQueueDepth = 1
  InjectRing = 1
  MayEnd = TRUE
  MaxEvents = 3
  k1 = k1
INVARIANT InOrder
INVARIANT NothingLost
PROPERTY KeysFollow
PROPERTY InjectStops
CHECK_DEADLOCK FALSE
