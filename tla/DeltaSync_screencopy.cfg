SPECIFICATION FairSpec
CONSTANTS
  Cells = {c1}
  RingCapacity = 1
  FullDamage = TRUE
  OutpacesLimit = TRUE
  MayEnd = TRUE
  MaxPaints = 1
  DoDownscale = FALSE
  AnchorInterval = 2
  FrameQueueDepth = 1
  MaxAnchors = 1
  WireCapacity = 1
  c1 = c1
  c2 = c2
INVARIANT InSync
PROPERTY EventuallyMirrored
PROPERTY ShutdownCompletes
