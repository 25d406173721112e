SPECIFICATION FairSpec
CONSTANTS
  Cells = {c1, c2}
  RingCapacity = 1
  FullDamage = FALSE
  OutpacesLimit = TRUE
  MayEnd = FALSE
  MaxPaints = 3
  DoDownscale = FALSE
  AnchorInterval = 2
  FrameQueueDepth = 1
  MaxAnchors = 1
  WireCapacity = 1
  c1 = c1
  c2 = c2
INVARIANT DivergenceCovered
PROPERTY SettlesUpToDiscarded
CHECK_DEADLOCK FALSE
