SPECIFICATION Spec
CONSTANTS
  Cells = {c1, c2}
  RingCapacity = 1
  FullDamage = FALSE
  OutpacesLimit = FALSE
  MayEnd = TRUE
  MaxPaints = 3
  DoDownscale = FALSE
  AnchorInterval = 2
  FrameQueueDepth = 1
  MaxAnchors = 2
  WireCapacity = 1
  c1 = c1
  c2 = c2
INVARIANT BaseStaysInSync
CHECK_DEADLOCK FALSE
