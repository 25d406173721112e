SPECIFICATION Spec
CONSTANTS
  Desktops <- MCDesktops
  Spots = {1}
  MaxWindows = 2
  MaxPaints = 1
  MaxResizes = 1
INVARIANT NoProtocolError
INVARIANT CapturesNewWindow
PROPERTY FrameIntact
PROPERTY DamageCovers
PROPERTY CloseEndsCapture
PROPERTY ScreencopyReturns
PROPERTY PortalThreadEnds
