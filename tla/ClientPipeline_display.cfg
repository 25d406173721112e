SPECIFICATION Spec
CONSTANTS
  Cells = {c1, c2}
  DisplayRing = 1
  Sizes = {1}
  MaxResizes = 0
  MayFail = TRUE
  Interpolates = TRUE
  FullDamage = FALSE
  MayEnd = FALSE
  MaxFrames = 3
  c1 = c1
  c2 = c2
SYMMETRY Symmetry
PROPERTY CommitShown
CHECK_DEADLOCK FALSE
