SPECIFICATION FairSpec
CONSTANTS
  Cells = {c1}
  DisplayRing = 1
  Sizes = {1, 2}
  MaxResizes = 2
  MayFail = FALSE
  Interpolates = FALSE
  FullDamage = TRUE
  MayEnd = TRUE
  MaxFrames = 3
  c1 = c1
  c2 = c2
PROPERTY UploadsOnlyFree
PROPERTY NewestShown
PROPERTY StopCompletes
