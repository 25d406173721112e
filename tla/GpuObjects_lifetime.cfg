SPECIFICATION Spec
CONSTANT Components = {"context", "fsr2", "fsr3", "h264", "h265", "av1"}
CONSTANT Sizes = {1, 2}
CONSTANT InputImages = {1, 2}
CONSTANT MaxCalls = 4
CONSTANT MaxFailures = 2
INVARIANT HandlesLive
INVARIANT ImagesReady
INVARIANT ExtentsFit
INVARIANT ParentsOutlive
INVARIANT NoLeak
