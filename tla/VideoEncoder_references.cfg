SPECIFICATION Spec
CONSTANTS
  Codecs = {"h264", "h265", "av1"}
  MaxFrames = 258
  MaxFailures = 2
  MaxRequests = 1
INVARIANT PredictsFromReturned
PROPERTY StartsWithKeyframe
PROPERTY NamesItsReference
PROPERTY RequestAnswered
