SPECIFICATION Spec
CONSTANTS
  Streams = {0, 1}
  Lengths = {0, 2, 3, 5}
  ChunkSize = 2
  MaxPayload = 4
  MaxMessages = 3
  MaxRead = 9
  Corrupts = TRUE
INVARIANT Reassembles
INVARIANT NothingLeftOver
PROPERTY EventuallyDelivered
