SPECIFICATION FairSpec
CONSTANTS
  MayInterrupt = TRUE
  MaxRetries = 2
  IncomingQueueDepth = 2
  MaxStdin = 2
INVARIANT NoOrphan
PROPERTY ServerFollows
PROPERTY ClientFollows
PROPERTY ShutdownEnds
