SPECIFICATION FairSpec
CONSTANTS
  Items = {1, 2}
  Cuboids = {"c", "d"}
  Channels <- BothChannels
  MaxItems = 1
  BatchSize = 2
  IdChunkSize = 2
  LastAttempt = 2
  Retries = 0
  MaxReceives = 0
  MaxTroubles = 1
INVARIANTS NothingIsForgotten FailuresAreReported
PROPERTY KeepsTheBooks
\* All work is done.
CHECK_DEADLOCK FALSE
