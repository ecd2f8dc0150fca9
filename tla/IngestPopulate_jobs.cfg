SPECIFICATION IngestSpec
CONSTANTS
  Jobs <- AllJobs
  BatchSize = 2
  Retries = 3
  MaxAttempts = 2
  Unlucky <- FewJobs
  MaxMishaps = 4
INVARIANTS SharesAreSlices EveryTileOnce CountIsTrue
