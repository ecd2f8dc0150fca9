SPECIFICATION FairSpec
CONSTANTS
  Instances <- One
  Tries = 3
  MaxFaults = 4
PROPERTIES SickGetsNoTraffic OutOfServiceEnds HealthyIsResolved GoneIsForgotten
