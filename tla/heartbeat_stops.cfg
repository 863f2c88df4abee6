SPECIFICATION FairSpec
CONSTANTS
  MaxEpochs = 1
  MaxEvents = 1
  Endpoints <- AllEndpoints
  Faults <- BeatFaults
  QueueMax = 1
  BatchSize = 1
  Collectors <- KernelOnly
  FailOpen = TRUE
  MaxSignals = 0
PROPERTIES
  HeartbeatsGoOn
