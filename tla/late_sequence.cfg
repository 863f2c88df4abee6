SPECIFICATION Spec
CONSTANTS
  MaxEpochs = 2
  MaxEvents = 2
  Endpoints <- NoHeartbeats
  Faults <- LateFaults
  QueueMax = 2
  BatchSize = 2
  Collectors <- KernelOnly
  FailOpen = TRUE
  MaxSignals = 1
PROPERTIES
  SequenceIncreases
