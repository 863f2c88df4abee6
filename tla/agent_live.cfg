SPECIFICATION FairSpec
CONSTANTS
  MaxEpochs = 1
  MaxEvents = 3
  Endpoints <- AllEndpoints
  Faults <- LiveFaults
  QueueMax = 1
  BatchSize = 2
  Collectors <- BothCollectors
  FailOpen = TRUE
  MaxSignals = 2
PROPERTIES
  EventuallyStored
  EnqueueReturns
  SignalEndsProcess
