SPECIFICATION Spec
CONSTANTS
  MaxEpochs = 2
  MaxEvents = 3
  Endpoints <- NoHeartbeats
  Faults <- PromptFaults
  QueueMax = 2
  BatchSize = 0
  Collectors <- BothCollectors
  FailOpen = FALSE
  MaxSignals = 1
INVARIANTS
  StreamInv
  InStepWithServer
PROPERTIES
  SequenceIncreases
