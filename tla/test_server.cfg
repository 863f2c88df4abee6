SPECIFICATION Spec
CONSTANTS
  MaxEpochs = 1
  MaxEvents = 1
  Endpoints <- TestServer
  Faults <- NoFaults
  QueueMax = 1
  BatchSize = 1
  Collectors <- KernelOnly
  FailOpen = TRUE
  MaxSignals = 0
INVARIANTS
  StartSucceeds
