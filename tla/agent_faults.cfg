SPECIFICATION Spec
CONSTANTS
  MaxEpochs = 2
  MaxEvents = 3
  Endpoints <- NoHeartbeats
  Faults <- StreamFaults
  QueueMax = 2
  BatchSize = 2
  Collectors <- KernelOnly
  FailOpen = TRUE
  MaxSignals = 1
INVARIANTS
  TypeOK
  PrefixStored
  NoStrandedBuffer
  StreamInv
  NoSilentLoss
PROPERTIES
  ImplementsChannel
  NoSequenceGap
