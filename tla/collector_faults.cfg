SPECIFICATION Spec
CONSTANTS
  MaxEvents = 3
  MaxRuns = 1
  Programs <- OneProgram
  Interface = FALSE
  RingMax = 1
  PipeMax = 2
  Kinds <- EventsAndUndecodable
  HelperFaults <- AllHelperFaults
  FailOpen = TRUE
  MaxSignals = 1
  Faults <- AllFaults
INVARIANTS
  TypeOK
  OnlyTheRingLoses
  StopEndsHelper
PROPERTIES
  ImplementsSource
