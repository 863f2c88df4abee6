SPECIFICATION FairSpec
CONSTANTS
  MaxEvents = 0
  MaxRuns = 1
  Programs <- Repository
  Interface = FALSE
  RingMax = 1
  PipeMax = 1
  Kinds <- OnlyEvents
  HelperFaults <- SetupOnly
  FailOpen = FALSE
  MaxSignals = 0
  Faults <- NoFaults
PROPERTIES
  NoFailOpenExits
