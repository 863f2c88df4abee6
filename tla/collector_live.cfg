SPECIFICATION FairSpec
CONSTANTS
  MaxEvents = 4
  MaxRuns = 1
  Programs <- OneProgram
  Interface = FALSE
  RingMax = 1
  PipeMax = 1
  Kinds <- OnlyEvents
  HelperFaults <- KillOnly
  FailOpen = TRUE
  MaxSignals = 0
  Faults <- NoFaults
PROPERTIES
  RingDrains
  ReaderEnds
  PrintedArrives
