SPECIFICATION HelperFairSpec
CONSTANTS
  MaxEvents = 3
  MaxRuns = 3
  Programs <- AllPrograms
  Interface = TRUE
  RingMax = 2
  PipeMax = 1
  Kinds <- EventsAndNoise
  HelperFaults <- SetupFaults
INVARIANTS
  HelperTypeOK
  LeftoversHarmless
PROPERTIES
  SignalledRunsOut
  SignalledHelperEnds
  UnheardHelperEnds
