\* The programs as in Drivers.cfg; the battery is the one that is asked about.
CONSTANTS
  Coefficients <- MCCoefficients
  MaxFolds = 0
  Inputs <- MCInputs
  MinSizes = {0, 1, 3}
  LenMod = 4
  FrameSize = 2
  Chunk = 2
  MaxSteps = 2
  MaxRuns = 2
  Sizes <- MCSizes
  MaxSessions = 2
SPECIFICATION MCSpec
INVARIANT FailureRecorded
CHECK_DEADLOCK FALSE
