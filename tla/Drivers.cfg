\* Each program alone; one whose runs or sessions are used up, or that has
\* ended, stops.
CONSTANTS
  Coefficients <- MCCoefficients
  MaxFolds = 2
  Inputs <- MCInputs
  MinSizes = {0, 1, 3}
  LenMod = 4
  FrameSize = 2
  Chunk = 2
  MaxSteps = 2
  MaxRuns = 2
  Sizes <- MCSizes
  MaxSessions = 2
SPECIFICATION MCSpec
INVARIANTS
  FoldFollowsNative
  VerifiedMeansProved SavedPairMatches
  ResultSurvivesCrash ComparisonIsFresh
  PassMeansDone SafeToTerminate
CHECK_DEADLOCK FALSE
