\* Each reader alone; a read, a walk, a parse, a lookup or a block that has
\* ended stops.
CONSTANTS
  W = 4
  Streams <- MCStreams
  Starts <- MCStarts
  TeMaxima = {1, 2}
  Sent <- MCSent
  RawStreams <- MCRawStreams
  SpsOptions <- MCSps
  PpsOptions <- MCPps
  SliceOptions <- MCSlices
  Variants = {"Vlc0", "Vlc1", "Vlc2", "ChromaDc420", "FixedLen6"}
  CoeffTokens <- MCTokens
  TotalZeros <- MCTotalZeros
  RunBefore <- MCRunBefore
  Totals <- MCTotals
  PrefixSamples <- MCPrefixes
  SuffixSamples <- MCSuffixes
  Tables <- AllTables
  Garbage = Garbage
  Parts = {"bits", "framer", "headers", "lookup", "levels", "placement"}
SPECIFICATION MCSpec
INVARIANTS
  ReadsOwnCode
  UnitsYielded
  FlagOfSlice
  InStep
  ScopeEnforced
  CodewordsDecode
  SlotsFilled
  PlacementInBounds
  LevelsPlaced
CHECK_DEADLOCK FALSE
