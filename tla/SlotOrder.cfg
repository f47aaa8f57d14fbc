\* The placement alone, which stops at the end of a block.
CONSTANTS
  W = 4
  Streams <- MCStreams
  Starts <- MCStarts
  TeMaxima = {1, 2}
  Sent <- MCSent
  RawStreams <- MCRawStreams
  SpsOptions <- MCSps
  PpsOptions <- MCPps
  SliceOptions <- MCSlices
  Variants = {"Vlc0", "Vlc1", "Vlc2", "ChromaDc420", "FixedLen6"}
  CoeffTokens <- MCTokens
  TotalZeros <- MCTotalZeros
  RunBefore <- MCRunBefore
  Totals <- MCTotals
  PrefixSamples <- MCPrefixes
  SuffixSamples <- MCSuffixes
  Tables <- AllTables
  Garbage = Garbage
  Parts = {"placement"}
SPECIFICATION MCSpec
INVARIANT FirstSignHighest
CHECK_DEADLOCK FALSE
