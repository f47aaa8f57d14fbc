\* Codes: each kind of mb_type, cbp codes for all, none and each quarter of the
\* luma with and without chroma, and one past each range.
CONSTANTS
  MbCounts <- MCMbCounts
  SliceBits <- MCSliceBits
  SliceQps <- MCSliceQps
  QpDeltas <- MCQpDeltas
  MbTypeCodes = {0, 1, 24, 25, 26}
  ChromaCodes = {0, 4, 256}
  CbpCodes = {1, 3, 13, 22, 29, 48}
  TotalCoeffs <- MCTotalCoeffs
  Slices <- MCSlices
  ExtraBits = {9}
  InvalidBits = {0, 6, 16}
SPECIFICATION FMSpec
INVARIANTS
  VariantsAgree ResidualsMatchHeader WorkBounded
PROPERTIES
  Returns ImplementsLoop
CHECK_DEADLOCK FALSE
