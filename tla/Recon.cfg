\* A picture of 3 by 2 macroblocks; levels up to past the clamp.
CONSTANTS
  MbCols = 3
  MbRows = 2
  Magnitudes = {1, 3, 64, 32768, 40000}
  Palettes <- MCPalettes
  Predictions <- MCPredictions
  Residuals <- MCLevels
SPECIFICATION MCSpec
INVARIANTS
  ReadsReconstructed PictureComplete
  ModesRecovered PredictsItsGeometry
  NeverOverflows ScalesExactly
CHECK_DEADLOCK FALSE
