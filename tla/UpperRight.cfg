\* The blocks of a picture of 3 by 2 macroblocks.
CONSTANTS
  MbCols = 3
  MbRows = 2
  Magnitudes = {1}
  Palettes <- MCPalettes
  Predictions <- MCPredictions
  Residuals <- MCLevels
SPECIFICATION MCSpec
INVARIANT UpperRightWritten
CHECK_DEADLOCK FALSE
