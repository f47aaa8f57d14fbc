\* A picture of one macroblock by two.
CONSTANTS
  MbCols = 1
  MbRows = 2
  Magnitudes = {1}
  Palettes <- MCPalettes
  Predictions <- MCPredictions
  Residuals <- MCLevels
SPECIFICATION MCSpec
INVARIANT PictureComplete
CHECK_DEADLOCK FALSE
