\* Mode 3 on slopes.
CONSTANTS
  MbCols = 1
  MbRows = 1
  Magnitudes = {1}
  Palettes <- MCPalettes
  Predictions <- MCDownLeft
  Residuals <- MCLevels
SPECIFICATION MCSpec
INVARIANT ReadsWhereItPoints
CHECK_DEADLOCK FALSE
