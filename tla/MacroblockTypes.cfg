\* The first of the I16x16 types.
CONSTANTS
  MbTypeCodes = {0, 1, 2, 3}
  ChromaCodes = {0}
  CbpCodes = {3}
  TotalCoeffs = {0}
SPECIFICATION Spec
INVARIANT MbTypesFollowTable
CHECK_DEADLOCK FALSE
