SPECIFICATION SpecDeclarations
CONSTANTS
  Numbers <- MCNumbers
  Names <- MCNames
  constants <- MCConstants
  TypeSizes <- MCTypeSizes
  CastTypes <- MCCastTypes
  Width = 8
  MaxLen <- MCMaxLen
  FreeLen = 3
  LongType = "int64_t"
  Lengths <- MCLengths
  Parameters <- MCParameters
  Depth = 3
  None = None
CHECK_DEADLOCK FALSE
INVARIANTS
  
  
  RightOrRefused
  Accepts
