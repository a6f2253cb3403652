SPECIFICATION SpecPointers
CONSTANTS
  Bits <- MCBits
  PointerSize = 2
  Literals <- MCLiterals
  Limit = 33
  Objects <- MCObjects
  Members <- MCMembers
  Types <- MCTypes
  None = None
CHECK_DEADLOCK FALSE
INVARIANTS
  
  Ordered
  TypedAccess
  ConstKept
