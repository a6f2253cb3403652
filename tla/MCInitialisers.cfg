SPECIFICATION Spec
CONSTANTS
  Ctypes <- MCCtypes
  Names <- MCNames
  Values <- MCValues
  NewArgs <- MCNewArgs
  AssignArgs <- MCAssignArgs
  Guard = 3
  MaxCalls = 3
  Depth = 3
CHECK_DEADLOCK FALSE
INVARIANTS
  InBounds
  
