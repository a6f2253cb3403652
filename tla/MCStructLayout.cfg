SPECIFICATION Spec
CONSTANTS
  Members <- MCMembers
  Values <- MCValues
  MaxMembers = 3
CHECK_DEADLOCK FALSE
INVARIANTS
  NoOverlap
  SizeCovers
  Kept
