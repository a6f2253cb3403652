SPECIFICATION Spec
CONSTANTS
  Fns <- MCFns
  Callbacks <- MCCallback
  Globals <- globals
  CodeSize <- MCSize
  PageIds <- MCPages
  Refs <- MCRefs
  Nil = Nil
  PageHdr = 1
  JumpSize = 1
  NLinks = 2
  HeadSize = 1
  Granule = 8
  MaxNest = 0
  Faults <- FaultKinds
  globals = globals
  f1 = f1
  f2 = f2
  cb = cb
  a1 = a1
  a2 = a2
  a3 = a3
  r1 = r1
  r2 = r2
SYMMETRY MCSymmetry
CHECK_DEADLOCK FALSE
INVARIANTS
  TypeOK
  LiveCodeMapped
  LiveCodeDisjoint
  LiveCodeExecutable
  PagesAreMapped
  FreedIsExact
  CommitsWhereReserved
  NeverStops
  RefsKept
  LinkedBeforeCode
PROPERTIES
  UnmapsLast
