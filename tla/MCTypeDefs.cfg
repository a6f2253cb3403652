SPECIFICATION Spec
CONSTANTS
  foo = foo
  o1 = o1
  o2 = o2
  Names <- MCNames
  Objs <- MCObjs
  Shapes <- MCShapes
  PtrAlign = 7
  ArrayLen = 3
  MaxDepth = 2
  MaxBodies = 2
SYMMETRY MCSymmetry
INVARIANTS
  NoneLeftBehind
  
PROPERTIES
  DefinitionStable
