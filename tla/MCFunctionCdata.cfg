SPECIFICATION Spec
CONSTANTS
  Null = Null
  NilFn = NilFn
  Dead = Dead
  Absent = Absent
  Pinned = Pinned
  c1 = c1
  c2 = c2
  k1 = k1
  k2 = k2
  cl1 = cl1
  cl2 = cl2
  f1 = f1
  f2 = f2
  strlen = strlen
  Cdatas <- MCCdatas
  Blocks <- MCBlocks
  LuaFns <- MCLuaFns
  MaxStack <- MCMaxStack
  Programs <- MCPrograms
  Closures <- MCClosures
  CFns <- MCCFns
CHECK_DEADLOCK FALSE
SYMMETRY MCSymmetry
INVARIANTS
  PinnedWhileLive
  ActiveCodeLive
  ClosureMatches
  
PROPERTIES
  KeepsPromise
