CONSTANTS
  Obj = {o1}
  Null = Null
  ArgRegs = 1
  GenRegs = 1
  Stack = 1
  MaxDepth = 2
  MaxArgs = 2
  Width = 2
  Globals = 1
SPECIFICATION FairSpec
INVARIANTS TypeOK CountsExact FramesAreClean
PROPERTIES ErrorReachesHost 
