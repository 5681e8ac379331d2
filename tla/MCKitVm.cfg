CONSTANTS
  Obj = {o1, o2}
  Null = Null
  ArgRegs = 2
  GenRegs = 1
  Stack = 0
  MaxDepth = 1
  MaxArgs = 2
  Width = 2
  Globals = 1
SPECIFICATION Spec
SYMMETRY Symmetry
INVARIANTS CountsExact NoDangling NothingForgotten
