CONSTANTS
  Obj = {o1}
  Null = Null
  ArgRegs = 1
  GenRegs = 1
  Stack = 1
  MaxDepth = 1
  MaxArgs = 2
  Width = 2
  Globals = 0
SPECIFICATION SpecWithPop
INVARIANT OnlyTheHoldIsReleased
