CONSTANTS
  ArgRegs = 2
  Fuel = 12
  Rounds = 2
  Levels = {2}
  Topics <- CopiedOnly
SPECIFICATION Spec
INVARIANTS VectorsAreValues
CHECK_DEADLOCK FALSE
