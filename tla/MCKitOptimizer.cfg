CONSTANTS
  ArgRegs = 2
  Fuel = 12
  Rounds = 2
  Levels = {0, 2, 3}
  Topics <- AllTopics
SPECIFICATION Spec
INVARIANTS LabelsResolve CompiledMeans PassesKeepMeaning
PROPERTIES PassesSpec
CHECK_DEADLOCK FALSE
