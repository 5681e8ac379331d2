CONSTANTS
  MaxNodes = 4
  Forms = {}
SPECIFICATION Spec
INVARIANTS TypeOK JumpsResolve NothingOvertakes
PROPERTY DeferredInTurn
CHECK_DEADLOCK FALSE
