CONSTANTS
  MaxNodes = 3
  Forms = {"end"}
SPECIFICATION Spec
INVARIANT ReturnRunsDefers
CHECK_DEADLOCK FALSE
