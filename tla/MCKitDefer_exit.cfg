CONSTANTS
  MaxNodes = 3
  Forms = {"exit"}
SPECIFICATION Spec
INVARIANT IteratorsFollowDefers
CHECK_DEADLOCK FALSE
