CONSTANTS
  LeafCount = 2
  InitBranches = 1
  MaxBranches = 4
  None = None
SPECIFICATION Spec
INVARIANTS TypeOK InUseIsBacked
PROPERTIES AcquireIsFresh  InUseUntilReturned ImplementsAllocator
