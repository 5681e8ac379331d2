CONSTANTS
  o1 = o1
  o2 = o2
  Str = {o1, o2}
  Text <- SameText
  Plain <- Numbers
  Digest <- OneDigest
  MinCapacity = 1
  Run = 2
  MaxCells = 4
  MaxCapacity = 4
  MaxLiteral = 2
  MaxSurplus = 1
SYMMETRY Either
SPECIFICATION Spec
INVARIANTS TypeOK  MapFits
PROPERTIES ImplementsCollection AssignIsUnderItsKey 
CHECK_DEADLOCK FALSE
