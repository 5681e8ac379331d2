CONSTANTS
  Vreg = {0, 1, 2}
  Special = {0}
  Phys = {3, 4}
  Spilled = Spilled
  Condition = {0}
  MaxIns = 5
SPECIFICATION Spec
INVARIANTS TypeOK RangesDisjoint ValuesSurvive DestinationApart
PROPERTY NoNeedlessSpill
CHECK_DEADLOCK FALSE
