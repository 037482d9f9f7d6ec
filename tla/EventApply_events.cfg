SPECIFICATION Spec
CONSTANTS
  Events = {e1, e2}
  Prefectures = {p1}
  None = none
  MaxLoads = 1
  MaxSent = 2
SYMMETRY Symmetry
INVARIANTS TypeOK OldIsJoined
PROPERTY RowsStay
CHECK_DEADLOCK FALSE
