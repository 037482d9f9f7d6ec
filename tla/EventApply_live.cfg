SPECIFICATION FairSpec
CONSTANTS
  Events = {e1}
  Prefectures = {p1}
  None = none
  MaxLoads = 1
  MaxSent = 2
PROPERTY SheetIsLeft
CHECK_DEADLOCK FALSE
