SPECIFICATION Spec
CONSTANTS
  Events = {e1}
  Prefectures = {p1, p2}
  None = none
  MaxLoads = 1
  MaxSent = 2
SYMMETRY Symmetry
 
PROPERTY SendsDifference
CHECK_DEADLOCK FALSE
