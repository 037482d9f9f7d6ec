SPECIFICATION Spec
CONSTANTS
  a = a
  b = b
  None = None
  Blank = Blank
  Values = {a, b}
  Event <- OldEvent
  MaxPosts = 1
PROPERTY AsksForBlanks
CHECK_DEADLOCK FALSE
