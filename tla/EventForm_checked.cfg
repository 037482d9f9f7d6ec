SPECIFICATION FairSpec
CONSTANTS
  a = a
  b = b
  None = None
  Blank = Blank
  Values = {a, b}
  Event <- OldEvent
  MaxPosts = 2
INVARIANTS TypeOK HudIsBusy OneEvent AsShown
PROPERTY HudLowered
CHECK_DEADLOCK FALSE
