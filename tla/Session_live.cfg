SPECIFICATION FairSpec
CONSTANTS
  u1 = u1
  u2 = u2
  s1 = s1
  s2 = s2
  Users <- TwoUsers
  Team = team
  None = none
  Slots <- TwoSlots
  MaxSignIns = 2
  MaxDismissals = 1
  MaxKills = 1
PROPERTIES LeavesSplash HudLowered
CHECK_DEADLOCK FALSE
