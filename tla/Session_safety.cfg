SPECIFICATION Spec
CONSTANTS
  u1 = u1
  u2 = u2
  s1 = s1
  s2 = s2
  Users <- TwoUsers
  Team = team
  None = none
  Slots <- TwoSlots
  MaxSignIns = 2
  MaxDismissals = 2
  MaxKills = 2
SYMMETRY Symmetry
INVARIANTS TypeOK DiskAgrees NormalIsSignedIn StoredPair OneLaunchChain HeardOnDisplay HudHasEnd
PROPERTIES MixUp SeenAsAccount
CHECK_DEADLOCK FALSE
