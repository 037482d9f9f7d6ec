SPECIFICATION Spec
CONSTANTS
  a1 = a1
  a2 = a2
  r1 = r1
  r2 = r2
  Rooms = {r1, r2}
  Accounts = {a1, a2}
  RoomsOf <- OneTeam
  None = none
  Slots = {s1, s2}
  MaxLookups = 2
  MaxMatches = 2
  MaxChanges = 1
  MaxKills = 1
SYMMETRY Symmetry
INVARIANTS TypeOK ShownJoined DuplicateSource OwnRooms
PROPERTY ListHeals
