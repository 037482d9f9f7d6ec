SPECIFICATION FairSpec
CONSTANTS
  a1 = a1
  a2 = a2
  r1 = r1
  r2 = r2
  Rooms = {r1, r2}
  Accounts = {a1}
  RoomsOf <- Alone
  None = none
  Slots = {s1}
  MaxLookups = 2
  MaxMatches = 1
  MaxChanges = 2
  MaxKills = 1
PROPERTIES MatchIsKept LeftIsForgotten
