SPECIFICATION Spec
CONSTANTS
  e1 = e1
  e2 = e2
  all = all
  some = some
  Events = {e1, e2}
  Words = {all, some}
  All = all
  Matches <- SearchMatches
  Bookmarked <- InOrder
  MaxLists = 2
  MaxToggles <- TwoInBookmarks
  Elsewhere <- AnyInSearch
INVARIANTS TypeOK InPlace ButtonsTell Settled
CHECK_DEADLOCK FALSE
