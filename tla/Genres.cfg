SPECIFICATION Spec
CONSTANTS
  g1 = g1
  g2 = g2
  g3 = g3
  offline = offline
  online = online
  s1 = s1
  s2 = s2
  Genres <- ThreeGenres
  Places <- TwoPlaces
  Slots <- TwoSlots
SYMMETRY Symmetric
INVARIANT TypeOK
INVARIANT MarkedIsChosen
INVARIANT DiesBeforeFirstAnswer
