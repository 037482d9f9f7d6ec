SPECIFICATION Spec
CONSTANTS
  MaxViews = 5
  MaxAsked = 2
INVARIANT Transitionable
INVARIANT LastShown
INVARIANT LeftBehind
INVARIANT HeardIsCurrent
CHECK_DEADLOCK FALSE
