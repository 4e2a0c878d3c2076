\* Two sessions on a device whose init has run before it can be opened.
SPECIFICATION FairSpec
CONSTANTS
  Sessions = {s1, s2}
  None = None
  EARLY_OPEN = FALSE
INVARIANTS TypeOK Exclusive CountMatches RouteHeld
PROPERTIES CallsReturn ImplementsBus
