\* Two sessions on a device that is opened before init has run.
SPECIFICATION Spec
CONSTANTS
  Sessions = {s1, s2}
  None = None
  EARLY_OPEN = TRUE
INVARIANT Exclusive
