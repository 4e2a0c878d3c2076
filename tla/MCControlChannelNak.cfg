\* A write the chip does not acknowledge.
SPECIFICATION Spec
CONSTANTS
  Callers = {c1}
  Attacher = attacher
  Streamer = streamer
  Nobody = Nobody
  Old = Old
  NoTag = NoTag
  Tags <- MCTags
  I2cResults = {TRUE, FALSE}
  Pins = {0}
  StaleByte = 97
  Calls <- ShortCalls
  SLOW = FALSE
  OVERLAP = {}
INVARIANTS NoSilentFailure
