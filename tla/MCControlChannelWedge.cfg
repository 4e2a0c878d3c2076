\* A write after a read that has timed out.
SPECIFICATION FairSpec
CONSTANTS
  Callers = {c1}
  Attacher = attacher
  Streamer = streamer
  Nobody = Nobody
  Old = Old
  NoTag = NoTag
  Tags <- MCTags
  I2cResults = {TRUE}
  Pins = {0}
  StaleByte = 97
  Calls <- ShortCalls
  SLOW = TRUE
  OVERLAP = {}
PROPERTIES FramesAreServed
