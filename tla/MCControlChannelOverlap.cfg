\* The feed control at work during an I2C transfer.
SPECIFICATION Spec
CONSTANTS
  Callers = {c1}
  Attacher = attacher
  Streamer = streamer
  Nobody = Nobody
  Old = Old
  NoTag = NoTag
  Tags <- MCTags
  I2cResults = {TRUE}
  Pins = {0}
  StaleByte = 97
  Calls <- ShortCalls
  SLOW = FALSE
  OVERLAP = {streamer}
PROPERTIES FrameIntegrity
