\* Two callers and the feed control with a firmware that may answer too late.
SPECIFICATION Spec
CONSTANTS
  Callers = {c1, c2}
  Attacher = attacher
  Streamer = streamer
  Nobody = Nobody
  Old = Old
  NoTag = NoTag
  Tags <- MCTags
  I2cResults = {TRUE}
  Pins = {0}
  StaleByte = 97
  Calls <- MixedCalls
  SLOW = TRUE
  OVERLAP = {}
INVARIANTS TypeOK StreamingAgrees AnswerFits
PROPERTIES FrameIntegrity
