\* Two callers contending for the channel of a firmware that answers in time or not.
\* SLOW is that of the first; the calls of the second are in the module.
SPECIFICATION TimingSpec
CONSTANTS
  Callers = {c1, c2}
  Attacher = attacher
  Streamer = streamer
  Nobody = Nobody
  Old = Old
  NoTag = NoTag
  Tags <- MCTags
  I2cResults = {TRUE, FALSE}
  Pins = {0}
  StaleByte = 97
  Calls <- ShortCalls
  SLOW = FALSE
  OVERLAP = {}
PROPERTIES AnswersMatchInTime FramesAreServedInTime EveryCallReturns
