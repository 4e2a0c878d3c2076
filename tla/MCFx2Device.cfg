\* Firmware command loop under the most general host.
SPECIFICATION FairSpec
CONSTANTS
  Tags = {f1, f2}
  NoTag = NoTag
  I2cResults = {TRUE, FALSE}
  Pins = {0}
  StaleByte = 97
  Frames <- MCFrames
INVARIANTS TypeOKFx2 ParserInSync BuffersReserved
PROPERTIES AnswersIntact FramesAreServed ImplementsMailbox
