\* The firmware's I2C master; three bus errors are the limit, counters wrap at 3.
SPECIFICATION Spec
CONSTANTS
  Messages <- MCMessages
  ReadLengths = {0, 1, 2}
  ChipBytes = {7, 8}
  I2C_BERR_MAX_RETRY = 3
  WordSize = 3
  NoCall = NoCall
INVARIANTS TypeOK WholeTransfer NoSilentRepeat FailuresExplained
PROPERTIES GiveUpsCounted ImplementsService
