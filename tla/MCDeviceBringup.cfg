\* Every way of bringing the device up, with three things going wrong.
SPECIFICATION Spec
CONSTANTS
  Images <- MCImages
  MaxFaults = 3
INVARIANTS TypeOK RunsWholeImages StartedIfGood DemodsReleased
PROPERTY ComesUp
