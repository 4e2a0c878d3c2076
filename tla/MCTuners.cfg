\* Each tuner driver on its own, with transfers that fail in every way.
SPECIFICATION Spec
CONSTANTS
  Frequencies <- MCFrequencies
  Bandwidths <- MCBandwidths
  TRIALS = 2
  MxlRequests <- MCRequests
  MxlConfig <- MCConfig
  MaxFaults = 2
INVARIANTS TypeOKStv CacheAgrees TunedAsAsked TypeOKMxl TunedComplete CountIsUsers
PROPERTIES CalibratesInOrder StvReturns QuietWhileSet
