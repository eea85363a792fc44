CONSTANTS
  Client = {c1}
  NULL = NULL
  Destroyed = Destroyed
  NL = NL
  Capacity = 2
  ReadSize = 3
  SeekCmd = {0}
  SeekOff = {1}
  BACK_LOG = 2
  FdLimits = {4}
  Signals = 1
  Faults = {}
CHECK_DEADLOCK FALSE
SPECIFICATION FairSpec
PROPERTY SignalStops
