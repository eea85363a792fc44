CONSTANTS
  Client = {c1, c2, c3}
  NULL = NULL
  Destroyed = Destroyed
  NL = NL
  Capacity = 2
  ReadSize = 3
  SeekCmd = {0}
  SeekOff = {1}
  BACK_LOG = 2
  FdLimits = {4}
  Signals = 0
  Faults = {"nul", "oops", "badseek", "recv", "open", "write", "malloc", "eagain"}
SYMMETRY ClientSymmetry
CHECK_DEADLOCK FALSE
SPECIFICATION Spec
INVARIANT TypeOK
INVARIANT RecordsOutliveThreads
INVARIANT ReplyIsDeviceContents
