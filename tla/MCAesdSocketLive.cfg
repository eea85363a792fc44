CONSTANTS
  Client = {c1, c2}
  NULL = NULL
  Destroyed = Destroyed
  NL = NL
  Capacity = 1
  ReadSize = 2
  SeekCmd = {}
  SeekOff = {1}
  BACK_LOG = 2
  FdLimits = {1, 3}
  Signals = 1
  Faults = {"startup", "leave", "oops", "badseek", "pthread_create", "write", "malloc", "read", "eagain"}
CHECK_DEADLOCK FALSE
SPECIFICATION FairSpec
INVARIANT RecordsOutliveThreads
PROPERTY LineIsHandled
PROPERTY ShutdownCompletes
