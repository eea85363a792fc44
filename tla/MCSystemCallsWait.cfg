CONSTANTS
  Caller = {t1, t2}
  Function = {"exec"}
  Pid = {1, 2}
  Fd = {3}
  Faults = {}
  MaxCalls = 2
CHECK_DEADLOCK FALSE
SPECIFICATION Spec
INVARIANT TrueMeansOwnSuccess
