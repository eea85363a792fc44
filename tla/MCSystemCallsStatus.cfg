CONSTANTS
  Caller = {t1}
  Function = {"system"}
  Pid = {1}
  Fd = {3}
  Faults = {}
  MaxCalls = 1
CHECK_DEADLOCK FALSE
SPECIFICATION Spec
INVARIANT SystemTrueMeansSuccess
