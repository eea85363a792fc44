CONSTANTS
  Caller = {t1, t2}
  Function = {"system", "exec", "redirect"}
  Pid = {1, 2}
  Fd = {3}
  Faults = {"open", "fork", "dup2", "exec", "eintr"}
  MaxCalls = 3
CHECK_DEADLOCK FALSE
SPECIFICATION FairSpec
INVARIANT TypeOK
INVARIANT OrderlyCallsStayAlone
INVARIANT LoneCallReportsItsCommand
 
INVARIANT FileHoldsCommandOutput
 
PROPERTY CallsReturn
