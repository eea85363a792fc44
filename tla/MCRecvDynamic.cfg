CONSTANTS
  MAX_BUF_SIZE = 4
  Arriving = {1, 2, 3, 4, 5}
  MaxBytes = 20
CHECK_DEADLOCK FALSE
SPECIFICATION FairSpec
INVARIANT TypeOK
INVARIANT CopyStaysInBlock
INVARIANT TerminatorInBlock
PROPERTY LeavesOnShutdown
