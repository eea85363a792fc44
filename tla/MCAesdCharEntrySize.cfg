CONSTANTS
  a = a
  nl = nl
  MAXW = 2
  Ptr = {b1, b2, b3}
  NULL = NULL
  Proc = {p1}
  DeadTask = DeadTask
  ZERO_SIZE_PTR = ZERO_SIZE_PTR
  Byte <- MCByte
  NL = nl
  Junk = Junk
  Chunk <- MCChunk
  Count = {}
  WriteCmd = {}
  CmdOffset = {}
  SeekOffset = {}
  Faults = {"copy_from_user"}
  MaxEntry = 2
  MaxPos = 0
SPECIFICATION Spec
INVARIANT EntrySizeIsBytesStored
