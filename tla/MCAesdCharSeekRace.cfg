CONSTANTS
  a = a
  nl = nl
  MAXW = 2
  Ptr = {b1, b2, b3}
  NULL = NULL
  Proc = {p1, p2}
  DeadTask = DeadTask
  ZERO_SIZE_PTR = ZERO_SIZE_PTR
  Byte <- MCByte
  NL = nl
  Junk = Junk
  Chunk <- MCChunk
  Count = {}
  WriteCmd = {0, 1}
  CmdOffset = {1}
  SeekOffset <- MCSeekOffset
  Faults = {}
  MaxEntry = 2
  MaxPos = 0
SYMMETRY PtrSymmetry
SPECIFICATION SeekSpec
PROPERTY SeekSeesOneBuffer
