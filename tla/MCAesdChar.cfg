CONSTANTS
  a = a
  nl = nl
  MAXW = 2
  Ptr = {b1, b2, b3}
  NULL = NULL
  Proc = {p1, p2}
  DeadTask = DeadTask
  ZERO_SIZE_PTR = ZERO_SIZE_PTR
  Byte <- MCByte
  NL = nl
  Junk = Junk
  Chunk <- MCChunkSmall
  Count = {2}
  WriteCmd = {1, 2}
  CmdOffset = {2}
  SeekOffset <- MCSeekOffset
  Faults = {"signal", "kmalloc", "krealloc", "copy_from_user", "copy_to_user"}
  MaxEntry = 2
  MaxPos = 0
SPECIFICATION Spec
SYMMETRY Symmetry
CONSTRAINT FewSeekers
INVARIANT TypeOK
INVARIANT HeapExact
INVARIANT RingWhenUnlocked
INVARIANT DriverInv
PROPERTY OnlyFailedWritesMiscount
PROPERTY DeviceSpec
