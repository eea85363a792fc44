CONSTANTS
  MAXW = 3
  Ptr = {p1, p2}
  NULL = NULL
  Size = {0, 1, 2}
SPECIFICATION Spec
INVARIANT TypeOK
INVARIANT Ring
INVARIANT FindMatchesConcatenation
PROPERTY RecentSpec
