CONSTANTS
  Names = {dng, a}
  XmpNames = {}
  VirtualName = dng
  a = a
  b = b
  ListIds = {l1}
  MaxFiles = 3
  MaxLists = 1
  MaxClosing = 0
  CyclicMoves = TRUE
  None = None
SPECIFICATION Spec
CHECK_DEADLOCK FALSE
INVARIANT NotUnderItself
