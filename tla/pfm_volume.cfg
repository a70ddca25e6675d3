CONSTANTS
  Names = {dng, a, b, x}
  XmpNames = {x}
  VirtualName = dng
  a = a
  b = b
  ListIds = {l1}
  MaxFiles = 4
  MaxLists = 1
  MaxClosing = 1
  CyclicMoves = FALSE
  None = None
SPECIFICATION Spec
CHECK_DEADLOCK FALSE
SYMMETRY Interchangeable
INVARIANT VolumeTypeOK
INVARIANT Consistent
INVARIANT ListingComplete
INVARIANT LivesWhileNeeded
