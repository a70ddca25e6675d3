CONSTANTS
  Threads = {t1, t2}
  short = short
  long = long
  Clips = {short, long}
  Old = Old
  Hole = Hole
  Size <- IndexSize
  MaxCalls = 3
  MaxFaults = 1
  MaxReplacements = 1
  None = None
SPECIFICATION Spec
SYMMETRY Interchangeable
INVARIANT TypeOK
INVARIANT ReturnsWholeIndex
INVARIANT RepairsIndex
INVARIANT RacingWritersAgree
