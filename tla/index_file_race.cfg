CONSTANTS
  Threads = {t1, t2}
  short = short
  long = long
  Clips = {long}
  Old = Old
  Hole = Hole
  Size <- IndexSize
  MaxCalls = 2
  MaxFaults = 0
  MaxReplacements = 0
  None = None
SPECIFICATION FairSpec
INVARIANT GeneratesIfNecessary
