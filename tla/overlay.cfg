CONSTANTS
  x = x
  y = y
  d = d
  n = n
  r1 = r1
  r2 = r2
  n1 = n1
  Stems = {x, y, d, n}
  Recordings = {r1, r2}
  Notes = {n1}
  Empty = Empty
  Dir = Dir
  UserPaths <- MCUserPaths
  Moves <- MCMoves
  FirstDisk <- MCFirstDisk
  MaxSteps = 3
SPECIFICATION Spec
CHECK_DEADLOCK FALSE
INVARIANT TypeOK
INVARIANT ListedResolves
INVARIANT SavedStays
PROPERTY ClipsSurvive
PROPERTY AttrsOfClip
