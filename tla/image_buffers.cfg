CONSTANTS
  FuseThreads = {t1, t2}
  WebThreads = {web}
  Handles = {h1, h2}
  DngPaths = {p1, p2, p3}
  GifPaths = {g}
  MaxUnused = 0
  MaxTotal = 1
  MaxRequests = 5
  FhPersists = TRUE
  CallbackMayFail = FALSE
  AllocMayFail = TRUE
  None = None
SPECIFICATION Spec
SYMMETRY Interchangeable
INVARIANT TypeOK
INVARIANT ListInv
INVARIANT OneProducer
PROPERTY InUsePinned
PROPERTY OldestUnusedFirst
PROPERTY FrameCacheSpec
