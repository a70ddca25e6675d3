CONSTANTS
  FuseThreads = {t1, t2}
  WebThreads = {}
  Handles = {h1, h2}
  DngPaths = {p1, p2}
  GifPaths = {}
  MaxUnused = 0
  MaxTotal = 1
  MaxRequests = 6
  FhPersists = FALSE
  CallbackMayFail = FALSE
  AllocMayFail = FALSE
  None = None
SPECIFICATION FairSpec
PROPERTY CleanupSparesPointers
