CONSTANTS
  FuseThreads = {t1, t2}
  WebThreads = {web}
  Handles = {h1, h2}
  DngPaths = {p1}
  GifPaths = {g}
  MaxUnused = 0
  MaxTotal = 1
  MaxRequests = 4
  FhPersists = FALSE
  CallbackMayFail = TRUE
  AllocMayFail = FALSE
  None = None
SPECIFICATION FairSpec
PROPERTY EveryRequestReturns
