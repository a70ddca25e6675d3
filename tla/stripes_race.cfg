CONSTANTS
  Threads = {t1, t2}
  Clips = {c1}
  Frames = {f1, f2, f3}
  DarkFrames = {f3}
  MaxDeveloped = 2
  OddClips = {}
  AllocMayFail = FALSE
  None = None
SPECIFICATION FairSpec
INVARIANT OneCorrection
