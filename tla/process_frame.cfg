CONSTANTS
  c1 = c1
  c2 = c2
  Threads = {t1, t2}
  Clips = {c1, c2}
  Frames = {f1, f2}
  DarkFrames = {f2}
  MaxDeveloped = 2
  OddClips = {c2}
  AllocMayFail = TRUE
  None = None
  Cameras = {"with map", "without map"}
  FocusFiles = {"with map"}
  Guids = {0, 1}
  RingSize = 1
  CameraOf <- camera_of
  GuidOf <- guid_of
  BlackOf <- black_of
  DualClips = {c1, c2}
  Settings <- settings
  MaxBegun = 2
  MaxChanges = 1
  Images <- images
  Predictors = {0, 1, 2, 3, 4, 5, 6, 7}
  Paddings <- paddings
  Scenes <- scenes
  Gains = {1, 2, 8}
  Black = 2
  White = 21
  CounterBits = 16
  RoughWhite = 18
  Heights = {5, 6, 7, 8, 9}
  Interlaced <- interlaced
  Strings <- strings
  Rates <- rates
  Numbers <- numbers
  Sizes <- sizes
  Evs = {0, 1, 1000}
  Suspects <- suspects
  Noisy <- noisy
  Strength = 8
  MinCount = 3
  Blots <- blots
  EvResolution = 1
  Arrays <- arrays
  Windows <- windows
SPECIFICATION Run
SYMMETRY Interchangeable
INVARIANT FrameTypeOK
INVARIANT OneCorrection
INVARIANT OwnMaps
INVARIANT LevelsMatch
INVARIANT OwnTables
INVARIANT LosslessExact
INVARIANT RowsFound
INVARIANT OneExposure
INVARIANT RepairedInPlace
INVARIANT HeaderWellFormed
INVARIANT NoiseRemoved
INVARIANT MediansExact
