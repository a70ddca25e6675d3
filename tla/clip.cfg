CONSTANTS
  Recordings <- MCRecordings
  HeaderSize = 2
  BytesPerSecond = 3
  FpsNom = 1
  FpsDenom = 1
  None = None
  Width = 4
  Height = 2
  DngHeaderSize = 2
  Sample <- MCSample
  ReadSizes = {1, 3, 18}
  SubBlockSize = 5
  PreviewSizes <- MCPreviewSizes
  GifHeader = 3
  GifFrameHeader = 2
SPECIFICATION Spec
INVARIANT TypeOK
INVARIANT IndexInOrder
INVARIANT HeadersInForce
INVARIANT WavIsRecording
INVARIANT DngIsFrame
INVARIANT PreviewFits
