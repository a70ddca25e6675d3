CONSTANTS
  f1 = f1
  f2 = f2
  Files = {f1, f2}
  BlockSize = 2
  MaxBlocks = 2
  Slack = 0
  Payloads <- SomePayloads
  NULL = NULL
SPECIFICATION Spec
SYMMETRY Interchangeable
INVARIANT FileTypeOK
PROPERTY ByteFileSpec
