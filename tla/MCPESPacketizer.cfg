\* Fields without stuffing; the writer may fail and the call be repeated.
CONSTANTS
  PacketSize = 188
  CCMod = 3
  MaxCalls = 3
  MuxerDatas <- CleanDatas
  WriterFails = TRUE
  Retried <- AsCounted
SPECIFICATION PESFairSpec
INVARIANTS
  PESTypeOK
  NoSizeError
  NoTrailingPadding
  AFLengthTrue
  PayloadSplitExactly
  Numbered
PROPERTY CallReturns
CHECK_DEADLOCK FALSE
