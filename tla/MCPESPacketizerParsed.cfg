\* Adaptation fields that still hold stuffing, as parsed ones do.
CONSTANTS
  PacketSize = 188
  CCMod = 3
  MaxCalls = 1
  MuxerDatas <- ParsedDatas
  WriterFails = FALSE
  Retried = {}
SPECIFICATION PESSpec
INVARIANT NoTrailingPadding
CHECK_DEADLOCK FALSE
