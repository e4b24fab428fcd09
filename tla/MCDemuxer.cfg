\* Every kind of reader, no custom parser.
CONSTANTS
  PIDs <- MCPIDs
  CCMod = 2
  MaxUnit = 4
  Packets <- TapePackets
  Shapes <- MCShapes
  MaxTape = 4
  MaxRewinds = 1
  Readers <- AllReaders
  ParserOutcomes <- MCNoParser
SPECIFICATION DemuxSpec
INVARIANTS
  DemuxTypeOK
  PoolHoldsUnits
  FlushesUnits
  NothingStale
  EndIsFinal
  InStreamOrder
  PMTAfterPAT
  PESComplete
