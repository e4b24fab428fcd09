\* The error of the dump loop reaches the client.
CONSTANTS
  PIDs <- MCPIDs
  CCMod = 2
  MaxUnit = 4
  Packets <- TapePackets
  Shapes <- EndShapes
  MaxTape = 3
  MaxRewinds = 0
  Readers <- AllReaders
  ParserOutcomes <- MCNoParser
SPECIFICATION DemuxSpec
INVARIANT EndReported
