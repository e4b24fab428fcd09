\* Streams of up to 5 packets.  The program ends, hence no deadlock check.
CONSTANTS
  PIDs <- MCPIDs
  CCMod = 2
  MaxUnit = 2
  Packets <- TapePackets
  Shapes <- MCShapes
  MaxTape = 5
  MaxRewinds = 0
  Readers <- MCReaders
  ParserOutcomes <- MCParserOutcomes
SPECIFICATION SplitFairSpec
CONSTRAINT OneOdd
INVARIANTS
  FilesAreTheStreams
  
 
CHECK_DEADLOCK FALSE
