\* Generated PIDs and one far from them; three streams do not fit in a PMT.
CONSTANTS
  PIDs = {0, 1, 7}
  ExplicitPIDs = {7}
  CCMod = 2
  VersionMod = 3
  Period = 2
  PMTRoom = 2
  MaxStreams = 3
  MaxPackets = 1
  MaxCounter = 3
  AutoPIDs = TRUE
  MaxGenerated = 3
CONSTRAINT BoundGenerated
SPECIFICATION MuxSpec
INVARIANTS
  MuxTypeOK
  TablesKeepComing
  PMTListsStreams
  
  StreamsHaveContexts
PROPERTY VersionTracksPMT
