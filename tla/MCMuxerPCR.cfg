\* The PCR PID is changed after the PMT was made.
CONSTANTS
  PIDs = {1, 2}
  ExplicitPIDs = {1, 2}
  CCMod = 3
  VersionMod = 3
  Period = 3
  PMTRoom = 2
  MaxStreams = 3
  MaxPackets = 1
  MaxCounter = 4
  AutoPIDs = FALSE
  MaxGenerated = 3
CONSTRAINT BoundGenerated
SPECIFICATION MuxSpec
INVARIANT PMTNamesPCRPID
