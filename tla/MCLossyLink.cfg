CONSTANTS
  PIDs = {1}
  CCMod = 3
  MaxUnit = 8
  MaxSeq = 6
  Packets <- LinkPackets
SPECIFICATION LinkSpec
CHECK_DEADLOCK FALSE
INVARIANTS
  LinkTypeOK
  FlushedIsPrefix
  UndisturbedIsKept
PROPERTY ImplementsUnitDelivery
