CONSTANTS
  PIDs = {1, 2}
  CCMod = 3
  MaxUnit = 4
  Packets <- MCPackets
SPECIFICATION PoolSpec
INVARIANT DuplicateThrownAway
