\* 150 bytes of private data is what is left beside all parts of a field.
\* The longest optional header has 173 bytes: 65364 and the length of an
\* optional header may be 65535, one more and two more; 65536 is too long alone.
CONSTANTS
  PrivateSizes = {0, 1, 150}
  Stuffings = {0, 1, 6}
  Ext2Sizes = {0, 127}
  PayloadSizes = {65364, 65536}
  PSIDatas <- MCPSIDatas
  Times <- MCTimes
  Durations <- MCDurations
SPECIFICATION TripFairSpec
INVARIANTS
  PayloadFound
  PartsFound
  BitsFound
  TimesComputed
  OnTrack
 
CHECK_DEADLOCK FALSE
