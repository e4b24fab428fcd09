\* DVB times only, the days of 2019.
CONSTANTS
  PrivateSizes = {}
  Stuffings = {}
  Ext2Sizes = {}
  PayloadSizes = {}
  PSIDatas = {}
  Times <- MCRecentTimes
  Durations = {}
SPECIFICATION TripSpec
INVARIANT DateComesBack
CHECK_DEADLOCK FALSE
