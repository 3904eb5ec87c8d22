SPECIFICATION FairSpec
CONSTANTS
  CHUNKS = 3
  PAGE = 2
  CHUNK = 4
  BUFFER = 16
  WRAP = 64
  BASE = 4
  LOW = 1
  MaxFaults = 3
PROPERTIES
  UpdateAlwaysCompletes
CHECK_DEADLOCK FALSE
