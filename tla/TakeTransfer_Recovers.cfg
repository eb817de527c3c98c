SPECIFICATION FairSpec
CONSTANTS
  Count = 1
  Size = 3
  Chunk = 2
  MaxFaults = 1
PROPERTIES
  Recovers
