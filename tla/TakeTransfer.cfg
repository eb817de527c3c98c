SPECIFICATION FairSpec
CONSTANTS
  Count = 2
  Size = 5
  Chunk = 2
  MaxFaults = 3
INVARIANTS
  TypeOK
  PartsBegin
  AckedKept
  VerifiedPublished
  IInv
PROPERTIES
  DeliversOnce
  Settles
