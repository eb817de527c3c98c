SPECIFICATION FairSpec
CONSTANTS
  Guests = {g1}
  MaxTakes = 1
  MaxSessions = 1
  MaxFaults = 2
INVARIANTS
  TypeOK
  CompleteTold
  ShownTrue
  EndedQuiet
  TracksBacked
  IInv
PROPERTIES
  NothingDetached
  Arrives
  Concludes
CHECK_DEADLOCK FALSE
