SPECIFICATION Spec
CONSTANTS
  Ids = {s1, s2, s3}
  Tokens = {k1, k2, k3, k4}
  Principals = {p1, p2}
  Endpoints = {}
  None = None
  Width = 1
  ControlSequences = {0}
  DatagramSequences = {}
  Sizes = {1, 2}
  Ttls = {1}
  MaxActive = 2
  Idle = 2
  TombstoneTtl = 2
  MaxSessions = 2
  MaxPerHost = 1
  MaxTombstones = 2
  MaxPerRecipient = 1
  MaxSessionBytes = 3
  MaxGlobalBytes = 3
  MaxTime = 3
SYMMETRY Symmetry
INVARIANTS
  TypeOK
  OneDoor
  Accounting
PROPERTIES
  NoEarlyReuse
CHECK_DEADLOCK FALSE
