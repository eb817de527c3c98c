SPECIFICATION Spec
CONSTANTS
  Ids = {s1}
  Tokens = {k1, k2, k3}
  Principals = {p1}
  Endpoints = {e1, e2}
  None = None
  Width = 2
  ControlSequences = {0, 1}
  DatagramSequences = {0, 1}
  Sizes = {1}
  Ttls = {1, 2}
  MaxActive = 3
  Idle = 2
  TombstoneTtl = 2
  MaxSessions = 2
  MaxPerHost = 1
  MaxTombstones = 1
  MaxPerRecipient = 1
  MaxSessionBytes = 1
  MaxGlobalBytes = 1
  MaxTime = 3
SYMMETRY Symmetry
PROPERTIES
  UsedInTime
CHECK_DEADLOCK FALSE
