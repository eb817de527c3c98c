SPECIFICATION Spec
CONSTANTS
  Apps = {a1}
  Recordings = {r1}
  Tracks = {t1, t2}
  NoRec = NoRec
  MaxEdits = 0
  MaxFaults = 2
  MaxCrashes = 2
INVARIANT
  ProtectedKept
