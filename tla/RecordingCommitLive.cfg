SPECIFICATION FairSpec
CONSTANTS
  Apps = {a1, a2}
  Recordings = {r1, r2}
  Tracks = {t1, t2}
  NoRec = NoRec
  MaxEdits = 0
  MaxFaults = 0
  MaxCrashes = 2
PROPERTIES
  JournalResolves
