SPECIFICATION Spec
CONSTANTS
  Apps = {a1, a2}
  Recordings = {r1, r2}
  Tracks = {t1, t2}
  NoRec = NoRec
  MaxEdits = 1
  MaxFaults = 2
  MaxCrashes = 1
SYMMETRY Symmetry
INVARIANTS
  TypeOK
  IInv
  MediaBacked
  OrphansJournaled
  PartialTakeJournaled
  ReportsHold
PROPERTIES
  NoLostUpdate
  AtomicTake
