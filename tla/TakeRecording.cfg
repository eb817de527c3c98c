SPECIFICATION Spec
CONSTANTS
  Guests = {g1}
  MaxTakes = 2
  MaxLate = 1
  MaxFaults = 1
  Faults = {"rpc", "write", "guest", "foreign"}
INVARIANTS
  TypeOK
  KeptWhileWritable
  AckedCaptures
  ValidatedOnce
  BusyOwned
  IInv
PROPERTIES
  HistoryAdvances
