SPECIFICATION Spec
CONSTANTS
  Guests = {g1}
  MaxTakes = 1
  MaxLate = 1
  MaxFaults = 2
  Faults = {"rpc", "write"}
INVARIANTS
  RecordedKept
