SPECIFICATION Spec
CONSTANTS
  Width = 3
  MaxSequence = 8
INVARIANTS
  TypeOK
  Remembers
  Exact
