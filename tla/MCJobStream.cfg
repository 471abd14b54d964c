SPECIFICATION Spec
CONSTANTS
  Clients = {c1, c2}
  Cap = 6
  MaxProgress = 1
  MaxCancels = 3
INVARIANTS
  CompleteHistory
PROPERTY
  StreamEnds
