SPECIFICATION ThreadSpec
CONSTANTS
  Clients = {c1, c2}
  Cap = 8
  MaxProgress = 2
  MaxCancels = 1
INVARIANTS
  NothingMissed
  CancelStopsAtNextEntry
