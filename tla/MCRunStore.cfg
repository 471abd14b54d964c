SPECIFICATION Spec
CONSTANTS
  Runs = {r1}
  Readers = {c1, c2}
  Uploads = {u1, u2}
  Cleaning = {u2}
  OneHotMax = 3
  Tables <- MCTables
  Models <- MCModels
INVARIANTS
  ManifestIsCommit
  ReadersMissNothing
  AcceptedCanTrain
  CleanedIsTrainable
PROPERTY
  RunsLeaveEvidence
  CatalogSpec
CHECK_DEADLOCK FALSE
