SPECIFICATION Spec
CONSTANTS
  Runs = {r1}
  Readers = {c1}
  Uploads = {u1, u2}
  Cleaning = {u2}
  OneHotMax = 3
  Tables <- MCTables
  Models <- MCModels
INVARIANT
  NamesItsData
CHECK_DEADLOCK FALSE
