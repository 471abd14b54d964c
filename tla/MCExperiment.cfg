SPECIFICATION Spec
CONSTANTS
  MaxJobs = 3
  Overlap = TRUE
INVARIANTS
  SettledWhenQuiet
  RoundHasProposal
PROPERTY
  StagesEnd
CHECK_DEADLOCK FALSE
