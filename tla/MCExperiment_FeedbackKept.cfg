SPECIFICATION Spec
CONSTANTS
  MaxJobs = 3
  Overlap = TRUE
INVARIANT
  FeedbackKept
CHECK_DEADLOCK FALSE
