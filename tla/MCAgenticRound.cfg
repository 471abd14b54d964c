SPECIFICATION FairSpec
CONSTANTS
  r1 = r1
  r2 = r2
  a1 = a1
  a2 = a2
  b1 = b1
  unknown = unknown
  Known <- MCKnown
  TaskModels <- MCTask
  Params <- MCParams
  ModelKeyed <- MCModelKeyed
  MaxValues = 5
  Artifacts = {good, bad, raising}
  Nothing = Nothing
  Rounds = {r1, r2}
  Answers <- MCAnswers
  Ranked <- MCRanked
  LogisticRegression = a2
  Valid = {good}
  Raising = {raising}
  Named = {r2}
  Torn = Torn
  Uploaders = {u1}
  Uploaded = {bad}
  Cleaned = Cleaned
  Elsewhere = {other}
  None = None
  MaxCrashes = 1
INVARIANTS
  TypeOK
  ValidatedDataOnly
  CancelledProposesNothing
  CapsAgree
  EveryValueTrainedOrNoted
  TrainedIsApproved
  DegradedIsDeterministic
PROPERTY
  RoundsEnd
CHECK_DEADLOCK FALSE
