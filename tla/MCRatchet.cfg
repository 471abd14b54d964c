SPECIFICATION FairSpec
CONSTANTS
  s1 = s1
  s2 = s2
  Sessions = {s1, s2}
  Scores = {1, 2}
  Task = "classification"
  Rounds = 2
  None = None
  Empty = Empty
  Torn = Torn
  MaxStarts = 3
  MaxCrashes = 1
INVARIANTS AbsorbedIsVerified LostOnlyToAnotherSession
PROPERTIES SessionsEnd
CHECK_DEADLOCK FALSE
