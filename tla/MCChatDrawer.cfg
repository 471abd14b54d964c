SPECIFICATION Spec
CONSTANTS
  r1 = r1
  r2 = r2
  v1 = v1
  v2 = v2
  analyse = analyse
  propose = propose
  other = other
  Runs = {r1, r2}
  Values = {v1, v2}
  NoRun = NoRun
  NoClaim = NoClaim
  Metric <- MCMetric
  Sentences <- MCSentences
  MaxText = 2
  Tools = {analyse, propose, other}
  Registry <- MCRegistry
  Memoised = {analyse}
  MaxSteps = 2
  MaxRetries = 1
  MaxCalls = 2
INVARIANTS
  AnswersPassedCheck
  RequestBudget
  NothingOfADisallowedTurn
  EveryCallAnswered
  MemoStandsForSuccess
  ShownAnswerWasChecked
PROPERTY
  LoopEnds
CHECK_DEADLOCK FALSE
