SPECIFICATION Spec
CONSTANTS
  Passes <- TwoPasses
  Optimizers = {"p", "q"}
  Order <- TwoPasses
  Connections = {"k"}
  Corpora <- SmallCorpora
  Records = {1, 2}
  Reasons = {"error"}
  MaxFiles = 2
  Callers = {"c", "d"}
  MaxRuns = 3
  SummariesRun <- SomeSummaries
  Rows7 <- Seven
  MaxReads = 2
  Surface <- ThreeKinds
INVARIANTS
  BlameIsExact
  SettingPutBack
  NamedPassDidIt
  NothingRunsOnAnOldDatabase
  OraclesCountOnce
  AnswerIsItsOwn
  CleansUp
  WireKeepsTheRun
  SumIsOfTheRuns
CHECK_DEADLOCK FALSE
