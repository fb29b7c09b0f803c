SPECIFICATION SmallSpec
CONSTANTS
  Lines <- SmallLines
  Files <- SmallFiles
  Answers <- SmallAnswers
  Engines = {TRUE, FALSE}
  Labels = {"l"}
  MaxLines = 3
INVARIANTS
  TallyCountsRecords
  NothingVanishes
  OrderlyFileIsJudgedFairly
  LabelledQueriesAgree
  ModeSkipBrackets
  InternalErrorNeverPasses
CHECK_DEADLOCK FALSE
