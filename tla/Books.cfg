SPECIFICATION AllSpec
CONSTANTS
  Chunks <- SomeChunks
  MaxChunks = 5
  Template <- OneTemplate
  NESTING = 1
  Rows <- Fixture
  Wrongs <- SomeWrongs
  MaxAsked = 1
  DEPTH = 1
  Literals = {1}
  Statements = {"ordered", "loose"}
  orders = {"ordered"}
  Outcomes <- SomeOutcomes
  Reports <- SomeReports
  Couples <- SomeCouples
  MaxCases = 2
  Places <- SomePlaces
  turns <- SomeTurns
  Costs <- Usages
  Repeats = 2
  ENOUGH = 2
  FLOOR = 10
  RUNS = 3
  Benches <- SomeBenches
  Prices <- Usages
  CAP = 10
  MaxBenches = 2
  Catalogs <- SomeCatalogs
  Edges <- SomeEdges
  VOLATILE = {"random"}
  Machines = {"m", "n"}
  Measured <- SomeBooks
  Fits = 3
  MaxSeconds = 2
  MaxWrites = 2
  MaxPages = 1
INVARIANTS
  ExpansionIsTheProgram
  OraclesBlameTheGuilty
  ToldTheSame
  CostsAreFair
  SpendsPair
  BenchmarksAreFair
  PassedIsEarned
  PageCarriesOneRun
CHECK_DEADLOCK FALSE
