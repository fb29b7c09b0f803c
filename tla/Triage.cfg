SPECIFICATION Spec
CONSTANTS
  Clauses = {"from", "where"}
  Introduces = {"select"}
  Conjunctions = {"and"}
  Numbers = {"7", "1", "0"}
  Texts = {}
  Comments = {"--"}
  Statements <- MCStatements
  Blank <- MCBlank
  parses <- MCParses
  cuts <- CutsOf
  tidy <- Tidied
  Signatures <- MCSignatures
  fails <- MCFails
  leaves <- MCLeaves
  panics <- MCPanics
  Keeps = TRUE
  Files <- MCFiles
  Budgets = {3, 100}
INVARIANTS
  CaseReproduces
  MinimumOrSaysSo
  NoTokenToSpare
  EveryStatementCountedOnce
CHECK_DEADLOCK FALSE
