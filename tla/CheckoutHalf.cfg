SPECIFICATION Spec
CONSTANTS
  Parts = {"sql", "csv", "bench"}
  Sql = "sql"
  carries <- CarriesAll
  MaxCommit = 3
INVARIANTS
  NoHalfCorpus
