SPECIFICATION Spec
CONSTANTS
  Machines = {"a", "b"}
  Scripts = {"first", "second"}
  hosts <- TwoHosts
  corpus <- FiveFiles
  Quiet = FALSE
  MaxCommit = 2
INVARIANTS
  MergedIsWhole
CHECK_DEADLOCK FALSE
