SPECIFICATION Spec
CONSTANTS
  Machines = {"a", "b", "c"}
  Scripts = {"first", "second"}
  hosts <- ThreeHosts
  corpus <- FiveFiles
  Quiet = TRUE
  MaxCommit = 2
INVARIANTS
  MergedIsWhole
PROPERTY
  RefusedForAReason
CHECK_DEADLOCK FALSE
