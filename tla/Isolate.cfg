SPECIFICATION Spec
CONSTANTS
  N = 3
  Width = 2
  Deadline = 2
INVARIANTS
  HeldOrHeard
  NothingLeftBehind
  FinishedIsHeard
PROPERTIES
  KeepsPromise
  RunEnds
CHECK_DEADLOCK FALSE
