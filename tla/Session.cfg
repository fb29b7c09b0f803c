SPECIFICATION Spec
CONSTANTS
  Texts <- PlainTexts
  opens <- PlainOpens
  prints <- PlainPrints
  leaves <- PlainLeaves
  Torn = {}
  Garbled = {"select"}
  Asked = {"select"}
  MaxTurns = 4
  MaxHomes = 2
INVARIANTS
  HistoryHoldsTheFile
  NothingLeftOnDisk
PROPERTY
  StaysUp
CHECK_DEADLOCK FALSE
