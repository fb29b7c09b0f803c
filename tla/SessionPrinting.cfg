SPECIFICATION Spec
CONSTANTS
  Texts <- PrintingTexts
  opens <- PrintingOpens
  prints <- PrintingPrints
  leaves <- PrintingLeaves
  Torn = {}
  Garbled = {}
  Asked = {}
  MaxTurns = 3
  MaxHomes = 1
PROPERTY
  FallBackRebuilds
CHECK_DEADLOCK FALSE
