SPECIFICATION Spec
CONSTANTS
  AllDevices = {"48", "128"}
  Setups <- MCSetups
  Foreign <- MCForeign
  MaxSaves = 2
INVARIANTS
  TypeOK
  LossIsFlagged
  WrittenIsReadable
  NothingInvented
  Stable
PROPERTY
  ReadingEnds
CHECK_DEADLOCK FALSE
