SPECIFICATION Spec
CONSTANTS
  Programs <- MCTexts
  MAX_DEPTH = 4
INVARIANTS
  TypeOK
  PanicOnlyFromLastArgument
  ScratchAboveHeld
  ResultsKeptOutsideInfix
  EarlyReturnSkipsNothing
  SourceOrder
  NotLuaOnlyFromCauses
  GroupingKeptExactly
  ArityCheckedUnlessDeep
PROPERTIES
  ValueLeftOutsidePrint
  Termination
