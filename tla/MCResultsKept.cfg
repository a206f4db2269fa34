SPECIFICATION Spec
CONSTANTS
  Programs <- MCPrograms
  MAX_DEPTH = 2
INVARIANT
  ResultsKept
