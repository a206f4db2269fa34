SPECIFICATION Spec
CONSTANTS
  W = 16
  Q = 32
  Scales = {1, 2, 4, 8, 16, 32, 64, 128, 256, 512, 1024, 2048}
  LARGEST = 40
INVARIANTS
  OnlySumsExceedWords
  TracesComputeSameRemainder
PROPERTY
  ImplementsWords
