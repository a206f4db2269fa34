SPECIFICATION RunnerSpec
CONSTANTS
  Print0 <- Shown
  Flow <- Analysis
  Programs <- SharedTemps
  MAX_DEPTH = 3
  N_TEMPS = 2
  MAX_LOCVAR = 200
  MAX_UPVAL = 60
  MAX_SLOTS = 250
  MAX_XLEVEL = 200
  MAX_JUMP = 32767
  FUEL = 1000
  W = 1024
  Q = 4096
  Scales = {1, 2, 4, 8, 16, 32, 64, 128, 256, 512, 1024, 2048, 4096, 8192}
INVARIANT
  AgreesWithMeta
