SPECIFICATION RunnerSpec
CONSTANTS
  Print0 <- Shown
  Flow <- Analysis
  Programs <- ClosedPrograms
  MAX_DEPTH = 3
  N_TEMPS = 2
  MAX_LOCVAR = 18
  MAX_UPVAL = 5
  MAX_SLOTS = 21
  MAX_XLEVEL = 14
  MAX_JUMP = 26
  FUEL = 1000
  W = 1024
  Q = 4096
  Scales = {1, 2, 4, 8, 16, 32, 64, 128, 256, 512, 1024, 2048, 4096, 8192}
INVARIANTS
  RunTypeOK
  CodeVerified
  TailCallsReuseFrame
  AssertionsHold
  RegistersWritten
  OpenUpvaluesLive
  LoadedUnlessLimits
PROPERTIES
  ImplementsRinha
  ImmutableKept
