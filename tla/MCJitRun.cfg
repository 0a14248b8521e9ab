CONSTANTS
  PrintDecimal = 4203264
  ScanDecimal = 4203296
  Programs <- RunPrograms
  BeyondTokens <- OnlyZeroes
  HeapBytes = {0}
  BufLen = 768
  JitBuf = 8388608
  DataMemory = 8392704
  MAX_N_LABELS = 9
  RunWithInt3 = FALSE
  Caller = 900004
  Unwritten = 0
  MaxWord = 40
  GuestValues <- Computed
SPECIFICATION RunSpec
INVARIANTS
  RunTypeOK
  FramesKept
PROPERTIES
  RunsLikeGuest
  StackDiscipline
  Returns
  Finishes
