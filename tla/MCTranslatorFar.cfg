CONSTANTS
  PrintDecimal = 4198400
  ScanDecimal = 4198432
  Programs <- FarConditional
  BeyondTokens <- OnlyZeroes
  HeapBytes = {0}
  BufLen = 2200
  JitBuf = 8388608
  DataMemory = 8392704
  MAX_N_LABELS = 50
  RunWithInt3 = FALSE
  MaxTokens = 3
  Targets = {0, 2, 4}
SPECIFICATION Spec
INVARIANTS
  EveryJumpResolved
