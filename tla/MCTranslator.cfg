CONSTANTS
  PrintDecimal = 4203264
  ScanDecimal = 4198432
  Programs <- SmallPrograms
  BeyondTokens <- OnlyZeroes
  HeapBytes = {0}
  BufLen = 288
  JitBuf = 8388608
  DataMemory = 8392704
  MAX_N_LABELS = 2
  RunWithInt3 = TRUE
  MaxTokens = 3
  Targets = {0, 2, 4}
SPECIFICATION Spec
INVARIANTS
  TypeOK
  SizeBound
  LabelsOrdered
  JumpsResolved
  EndsInRet
PROPERTIES
  PatchesOnlyOperands
  SetUpReplaced
