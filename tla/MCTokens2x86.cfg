CONSTANTS
  PrintDecimal = 8192
  ScanDecimal = 12288
  Immediates <- SizesAndSigns
  PlainRegs = {0, 1, 3}
  HighRegs = {1}
  Machines <- SampleMachines
SPECIFICATION Spec
INVARIANTS
  FoldsKeepStackLogic
  TokensKeepStackLogic
  CodeIsWhole
  CallsLand
CHECK_DEADLOCK FALSE
